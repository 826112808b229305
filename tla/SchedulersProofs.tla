------------------------- MODULE SchedulersProofs -------------------------
(***************************************************************************)
(* Every scheduler implements PriorityQueue, for any delays and any number *)
(* of events.  A store of each kind Holds a set of events: an ordered list *)
(* or heap of them, or a calendar whose days are sorted and hold what      *)
(* hashes there, and whose search starts no later than the first event.    *)
(* The recursive definitions of the model are reasoned about with Follows, *)
(* Recursion and Along, which rest on the well-foundedness of the naturals.*)
(***************************************************************************)
EXTENDS Schedulers, FiniteSetTheorems, SequenceTheorems, WellFoundedInduction, TLAPS

---------------------------------------------------------------------------
(* Induction, and functions defined by recursion                           *)

\* Every set of naturals has a least one.
LEMMA LeastNat ==
    ASSUME NEW T, T \subseteq Nat, T # {}
    PROVE  \E x \in T : \A y \in T : x <= y
<1> DEFINE R == OpToRel(<, Nat)
<1>1. IsWellFoundedOn(R, Nat)
  BY NatLessThanWellFounded
<1>2. \A x, y \in Nat : y < x => <<y, x>> \in R
  BY DEF OpToRel
<1> HIDE DEF R
<1>3. \E x \in T : \A y \in T : ~ (<<y, x>> \in R)
  BY <1>1, WFMin
<1>4. PICK x \in T : \A y \in T : ~ (<<y, x>> \in R)
  BY <1>3
<1>5. \A y \in T : ~(y < x)
  BY <1>2, <1>4
<1>6. \A y \in T : x <= y
  BY <1>5
<1> QED
  BY <1>6

\* Induction over the naturals, on the set of those that have a property
LEMMA NatSet ==
    ASSUME NEW S, 0 \in S, \A n \in Nat : n \in S => n + 1 \in S
    PROVE  Nat \subseteq S
<1> SUFFICES ASSUME Nat \ S # {} PROVE FALSE
  OBVIOUS
<1>1. PICK x \in Nat \ S : \A y \in Nat \ S : x <= y
  BY LeastNat
<1>2. x # 0 /\ x - 1 \in Nat
  BY <1>1
<1>3. x - 1 \in S
  BY <1>1, <1>2
<1> QED
  BY <1>1, <1>2, <1>3

\* What holds of f[0] and passes from each value to the next holds of all.
LEMMA Along ==
    ASSUME NEW n \in Nat, NEW f, NEW T, f[0] \in T[0],
           \A i \in 1 .. n : f[i - 1] \in T[i - 1] => f[i] \in T[i]
    PROVE  \A i \in 0 .. n : f[i] \in T[i]
<1> DEFINE S == {i \in Nat : i <= n => f[i] \in T[i]}
<1>1. 0 \in S
  OBVIOUS
<1>2. ASSUME NEW i \in Nat, i \in S PROVE i + 1 \in S
  <2> SUFFICES ASSUME i + 1 <= n PROVE f[i + 1] \in T[i + 1]
    OBVIOUS
  <2>1. f[i] \in T[i] /\ i + 1 \in 1 .. n /\ (i + 1) - 1 = i
    BY <1>2
  <2> QED
    BY <2>1
<1> HIDE DEF S
<1>3. Nat \subseteq S
  BY <1>1, <1>2, NatSet
<1> QED
  BY <1>3 DEF S

\* f is base at 0, and step[n] takes its value at n - 1 to that at n.
Follows(f, n, base, step) ==
    f = [i \in 0 .. n |-> IF i = 0 THEN base ELSE step[i][f[i - 1]]]

\* There is such a function.
LEMMA FollowsExists ==
    ASSUME NEW n \in Nat, NEW base, NEW step
    PROVE  \E f : Follows(f, n, base, step)
<1> DEFINE S == {k \in Nat : \E f : Follows(f, k, base, step)}
<1>1. 0 \in S
  <2>1. Follows([i \in 0 .. 0 |-> base], 0, base, step)
    BY DEF Follows
  <2> QED
    BY <2>1
<1>2. ASSUME NEW k \in Nat, k \in S PROVE k + 1 \in S
  <2>1. PICK f : Follows(f, k, base, step)
    BY <1>2
  <2> DEFINE g == [i \in 0 .. k + 1 |-> IF i = k + 1 THEN step[k + 1][f[k]] ELSE f[i]]
  <2>2. \A i \in 0 .. k : f[i] = IF i = 0 THEN base ELSE step[i][f[i - 1]]
    BY <2>1 DEF Follows
  <2>3. \A i \in 0 .. k + 1 : g[i] = IF i = 0 THEN base ELSE step[i][g[i - 1]]
    <3> SUFFICES ASSUME NEW i \in 0 .. k + 1
                 PROVE  g[i] = IF i = 0 THEN base ELSE step[i][g[i - 1]]
      OBVIOUS
    <3>1. CASE i = k + 1
      BY <3>1
    <3>2. CASE i \in 0 .. k /\ i # 0
      <4>1. i - 1 \in 0 .. k + 1 /\ i - 1 # k + 1 /\ i # k + 1
        BY <3>2
      <4>2. g[i] = f[i] /\ g[i - 1] = f[i - 1]
        BY <4>1
      <4> QED
        BY <2>2, <3>2, <4>2
    <3>3. CASE i = 0
      <4>1. g[i] = f[i]
        BY <3>3
      <4> QED
        BY <2>2, <3>3, <4>1
    <3> QED
      BY <3>1, <3>2, <3>3
  <2>4. Follows(g, k + 1, base, step)
    BY <2>3 DEF Follows
  <2> QED
    BY <2>4
<1> HIDE DEF S
<1>3. n \in S
  BY <1>1, <1>2, NatSet
<1> QED
  BY <1>3 DEF S

\* And its values are in T[0], T[1], ... if each step leads from one to the next.
LEMMA Recursion ==
    ASSUME NEW n \in Nat, NEW base, NEW step, NEW T, base \in T[0],
           \A i \in 1 .. n : \A x \in T[i - 1] : step[i][x] \in T[i]
    PROVE  \E f : Follows(f, n, base, step) /\ \A i \in 0 .. n : f[i] \in T[i]
<1>1. PICK f : Follows(f, n, base, step)
  BY FollowsExists
<1>2. \A i \in 0 .. n : f[i] = IF i = 0 THEN base ELSE step[i][f[i - 1]]
  BY <1>1 DEF Follows
<1>3. f[0] \in T[0]
  BY <1>2
<1>4. \A i \in 1 .. n : f[i - 1] \in T[i - 1] => f[i] \in T[i]
  <2> SUFFICES ASSUME NEW i \in 1 .. n, f[i - 1] \in T[i - 1] PROVE f[i] \in T[i]
    OBVIOUS
  <2>1. f[i] = step[i][f[i - 1]]
    BY <1>2
  <2> QED
    BY <2>1
<1>5. \A i \in 0 .. n : f[i] \in T[i]
  BY <1>3, <1>4, Along
<1> QED
  BY <1>1, <1>5

\* Functions that start together and stay together end together.
LEMMA Together ==
    ASSUME NEW n \in Nat, NEW f, NEW g, f[0] = g[0],
           \A i \in 1 .. n : f[i - 1] = g[i - 1] => f[i] = g[i]
    PROVE  \A i \in 0 .. n : f[i] = g[i]
<1> DEFINE T == [i \in 0 .. n |-> {g[i]}]
<1>1. \A i \in 0 .. n : f[i] \in T[i] <=> f[i] = g[i]
  OBVIOUS
<1>2. \A i \in 1 .. n : i \in 0 .. n /\ i - 1 \in 0 .. n
  OBVIOUS
<1> HIDE DEF T
<1>3. f[0] \in T[0]
  BY <1>1
<1>4. \A i \in 1 .. n : f[i - 1] \in T[i - 1] => f[i] \in T[i]
  BY <1>1, <1>2
<1>5. \A i \in 0 .. n : f[i] \in T[i]
  BY <1>3, <1>4, Along
<1> QED
  BY <1>1, <1>5

---------------------------------------------------------------------------
(* The order of events                                                     *)

Events == [ts : Nat, uid : Nat]

\* Precedes is a strict total order of the events.
LEMMA Order3 ==
    ASSUME NEW e \in Events, NEW f \in Events, NEW g \in Events
    PROVE  /\ ~Precedes(e, e)
           /\ Precedes(e, f) => ~Precedes(f, e)
           /\ Precedes(e, f) /\ Precedes(f, g) => Precedes(e, g)
           /\ e # f => Precedes(e, f) \/ Precedes(f, e)
<1>1. e # f => e.ts # f.ts \/ e.uid # f.uid
  BY DEF Events
<1> QED
  BY <1>1 DEF Events, Precedes

IsLeast(e, S) == e \in S /\ \A f \in S \ {e} : Precedes(e, f)

LEMMA LeastExists ==
    ASSUME NEW S, S \subseteq Events, S # {}
    PROVE  \E e : IsLeast(e, S)
<1>1. {e.ts : e \in S} \subseteq Nat /\ {e.ts : e \in S} # {}
  BY DEF Events
<1>2. PICK t \in {e.ts : e \in S} : \A x \in {e.ts : e \in S} : t <= x
  BY <1>1, LeastNat
<1> DEFINE F == {e \in S : e.ts = t}
<1>3. {e.uid : e \in F} \subseteq Nat /\ {e.uid : e \in F} # {}
  BY DEF Events
<1>4. PICK u \in {e.uid : e \in F} : \A x \in {e.uid : e \in F} : u <= x
  BY <1>3, LeastNat
<1>5. PICK e \in F : e.uid = u
  BY <1>4
<1>6. ASSUME NEW f \in S \ {e} PROVE Precedes(e, f)
  <2>1. e.ts <= f.ts /\ (f.ts = e.ts => e.uid <= f.uid)
    BY <1>2, <1>4, <1>5
  <2>2. ~Precedes(f, e)
    BY <2>1 DEF Precedes, Events
  <2> QED
    BY <2>2, Order3
<1>7. IsLeast(e, S)
  BY <1>6 DEF IsLeast
<1> QED
  BY <1>7

LEMMA LeastIs ==
    ASSUME NEW S, S \subseteq Events, NEW e, IsLeast(e, S)
    PROVE  Least(S) = e
<1>1. \A f : IsLeast(f, S) => f = e
  BY Order3 DEF IsLeast
<1> QED
  BY <1>1 DEF Least, IsLeast

---------------------------------------------------------------------------
(* Sorted sequences of events                                              *)

LEMMA MinIs ==
    ASSUME NEW S, S \subseteq Nat, S # {}
    PROVE  Min(S) \in S /\ \A i \in S : Min(S) <= i
<1>1. \E x \in S : \A y \in S : x <= y
  BY LeastNat
<1> QED
  BY <1>1 DEF Min

\* s, sorted forwards or in reverse
Before(reverse, e, f) == IF reverse THEN Precedes(f, e) ELSE Precedes(e, f)
Sorted(reverse, s) == \A i, j \in DOMAIN s : i < j => Before(reverse, s[i], s[j])

LEMMA RangeIs ==
    ASSUME NEW S, NEW s \in Seq(S)
    PROVE  /\ Range(s) \subseteq S
           /\ \A e : e \in Range(s) <=> \E i \in 1 .. Len(s) : s[i] = e
           /\ DOMAIN s = 1 .. Len(s) /\ Len(s) \in Nat
  BY DEF Range

\* t is s without its item i, and with e as its item i.
Skips(t, s, i) ==
    /\ t \in Seq(Events) /\ Len(t) = Len(s) - 1
    /\ \A j \in 1 .. Len(s) - 1 : t[j] = IF j < i THEN s[j] ELSE s[j + 1]

Gains(t, s, i, e) ==
    /\ t \in Seq(Events) /\ Len(t) = Len(s) + 1
    /\ \A j \in 1 .. Len(s) + 1 :
          t[j] = IF j < i THEN s[j] ELSE IF j = i THEN e ELSE s[j - 1]

LEMMA InsertAtIs ==
    ASSUME NEW s \in Seq(Events), NEW i \in 1 .. Len(s) + 1, NEW e \in Events
    PROVE  Gains(InsertAt(s, i, e), s, i, e)
<1> DEFINE a == SubSeq(s, 1, i - 1)
           b == SubSeq(s, i, Len(s))
           n == Len(s)
<1>0. n \in Nat /\ i \in Int /\ i - 1 \in Int /\ 1 \in Int
  OBVIOUS
<1>1. /\ a \in Seq(Events) /\ Len(a) = i - 1
      /\ \A j \in 1 .. i - 1 : a[j] = s[j]
  <2>1. \A j \in 1 .. i - 1 : s[j] \in Events
    OBVIOUS
  <2>2. /\ a \in Seq(Events)
        /\ Len(a) = IF 1 <= i - 1 THEN (i - 1) - 1 + 1 ELSE 0
        /\ \A j \in 1 .. (i - 1) - 1 + 1 : a[j] = s[1 + j - 1]
    BY <1>0, <2>1, SubSeqProperties
  <2> QED
    BY <1>0, <2>2
<1>2. /\ b \in Seq(Events) /\ Len(b) = n - i + 1
      /\ \A j \in 1 .. n - i + 1 : b[j] = s[i + j - 1]
  <2>1. \A j \in i .. n : s[j] \in Events
    OBVIOUS
  <2>2. /\ b \in Seq(Events)
        /\ Len(b) = IF i <= n THEN n - i + 1 ELSE 0
        /\ \A j \in 1 .. n - i + 1 : b[j] = s[i + j - 1]
    BY <1>0, <2>1, SubSeqProperties
  <2> QED
    BY <1>0, <2>2
<1>3. <<e>> \in Seq(Events) /\ Len(<<e>>) = 1 /\ <<e>>[1] = e
  OBVIOUS
<1> HIDE DEF a, b
<1>4. /\ a \o <<e>> \in Seq(Events) /\ Len(a \o <<e>>) = i
      /\ \A j \in 1 .. i : (a \o <<e>>)[j] = IF j < i THEN s[j] ELSE e
  <2>1. /\ a \o <<e>> \in Seq(Events) /\ Len(a \o <<e>>) = Len(a) + Len(<<e>>)
        /\ \A j \in 1 .. Len(a) + Len(<<e>>) :
              (a \o <<e>>)[j] = IF j <= Len(a) THEN a[j] ELSE <<e>>[j - Len(a)]
    BY <1>1, <1>3, ConcatProperties
  <2> QED
    BY <1>0, <1>1, <1>3, <2>1
<1> DEFINE c == a \o <<e>>
<1> HIDE DEF c
<1>5. /\ c \o b \in Seq(Events) /\ Len(c \o b) = n + 1
      /\ \A j \in 1 .. n + 1 : (c \o b)[j] = IF j <= i THEN c[j] ELSE b[j - i]
  <2>0. c \in Seq(Events) /\ b \in Seq(Events)
    BY <1>2, <1>4 DEF c
  <2>1. /\ c \o b \in Seq(Events) /\ Len(c \o b) = Len(c) + Len(b)
        /\ \A j \in 1 .. Len(c) + Len(b) :
              (c \o b)[j] = IF j <= Len(c) THEN c[j] ELSE b[j - Len(c)]
    BY <2>0, ConcatProperties
  <2>2. Len(c) = i
    BY <1>4 DEF c
  <2> QED
    BY <1>0, <1>2, <2>1, <2>2
<1>6. \A j \in 1 .. n + 1 :
        (c \o b)[j] = IF j < i THEN s[j] ELSE IF j = i THEN e ELSE s[j - 1]
  <2> TAKE j \in 1 .. n + 1
  <2>1. CASE j <= i
    <3>1. c[j] = IF j < i THEN s[j] ELSE e
      BY <1>0, <1>4, <2>1 DEF c
    <3> QED
      BY <1>5, <2>1, <3>1
  <2>2. CASE j > i
    <3>1. j - i \in 1 .. n - i + 1 /\ i + (j - i) - 1 = j - 1
      BY <1>0, <2>2
    <3> QED
      BY <1>0, <1>2, <1>5, <2>2, <3>1
  <2>3. j <= i \/ j > i
    BY <1>0
  <2> QED
    BY <2>1, <2>2, <2>3
<1> QED
  BY <1>5, <1>6 DEF Gains, InsertAt, a, b, c

LEMMA RemoveAtIs ==
    ASSUME NEW s \in Seq(Events), NEW i \in 1 .. Len(s)
    PROVE  Skips(RemoveAt(s, i), s, i)
<1> DEFINE a == SubSeq(s, 1, i - 1)
           b == SubSeq(s, i + 1, Len(s))
           n == Len(s)
<1>0. n \in Nat /\ i \in Int /\ i - 1 \in Int /\ i + 1 \in Int /\ 1 \in Int
  OBVIOUS
<1>1. /\ a \in Seq(Events) /\ Len(a) = i - 1
      /\ \A j \in 1 .. i - 1 : a[j] = s[j]
  <2>1. \A j \in 1 .. i - 1 : s[j] \in Events
    OBVIOUS
  <2>2. /\ a \in Seq(Events)
        /\ Len(a) = IF 1 <= i - 1 THEN (i - 1) - 1 + 1 ELSE 0
        /\ \A j \in 1 .. (i - 1) - 1 + 1 : a[j] = s[1 + j - 1]
    BY <1>0, <2>1, SubSeqProperties
  <2> QED
    BY <1>0, <2>2
<1>2. /\ b \in Seq(Events) /\ Len(b) = n - i
      /\ \A j \in 1 .. n - i : b[j] = s[i + j]
  <2>1. \A j \in i + 1 .. n : s[j] \in Events
    OBVIOUS
  <2>2. /\ b \in Seq(Events)
        /\ Len(b) = IF i + 1 <= n THEN n - (i + 1) + 1 ELSE 0
        /\ \A j \in 1 .. n - (i + 1) + 1 : b[j] = s[(i + 1) + j - 1]
    BY <1>0, <2>1, SubSeqProperties
  <2> QED
    BY <1>0, <2>2
<1> HIDE DEF a, b
<1>3. /\ a \o b \in Seq(Events) /\ Len(a \o b) = n - 1
      /\ \A j \in 1 .. n - 1 : (a \o b)[j] = IF j < i THEN a[j] ELSE b[j - (i - 1)]
  <2>1. /\ a \o b \in Seq(Events) /\ Len(a \o b) = Len(a) + Len(b)
        /\ \A j \in 1 .. Len(a) + Len(b) :
              (a \o b)[j] = IF j <= Len(a) THEN a[j] ELSE b[j - Len(a)]
    BY <1>1, <1>2, ConcatProperties
  <2> QED
    BY <1>0, <1>1, <1>2, <2>1
<1>4. \A j \in 1 .. n - 1 : (a \o b)[j] = IF j < i THEN s[j] ELSE s[j + 1]
  <2> TAKE j \in 1 .. n - 1
  <2>1. CASE j < i
    BY <1>0, <1>1, <1>3, <2>1
  <2>2. CASE j >= i
    <3>1. j - (i - 1) \in 1 .. n - i /\ i + (j - (i - 1)) = j + 1
      BY <1>0, <2>2
    <3> QED
      BY <1>0, <1>2, <1>3, <2>2, <3>1
  <2>3. j < i \/ j >= i
    BY <1>0
  <2> QED
    BY <2>1, <2>2, <2>3
<1> QED
  BY <1>3, <1>4 DEF Skips, RemoveAt, a, b

LEMMA TailIs ==
    ASSUME NEW s \in Seq(Events), s # << >>
    PROVE  Skips(Tail(s), s, 1)
  BY HeadTailProperties DEF Skips

LEMMA FrontIs ==
    ASSUME NEW s \in Seq(Events), s # << >>
    PROVE  Skips(Front(s), s, Len(s))
<1> DEFINE n == Len(s)
           m == n - 1
           f == SubSeq(s, 1, m)
<1>0. n \in Nat /\ n # 0 /\ m \in Nat /\ m = n - 1 /\ s \in Seq(Events)
  BY EmptySeq
<1>1. \A j \in 1 .. m : s[j] \in Events
  OBVIOUS
<1> HIDE DEF n, m
<1>2. /\ f \in Seq(Events)
      /\ Len(f) = IF 1 <= m THEN m - 1 + 1 ELSE 0
      /\ \A j \in 1 .. m - 1 + 1 : f[j] = s[1 + j - 1]
  BY <1>0, <1>1, SubSeqProperties
<1>3. f = Front(s)
  BY DEF Front, m, n
<1> HIDE DEF f
<1>4. Len(f) = m /\ \A j \in 1 .. m : f[j] = s[j] /\ j < n
  BY <1>0, <1>2
<1>5. \A j \in 1 .. n - 1 : f[j] = IF j < n THEN s[j] ELSE s[j + 1]
  BY <1>0, <1>4
<1>6. Skips(f, s, n)
  BY <1>0, <1>2, <1>4, <1>5 DEF Skips, n
<1> QED
  BY <1>3, <1>6 DEF n

\* e belongs before item i of s.
Fits(reverse, s, e, i) ==
    /\ \A j \in 1 .. Len(s) : j < i => Before(reverse, s[j], e)
    /\ \A j \in i .. Len(s) : Before(reverse, e, s[j])

LEMMA SortedGains ==
    ASSUME NEW reverse \in BOOLEAN, NEW s \in Seq(Events), Sorted(reverse, s),
           NEW e \in Events, NEW i \in 1 .. Len(s) + 1, NEW t, Gains(t, s, i, e),
           Fits(reverse, s, e, i)
    PROVE  t \in Seq(Events) /\ Sorted(reverse, t) /\ Range(t) = Range(s) \cup {e}
<1> DEFINE n == Len(s)
<1>0. n \in Nat /\ DOMAIN s = 1 .. n /\ \A j \in 1 .. n : s[j] \in Events
  BY RangeIs
<1>1. i \in 1 .. n + 1
  OBVIOUS
<1>2. \A j \in i .. n : Before(reverse, e, s[j])
  BY DEF Fits
<1>3. \A j \in 1 .. n : j < i => Before(reverse, s[j], e)
  BY DEF Fits
<1>5. /\ t \in Seq(Events) /\ Len(t) = n + 1 /\ DOMAIN t = 1 .. n + 1
      /\ \A j \in 1 .. n + 1 :
            t[j] = IF j < i THEN s[j] ELSE IF j = i THEN e ELSE s[j - 1]
  BY DEF Gains
<1>6. Sorted(reverse, t)
  <2> SUFFICES ASSUME NEW j \in 1 .. n + 1, NEW k \in 1 .. n + 1, j < k
               PROVE  Before(reverse, t[j], t[k])
    BY <1>5 DEF Sorted
  <2>1. CASE j < i /\ k < i
    <3>1. t[j] = s[j] /\ t[k] = s[k] /\ j \in 1 .. n /\ k \in 1 .. n
      BY <1>0, <1>1, <1>5, <2>1
    <3> QED
      BY <1>0, <3>1 DEF Sorted
  <2>2. CASE j < i /\ k = i
    BY <1>0, <1>1, <1>3, <1>5, <2>2
  <2>3. CASE j < i /\ k > i
    <3>1. t[j] = s[j] /\ t[k] = s[k - 1] /\ j \in 1 .. n /\ k - 1 \in 1 .. n /\ j < k - 1
      BY <1>0, <1>1, <1>5, <2>3
    <3> QED
      BY <1>0, <3>1 DEF Sorted
  <2>4. CASE j = i
    <3>1. t[j] = e /\ t[k] = s[k - 1] /\ k - 1 \in i .. n
      BY <1>0, <1>1, <1>5, <2>4
    <3> QED
      BY <1>2, <3>1
  <2>5. CASE j > i
    <3>1. t[j] = s[j - 1] /\ t[k] = s[k - 1] /\ j - 1 \in 1 .. n /\ k - 1 \in 1 .. n
      BY <1>0, <1>1, <1>5, <2>5
    <3> QED
      BY <1>0, <3>1 DEF Sorted
  <2> QED
    BY <1>1, <2>1, <2>2, <2>3, <2>4, <2>5
<1>7. \A x : x \in Range(t) <=> x \in Range(s) \cup {e}
  <2>1. ASSUME NEW x, x \in Range(t) PROVE x \in Range(s) \cup {e}
    <3>1. PICK j \in 1 .. n + 1 : t[j] = x
      BY <1>5, <2>1, RangeIs
    <3>2. (x = s[j] /\ j \in 1 .. n) \/ x = e \/ (x = s[j - 1] /\ j - 1 \in 1 .. n)
      BY <1>0, <1>1, <1>5, <3>1
    <3> QED
      BY <1>0, <3>2, RangeIs
  <2>2. ASSUME NEW x, x \in Range(s) PROVE x \in Range(t)
    <3>1. PICK j \in 1 .. n : s[j] = x
      BY <1>0, <2>2, RangeIs
    <3>2. CASE j < i
      <4>1. t[j] = x /\ j \in 1 .. n + 1
        BY <1>0, <1>5, <3>1, <3>2
      <4> QED
        BY <1>5, <4>1, RangeIs
    <3>3. CASE j >= i
      <4>1. t[j + 1] = x /\ j + 1 \in 1 .. n + 1
        <5>1. j + 1 \in 1 .. n + 1 /\ ~(j + 1 < i) /\ j + 1 # i /\ (j + 1) - 1 = j
          BY <1>0, <1>1, <3>3
        <5> QED
          BY <1>5, <3>1, <5>1
      <4> QED
        BY <1>5, <4>1, RangeIs
    <3> QED
      BY <1>0, <1>1, <3>2, <3>3
  <2>3. e \in Range(t)
    BY <1>1, <1>5, RangeIs
  <2> QED
    BY <2>1, <2>2, <2>3
<1> QED
  BY <1>5, <1>6, <1>7

\* s with e before the first item that comes later
Inserted(reverse, s, e) ==
    LET later == {i \in DOMAIN s : Before(reverse, e, s[i])}
    IN  InsertAt(s, IF later = {} THEN Len(s) + 1 ELSE Min(later), e)

\* Inserting before the first later event keeps a sequence sorted.
LEMMA SortedInsert ==
    ASSUME NEW reverse \in BOOLEAN, NEW s \in Seq(Events), Sorted(reverse, s),
           NEW e \in Events, e \notin Range(s),
           NEW t, t = Inserted(reverse, s, e)
    PROVE  t \in Seq(Events) /\ Sorted(reverse, t) /\ Range(t) = Range(s) \cup {e}
<1> DEFINE n == Len(s)
           later == {i \in DOMAIN s : Before(reverse, e, s[i])}
<1>0. n \in Nat /\ DOMAIN s = 1 .. n /\ \A j \in 1 .. n : s[j] \in Events /\ s[j] # e
  BY RangeIs
<1>1. PICK i : i = IF later = {} THEN Len(s) + 1 ELSE Min(later)
  OBVIOUS
<1>2. /\ i \in 1 .. n + 1
      /\ \A j \in 1 .. n : j < i => j \notin later
      /\ i # n + 1 => i \in later
  <2>1. CASE later = {}
    BY <1>0, <1>1, <2>1
  <2>2. CASE later # {}
    <3>1. later \subseteq Nat /\ later \subseteq 1 .. n
      BY <1>0
    <3>2. i \in later /\ \A j \in later : i <= j
      BY <1>1, <2>2, <3>1, MinIs
    <3>3. ASSUME NEW j \in 1 .. n, j < i PROVE j \notin later
      BY <3>1, <3>2, <3>3
    <3> QED
      BY <1>0, <3>1, <3>2, <3>3
  <2> QED
    BY <2>1, <2>2
<1>3. \A j \in 1 .. n : j < i => Before(reverse, s[j], e)
  <2>1. \A j \in 1 .. n : j < i => ~Before(reverse, e, s[j])
    BY <1>0, <1>2
  <2> QED
    BY <1>0, <2>1, Order3 DEF Before
<1>4. ASSUME NEW j \in i .. n PROVE Before(reverse, e, s[j])
  <2>1. i \in 1 .. n /\ j \in 1 .. n /\ i \in later
    BY <1>0, <1>2
  <2>2. Before(reverse, e, s[i])
    BY <2>1
  <2>3. i = j \/ Before(reverse, s[i], s[j])
    BY <1>0, <2>1 DEF Sorted
  <2>4. s[i] \in Events /\ s[j] \in Events
    BY <1>0, <2>1
  <2> QED
    BY <2>2, <2>3, <2>4, Order3 DEF Before
<1>5. i \in 1 .. Len(s) + 1
  BY <1>2
<1>6. Gains(t, s, i, e)
  <2>1. t = InsertAt(s, i, e)
    BY <1>1 DEF Inserted
  <2> QED
    BY <1>5, <2>1, InsertAtIs
<1>7. Fits(reverse, s, e, i)
  BY <1>3, <1>4 DEF Fits
<1>8. Sorted(reverse, s) /\ reverse \in BOOLEAN /\ s \in Seq(Events) /\ e \in Events
  OBVIOUS
<1> HIDE DEF n
<1> QED
  BY ONLY <1>5, <1>6, <1>7, <1>8, SortedGains

LEMMA SortedSkips ==
    ASSUME NEW reverse \in BOOLEAN, NEW s \in Seq(Events), Sorted(reverse, s),
           NEW i \in 1 .. Len(s), NEW t, Skips(t, s, i)
    PROVE  t \in Seq(Events) /\ Sorted(reverse, t) /\ Range(t) = Range(s) \ {s[i]}
<1> DEFINE n == Len(s)
<1>0. n \in Nat /\ DOMAIN s = 1 .. n /\ \A j \in 1 .. n : s[j] \in Events
  BY RangeIs
<1>1. /\ t \in Seq(Events) /\ DOMAIN t = 1 .. n - 1 /\ Len(t) = n - 1
      /\ \A j \in 1 .. n - 1 : t[j] = IF j < i THEN s[j] ELSE s[j + 1]
  BY DEF Skips
<1>2. \A j, k \in 1 .. n : j < k => Before(reverse, s[j], s[k])
  BY <1>0 DEF Sorted
<1>3. \A j \in 1 .. n : s[j] = s[i] => j = i
  <2> SUFFICES ASSUME NEW j \in 1 .. n, s[j] = s[i], j # i PROVE FALSE
    OBVIOUS
  <2>1. Before(reverse, s[j], s[i]) \/ Before(reverse, s[i], s[j])
    BY <1>0, <1>2
  <2> QED
    BY <1>0, <2>1, Order3 DEF Before
<1>4. Sorted(reverse, t)
  <2> SUFFICES ASSUME NEW j \in 1 .. n - 1, NEW k \in 1 .. n - 1, j < k
               PROVE  Before(reverse, t[j], t[k])
    BY <1>1 DEF Sorted
  <2>1. CASE k < i
    BY <1>0, <1>1, <1>2, <2>1
  <2>2. CASE j < i /\ k >= i
    <3>1. t[j] = s[j] /\ t[k] = s[k + 1] /\ j \in 1 .. n /\ k + 1 \in 1 .. n /\ j < k + 1
      BY <1>0, <1>1, <2>2
    <3> QED
      BY <1>2, <3>1
  <2>3. CASE j >= i
    <3>1. t[j] = s[j + 1] /\ t[k] = s[k + 1] /\ j + 1 \in 1 .. n /\ k + 1 \in 1 .. n
      BY <1>0, <1>1, <2>3
    <3> QED
      BY <1>2, <3>1
  <2> QED
    BY <1>0, <2>1, <2>2, <2>3
<1>5. \A x : x \in Range(t) <=> x \in Range(s) \ {s[i]}
  <2>1. ASSUME NEW x, x \in Range(t) PROVE x \in Range(s) \ {s[i]}
    <3>1. PICK j \in 1 .. n - 1 : t[j] = x
      BY <1>1, <2>1, RangeIs
    <3>2. \E k \in 1 .. n : k # i /\ s[k] = x
      <4>1. CASE j < i
        <5>1. j \in 1 .. n /\ j # i /\ s[j] = x
          BY <1>0, <1>1, <3>1, <4>1
        <5> QED
          BY <5>1
      <4>2. CASE j >= i
        <5>1. j + 1 \in 1 .. n /\ j + 1 # i /\ s[j + 1] = x
          BY <1>0, <1>1, <3>1, <4>2
        <5> QED
          BY <5>1
      <4> QED
        BY <1>0, <4>1, <4>2
    <3> QED
      BY <1>0, <1>3, <3>2, RangeIs
  <2>2. ASSUME NEW x, x \in Range(s), x # s[i] PROVE x \in Range(t)
    <3>1. PICK j \in 1 .. n : s[j] = x
      BY <1>0, <2>2, RangeIs
    <3>2. CASE j < i
      <4>1. t[j] = x /\ j \in 1 .. n - 1
        BY <1>0, <1>1, <3>1, <3>2
      <4> QED
        BY <1>1, <4>1, RangeIs
    <3>3. CASE j > i
      <4>1. j - 1 \in 1 .. n - 1 /\ ~(j - 1 < i) /\ (j - 1) + 1 = j
        BY <1>0, <3>3
      <4>2. t[j - 1] = x
        BY <1>1, <3>1, <4>1
      <4> QED
        BY <1>1, <4>1, <4>2, RangeIs
    <3> QED
      BY <1>0, <2>2, <3>1, <3>2, <3>3
  <2> QED
    BY <2>1, <2>2
<1> QED
  BY <1>1, <1>4, <1>5

\* The event that comes out first: the first, or in reverse the last
First(reverse, s) == IF reverse THEN Last(s) ELSE Head(s)
Others(reverse, s) == IF reverse THEN Front(s) ELSE Tail(s)

\* A sorted sequence gives out the least of its events first.
LEMMA SortedEnds ==
    ASSUME NEW reverse \in BOOLEAN, NEW s \in Seq(Events), Sorted(reverse, s), s # << >>,
           NEW e, e = First(reverse, s), NEW t, t = Others(reverse, s)
    PROVE  /\ IsLeast(e, Range(s))
           /\ t \in Seq(Events) /\ Sorted(reverse, t) /\ Range(t) = Range(s) \ {e}
<1> DEFINE n == Len(s)
           i == IF reverse THEN n ELSE 1
<1>0. n \in Nat /\ n # 0 /\ DOMAIN s = 1 .. n /\ i \in 1 .. n
  BY EmptySeq, RangeIs
<1>1. e = s[i]
  BY <1>0 DEF Last, First
<1>2. Skips(t, s, i)
  BY TailIs, FrontIs DEF Others
<1>3. t \in Seq(Events) /\ Sorted(reverse, t) /\ Range(t) = Range(s) \ {s[i]}
  BY <1>0, <1>2, SortedSkips
<1>4. e \in Range(s)
  BY <1>0, <1>1, RangeIs
<1>5. ASSUME NEW f \in Range(s) \ {e} PROVE Precedes(e, f)
  <2>1. PICK j \in 1 .. n : s[j] = f
    BY <1>0, RangeIs
  <2>2. j # i
    BY <1>1, <2>1
  <2>3. CASE reverse
    <3>1. i = n
      BY <2>3
    <3>2. e = s[n] /\ j # n
      BY <1>1, <2>2, <3>1
    <3>3. j < n
      <4>1. n \in Nat
        OBVIOUS
      <4> HIDE DEF n, i
      <4> QED
        BY <3>2, <4>1
    <3> QED
      BY <1>0, <2>1, <2>3, <3>2, <3>3 DEF Sorted, Before
  <2>4. CASE ~reverse
    <3>1. 1 < j /\ e = s[1]
      BY <1>0, <1>1, <2>2, <2>4
    <3> QED
      BY <1>0, <2>1, <2>4, <3>1 DEF Sorted, Before
  <2> QED
    BY <2>3, <2>4
<1> QED
  BY <1>1, <1>3, <1>4, <1>5 DEF IsLeast

---------------------------------------------------------------------------
(* The heap                                                                *)

Distinct(h) == \A i, j \in 1 .. Len(h) : h[i] = h[j] => i = j
HeapOrdered(h) == \A i \in 2 .. Len(h) : Precedes(h[Parent(i)], h[i])

\* k is h with two items exchanged.
Exchanged(k, h, i, j) ==
    /\ k \in Seq(Events) /\ Len(k) = Len(h)
    /\ k[i] = h[j] /\ k[j] = h[i]
    /\ \A n \in 1 .. Len(h) \ {i, j} : k[n] = h[n]

LEMMA ExchIs ==
    ASSUME NEW h \in Seq(Events), NEW i \in 1 .. Len(h), NEW j \in 1 .. Len(h)
    PROVE  Exchanged(Exch(h, i, j), h, i, j)
<1>1. h[i] \in Events /\ h[j] \in Events
  OBVIOUS
<1> DEFINE g == [h EXCEPT ![i] = h[j]]
           k == [g EXCEPT ![j] = h[i]]
<1>2. /\ g \in Seq(Events) /\ Len(g) = Len(h)
      /\ \A n \in 1 .. Len(h) : g[n] = IF n = i THEN h[j] ELSE h[n]
  BY <1>1, ExceptSeq
<1> HIDE DEF g
<1>3. j \in 1 .. Len(g)
  BY <1>2
<1>4. /\ k \in Seq(Events) /\ Len(k) = Len(g)
      /\ \A n \in 1 .. Len(g) : k[n] = IF n = j THEN h[i] ELSE g[n]
  BY <1>1, <1>2, <1>3, ExceptSeq
<1>5. Exch(h, i, j) = k
  BY DEF Exch, g
<1> HIDE DEF k
<1>6. Exchanged(k, h, i, j)
  BY <1>2, <1>4 DEF Exchanged
<1> QED
  BY <1>5, <1>6

LEMMA ExchangedItems ==
    ASSUME NEW h \in Seq(Events), NEW i \in 1 .. Len(h), NEW j \in 1 .. Len(h),
           NEW k, Exchanged(k, h, i, j), Distinct(h)
    PROVE  Distinct(k) /\ Range(k) = Range(h)
<1>1. /\ k \in Seq(Events) /\ Len(k) = Len(h)
      /\ k[i] = h[j] /\ k[j] = h[i]
      /\ \A n \in 1 .. Len(h) \ {i, j} : k[n] = h[n]
  BY DEF Exchanged
<1>2. Distinct(k)
  BY <1>1 DEF Distinct
<1>3. \A e : e \in Range(k) <=> \E n \in 1 .. Len(h) : k[n] = e
  BY <1>1, RangeIs
<1>4. \A e : e \in Range(h) <=> \E n \in 1 .. Len(h) : h[n] = e
  BY RangeIs
<1>5. ASSUME NEW e, e \in Range(k) PROVE e \in Range(h)
  BY <1>1, <1>3, <1>4, <1>5
<1>6. ASSUME NEW e, e \in Range(h) PROVE e \in Range(k)
  <2>1. PICK n \in 1 .. Len(h) : h[n] = e
    BY <1>4, <1>6
  <2>2. k[n] = e \/ k[i] = e \/ k[j] = e
    BY <1>1, <2>1
  <2> QED
    BY <1>3, <2>1, <2>2
<1> QED
  BY <1>2, <1>5, <1>6

\* All is in order but item a and its parent, and but item a and its children;
\* these are in order with the parent of a.
Up(h, a) ==
    /\ \A i \in 2 .. Len(h) : i # a => Precedes(h[Parent(i)], h[i])
    /\ a # 1 => \A i \in 2 .. Len(h) : Parent(i) = a => Precedes(h[Parent(a)], h[i])
Down(h, a) ==
    /\ \A i \in 2 .. Len(h) : Parent(i) # a => Precedes(h[Parent(i)], h[i])
    /\ a # 1 => \A i \in 2 .. Len(h) : Parent(i) = a => Precedes(h[Parent(a)], h[i])

LEMMA ParentIs ==
    ASSUME NEW i \in Nat, i >= 2
    PROVE  /\ Parent(i) \in 1 .. i - 1
           /\ i = 2 * Parent(i) \/ i = 2 * Parent(i) + 1
  BY DEF Parent

LEMMA RaisedOrder ==
    ASSUME NEW h \in Seq(Events), NEW a \in 2 .. Len(h), NEW p, p = Parent(a),
           NEW k, Exchanged(k, h, a, p), Precedes(h[a], h[p]), Up(h, a)
    PROVE  Up(k, p)
<1> DEFINE n == Len(h)
<1>0. n \in Nat /\ a \in Nat /\ a >= 2 /\ p \in 1 .. a - 1 /\ p \in Nat /\ p # a
  BY ParentIs
<1>1. \A i \in 1 .. n : h[i] \in Events
  OBVIOUS
<1>2. /\ Len(k) = n /\ k[a] = h[p] /\ k[p] = h[a]
      /\ \A i \in 1 .. n : i # a /\ i # p => k[i] = h[i]
  BY DEF Exchanged
<1>3. \A i \in 2 .. n : i # a => Precedes(h[Parent(i)], h[i])
  BY DEF Up
<1>4. \A i \in 2 .. n : Parent(i) = a => Precedes(h[p], h[i])
  BY <1>0 DEF Up
<1>5. \A i \in 2 .. n : i \in 1 .. n /\ Parent(i) \in 1 .. n /\ Parent(i) # i
  BY ParentIs
<1> HIDE DEF n
<1>6. ASSUME NEW i \in 2 .. n, i # p PROVE Precedes(k[Parent(i)], k[i])
  <2>1. CASE i = a
    BY <1>2, <2>1
  <2>2. CASE i # a /\ Parent(i) = a
    BY <1>2, <1>4, <1>5, <1>6, <2>2
  <2>3. CASE i # a /\ Parent(i) = p
    <3>1. Precedes(h[p], h[i]) /\ k[i] = h[i] /\ k[p] = h[a]
      BY <1>2, <1>3, <1>5, <1>6, <2>3
    <3>2. h[p] \in Events /\ h[i] \in Events /\ h[a] \in Events
      BY <1>0, <1>1, <1>5 DEF n
    <3> QED
      BY <2>3, <3>1, <3>2, Order3
  <2>4. CASE i # a /\ Parent(i) # a /\ Parent(i) # p
    BY <1>2, <1>3, <1>5, <1>6, <2>4
  <2> QED
    BY <2>1, <2>2, <2>3, <2>4
<1>7. ASSUME p # 1, NEW i \in 2 .. n, Parent(i) = p PROVE Precedes(k[Parent(p)], k[i])
  <2>1. p \in 2 .. n
    BY <1>0, <1>7 DEF n
  <2>2. Parent(p) \in 1 .. n /\ Parent(p) # p /\ Parent(p) # a
    <3>1. p >= 2 /\ p <= n /\ a <= n
      BY <1>0, <2>1 DEF n
    <3>2. Parent(p) \in 1 .. p - 1
      BY <1>0, <3>1, ParentIs
    <3> QED
      BY <1>0, <3>1, <3>2
  <2>3. k[Parent(p)] = h[Parent(p)] /\ Precedes(h[Parent(p)], h[p])
    BY <1>0, <1>2, <1>3, <2>1, <2>2
  <2>4. CASE i = a
    BY <1>2, <2>3, <2>4
  <2>5. CASE i # a
    <3>1. k[i] = h[i] /\ Precedes(h[p], h[i])
      BY <1>2, <1>3, <1>5, <1>7, <2>5
    <3>2. h[p] \in Events /\ h[i] \in Events /\ h[Parent(p)] \in Events
      BY <1>0, <1>1, <1>5, <2>1, <2>2 DEF n
    <3> QED
      BY <2>3, <3>1, <3>2, Order3
  <2> QED
    BY <2>4, <2>5
<1> QED
  BY <1>2, <1>6, <1>7 DEF Up

LEMMA SunkOrder ==
    ASSUME NEW h \in Seq(Events), NEW a \in 1 .. Len(h), NEW c \in 2 .. Len(h),
           Parent(c) = a, Precedes(h[c], h[a]),
           \A i \in 2 .. Len(h) : Parent(i) = a /\ i # c => Precedes(h[c], h[i]),
           NEW k, Exchanged(k, h, a, c), Down(h, a)
    PROVE  Down(k, c)
<1> DEFINE n == Len(h)
<1>0. n \in Nat /\ a \in Nat /\ c \in Nat /\ c >= 2 /\ a # c /\ a < c
  BY ParentIs
<1>2. /\ Len(k) = n /\ k[a] = h[c] /\ k[c] = h[a]
      /\ \A i \in 1 .. n : i # a /\ i # c => k[i] = h[i]
  BY DEF Exchanged
<1>3. \A i \in 2 .. n : Parent(i) # a => Precedes(h[Parent(i)], h[i])
  BY DEF Down
<1>4. a # 1 => Precedes(h[Parent(a)], h[c])
  BY DEF Down
<1>5. \A i \in 2 .. n : i \in 1 .. n /\ Parent(i) \in 1 .. n /\ Parent(i) # i
  BY ParentIs
<1>6. \A i \in 2 .. n : Parent(i) = a /\ i # c => Precedes(h[c], h[i])
  OBVIOUS
<1> HIDE DEF n
<1>7. ASSUME NEW i \in 2 .. n, Parent(i) # c PROVE Precedes(k[Parent(i)], k[i])
  <2>1. CASE i = c
    BY <1>2, <2>1
  <2>2. CASE i # c /\ Parent(i) = a
    <3>1. i # a
      BY <1>5, <2>2
    <3> QED
      BY <1>2, <1>5, <1>6, <2>2, <3>1
  <2>3. CASE i = a /\ i # c
    <3>1. a # 1 /\ Parent(a) \in 1 .. n /\ Parent(a) # a
      BY <1>5, <2>3
    <3> QED
      BY <1>2, <1>4, <1>7, <2>3, <3>1
  <2>4. CASE i # c /\ i # a /\ Parent(i) # a
    BY <1>2, <1>3, <1>5, <1>7, <2>4
  <2> QED
    BY <2>1, <2>2, <2>3, <2>4
<1>8. ASSUME NEW i \in 2 .. n, Parent(i) = c PROVE Precedes(k[Parent(c)], k[i])
  <2>1. i # c /\ i # a
    <3>1. c < i
      BY <1>8, ParentIs DEF n
    <3> QED
      BY <1>0, <3>1
  <2> QED
    BY <1>0, <1>2, <1>3, <1>5, <1>8, <2>1
<1> QED
  BY <1>2, <1>7, <1>8 DEF Down

\* A heap that holds the events of C, and item a on its way
HeapOf(h, C) == h \in Seq(Events) /\ Distinct(h) /\ Range(h) = C
Moving(m, C, n) == HeapOf(m.heap, C) /\ Len(m.heap) = n /\ m.at \in 1 .. n

LEMMA RaisedStep ==
    ASSUME NEW m, NEW C, NEW n, Moving(m, C, n), Up(m.heap, m.at), Rises(m)
    PROVE  /\ Moving(Raised(m), C, n) /\ Up(Raised(m).heap, Raised(m).at)
           /\ Raised(m).at <= m.at - 1
<1> DEFINE h == m.heap
           a == m.at
           p == Parent(a)
           k == Exch(h, a, p)
<1>1. /\ h \in Seq(Events) /\ Distinct(h) /\ Range(h) = C /\ Len(h) = n
      /\ a \in 1 .. n /\ Up(h, a) /\ a # 1 /\ Precedes(h[a], h[p])
  BY DEF Moving, HeapOf, Rises, IsLessStrictly
<1>2. Raised(m).heap = k /\ Raised(m).at = p
  BY DEF Raised
<1> HIDE DEF h, a
<1>3. a \in 2 .. Len(h) /\ a \in 1 .. Len(h) /\ a \in Nat /\ a >= 2
  BY <1>1
<1>4. p \in 1 .. a - 1 /\ p \in 1 .. Len(h)
  BY <1>1, <1>3, ParentIs
<1>5. Exchanged(k, h, a, p)
  BY <1>1, <1>3, <1>4, ExchIs
<1>6. p = Parent(a)
  OBVIOUS
<1> HIDE DEF p, k
<1>7. Up(k, p)
  BY <1>1, <1>3, <1>5, <1>6, RaisedOrder
<1>8. Distinct(k) /\ Range(k) = Range(h)
  BY <1>1, <1>3, <1>4, <1>5, ExchangedItems
<1>9. k \in Seq(Events) /\ Len(k) = n /\ p \in 1 .. n /\ p <= a - 1
  BY <1>1, <1>4, <1>5 DEF Exchanged
<1> QED
  BY <1>1, <1>2, <1>7, <1>8, <1>9 DEF Moving, HeapOf, a

LEMMA SunkStep ==
    ASSUME NEW m, NEW C, NEW n, Moving(m, C, n), Down(m.heap, m.at), Sinks(m)
    PROVE  /\ Moving(Sunk(m), C, n) /\ Down(Sunk(m).heap, Sunk(m).at)
           /\ Sunk(m).at >= m.at + 1
<1> DEFINE h == m.heap
           a == m.at
           c == LesserChild(m)
           k == Exch(h, a, c)
<1>1. /\ h \in Seq(Events) /\ Distinct(h) /\ Range(h) = C /\ Len(h) = n
      /\ a \in 1 .. n /\ Down(h, a) /\ n \in Nat
  BY DEF Moving, HeapOf
<1>2. Sunk(m).heap = k /\ Sunk(m).at = c
  BY DEF Sunk
<1>3. /\ 2 * a <= n /\ ~Precedes(h[a], h[c])
      /\ c = IF 2 * a + 1 <= n
             THEN IF Precedes(h[2 * a], h[2 * a + 1]) THEN 2 * a ELSE 2 * a + 1
             ELSE 2 * a
  BY <1>1 DEF Sinks, IsLessStrictly, LesserChild, LeftChild, RightChild, Smallest
<1> HIDE DEF h, a, c
<1>4. c \in 2 .. Len(h) /\ c \in 1 .. Len(h) /\ (c = 2 * a \/ c = 2 * a + 1)
  BY <1>1, <1>3
<1>5. Parent(c) = a /\ c >= a + 1 /\ a # c
  BY <1>1, <1>4 DEF Parent
<1>6. h[a] \in Events /\ h[c] \in Events /\ h[a] # h[c]
  BY <1>1, <1>4, <1>5 DEF Distinct
<1>7. Precedes(h[c], h[a])
  BY <1>3, <1>6, Order3
<1>8. ASSUME NEW i \in 2 .. Len(h), Parent(i) = a, i # c
      PROVE  Precedes(h[c], h[i])
  <2>1. i = 2 * a \/ i = 2 * a + 1
    <3>1. i \in Nat /\ i >= 2
      BY <1>1
    <3> QED
      BY <1>8, <3>1, ParentIs
  <2>2. 2 * a + 1 <= n
    BY <1>1, <1>3, <1>8, <2>1
  <2>3. Precedes(h[c], h[i]) \/ ~Precedes(h[i], h[c])
    BY <1>3, <1>4, <1>8, <2>1, <2>2
  <2>4. h[i] \in Events /\ h[i] # h[c]
    BY <1>1, <1>4, <1>8 DEF Distinct
  <2> QED
    BY <1>6, <2>3, <2>4, Order3
<1>9. Exchanged(k, h, a, c)
  BY <1>1, <1>4, ExchIs
<1> HIDE DEF k
<1>10. a \in 1 .. Len(h)
  BY <1>1
<1>11. Down(k, c)
  BY <1>1, <1>4, <1>5, <1>7, <1>8, <1>9, <1>10, SunkOrder
<1>12. Distinct(k) /\ Range(k) = Range(h)
  BY <1>1, <1>4, <1>9, <1>10, ExchangedItems
<1>13. k \in Seq(Events) /\ Len(k) = n /\ c \in 1 .. n
  BY <1>1, <1>4, <1>9 DEF Exchanged
<1> QED
  BY <1>1, <1>2, <1>5, <1>11, <1>12, <1>13 DEF Moving, HeapOf, a

Items == [heap : Seq(Events), at : Nat]

\* climb is how the item at index i of h rises, and fall how it sinks.
IsClimb(climb, h, i) ==
    climb = [n \in 0 .. i |->
                IF n = 0 THEN [heap |-> h, at |-> i]
                ELSE IF Rises(climb[n - 1]) THEN Raised(climb[n - 1]) ELSE climb[n - 1]]

IsFall(fall, h, i) ==
    fall = [n \in 0 .. Len(h) |->
                IF n = 0 THEN [heap |-> h, at |-> i]
                ELSE IF Sinks(fall[n - 1]) THEN Sunk(fall[n - 1]) ELSE fall[n - 1]]

\* An item that rises until its parent precedes it restores the order.
LEMMA BottomUpIs ==
    ASSUME NEW h, NEW C, NEW i \in Nat, Moving([heap |-> h, at |-> i], C, i), Up(h, i)
    PROVE  /\ HeapOf(BottomUp(h, i), C) /\ HeapOrdered(BottomUp(h, i))
           /\ Len(BottomUp(h, i)) = i
<1> DEFINE base == [heap |-> h, at |-> i]
           T == [j \in 0 .. i |-> 
                    {m \in Items : Moving(m, C, i) /\ Up(m.heap, m.at) /\ (Rises(m) => m.at <= i - j)}]
           Next1(m) == IF Rises(m) THEN Raised(m) ELSE m
           step == [j \in 1 .. i |-> [m \in T[j - 1] |-> Next1(m)]]
<1>1. base \in T[0]
  <2>1. h \in Seq(Events) /\ base \in Items /\ base.heap = h /\ base.at = i
    BY DEF Moving, HeapOf, Items
  <2>2. i <= i - 0
    OBVIOUS
  <2> HIDE DEF base
  <2> QED
    BY <2>1, <2>2 DEF base
<1>2. ASSUME NEW j \in 1 .. i, NEW m \in T[j - 1] PROVE Next1(m) \in T[j]
  <2>1. j - 1 \in 0 .. i /\ j \in 0 .. i
    OBVIOUS
  <2>2. m \in Items /\ Moving(m, C, i) /\ Up(m.heap, m.at) /\ (Rises(m) => m.at <= i - (j - 1))
    BY <2>1
  <2>3. CASE Rises(m)
    <3>1. /\ Moving(Raised(m), C, i) /\ Up(Raised(m).heap, Raised(m).at)
          /\ Raised(m).at <= m.at - 1
      BY <2>2, <2>3, RaisedStep
    <3>2. Raised(m).at \in 1 .. i /\ Raised(m).heap \in Seq(Events) /\ m.at \in 1 .. i
      BY <2>2, <3>1 DEF Moving, HeapOf
    <3>3. Raised(m).at <= i - j
      BY <2>2, <2>3, <3>1, <3>2
    <3>4. Raised(m) \in Items
      BY <3>2 DEF Raised, Items
    <3> QED
      BY <2>1, <2>3, <3>1, <3>3, <3>4
  <2>4. CASE ~Rises(m)
    BY <2>1, <2>2, <2>4
  <2> QED
    BY <2>3, <2>4
<1>3. ASSUME NEW j \in 1 .. i, NEW m \in T[j - 1] PROVE step[j][m] = Next1(m)
  OBVIOUS
<1>4. \A m \in T[i] : Moving(m, C, i) /\ Up(m.heap, m.at) /\ (Rises(m) => m.at <= 0)
  OBVIOUS
<1>5. \A m : Next1(m) = IF Rises(m) THEN Raised(m) ELSE m
  OBVIOUS
<1> HIDE DEF T, step, Next1, base
<1>6. \A j \in 1 .. i : \A m \in T[j - 1] : step[j][m] \in T[j]
  BY <1>2, <1>3
<1>7. PICK f : Follows(f, i, base, step) /\ \A j \in 0 .. i : f[j] \in T[j]
  BY <1>1, <1>6, Recursion
<1>8. \A j \in 0 .. i : f[j] = IF j = 0 THEN base ELSE step[j][f[j - 1]]
  BY <1>7 DEF Follows
<1>9. \A j \in 0 .. i : j # 0 => step[j][f[j - 1]] = Next1(f[j - 1])
  <2> SUFFICES ASSUME NEW j \in 0 .. i, j # 0 PROVE step[j][f[j - 1]] = Next1(f[j - 1])
    OBVIOUS
  <2>1. j \in 1 .. i /\ j - 1 \in 0 .. i
    OBVIOUS
  <2>2. f[j - 1] \in T[j - 1]
    BY <1>7, <2>1
  <2> QED
    BY <1>3, <2>1, <2>2
<1>10. IsClimb(f, h, i)
  <2>1. f = [j \in 0 .. i |-> f[j]]
    BY <1>7 DEF Follows
  <2>2. \A j \in 0 .. i : f[j] = IF j = 0 THEN base
                                ELSE IF Rises(f[j - 1]) THEN Raised(f[j - 1]) ELSE f[j - 1]
    BY <1>5, <1>8, <1>9
  <2> QED
    BY <2>1, <2>2 DEF IsClimb, base
<1>11. PICK climb : IsClimb(climb, h, i) /\ BottomUp(h, i) = climb[i].heap
  BY <1>10 DEF BottomUp, IsClimb
<1>12. climb[i] = f[i]
  <2>1. climb[0] = f[0]
    BY <1>10, <1>11 DEF IsClimb
  <2>2. \A j \in 1 .. i : climb[j - 1] = f[j - 1] => climb[j] = f[j]
    BY <1>10, <1>11 DEF IsClimb
  <2>3. \A j \in 0 .. i : climb[j] = f[j]
    BY <2>1, <2>2, Together
  <2> QED
    BY <2>3
<1> DEFINE m == f[i]
<1>13. m \in T[i] /\ BottomUp(h, i) = m.heap
  BY <1>7, <1>11, <1>12
<1> HIDE DEF m
<1>14. Moving(m, C, i) /\ Up(m.heap, m.at) /\ (Rises(m) => m.at <= 0)
  BY <1>4, <1>13
<1>15. ~Rises(m) /\ HeapOf(m.heap, C) /\ Len(m.heap) = i /\ m.at \in 1 .. i
  BY <1>14 DEF Moving
<1>16. HeapOrdered(m.heap)
  <2> DEFINE k == m.heap
             a == m.at
  <2>1. a = 1 \/ ~Precedes(k[a], k[Parent(a)])
    BY <1>15 DEF Rises, IsLessStrictly
  <2>2. /\ k \in Seq(Events) /\ Distinct(k) /\ Len(k) = i /\ a \in 1 .. i
        /\ \A j \in 2 .. i : j # a => Precedes(k[Parent(j)], k[j])
    BY <1>14, <1>15 DEF HeapOf, Up
  <2> HIDE DEF k, a
  <2>3. ASSUME NEW j \in 2 .. i, j = a PROVE Precedes(k[Parent(j)], k[j])
    <3>1. Parent(j) \in 1 .. i /\ Parent(j) # j /\ j \in 1 .. i /\ a # 1
      BY <2>3, ParentIs
    <3>2. k[Parent(j)] \in Events /\ k[j] \in Events /\ k[Parent(j)] # k[j]
      BY <2>2, <3>1 DEF Distinct
    <3> QED
      BY <2>1, <2>3, <3>1, <3>2, Order3
  <2>4. HeapOrdered(k)
    BY <2>2, <2>3 DEF HeapOrdered
  <2> QED
    BY <2>4 DEF k
<1> QED
  BY <1>13, <1>15, <1>16

\* An item that sinks until it precedes its children restores the order.
LEMMA TopDownIs ==
    ASSUME NEW h, NEW C, NEW n \in Nat, n = Len(h),
           Moving([heap |-> h, at |-> 1], C, n), Down(h, 1)
    PROVE  HeapOf(TopDown(h, 1), C) /\ HeapOrdered(TopDown(h, 1))
<1> DEFINE base == [heap |-> h, at |-> 1]
           T == [j \in 0 .. n |->
                    {m \in Items : Moving(m, C, n) /\ Down(m.heap, m.at) /\ (Sinks(m) => m.at > j)}]
           Next1(m) == IF Sinks(m) THEN Sunk(m) ELSE m
           step == [j \in 1 .. n |-> [m \in T[j - 1] |-> Next1(m)]]
<1>1. base \in T[0]
  <2>1. h \in Seq(Events) /\ base \in Items /\ base.heap = h /\ base.at = 1
    BY DEF Moving, HeapOf, Items
  <2>2. 1 > 0
    OBVIOUS
  <2> HIDE DEF base
  <2> QED
    BY <2>1, <2>2 DEF base
<1>2. ASSUME NEW j \in 1 .. n, NEW m \in T[j - 1] PROVE Next1(m) \in T[j]
  <2>1. j - 1 \in 0 .. n /\ j \in 0 .. n
    OBVIOUS
  <2>2. m \in Items /\ Moving(m, C, n) /\ Down(m.heap, m.at) /\ (Sinks(m) => m.at > j - 1)
    BY <2>1
  <2>3. CASE Sinks(m)
    <3>1. /\ Moving(Sunk(m), C, n) /\ Down(Sunk(m).heap, Sunk(m).at)
          /\ Sunk(m).at >= m.at + 1
      BY <2>2, <2>3, SunkStep
    <3>2. Sunk(m).at \in 1 .. n /\ Sunk(m).heap \in Seq(Events) /\ m.at \in 1 .. n
      BY <2>2, <3>1 DEF Moving, HeapOf
    <3>3. Sunk(m).at > j
      BY <2>2, <2>3, <3>1, <3>2
    <3>4. Sunk(m) \in Items
      BY <3>2 DEF Sunk, Items
    <3> QED
      BY <2>1, <2>3, <3>1, <3>3, <3>4
  <2>4. CASE ~Sinks(m)
    BY <2>1, <2>2, <2>4
  <2> QED
    BY <2>3, <2>4
<1>3. ASSUME NEW j \in 1 .. n, NEW m \in T[j - 1] PROVE step[j][m] = Next1(m)
  OBVIOUS
<1>4. \A m \in T[n] : Moving(m, C, n) /\ Down(m.heap, m.at) /\ (Sinks(m) => m.at > n)
  OBVIOUS
<1>5. \A m : Next1(m) = IF Sinks(m) THEN Sunk(m) ELSE m
  OBVIOUS
<1> HIDE DEF T, step, Next1, base
<1>6. \A j \in 1 .. n : \A m \in T[j - 1] : step[j][m] \in T[j]
  BY <1>2, <1>3
<1>7. PICK f : Follows(f, n, base, step) /\ \A j \in 0 .. n : f[j] \in T[j]
  BY <1>1, <1>6, Recursion
<1>8. \A j \in 0 .. n : f[j] = IF j = 0 THEN base ELSE step[j][f[j - 1]]
  BY <1>7 DEF Follows
<1>9. \A j \in 0 .. n : j # 0 => step[j][f[j - 1]] = Next1(f[j - 1])
  <2> SUFFICES ASSUME NEW j \in 0 .. n, j # 0 PROVE step[j][f[j - 1]] = Next1(f[j - 1])
    OBVIOUS
  <2>1. j \in 1 .. n /\ j - 1 \in 0 .. n
    OBVIOUS
  <2>2. f[j - 1] \in T[j - 1]
    BY <1>7, <2>1
  <2> QED
    BY <1>3, <2>1, <2>2
<1>10. IsFall(f, h, 1)
  <2>1. f = [j \in 0 .. n |-> f[j]]
    BY <1>7 DEF Follows
  <2>2. \A j \in 0 .. n : f[j] = IF j = 0 THEN base
                                ELSE IF Sinks(f[j - 1]) THEN Sunk(f[j - 1]) ELSE f[j - 1]
    BY <1>5, <1>8, <1>9
  <2> QED
    BY <2>1, <2>2 DEF IsFall, base
<1>11. PICK fall : IsFall(fall, h, 1) /\ TopDown(h, 1) = fall[n].heap
  BY <1>10 DEF TopDown, IsFall
<1>12. fall[n] = f[n]
  <2>1. fall[0] = f[0]
    BY <1>10, <1>11 DEF IsFall
  <2>2. \A j \in 1 .. n : fall[j - 1] = f[j - 1] => fall[j] = f[j]
    BY <1>10, <1>11 DEF IsFall
  <2>3. \A j \in 0 .. n : fall[j] = f[j]
    <3>1. n \in Nat
      OBVIOUS
    <3> QED
      BY ONLY <2>1, <2>2, <3>1, Together
  <2> QED
    BY <2>3
<1> DEFINE m == f[n]
<1>13. m \in T[n] /\ TopDown(h, 1) = m.heap
  BY <1>7, <1>11, <1>12
<1> HIDE DEF m
<1>14. Moving(m, C, n) /\ Down(m.heap, m.at) /\ (Sinks(m) => m.at > n)
  BY <1>4, <1>13
<1>15. ~Sinks(m) /\ HeapOf(m.heap, C) /\ Len(m.heap) = n /\ m.at \in 1 .. n
  BY <1>14 DEF Moving
<1>16. HeapOrdered(m.heap)
  <2> DEFINE k == m.heap
             a == m.at
             c == LesserChild(m)
  <2>1. /\ 2 * a <= n => Precedes(k[a], k[c])
        /\ c = IF 2 * a + 1 <= n
               THEN IF Precedes(k[2 * a], k[2 * a + 1]) THEN 2 * a ELSE 2 * a + 1
               ELSE 2 * a
    BY <1>15 DEF Sinks, IsLessStrictly, LesserChild, LeftChild, RightChild, Smallest
  <2>2. /\ k \in Seq(Events) /\ Distinct(k) /\ Len(k) = n /\ a \in 1 .. n
        /\ \A j \in 2 .. n : Parent(j) # a => Precedes(k[Parent(j)], k[j])
    BY <1>14, <1>15 DEF HeapOf, Down
  <2> HIDE DEF k, a, c
  <2>3. ASSUME NEW j \in 2 .. n, Parent(j) = a PROVE Precedes(k[Parent(j)], k[j])
    <3>1. j = 2 * a \/ j = 2 * a + 1
      <4>1. j \in Nat /\ j >= 2
        OBVIOUS
      <4> QED
        BY <2>3, <4>1, ParentIs
    <3>2. 2 * a <= n /\ Precedes(k[a], k[c]) /\ c \in 1 .. n /\ j \in 1 .. n
      BY <2>1, <2>2, <3>1
    <3>3. k[j] \in Events /\ k[a] \in Events /\ k[c] \in Events
      BY <2>2, <3>2
    <3>4. CASE j = c
      BY <2>3, <3>2, <3>4
    <3>5. CASE j # c
      <4>1. 2 * a + 1 <= n
        BY <2>1, <2>2, <3>1, <3>5
      <4>2. Precedes(k[c], k[j]) \/ ~Precedes(k[j], k[c])
        BY <2>1, <3>1, <3>5, <4>1
      <4>3. k[j] # k[c]
        BY <2>2, <3>2, <3>5 DEF Distinct
      <4> QED
        BY <2>3, <3>2, <3>3, <4>2, <4>3, Order3
    <3> QED
      BY <3>4, <3>5
  <2>4. HeapOrdered(k)
    BY <2>2, <2>3 DEF HeapOrdered
  <2> QED
    BY <2>4 DEF k
<1> QED
  BY <1>13, <1>15, <1>16

LEMMA HeapInsertIs ==
    ASSUME NEW h, NEW C, HeapOf(h, C), HeapOrdered(h), NEW e \in Events, e \notin C
    PROVE  HeapOf(HeapInsert(h, e), C \cup {e}) /\ HeapOrdered(HeapInsert(h, e))
<1> DEFINE k == Append(h, e)
           n == Len(h)
           i == n + 1
<1>1. h \in Seq(Events) /\ Distinct(h) /\ Range(h) = C /\ n \in Nat
  BY DEF HeapOf
<1>2. /\ k \in Seq(Events) /\ Len(k) = n + 1 /\ k[n + 1] = e
      /\ \A j \in 1 .. n : k[j] = h[j]
  BY <1>1, AppendProperties
<1>3. \A x : x \in C <=> \E j \in 1 .. n : h[j] = x
  BY <1>1, RangeIs
<1>4. \A x : x \in Range(k) <=> \E j \in 1 .. n + 1 : k[j] = x
  BY <1>2, RangeIs
<1>5. HeapInsert(h, e) = BottomUp(k, i)
  BY DEF HeapInsert
<1>6. i \in Nat /\ i \in 1 .. i /\ i = n + 1 /\ n \in Nat
  BY <1>1
<1>0. \A j \in 2 .. n : Precedes(h[Parent(j)], h[j])
  BY DEF HeapOrdered
<1> HIDE DEF k, n, i
<1>7. Distinct(k)
  <2> SUFFICES ASSUME NEW a \in 1 .. n + 1, NEW b \in 1 .. n + 1, k[a] = k[b] PROVE a = b
    BY <1>2 DEF Distinct
  <2>1. CASE a \in 1 .. n /\ b \in 1 .. n
    BY <1>1, <1>2, <2>1 DEF Distinct, n
  <2>2. CASE a = n + 1 /\ b \in 1 .. n
    BY <1>2, <1>3, <2>2
  <2>3. CASE b = n + 1 /\ a \in 1 .. n
    BY <1>2, <1>3, <2>3
  <2>4. a \in 1 .. n \/ a = n + 1
    BY <1>6
  <2>5. b \in 1 .. n \/ b = n + 1
    BY <1>6
  <2> QED
    BY <2>1, <2>2, <2>3, <2>4, <2>5
<1>8. Range(k) = C \cup {e}
  <2>1. ASSUME NEW x, x \in Range(k) PROVE x \in C \cup {e}
    <3>1. PICK j \in 1 .. n + 1 : k[j] = x
      BY <1>4, <2>1
    <3>2. j \in 1 .. n \/ j = n + 1
      BY <1>6
    <3> QED
      BY <1>2, <1>3, <3>1, <3>2
  <2>2. ASSUME NEW x, x \in C PROVE x \in Range(k)
    <3>1. PICK j \in 1 .. n : h[j] = x
      BY <1>3, <2>2
    <3>2. j \in 1 .. n + 1 /\ k[j] = x
      BY <1>2, <1>6, <3>1
    <3> QED
      BY <1>4, <3>2
  <2>3. e \in Range(k)
    <3>1. n + 1 \in 1 .. n + 1
      BY <1>6
    <3> QED
      BY <1>2, <1>4, <3>1
  <2> QED
    BY <2>1, <2>2, <2>3
<1>9. Moving([heap |-> k, at |-> i], C \cup {e}, i)
  BY <1>2, <1>6, <1>7, <1>8 DEF Moving, HeapOf
<1>10. ASSUME NEW j \in 2 .. Len(k), j # i PROVE Precedes(k[Parent(j)], k[j])
  <2>1. j \in 2 .. n /\ j \in 1 .. n /\ j \in Nat /\ j >= 2
    BY <1>2, <1>6, <1>10
  <2>2. Parent(j) \in 1 .. n
    BY <1>6, <2>1, ParentIs
  <2> QED
    BY <1>0, <1>2, <2>1, <2>2
<1>11. ASSUME NEW j \in 2 .. Len(k) PROVE Parent(j) # i
  <2>1. j \in Nat /\ j >= 2 /\ j <= i
    BY <1>2, <1>6
  <2> QED
    BY <1>6, <2>1, ParentIs
<1>12. Up(k, i)
  BY <1>10, <1>11 DEF Up
<1> QED
  BY <1>5, <1>6, <1>9, <1>12, BottomUpIs

LEMMA HeapTop ==
    ASSUME NEW h, NEW C, HeapOf(h, C), HeapOrdered(h), C # {}
    PROVE  Len(h) \in Nat /\ Len(h) >= 1 /\ IsLeast(h[1], C)
<1> DEFINE n == Len(h)
<1>1. h \in Seq(Events) /\ Distinct(h) /\ Range(h) = C /\ n \in Nat
  BY DEF HeapOf
<1>2. \A x : x \in C <=> \E j \in 1 .. n : h[j] = x
  BY <1>1, RangeIs
<1>3. n >= 1
  BY <1>1, <1>2
<1>4. \A j \in 2 .. n : Precedes(h[Parent(j)], h[j])
  BY DEF HeapOrdered
<1>5. \A j \in 1 .. n : h[j] \in Events
  BY <1>1
<1> HIDE DEF n
<1> DEFINE S == {k \in Nat : \A j \in 1 .. n : j <= k /\ j # 1 => Precedes(h[1], h[j])}
<1>6. 0 \in S
  OBVIOUS
<1>7. ASSUME NEW k \in Nat, k \in S PROVE k + 1 \in S
  <2> SUFFICES ASSUME NEW j \in 1 .. n, j = k + 1, j # 1 PROVE Precedes(h[1], h[j])
    BY <1>7
  <2>1. j \in 2 .. n /\ j \in Nat /\ j >= 2
    BY <1>1
  <2>2. Parent(j) \in 1 .. n /\ Parent(j) <= k /\ 1 \in 1 .. n
    BY <1>1, <2>1, ParentIs
  <2>3. Precedes(h[Parent(j)], h[j])
    BY <1>4, <2>1
  <2>4. Parent(j) = 1 \/ Precedes(h[1], h[Parent(j)])
    BY <1>7, <2>2
  <2>5. h[1] \in Events /\ h[j] \in Events /\ h[Parent(j)] \in Events
    BY <1>5, <2>2
  <2> QED
    BY <2>3, <2>4, <2>5, Order3
<1> HIDE DEF S
<1>8. n \in S
  BY <1>1, <1>6, <1>7, NatSet
<1>9. \A j \in 1 .. n : j # 1 => Precedes(h[1], h[j])
  BY <1>1, <1>8 DEF S
<1>10. h[1] \in C
  BY <1>1, <1>2, <1>3
<1>11. \A x \in C \ {h[1]} : Precedes(h[1], x)
  BY <1>2, <1>9
<1> QED
  BY <1>1, <1>3, <1>10, <1>11 DEF IsLeast, n

LEMMA HeapRemoveNextIs ==
    ASSUME NEW h, NEW C, HeapOf(h, C), HeapOrdered(h), C # {}
    PROVE  HeapOf(HeapRemoveNext(h), C \ {h[1]}) /\ HeapOrdered(HeapRemoveNext(h))
<1> DEFINE n == Len(h)
           g == Exch(h, 1, n)
           k == SubSeq(g, 1, n - 1)
<1>1. h \in Seq(Events) /\ Distinct(h) /\ Range(h) = C
  BY DEF HeapOf
<1>2. n \in Nat /\ n >= 1 /\ 1 \in 1 .. n /\ n \in 1 .. n
  BY HeapTop
<1>3. Exchanged(g, h, 1, n)
  BY <1>1, <1>2, ExchIs
<1>4. /\ g \in Seq(Events) /\ Len(g) = n /\ g[1] = h[n] /\ g[n] = h[1]
      /\ \A j \in 1 .. n : j # 1 /\ j # n => g[j] = h[j]
  BY <1>3 DEF Exchanged
<1>5. Distinct(g) /\ Range(g) = C
  BY <1>1, <1>2, <1>3, ExchangedItems
<1>6. HeapRemoveNext(h) = TopDown(k, 1)
  BY DEF HeapRemoveNext, TakeOut
<1>0. \A j \in 2 .. n : Precedes(h[Parent(j)], h[j])
  BY DEF HeapOrdered
<1> HIDE DEF n, g
<1>7. /\ k \in Seq(Events) /\ Len(k) = n - 1
      /\ \A j \in 1 .. n - 1 : k[j] = g[j]
  <2>1. \A j \in 1 .. n - 1 : g[j] \in Events
    BY <1>2, <1>4
  <2>2. /\ k \in Seq(Events)
        /\ Len(k) = IF 1 <= n - 1 THEN (n - 1) - 1 + 1 ELSE 0
        /\ \A j \in 1 .. (n - 1) - 1 + 1 : k[j] = g[1 + j - 1]
    BY <1>2, <2>1, SubSeqProperties
  <2> HIDE DEF k
  <2> QED
    BY <1>2, <2>2
<1> HIDE DEF k
<1>8. \A x : x \in C <=> \E j \in 1 .. n : g[j] = x
  BY <1>4, <1>5, RangeIs
<1>9. \A x : x \in Range(k) <=> \E j \in 1 .. n - 1 : k[j] = x
  BY <1>7, RangeIs
<1>10. Range(k) = C \ {h[1]}
  <2>1. ASSUME NEW x, x \in Range(k) PROVE x \in C \ {h[1]}
    <3>1. PICK j \in 1 .. n - 1 : k[j] = x
      BY <1>9, <2>1
    <3>2. g[j] = x /\ j # n /\ j \in 1 .. n
      BY <1>2, <1>7, <3>1
    <3>3. g[j] # g[n]
      BY <1>2, <1>4, <1>5, <3>2 DEF Distinct
    <3> QED
      BY <1>4, <1>8, <3>2, <3>3
  <2>2. ASSUME NEW x \in C, x # h[1] PROVE x \in Range(k)
    <3>1. PICK j \in 1 .. n : g[j] = x
      BY <1>8
    <3>2. j # n
      BY <1>4, <2>2, <3>1
    <3>3. j \in 1 .. n - 1
      BY <1>2, <3>2
    <3> QED
      BY <1>7, <1>9, <3>1, <3>3
  <2> QED
    BY <2>1, <2>2
<1>11. Distinct(k)
  BY <1>2, <1>4, <1>5, <1>7 DEF Distinct
<1>12. HeapOf(k, C \ {h[1]})
  BY <1>7, <1>10, <1>11 DEF HeapOf
<1>13. CASE n = 1
  <2>1. k = << >> /\ Len(k) = 0
    BY <1>7, <1>13, EmptySeq
  <2> DEFINE fall == [j \in 0 .. Len(k) |-> [heap |-> k, at |-> 1]]
  <2>2. IsFall(fall, k, 1)
    BY <2>1 DEF IsFall
  <2>3. PICK f : IsFall(f, k, 1) /\ TopDown(k, 1) = f[Len(k)].heap
    BY <2>2 DEF TopDown, IsFall
  <2>4. TopDown(k, 1) = k
    BY <2>1, <2>3 DEF IsFall
  <2>5. HeapOrdered(k)
    BY <2>1 DEF HeapOrdered
  <2> QED
    BY <1>6, <1>12, <2>4, <2>5
<1>14. CASE n # 1
  <2> DEFINE m == n - 1
  <2>1. m \in Nat /\ m = Len(k) /\ 1 \in 1 .. m /\ m = n - 1
    BY <1>2, <1>7, <1>14
  <2> HIDE DEF m
  <2>2. Moving([heap |-> k, at |-> 1], C \ {h[1]}, m)
    BY <1>12, <2>1 DEF Moving
  <2>3. ASSUME NEW j \in 2 .. m, Parent(j) # 1 PROVE Precedes(k[Parent(j)], k[j])
    <3>1. j \in Nat /\ j >= 2 /\ j \in 2 .. n /\ j <= n - 1
      BY <1>2, <2>1
    <3>2. Parent(j) \in 1 .. j - 1
      BY <3>1, ParentIs
    <3>3. /\ Parent(j) \in 1 .. n - 1 /\ Parent(j) \in 1 .. n /\ Parent(j) # n
          /\ j \in 1 .. n - 1 /\ j \in 1 .. n /\ j # 1 /\ j # n
      BY <1>2, <3>1, <3>2
    <3>4. k[j] = h[j] /\ k[Parent(j)] = h[Parent(j)]
      BY <1>4, <1>7, <2>3, <3>3
    <3> QED
      BY <1>0, <3>1, <3>4
  <2>4. Down(k, 1)
    BY <2>1, <2>3 DEF Down
  <2> QED
    BY <1>6, <2>1, <2>2, <2>4, TopDownIs
<1> QED
  BY <1>13, <1>14

---------------------------------------------------------------------------
(* Days and years                                                          *)

LEMMA TimesMonotonic ==
    ASSUME NEW a \in Nat, NEW b \in Nat, NEW w \in Nat, a <= b
    PROVE  a * w <= b * w
<1>1. b - a \in Nat /\ b = a + (b - a)
  OBVIOUS
<1>2. (b - a) * w \in Nat
  BY <1>1
<1>3. b * w = a * w + (b - a) * w
  BY <1>1
<1>4. a * w \in Nat /\ b * w \in Nat
  OBVIOUS
<1> QED
  BY <1>2, <1>3, <1>4

LEMMA DivIs ==
    ASSUME NEW t \in Nat, NEW w \in Nat \ {0}
    PROVE  t \div w \in Nat /\ (t \div w) * w <= t /\ t < (t \div w + 1) * w
  OBVIOUS

LEMMA ModIs ==
    ASSUME NEW x \in Nat, NEW n \in Nat \ {0}
    PROVE  /\ x % n \in 0 .. n - 1
           /\ x \div n \in Nat /\ x = (x \div n) * n + (x % n)
  OBVIOUS

LEMMA DivBelow ==
    ASSUME NEW t \in Nat, NEW w \in Nat \ {0}, NEW m \in Nat
    PROVE  t < (m + 1) * w <=> t \div w <= m
<1> DEFINE q == t \div w
<1>1. q \in Nat /\ q * w <= t /\ t < (q + 1) * w
  BY DivIs
<1>0. q + 1 \in Nat /\ m + 1 \in Nat /\ w \in Nat
  BY <1>1
<1> HIDE DEF q
<1>2. ASSUME q <= m PROVE t < (m + 1) * w
  <2>1. (q + 1) * w <= (m + 1) * w
    BY <1>0, <1>1, <1>2, TimesMonotonic
  <2>2. (q + 1) * w \in Nat /\ (m + 1) * w \in Nat
    BY <1>0
  <2> QED
    BY <1>1, <2>1, <2>2
<1>3. ASSUME ~(q <= m) PROVE ~(t < (m + 1) * w)
  <2>1. m + 1 <= q
    BY <1>1, <1>3
  <2>2. (m + 1) * w <= q * w
    BY <1>0, <1>1, <2>1, TimesMonotonic
  <2>3. q * w \in Nat /\ (m + 1) * w \in Nat
    BY <1>0, <1>1
  <2> QED
    BY <1>1, <2>2, <2>3
<1> QED
  BY <1>2, <1>3 DEF q

LEMMA DivMonotonic ==
    ASSUME NEW t \in Nat, NEW u \in Nat, NEW w \in Nat \ {0}, t <= u
    PROVE  t \div w <= u \div w
<1>1. u \div w \in Nat /\ u < (u \div w + 1) * w
  BY DivIs
<1> DEFINE q == u \div w
<1> HIDE DEF q
<1>2. q \in Nat /\ u < (q + 1) * w /\ (q + 1) * w \in Nat
  BY <1>1 DEF q
<1>3. t < (q + 1) * w
  BY <1>2
<1>4. t \div w <= q
  BY <1>2, <1>3, DivBelow
<1> QED
  BY <1>4 DEF q

LEMMA ModUnique ==
    ASSUME NEW n \in Nat \ {0}, NEW a \in Nat, NEW b \in Nat,
           NEW r \in 0 .. n - 1, NEW s \in 0 .. n - 1, a * n + r = b * n + s
    PROVE  r = s
<1>1. a * n \in Nat /\ b * n \in Nat /\ n \in Nat /\ r \in Nat /\ s \in Nat /\ r < n /\ s < n
  OBVIOUS
<1>2. CASE a + 1 <= b
  <2>1. (a + 1) * n <= b * n
    BY <1>1, <1>2, TimesMonotonic
  <2>2. (a + 1) * n = a * n + n
    BY <1>1
  <2> QED
    BY <1>1, <2>1, <2>2
<1>3. CASE b + 1 <= a
  <2>1. (b + 1) * n <= a * n
    BY <1>1, <1>3, TimesMonotonic
  <2>2. (b + 1) * n = b * n + n
    BY <1>1
  <2> QED
    BY <1>1, <2>1, <2>2
<1>4. CASE a = b
  BY <1>1, <1>4
<1> QED
  BY <1>2, <1>3, <1>4

LEMMA ModAdd ==
    ASSUME NEW n \in Nat \ {0}, NEW x \in Nat, NEW i \in Nat
    PROVE  ((x % n) + i) % n = (x + i) % n
<1> DEFINE r == x % n
           k == x \div n
           y == r + i
           z == x + i
           j == y \div n
           l == z \div n
<1>1. r \in 0 .. n - 1 /\ k \in Nat /\ x = k * n + r
  BY ModIs
<1>2. y \in Nat /\ z \in Nat
  BY <1>1
<1>3. y % n \in 0 .. n - 1 /\ j \in Nat /\ y = j * n + (y % n)
  BY <1>2, ModIs
<1>4. z % n \in 0 .. n - 1 /\ l \in Nat /\ z = l * n + (z % n)
  BY <1>2, ModIs
<1>5. z = k * n + y
  BY <1>1, <1>2
<1> HIDE DEF r, k, y, z, j, l
<1>6. (k + j) * n = k * n + j * n /\ k + j \in Nat
  BY <1>1, <1>3
<1>7. k * n \in Nat /\ j * n \in Nat
  BY <1>1, <1>3
<1>8. (k + j) * n + (y % n) = l * n + (z % n)
  BY <1>3, <1>4, <1>5, <1>6, <1>7
<1>9. y % n = z % n
  BY <1>3, <1>4, <1>6, <1>8, ModUnique
<1> QED
  BY <1>9 DEF y, z, r

LEMMA ModSame ==
    ASSUME NEW n \in Nat \ {0}, NEW x \in Nat, NEW y \in Nat,
           x <= y, y < x + n, x % n = y % n
    PROVE  x = y
<1> DEFINE k == x \div n
           l == y \div n
           r == x % n
           d == y - x
<1>1. r \in 0 .. n - 1 /\ k \in Nat /\ x = k * n + r
  BY ModIs
<1>2. l \in Nat /\ y = l * n + r
  BY ModIs
<1>3. d \in 0 .. n - 1 /\ y = x + d
  OBVIOUS
<1> HIDE DEF k, l, r, d
<1>4. 0 \in 0 .. n - 1 /\ k * n \in Nat /\ l * n \in Nat /\ n \in Nat
  BY <1>1, <1>2
<1>5. k * n + d = l * n + 0
  BY <1>1, <1>2, <1>3, <1>4
<1>6. d = 0
  BY <1>1, <1>2, <1>3, <1>4, <1>5, ModUnique
<1> QED
  BY <1>3, <1>6

---------------------------------------------------------------------------
(* The days of a calendar                                                  *)

Calendars(n) ==
    [days : [0 .. n - 1 -> Seq(Events)], nBuckets : {n}, width : Nat \ {0},
     lastPrio : Nat, lastBucket : Nat, bucketTop : Nat, qSize : Nat, reverse : BOOLEAN]

\* n days, each sorted, hold the events that belong there.
InDays(c, n, C) ==
    /\ n \in Nat \ {0} /\ c \in Calendars(n) /\ CalendarContents(c) = C
    /\ \A d \in 0 .. n - 1 : Sorted(c.reverse, c.days[d])
    /\ \A d \in 0 .. n - 1 : \A e \in Range(c.days[d]) : Hash(c, e.ts) = d

LEMMA DaysAre ==
    ASSUME NEW c, NEW n, NEW C, InDays(c, n, C)
    PROVE  /\ C \subseteq Events
           /\ \A e : e \in C <=> \E d \in 0 .. n - 1 : e \in Range(c.days[d])
           /\ \A e \in C : Hash(c, e.ts) \in 0 .. n - 1 /\ e \in Range(c.days[Hash(c, e.ts)])
           /\ \A d \in 0 .. n - 1 : c.days[d] \in Seq(Events)
<1>1. \A d \in 0 .. n - 1 : c.days[d] \in Seq(Events)
  BY DEF InDays, Calendars
<1>2. DOMAIN c.days = 0 .. n - 1
  BY DEF InDays, Calendars
<1>3. C = UNION {Range(c.days[d]) : d \in 0 .. n - 1}
  BY <1>2 DEF InDays, CalendarContents
<1>4. \A e : e \in C <=> \E d \in 0 .. n - 1 : e \in Range(c.days[d])
  BY <1>3
<1>5. \A d \in 0 .. n - 1 : Range(c.days[d]) \subseteq Events
  BY <1>1, RangeIs
<1>6. \A e \in C : Hash(c, e.ts) \in 0 .. n - 1 /\ e \in Range(c.days[Hash(c, e.ts)])
  BY <1>4 DEF InDays
<1> QED
  BY <1>1, <1>4, <1>5, <1>6

\* The events of day d change to those of t.
LEMMA DayChanged ==
    ASSUME NEW c, NEW n, NEW C, InDays(c, n, C), NEW d \in 0 .. n - 1,
           NEW t \in Seq(Events), Sorted(c.reverse, t), \A e \in Range(t) : Hash(c, e.ts) = d,
           NEW k \in Calendars(n), k.days = [c.days EXCEPT ![d] = t],
           k.width = c.width, k.reverse = c.reverse,
           NEW D, \A e : e \in D <=> e \in Range(t) \/ (e \in C /\ Hash(c, e.ts) # d)
    PROVE  InDays(k, n, D)
<1>1. DOMAIN c.days = 0 .. n - 1 /\ DOMAIN k.days = 0 .. n - 1
  BY DEF InDays, Calendars
<1>2. k.days[d] = t /\ \A f \in 0 .. n - 1 : f # d => k.days[f] = c.days[f]
  BY <1>1
<1>3. \A ts : Hash(k, ts) = Hash(c, ts)
  BY DEF InDays, Calendars, Hash
<1>4. \A f \in 0 .. n - 1 : Sorted(k.reverse, k.days[f])
  BY <1>2 DEF InDays
<1>5. \A f \in 0 .. n - 1 : \A e \in Range(k.days[f]) : Hash(k, e.ts) = f
  BY <1>2, <1>3 DEF InDays
<1>6. CalendarContents(k) = UNION {Range(k.days[f]) : f \in 0 .. n - 1}
  BY <1>1 DEF CalendarContents
<1>7. \A e : e \in CalendarContents(k) <=> \E f \in 0 .. n - 1 : e \in Range(k.days[f])
  BY <1>6
<1>8. \A e : e \in C /\ Hash(c, e.ts) # d =>
             Hash(c, e.ts) \in 0 .. n - 1 /\ e \in Range(k.days[Hash(c, e.ts)])
  BY <1>2, DaysAre
<1>9. ASSUME NEW e, e \in CalendarContents(k) PROVE e \in D
  <2>1. PICK f \in 0 .. n - 1 : e \in Range(k.days[f])
    BY <1>7, <1>9
  <2>2. CASE f = d
    BY <1>2, <2>1, <2>2
  <2>3. CASE f # d
    <3>1. e \in Range(c.days[f])
      BY <1>2, <2>1, <2>3
    <3>2. e \in C
      BY <3>1, DaysAre
    <3>3. Hash(c, e.ts) = f
      BY <3>1 DEF InDays
    <3> QED
      BY <2>3, <3>2, <3>3
  <2> QED
    BY <2>2, <2>3
<1>10. ASSUME NEW e, e \in D PROVE e \in CalendarContents(k)
  <2>1. CASE e \in Range(t)
    BY <1>2, <1>7, <2>1
  <2>2. CASE e \in C /\ Hash(c, e.ts) # d
    BY <1>7, <1>8, <2>2
  <2> QED
    BY <1>10, <2>1, <2>2
<1>11. CalendarContents(k) = D
  BY <1>9, <1>10
<1> QED
  BY <1>4, <1>5, <1>11 DEF InDays

LEMMA HashIs ==
    ASSUME NEW c, NEW n, NEW C, InDays(c, n, C), NEW ts \in Nat
    PROVE  Hash(c, ts) \in 0 .. n - 1 /\ Hash(c, ts) = (ts \div c.width) % n
<1>1. n \in Nat \ {0} /\ c.width \in Nat \ {0} /\ c.nBuckets = n
  BY DEF InDays, Calendars
<1>2. ts \div c.width \in Nat
  BY <1>1, DivIs
<1>3. (ts \div c.width) % n \in 0 .. n - 1
  BY <1>1, <1>2, ModIs
<1> QED
  BY <1>1, <1>3 DEF Hash

\* All of a calendar but its days
Rest(c) == <<c.width, c.lastPrio, c.lastBucket, c.bucketTop, c.qSize, c.reverse>>

LEMMA DoInsertIs ==
    ASSUME NEW c, NEW n, NEW C, InDays(c, n, C), NEW e \in Events, e \notin C
    PROVE  InDays(DoInsert(c, e), n, C \cup {e}) /\ Rest(DoInsert(c, e)) = Rest(c)
<1> DEFINE d == Hash(c, e.ts)
           s == c.days[d]
           later == {i \in DOMAIN s : Order(c, e, s[i])}
           t == InsertAt(s, IF later = {} THEN Len(s) + 1 ELSE Min(later), e)
           k == [c EXCEPT !.days = [c.days EXCEPT ![d] = t]]
<1>1. DoInsert(c, e) = k
  BY DEF DoInsert
<1>2. c \in Calendars(n) /\ DOMAIN c.days = 0 .. n - 1 /\ c.reverse \in BOOLEAN
  BY DEF InDays, Calendars
<1>3. d \in 0 .. n - 1
  BY HashIs DEF Events
<1>4. s \in Seq(Events) /\ Sorted(c.reverse, s)
  BY <1>3, DaysAre DEF InDays
<1>5. e \notin Range(s)
  BY <1>3, DaysAre
<1>6. later = {i \in DOMAIN s : Before(c.reverse, e, s[i])}
  BY DEF Order, Before
<1>7. t = InsertAt(s, IF later = {} THEN Len(s) + 1 ELSE Min(later), e)
  OBVIOUS
<1>8. \A x \in Range(s) : Hash(c, x.ts) = d
  BY <1>3 DEF InDays
<1>9. \A x \in C : Hash(c, x.ts) = d => x \in Range(s)
  BY DaysAre
<1>10. \A x \in Range(s) : x \in C
  BY <1>3, DaysAre
<1>11. Hash(c, e.ts) = d
  OBVIOUS
<1> HIDE DEF d, s, later, t
<1>12. t \in Seq(Events) /\ Sorted(c.reverse, t) /\ Range(t) = Range(s) \cup {e}
  <2>1. PICK r \in BOOLEAN : r = c.reverse
    BY <1>2
  <2>2. Sorted(r, s) /\ t = Inserted(r, s, e)
    BY <1>4, <1>6, <1>7, <2>1 DEF Inserted
  <2>3. r \in BOOLEAN /\ e \in Events /\ s \in Seq(Events)
    BY <1>4
  <2>4. t \in Seq(Events) /\ Sorted(r, t) /\ Range(t) = Range(s) \cup {e}
    BY ONLY <1>5, <2>2, <2>3, SortedInsert
  <2> QED
    BY <2>1, <2>4
<1>13. k \in Calendars(n) /\ k.days = [c.days EXCEPT ![d] = t]
       /\ k.width = c.width /\ k.reverse = c.reverse /\ Rest(k) = Rest(c)
  BY <1>2, <1>12 DEF Calendars, Rest
<1> HIDE DEF k
<1>14. \A x \in Range(t) : Hash(c, x.ts) = d
  BY <1>8, <1>11, <1>12
<1>15. \A x : x \in C \cup {e} <=> x \in Range(t) \/ (x \in C /\ Hash(c, x.ts) # d)
  BY <1>9, <1>10, <1>12
<1>16. InDays(k, n, C \cup {e})
  BY <1>3, <1>12, <1>13, <1>14, <1>15, DayChanged
<1> QED
  BY <1>1, <1>13, <1>16

\* What is next on a day, and what is left then
LEMMA DayNext ==
    ASSUME NEW c, NEW n, NEW C, InDays(c, n, C), NEW d \in 0 .. n - 1, c.days[d] # << >>
    PROVE  /\ IsLeast(NextEvent(c, d), Range(c.days[d]))
           /\ NextEvent(c, d) \in C /\ NextEvent(c, d) \in Events
           /\ Hash(c, NextEvent(c, d).ts) = d
           /\ Pop(c, d) \in Seq(Events) /\ Sorted(c.reverse, Pop(c, d))
           /\ Range(Pop(c, d)) = Range(c.days[d]) \ {NextEvent(c, d)}
<1> DEFINE s == c.days[d]
           e == NextEvent(c, d)
           t == Pop(c, d)
<1>1. c.reverse \in BOOLEAN /\ s \in Seq(Events) /\ Sorted(c.reverse, s) /\ s # << >>
  BY DaysAre DEF InDays, Calendars
<1>2. e = (IF c.reverse THEN Last(s) ELSE Head(s)) /\ t = (IF c.reverse THEN Front(s) ELSE Tail(s))
  BY DEF NextEvent, Pop
<1>3. \A x \in Range(s) : x \in C /\ x \in Events /\ Hash(c, x.ts) = d
  BY DaysAre DEF InDays
<1> HIDE DEF s, e, t
<1>4. /\ IsLeast(e, Range(s))
      /\ t \in Seq(Events) /\ Sorted(c.reverse, t) /\ Range(t) = Range(s) \ {e}
  <2>1. PICK r \in BOOLEAN : r = c.reverse
    BY <1>1
  <2>2. Sorted(r, s) /\ e = First(r, s) /\ t = Others(r, s)
    BY <1>1, <1>2, <2>1 DEF First, Others
  <2>3. r \in BOOLEAN /\ s \in Seq(Events) /\ s # << >>
    BY <1>1
  <2>4. /\ IsLeast(e, Range(s))
        /\ t \in Seq(Events) /\ Sorted(r, t) /\ Range(t) = Range(s) \ {e}
    BY ONLY <2>2, <2>3, SortedEnds
  <2> QED
    BY <2>1, <2>4
<1>5. e \in Range(s)
  BY <1>4 DEF IsLeast
<1> QED
  BY <1>3, <1>4, <1>5 DEF s, e, t

LEMMA DayEmpty ==
    ASSUME NEW c, NEW n, NEW C, InDays(c, n, C), NEW d \in 0 .. n - 1
    PROVE  c.days[d] = << >> <=> Range(c.days[d]) = {}
<1>1. c.days[d] \in Seq(Events)
  BY DaysAre
<1>2. \A e : e \in Range(c.days[d]) <=> \E i \in 1 .. Len(c.days[d]) : c.days[d][i] = e
  BY <1>1, RangeIs
<1>3. c.days[d] = << >> <=> Len(c.days[d]) = 0
  BY <1>1, EmptySeq
<1>4. Len(c.days[d]) \in Nat
  BY <1>1
<1>5. ASSUME Len(c.days[d]) # 0 PROVE Range(c.days[d]) # {}
  <2>1. 1 \in 1 .. Len(c.days[d])
    BY <1>4, <1>5
  <2> QED
    BY <1>2, <2>1
<1>6. ASSUME Len(c.days[d]) = 0 PROVE Range(c.days[d]) = {}
  BY <1>2, <1>6
<1> QED
  BY <1>3, <1>5, <1>6

---------------------------------------------------------------------------
(* The search for the next event                                           *)

\* The search starts on the day of lastPrio, and no event of C is before it.
InSearch(c, C) ==
    /\ c.lastBucket = (c.lastPrio \div c.width) % c.nBuckets
    /\ c.bucketTop = (c.lastPrio \div c.width + 1) * c.width
    /\ \A e \in C : c.lastPrio <= e.ts

LEMMA SearchIs ==
    ASSUME NEW c, NEW n, NEW C, InDays(c, n, C), InSearch(c, C),
           NEW q, q = c.lastPrio \div c.width, NEW i \in Nat
    PROVE  /\ q \in Nat /\ Day(c, i) \in 0 .. n - 1
           /\ Day(c, i) = (q + i) % n
           /\ Top(c, i) = (q + i + 1) * c.width
<1> DEFINE w == c.width
<1>1. n \in Nat \ {0} /\ w \in Nat \ {0} /\ c.nBuckets = n /\ c.lastPrio \in Nat
  BY DEF InDays, Calendars
<1>2. q \in Nat
  BY <1>1, DivIs
<1>3. c.lastBucket = q % n /\ c.bucketTop = (q + 1) * w
  BY <1>1 DEF InSearch
<1>4. Day(c, i) = (q + i) % n
  <2>1. Day(c, i) = ((q % n) + i) % n
    BY <1>1, <1>3 DEF Day
  <2>2. ((q % n) + i) % n = (q + i) % n
    BY <1>1, <1>2, ModAdd
  <2> QED
    BY <2>1, <2>2
<1>5. q + i \in Nat
  BY <1>2
<1>6. (q + i) % n \in 0 .. n - 1
  BY <1>1, <1>5, ModIs
<1> HIDE DEF w
<1>7. (q + 1) * w + i * w = (q + i + 1) * w
  BY <1>1, <1>2
<1>8. Top(c, i) = (q + i + 1) * w
  BY <1>3, <1>7 DEF Top, w
<1> QED
  BY <1>2, <1>4, <1>6, <1>8 DEF w

\* When an event comes, counted in widths: its day, and no sooner than lastPrio
LEMMA EventDay ==
    ASSUME NEW c, NEW n, NEW C, InDays(c, n, C), InSearch(c, C),
           NEW q, q = c.lastPrio \div c.width, NEW e \in C
    PROVE  /\ e.ts \in Nat /\ e.ts \div c.width \in Nat /\ q <= e.ts \div c.width
           /\ Hash(c, e.ts) = (e.ts \div c.width) % n
<1>1. n \in Nat \ {0} /\ c.width \in Nat \ {0} /\ c.lastPrio \in Nat
  BY DEF InDays, Calendars
<1>2. e.ts \in Nat
  BY DaysAre DEF Events
<1>3. c.lastPrio <= e.ts
  BY DEF InSearch
<1>4. q <= e.ts \div c.width
  BY <1>1, <1>2, <1>3, DivMonotonic
<1>5. e.ts \div c.width \in Nat
  BY <1>1, <1>2, DivIs
<1> QED
  BY <1>2, <1>4, <1>5, HashIs

\* The first due day of this year has the least event of all ...
LEMMA DueLeast ==
    ASSUME NEW c, NEW n, NEW C, InDays(c, n, C), InSearch(c, C), DueDays(c) # {},
           NEW i, i = Min(DueDays(c)), NEW d, d = Day(c, i), NEW e, e = NextEvent(c, d)
    PROVE  /\ d \in 0 .. n - 1 /\ c.days[d] # << >> /\ IsLeast(e, C)
           /\ d = (e.ts \div c.width) % n /\ Top(c, i) = (e.ts \div c.width + 1) * c.width
<1> DEFINE w == c.width
           q == c.lastPrio \div w
           Time(x) == x.ts \div w
<1>1. DOMAIN c.days = 0 .. n - 1 /\ n \in Nat \ {0} /\ w \in Nat \ {0}
  BY DEF InDays, Calendars
<1>2. DueDays(c) \subseteq 0 .. n - 1 /\ DueDays(c) \subseteq Nat
  BY <1>1 DEF DueDays
<1>3. i \in DueDays(c) /\ \A j \in DueDays(c) : i <= j
  BY <1>2, MinIs
<1>4. i \in 0 .. n - 1 /\ i \in Nat /\ c.days[d] # << >> /\ e.ts < Top(c, i)
  BY <1>2, <1>3 DEF DueDays
<1>5. \A j \in Nat : /\ q \in Nat /\ Day(c, j) \in 0 .. n - 1 /\ Day(c, j) = (q + j) % n
                     /\ Top(c, j) = (q + j + 1) * w
  BY SearchIs
<1>6. d \in 0 .. n - 1 /\ d = (q + i) % n /\ Top(c, i) = (q + i + 1) * w /\ q \in Nat
  BY <1>4, <1>5
<1>7. /\ IsLeast(e, Range(c.days[d])) /\ e \in C /\ e \in Events /\ Hash(c, e.ts) = d
  BY <1>4, <1>6, DayNext
<1>8. \A x \in C : x.ts \in Nat /\ Time(x) \in Nat /\ q <= Time(x) /\ Hash(c, x.ts) = Time(x) % n
  BY EventDay
<1>9. Time(e) = q + i
  <2>1. q + i \in Nat
    BY <1>4, <1>6
  <2>2. Time(e) <= q + i
    BY <1>1, <1>4, <1>6, <1>7, <1>8, <2>1, DivBelow
  <2>3. Time(e) % n = (q + i) % n
    BY <1>6, <1>7, <1>8
  <2>5. Time(e) \in Nat /\ q <= Time(e)
    BY <1>7, <1>8
  <2> HIDE DEF Time, q
  <2>4. q + i < Time(e) + n
    BY <1>1, <1>4, <1>6, <2>5
  <2> QED
    BY <1>1, <2>1, <2>2, <2>3, <2>4, <2>5, ModSame
<1> HIDE DEF q
<1>10. ASSUME NEW x \in C, x # e PROVE Precedes(e, x)
  <2> DEFINE t == Time(x)
             f == Hash(c, x.ts)
  <2>1. t \in Nat /\ q <= t /\ f = t % n /\ x.ts \in Nat /\ x \in Events
    BY <1>8, DaysAre
  <2>2. f \in 0 .. n - 1 /\ x \in Range(c.days[f])
    BY DaysAre
  <2>3. CASE t < q + i
    <3> DEFINE j == t - q
               g == NextEvent(c, f)
    <3>1. j \in Nat /\ q + j = t /\ j < i /\ j \in 0 .. n - 1
      <4>1. t \in Nat /\ q \in Nat /\ q <= t /\ t < q + i /\ i \in 0 .. n - 1 /\ n \in Nat
        BY <1>1, <1>4, <1>6, <2>1, <2>3
      <4> HIDE DEF t
      <4> QED
        BY ONLY <4>1
    <3> HIDE DEF j
    <3>2. Day(c, j) = f /\ Top(c, j) = (t + 1) * w
      BY <1>5, <2>1, <3>1
    <3>3. c.days[f] # << >>
      BY <2>2, DayEmpty
    <3>4. IsLeast(g, Range(c.days[f])) /\ g \in C /\ Hash(c, g.ts) = f
      BY <2>2, <3>3, DayNext
    <3>5. g.ts \in Nat /\ g.ts <= x.ts
      <4>1. g.ts \in Nat
        BY <1>8, <3>4
      <4>2. g = x \/ Precedes(g, x)
        BY <2>2, <3>4 DEF IsLeast
      <4> HIDE DEF g
      <4> QED
        BY <2>1, <4>1, <4>2 DEF Precedes
    <3>6. x.ts < (t + 1) * w
      BY <1>1, <2>1, DivIs
    <3>7. (t + 1) * w \in Nat
      BY <1>1, <2>1
    <3>8. g.ts < Top(c, j)
      <4> HIDE DEF g, t, w
      <4> QED
        BY <2>1, <3>2, <3>5, <3>6, <3>7
    <3>9. j \in DueDays(c)
      BY <1>1, <3>1, <3>2, <3>3, <3>8 DEF DueDays
    <3> QED
      BY <1>3, <1>4, <3>1, <3>9
  <2>4. CASE t = q + i
    <3>1. f = d
      BY <1>6, <2>1, <2>4
    <3> QED
      BY <1>7, <1>10, <2>2, <3>1 DEF IsLeast
  <2>5. CASE t > q + i
    <3>1. ~(x.ts <= e.ts)
      <4> SUFFICES ASSUME x.ts <= e.ts PROVE FALSE
        OBVIOUS
      <4>1. x.ts \in Nat /\ e.ts \in Nat /\ w \in Nat \ {0} /\ t \in Nat
        BY <1>1, <1>7, <1>8, <2>1
      <4>2. t <= Time(e)
        BY <4>1, DivMonotonic
      <4> QED
        BY <1>4, <1>6, <1>9, <2>5, <4>1, <4>2
    <3>2. x.ts \in Nat /\ e.ts \in Nat
      BY <1>7, <1>8
    <3> QED
      BY <3>1, <3>2 DEF Precedes
  <2> QED
    BY <1>4, <1>6, <2>1, <2>3, <2>4, <2>5
<1>11. IsLeast(e, C)
  BY <1>7, <1>10 DEF IsLeast
<1> QED
  BY <1>4, <1>6, <1>9, <1>11

\* ... and if no day is due, LeastDay has it.
LEMMA NoneDueLeast ==
    ASSUME NEW c, NEW n, NEW C, InDays(c, n, C), C # {},
           NEW d, d = LeastDay(c), NEW e, e = NextEvent(c, d)
    PROVE  d \in 0 .. n - 1 /\ c.days[d] # << >> /\ IsLeast(e, C)
<1>1. DOMAIN c.days = 0 .. n - 1
  BY DEF InDays, Calendars
<1> DEFINE Best(f) ==
        /\ c.days[f] # << >>
        /\ \A g \in (0 .. n - 1) \ {f} :
              c.days[g] # << >> => Precedes(NextEvent(c, f), NextEvent(c, g))
<1>2. \E f \in 0 .. n - 1 : Best(f)
  <2>1. PICK x : IsLeast(x, C)
    BY DaysAre, LeastExists
  <2> DEFINE f == Hash(c, x.ts)
             y == NextEvent(c, f)
  <2>2. f \in 0 .. n - 1 /\ x \in Range(c.days[f])
    BY <2>1, DaysAre DEF IsLeast
  <2>3. c.days[f] # << >>
    BY <2>2, DayEmpty
  <2>4. y \in C /\ y \in Events /\ IsLeast(y, Range(c.days[f]))
    BY <2>2, <2>3, DayNext
  <2>5. x \in Events /\ x \in C
    BY <2>1, DaysAre DEF IsLeast
  <2> HIDE DEF f, y
  <2>6. y = x
    BY <2>1, <2>2, <2>4, <2>5, Order3 DEF IsLeast
  <2>7. ASSUME NEW g \in (0 .. n - 1) \ {f}, c.days[g] # << >>
        PROVE  Precedes(y, NextEvent(c, g))
    <3>1. NextEvent(c, g) \in C /\ Hash(c, NextEvent(c, g).ts) = g
      BY <2>7, DayNext
    <3>2. NextEvent(c, g) # x
      BY <2>7, <3>1 DEF f
    <3> QED
      BY <2>1, <2>6, <3>1, <3>2 DEF IsLeast
  <2>8. Best(f)
    BY <2>3, <2>7 DEF y
  <2> QED
    BY <2>2, <2>8
<1>3. d = CHOOSE f \in 0 .. n - 1 : Best(f)
  BY <1>1 DEF LeastDay
<1>4. d \in 0 .. n - 1 /\ Best(d)
  <2> HIDE DEF Best
  <2> QED
    BY <1>2, <1>3
<1>5. IsLeast(e, Range(c.days[d])) /\ e \in C /\ e \in Events
  BY <1>4, DayNext
<1>6. ASSUME NEW x \in C, x # e PROVE Precedes(e, x)
  <2> DEFINE g == Hash(c, x.ts)
             y == NextEvent(c, g)
  <2>1. g \in 0 .. n - 1 /\ x \in Range(c.days[g]) /\ x \in Events
    BY DaysAre
  <2>2. CASE g = d
    BY <1>5, <1>6, <2>1, <2>2 DEF IsLeast
  <2>3. CASE g # d
    <3>1. c.days[g] # << >>
      BY <2>1, DayEmpty
    <3>2. IsLeast(y, Range(c.days[g])) /\ y \in Events
      BY <2>1, <3>1, DayNext
    <3>3. Precedes(e, y)
      BY <1>4, <2>1, <2>3, <3>1
    <3>4. y = x \/ Precedes(y, x)
      BY <2>1, <3>2 DEF IsLeast
    <3> HIDE DEF y
    <3> QED
      BY <1>5, <2>1, <3>2, <3>3, <3>4, Order3
  <2> QED
    BY <2>2, <2>3
<1> QED
  BY <1>4, <1>5, <1>6 DEF IsLeast

\* k is c after event e of day d has been taken.
Taken(k, c, d, e) ==
    k = [c EXCEPT !.days = [c.days EXCEPT ![d] = Pop(c, d)],
                  !.lastPrio = e.ts,
                  !.lastBucket = (e.ts \div c.width) % c.nBuckets,
                  !.bucketTop = (e.ts \div c.width + 1) * c.width]

LEMMA NextTaken ==
    ASSUME NEW c, NEW n, NEW C, InDays(c, n, C), InSearch(c, C), C # {}
    PROVE  \E d \in 0 .. n - 1 :
               /\ c.days[d] # << >> /\ IsLeast(NextEvent(c, d), C)
               /\ CalendarPeekNext(c) = NextEvent(c, d)
               /\ Taken(DoRemoveNext(c), c, d, NextEvent(c, d))
<1>1. c.nBuckets = n /\ c \in Calendars(n)
  BY DEF InDays, Calendars
<1>2. CASE DueDays(c) # {}
  <2> DEFINE i == Min(DueDays(c))
             d == Day(c, i)
             e == NextEvent(c, d)
             t == Top(c, i)
  <2>1. /\ d \in 0 .. n - 1 /\ c.days[d] # << >> /\ IsLeast(e, C)
        /\ d = (e.ts \div c.width) % n /\ t = (e.ts \div c.width + 1) * c.width
    BY <1>2, DueLeast
  <2>2. CalendarPeekNext(c) = e
    BY <1>2 DEF CalendarPeekNext
  <2>3. DoRemoveNext(c) = [c EXCEPT !.days[d] = Pop(c, d), !.lastPrio = e.ts,
                                    !.lastBucket = d, !.bucketTop = t]
    BY <1>2 DEF DoRemoveNext
  <2> HIDE DEF i, d, e, t
  <2>4. Taken(DoRemoveNext(c), c, d, e)
    BY <1>1, <2>1, <2>3 DEF Taken
  <2> QED
    BY <2>1, <2>2, <2>4 DEF e
<1>3. CASE DueDays(c) = {}
  <2> DEFINE d == LeastDay(c)
             e == NextEvent(c, d)
  <2>1. d \in 0 .. n - 1 /\ c.days[d] # << >> /\ IsLeast(e, C)
    BY NoneDueLeast
  <2>2. CalendarPeekNext(c) = e
    BY <1>3 DEF CalendarPeekNext
  <2>3. DoRemoveNext(c) = [c EXCEPT !.days[d] = Pop(c, d), !.lastPrio = e.ts,
                                    !.lastBucket = Hash(c, e.ts),
                                    !.bucketTop = (e.ts \div c.width + 1) * c.width]
    BY <1>3 DEF DoRemoveNext
  <2> HIDE DEF d, e
  <2>4. Taken(DoRemoveNext(c), c, d, e)
    BY <1>1, <2>1, <2>3 DEF Taken, Hash
  <2> QED
    BY <2>1, <2>2, <2>4 DEF e
<1> QED
  BY <1>2, <1>3

\* What the removal of the next event does to a calendar
RemovesLeast(k, c, n, C, e) ==
    /\ e \in Events /\ IsLeast(e, C)
    /\ InDays(k, n, C \ {e}) /\ InSearch(k, C \ {e}) /\ k.lastPrio = e.ts
    /\ k.width = c.width /\ k.qSize = c.qSize /\ k.reverse = c.reverse

LEMMA DoRemoveNextIs ==
    ASSUME NEW c, NEW n, NEW C, InDays(c, n, C), InSearch(c, C), C # {}
    PROVE  RemovesLeast(DoRemoveNext(c), c, n, C, CalendarPeekNext(c))
<1>1. PICK d \in 0 .. n - 1 :
         /\ c.days[d] # << >> /\ IsLeast(NextEvent(c, d), C)
         /\ CalendarPeekNext(c) = NextEvent(c, d)
         /\ Taken(DoRemoveNext(c), c, d, NextEvent(c, d))
  BY NextTaken
<1> DEFINE e == NextEvent(c, d)
           k == DoRemoveNext(c)
           t == Pop(c, d)
           w == c.width
           q == e.ts \div w
<1>2. /\ e \in C /\ e \in Events /\ Hash(c, e.ts) = d
      /\ t \in Seq(Events) /\ Sorted(c.reverse, t) /\ Range(t) = Range(c.days[d]) \ {e}
  BY <1>1, DayNext
<1>3. /\ c \in Calendars(n) /\ c.nBuckets = n /\ n \in Nat \ {0} /\ w \in Nat \ {0}
      /\ DOMAIN c.days = 0 .. n - 1
  BY DEF InDays, Calendars
<1>4. e.ts \in Nat /\ q \in Nat /\ q % n \in 0 .. n - 1 /\ (q + 1) * w \in Nat
  <2>1. e.ts \in Nat
    BY <1>2 DEF Events
  <2>2. q \in Nat
    BY <1>3, <2>1, DivIs
  <2>3. n \in Nat \ {0} /\ w \in Nat
    BY <1>3
  <2> HIDE DEF q, e, w
  <2>4. q % n \in 0 .. n - 1
    BY ONLY <2>2, <2>3, ModIs
  <2>5. (q + 1) * w \in Nat
    BY ONLY <2>2, <2>3
  <2> QED
    BY ONLY <2>1, <2>2, <2>4, <2>5
<1>5. k = [c EXCEPT !.days = [c.days EXCEPT ![d] = t], !.lastPrio = e.ts,
                    !.lastBucket = q % n, !.bucketTop = (q + 1) * w]
  BY <1>1, <1>3 DEF Taken
<1>6. \A x \in C : Hash(c, x.ts) = d => x \in Range(c.days[d])
  BY DaysAre
<1>7. \A x \in Range(c.days[d]) : x \in C /\ Hash(c, x.ts) = d
  BY DaysAre DEF InDays
<1>8. \A x \in C \ {e} : x.ts \in Nat /\ Precedes(e, x)
  BY <1>1, DaysAre DEF IsLeast, Events
<1> HIDE DEF e, k, t, w, q
<1>9. /\ k \in Calendars(n) /\ k.days = [c.days EXCEPT ![d] = t] /\ k.lastPrio = e.ts
      /\ k.width = c.width /\ k.reverse = c.reverse /\ k.qSize = c.qSize /\ k.nBuckets = n
      /\ k.lastBucket = q % n /\ k.bucketTop = (q + 1) * w
  <2>1. q % n \in Nat
    BY <1>3, <1>4
  <2> QED
    BY <1>2, <1>3, <1>4, <1>5, <2>1 DEF Calendars
<1>10. \A x \in Range(t) : Hash(c, x.ts) = d
  BY <1>2, <1>7
<1>11. \A x : x \in C \ {e} <=> x \in Range(t) \/ (x \in C /\ Hash(c, x.ts) # d)
  BY <1>2, <1>6, <1>7
<1>12. InDays(k, n, C \ {e})
  BY <1>2, <1>9, <1>10, <1>11, DayChanged
<1>13. \A x \in C \ {e} : e.ts <= x.ts
  BY <1>4, <1>8 DEF Precedes
<1>14. InSearch(k, C \ {e})
  BY <1>9, <1>13 DEF InSearch, q, w
<1>15. CalendarPeekNext(c) = e /\ IsLeast(e, C)
  BY <1>1 DEF e
<1> QED
  BY <1>2, <1>9, <1>12, <1>14, <1>15 DEF RemovesLeast, k

---------------------------------------------------------------------------
(* Inserting all the events of a sequence                                  *)

\* The first j items of s
Part(s, j) == {s[i] : i \in 1 .. j}

IsFilling(f, c, s) ==
    f = [i \in 0 .. Len(s) |-> IF i = 0 THEN c ELSE DoInsert(f[i - 1], s[i])]

LEMMA InsertAllIs ==
    ASSUME NEW c, NEW n, NEW C, InDays(c, n, C), NEW s \in Seq(Events), Distinct(s),
           \A i \in 1 .. Len(s) : s[i] \notin C
    PROVE  InDays(InsertAll(c, s), n, C \cup Range(s)) /\ Rest(InsertAll(c, s)) = Rest(c)
<1> DEFINE l == Len(s)
           T == [j \in 0 .. l |->
                   {k \in Calendars(n) : InDays(k, n, C \cup Part(s, j)) /\ Rest(k) = Rest(c)}]
           step == [j \in 1 .. l |-> [k \in T[j - 1] |-> DoInsert(k, s[j])]]
<1>1. l \in Nat /\ \A j \in 1 .. l : s[j] \in Events /\ s[j] \notin C
  OBVIOUS
<1>2. c \in T[0]
  <2>1. C \cup Part(s, 0) = C
    BY DEF Part
  <2>2. c \in Calendars(n) /\ 0 \in 0 .. l
    BY <1>1 DEF InDays
  <2> QED
    BY <2>1, <2>2
<1>3. ASSUME NEW j \in 1 .. l, NEW k \in T[j - 1] PROVE DoInsert(k, s[j]) \in T[j]
  <2>1. j - 1 \in 0 .. l /\ j \in 0 .. l
    BY <1>1
  <2> DEFINE D == C \cup Part(s, j - 1)
  <2>2. InDays(k, n, D) /\ Rest(k) = Rest(c)
    BY <2>1
  <2>3. s[j] \in Events /\ s[j] \notin D
    <3>1. \A i \in 1 .. j - 1 : i \in 1 .. l /\ i # j
      BY <1>1
    <3> QED
      BY <1>1, <3>1 DEF Part, Distinct
  <2>4. D \cup {s[j]} = C \cup Part(s, j)
    <3>1. \A i \in 1 .. j : i \in 1 .. j - 1 \/ i = j
      OBVIOUS
    <3>2. \A i \in 1 .. j - 1 : i \in 1 .. j
      OBVIOUS
    <3>3. j \in 1 .. j
      OBVIOUS
    <3> QED
      BY <3>1, <3>2, <3>3 DEF Part
  <2> HIDE DEF D
  <2>5. InDays(DoInsert(k, s[j]), n, D \cup {s[j]}) /\ Rest(DoInsert(k, s[j])) = Rest(k)
    BY <2>2, <2>3, DoInsertIs
  <2>6. DoInsert(k, s[j]) \in Calendars(n)
    BY <2>5 DEF InDays
  <2> QED
    BY <2>1, <2>2, <2>4, <2>5, <2>6
<1>4. \A j \in 1 .. l : \A k \in T[j - 1] : step[j][k] = DoInsert(k, s[j])
  OBVIOUS
<1>5. \A k \in T[l] : InDays(k, n, C \cup Part(s, l)) /\ Rest(k) = Rest(c)
  BY <1>1
<1> HIDE DEF T, step, l
<1>6. \A j \in 1 .. l : \A k \in T[j - 1] : step[j][k] \in T[j]
  BY <1>3, <1>4
<1>7. PICK f : Follows(f, l, c, step) /\ \A j \in 0 .. l : f[j] \in T[j]
  BY <1>1, <1>2, <1>6, Recursion
<1>8. IsFilling(f, c, s)
  <2>1. f = [j \in 0 .. l |-> IF j = 0 THEN c ELSE step[j][f[j - 1]]]
    BY <1>7 DEF Follows
  <2>2. ASSUME NEW j \in 0 .. l, j # 0 PROVE step[j][f[j - 1]] = DoInsert(f[j - 1], s[j])
    <3>1. j \in 1 .. l /\ j - 1 \in 0 .. l
      BY <1>1, <2>2
    <3> QED
      BY <1>4, <1>7, <3>1
  <2> QED
    BY <2>1, <2>2 DEF IsFilling, l
<1>9. PICK g : IsFilling(g, c, s) /\ InsertAll(c, s) = g[l]
  BY <1>8 DEF InsertAll, IsFilling, l
<1>10. g[0] = c /\ \A j \in 1 .. l : g[j] = DoInsert(g[j - 1], s[j])
  <2>1. \A j \in 0 .. l : g[j] = IF j = 0 THEN c ELSE DoInsert(g[j - 1], s[j])
    BY <1>9 DEF IsFilling, l
  <2> QED
    BY <1>1, <2>1
<1>11. \A j \in 0 .. l : g[j] \in T[j]
  <2>1. g[0] \in T[0]
    BY <1>2, <1>10
  <2>2. \A j \in 1 .. l : g[j - 1] \in T[j - 1] => g[j] \in T[j]
    BY <1>3, <1>10
  <2> QED
    BY ONLY <1>1, <2>1, <2>2, Along
<1>12. InDays(g[l], n, C \cup Part(s, l)) /\ Rest(g[l]) = Rest(c)
  <2>1. l \in 0 .. l
    BY <1>1
  <2>2. g[l] \in T[l]
    BY <1>11, <2>1
  <2> QED
    BY ONLY <1>5, <2>2
<1>13. Part(s, l) = Range(s)
  BY RangeIs DEF Part, l
<1> QED
  BY <1>9, <1>12, <1>13

---------------------------------------------------------------------------
(* Taking the first events out of a calendar                               *)

IsDraining(f, c) ==
    f = [i \in 0 .. NSamples(c) |-> IF i = 0 THEN c ELSE DoRemoveNext(f[i - 1])]

\* k is c without j of its events.
Reached(k, c, n, C, j) ==
    LET D == CalendarContents(k)
    IN  /\ IsFiniteSet(D) /\ Cardinality(D) = Cardinality(C) - j
        /\ InDays(k, n, D) /\ InSearch(k, D)
        /\ k.width = c.width /\ k.qSize = c.qSize /\ k.reverse = c.reverse

LEMMA ReachedNext ==
    ASSUME NEW c, NEW n, NEW C, IsFiniteSet(C), NEW j \in Nat, j < Cardinality(C),
           NEW k, Reached(k, c, n, C, j)
    PROVE  /\ Reached(DoRemoveNext(k), c, n, C, j + 1)
           /\ CalendarPeekNext(k) \in CalendarContents(k) /\ CalendarPeekNext(k) \in Events
           /\ CalendarContents(DoRemoveNext(k)) = CalendarContents(k) \ {CalendarPeekNext(k)}
<1> DEFINE D == CalendarContents(k)
           e == CalendarPeekNext(k)
           m == DoRemoveNext(k)
<1>1. /\ IsFiniteSet(D) /\ Cardinality(D) = Cardinality(C) - j
      /\ InDays(k, n, D) /\ InSearch(k, D)
      /\ k.width = c.width /\ k.qSize = c.qSize /\ k.reverse = c.reverse
  BY DEF Reached
<1> HIDE DEF D, e, m
<1>2. Cardinality(C) \in Nat
  BY FS_CardinalityType
<1>3. D # {}
  BY <1>1, <1>2, FS_EmptySet
<1>4. RemovesLeast(m, k, n, D, e)
  BY <1>1, <1>3, DoRemoveNextIs DEF e, m
<1>5. /\ e \in Events /\ e \in D /\ InDays(m, n, D \ {e}) /\ InSearch(m, D \ {e})
      /\ m.width = c.width /\ m.qSize = c.qSize /\ m.reverse = c.reverse
  BY <1>1, <1>4 DEF RemovesLeast, IsLeast
<1>6. CalendarContents(m) = D \ {e}
  BY <1>5 DEF InDays
<1>7. IsFiniteSet(D \ {e}) /\ Cardinality(D \ {e}) = Cardinality(D) - 1
  BY <1>1, <1>5, FS_RemoveElement
<1>8. Cardinality(D \ {e}) = Cardinality(C) - (j + 1)
  BY <1>1, <1>2, <1>7
<1>9. Reached(m, c, n, C, j + 1)
  BY <1>5, <1>6, <1>7, <1>8 DEF Reached
<1> QED
  BY <1>5, <1>6, <1>9 DEF D, e, m

LEMMA NSamplesIs ==
    ASSUME NEW c, c.qSize \in Nat
    PROVE  /\ NSamples(c) \in Nat /\ NSamples(c) <= c.qSize
           /\ c.qSize >= 2 => NSamples(c) >= 2
<1>1. CASE c.qSize <= 5
  BY <1>1 DEF NSamples
<1>2. CASE ~(c.qSize <= 5)
  <2> DEFINE q == c.qSize
             S == {5 + q \div 10, 25}
  <2>1. q \in Nat /\ q \div 10 \in Nat /\ 5 + q \div 10 <= q /\ q > 5
    BY <1>2
  <2>2. S \subseteq Nat /\ S # {}
    BY <2>1
  <2>3. Min(S) \in S /\ \A i \in S : Min(S) <= i
    BY <2>2, MinIs
  <2>4. Min(S) <= 5 + q \div 10 /\ (Min(S) = 5 + q \div 10 \/ Min(S) = 25)
    BY <2>3
  <2>5. NSamples(c) = Min(S)
    BY <1>2 DEF NSamples
  <2> HIDE DEF S, q
  <2> QED
    BY <2>1, <2>4, <2>5 DEF q
<1> QED
  BY <1>1, <1>2

LEMMA DrainedIs ==
    ASSUME NEW c, NEW n, NEW C, InDays(c, n, C), InSearch(c, C),
           IsFiniteSet(C), c.qSize = Cardinality(C)
    PROVE  /\ Drained(c)[0] = c
           /\ \A j \in 1 .. NSamples(c) : Drained(c)[j] = DoRemoveNext(Drained(c)[j - 1])
           /\ \A j \in 0 .. NSamples(c) : Reached(Drained(c)[j], c, n, C, j)
<1> DEFINE l == NSamples(c)
           T == [j \in 0 .. l |-> {k \in Calendars(n) : Reached(k, c, n, C, j)}]
           step == [j \in 1 .. l |-> [k \in T[j - 1] |-> DoRemoveNext(k)]]
<1>1. l \in Nat /\ l <= Cardinality(C) /\ Cardinality(C) \in Nat
  BY FS_CardinalityType, NSamplesIs
<1>2. c \in T[0]
  <2>1. CalendarContents(c) = C /\ c \in Calendars(n)
    BY DEF InDays
  <2>2. Reached(c, c, n, C, 0)
    BY <1>1, <2>1 DEF Reached
  <2>3. 0 \in 0 .. l
    BY <1>1
  <2> QED
    BY <2>1, <2>2, <2>3
<1>3. ASSUME NEW j \in 1 .. l, NEW k \in T[j - 1] PROVE DoRemoveNext(k) \in T[j]
  <2>1. j - 1 \in 0 .. l /\ j \in 0 .. l /\ j - 1 \in Nat /\ j - 1 < Cardinality(C)
        /\ (j - 1) + 1 = j
    BY <1>1
  <2>2. Reached(k, c, n, C, j - 1)
    BY <2>1
  <2>3. Reached(DoRemoveNext(k), c, n, C, (j - 1) + 1)
    BY ONLY <2>1, <2>2, ReachedNext, IsFiniteSet(C)
  <2>4. DoRemoveNext(k) \in Calendars(n)
    BY <2>3 DEF Reached, InDays
  <2> QED
    BY <2>1, <2>3, <2>4
<1>4. \A j \in 1 .. l : \A k \in T[j - 1] : step[j][k] = DoRemoveNext(k)
  OBVIOUS
<1>5. \A j \in 0 .. l : \A k \in T[j] : Reached(k, c, n, C, j)
  OBVIOUS
<1> HIDE DEF T, step, l
<1>6. \A j \in 1 .. l : \A k \in T[j - 1] : step[j][k] \in T[j]
  BY <1>3, <1>4
<1>7. PICK f : Follows(f, l, c, step) /\ \A j \in 0 .. l : f[j] \in T[j]
  BY <1>1, <1>2, <1>6, Recursion
<1>8. IsDraining(f, c)
  <2>1. f = [j \in 0 .. l |-> IF j = 0 THEN c ELSE step[j][f[j - 1]]]
    BY <1>7 DEF Follows
  <2>2. ASSUME NEW j \in 0 .. l, j # 0 PROVE step[j][f[j - 1]] = DoRemoveNext(f[j - 1])
    <3>1. j \in 1 .. l /\ j - 1 \in 0 .. l
      BY <1>1, <2>2
    <3> QED
      BY <1>4, <1>7, <3>1
  <2> QED
    BY <2>1, <2>2 DEF IsDraining, l
<1>9. PICK g : IsDraining(g, c) /\ Drained(c) = g
  BY <1>8 DEF Drained, IsDraining
<1>10. g[0] = c /\ \A j \in 1 .. l : g[j] = DoRemoveNext(g[j - 1])
  <2>1. \A j \in 0 .. l : g[j] = IF j = 0 THEN c ELSE DoRemoveNext(g[j - 1])
    BY <1>9 DEF IsDraining, l
  <2> QED
    BY <1>1, <2>1
<1>11. \A j \in 0 .. l : g[j] \in T[j]
  <2>1. g[0] \in T[0]
    BY <1>2, <1>10
  <2>2. \A j \in 1 .. l : g[j - 1] \in T[j - 1] => g[j] \in T[j]
    BY <1>3, <1>10
  <2> QED
    BY ONLY <1>1, <2>1, <2>2, Along
<1> QED
  BY <1>5, <1>9, <1>10, <1>11 DEF l

\* The samples are different events, and all that the calendar lacks then.
LEMMA SamplesAre ==
    ASSUME NEW c, NEW n, NEW C, InDays(c, n, C), InSearch(c, C),
           IsFiniteSet(C), c.qSize = Cardinality(C),
           NEW s, s = Samples(c), NEW k, k = Drained(c)[NSamples(c)],
           NEW D, D = CalendarContents(k)
    PROVE  /\ s \in Seq(Events) /\ Len(s) = NSamples(c) /\ Distinct(s)
           /\ D \cap Range(s) = {} /\ D \cup Range(s) = C /\ InDays(k, n, D)
           /\ k.width = c.width /\ k.qSize = c.qSize /\ k.reverse = c.reverse
<1> DEFINE l == NSamples(c)
           L == Drained(c)
           R(j) == CalendarContents(L[j])
<1>1. l \in Nat /\ l <= Cardinality(C) /\ Cardinality(C) \in Nat
  BY FS_CardinalityType, NSamplesIs
<1>2. /\ L[0] = c
      /\ \A j \in 1 .. l : L[j] = DoRemoveNext(L[j - 1])
      /\ \A j \in 0 .. l : Reached(L[j], c, n, C, j)
  BY DrainedIs
<1>3. s = [j \in 1 .. l |-> CalendarPeekNext(L[j - 1])]
  BY DEF Samples
<1>4. R(0) = C /\ D = R(l)
  BY <1>2 DEF InDays
<1> HIDE DEF l, L
<1>5. ASSUME NEW j \in 1 .. l
      PROVE  s[j] \in Events /\ s[j] \in R(j - 1) /\ R(j) = R(j - 1) \ {s[j]}
  <2>1. j - 1 \in 0 .. l /\ j - 1 \in Nat /\ j - 1 < Cardinality(C)
    BY <1>1
  <2>2. s[j] = CalendarPeekNext(L[j - 1]) /\ L[j] = DoRemoveNext(L[j - 1])
    BY <1>2, <1>3
  <2>3. Reached(L[j - 1], c, n, C, j - 1)
    BY <1>2, <2>1
  <2> DEFINE m == L[j - 1]
  <2>5. Reached(m, c, n, C, j - 1)
    BY <2>3
  <2> HIDE DEF m
  <2>4. /\ CalendarPeekNext(m) \in CalendarContents(m) /\ CalendarPeekNext(m) \in Events
        /\ CalendarContents(DoRemoveNext(m)) = CalendarContents(m) \ {CalendarPeekNext(m)}
    BY <2>1, <2>5, ReachedNext
  <2> QED
    BY <2>2, <2>4 DEF m
<1> HIDE DEF R
<1> DEFINE S == {j \in Nat : j <= l => (R(j) \cap Part(s, j) = {} /\ R(j) \cup Part(s, j) = C)}
<1>6. 0 \in S
  BY <1>4 DEF Part
<1>7. ASSUME NEW j \in Nat, j \in S PROVE j + 1 \in S
  <2> SUFFICES ASSUME j + 1 <= l
               PROVE  R(j + 1) \cap Part(s, j + 1) = {} /\ R(j + 1) \cup Part(s, j + 1) = C
    OBVIOUS
  <2>1. j + 1 \in 1 .. l /\ (j + 1) - 1 = j /\ j <= l
    BY <1>1
  <2>2. s[j + 1] \in R(j) /\ R(j + 1) = R(j) \ {s[j + 1]}
    BY <1>5, <2>1
  <2>3. Part(s, j + 1) = Part(s, j) \cup {s[j + 1]}
    <3>1. \A i \in 1 .. j + 1 : i \in 1 .. j \/ i = j + 1
      OBVIOUS
    <3>2. \A i \in 1 .. j : i \in 1 .. j + 1
      OBVIOUS
    <3>3. j + 1 \in 1 .. j + 1
      OBVIOUS
    <3> QED
      BY <3>1, <3>2, <3>3 DEF Part
  <2>4. R(j) \cap Part(s, j) = {} /\ R(j) \cup Part(s, j) = C
    BY <1>7, <2>1
  <2> QED
    BY <2>2, <2>3, <2>4
<1> HIDE DEF S
<1>8. Nat \subseteq S
  BY <1>6, <1>7, NatSet
<1>9. \A j \in 0 .. l : R(j) \cap Part(s, j) = {} /\ R(j) \cup Part(s, j) = C
  BY <1>1, <1>8 DEF S
<1>10. s \in Seq(Events) /\ Len(s) = l
  <2>1. s \in [1 .. l -> Events]
    BY <1>3, <1>5
  <2>2. s \in Seq(Events)
    BY <1>1, <2>1, SeqDef
  <2> QED
    BY <1>1, <2>1, <2>2, LenProperties
<1>11. Part(s, l) = Range(s)
  BY <1>10, RangeIs DEF Part
<1>12. D \cap Range(s) = {} /\ D \cup Range(s) = C
  BY <1>1, <1>4, <1>9, <1>11
<1>13. Distinct(s)
  <2>1. ASSUME NEW i \in 1 .. l, NEW j \in 1 .. l, i < j PROVE s[i] # s[j]
    <3>1. j - 1 \in 0 .. l /\ i \in 1 .. j - 1
      BY <1>1, <2>1
    <3>2. s[i] \in Part(s, j - 1)
      BY <3>1 DEF Part
    <3> QED
      BY <1>5, <1>9, <3>1, <3>2
  <2>2. ASSUME NEW i \in 1 .. l, NEW j \in 1 .. l, s[i] = s[j] PROVE i = j
    <3>1. ~(i < j) /\ ~(j < i)
      BY <2>1, <2>2
    <3> QED
      BY <1>1, <3>1
  <2> QED
    BY <1>10, <2>2 DEF Distinct
<1>14. Reached(k, c, n, C, l)
  BY <1>1, <1>2 DEF L, l
<1> QED
  BY <1>10, <1>12, <1>13, <1>14 DEF Reached, l

LEMMA SameDays ==
    ASSUME NEW c, NEW n, NEW C, InDays(c, n, C), NEW k \in Calendars(n),
           k.days = c.days, k.width = c.width, k.reverse = c.reverse
    PROVE  InDays(k, n, C)
<1>1. k.nBuckets = c.nBuckets
  BY DEF InDays, Calendars
<1>2. CalendarContents(k) = CalendarContents(c) /\ \A ts : Hash(k, ts) = Hash(c, ts)
  BY <1>1 DEF CalendarContents, Hash
<1> QED
  BY <1>2 DEF InDays

\* Sampling puts everything back where it was.
LEMMA SampledIs ==
    ASSUME NEW c, NEW n, NEW C, InDays(c, n, C), InSearch(c, C),
           IsFiniteSet(C), c.qSize = Cardinality(C)
    PROVE  InDays(Sampled(c), n, C) /\ Rest(Sampled(c)) = Rest(c)
<1> DEFINE s == Samples(c)
           k == Drained(c)[NSamples(c)]
           D == CalendarContents(k)
           m == InsertAll(k, s)
           r == Sampled(c)
<1>1. /\ s \in Seq(Events) /\ Distinct(s)
      /\ D \cap Range(s) = {} /\ D \cup Range(s) = C /\ InDays(k, n, D)
      /\ k.width = c.width /\ k.qSize = c.qSize /\ k.reverse = c.reverse
  BY SamplesAre
<1>2. r = [m EXCEPT !.lastBucket = c.lastBucket, !.bucketTop = c.bucketTop,
                    !.lastPrio = c.lastPrio]
  BY DEF Sampled
<1>0. c \in Calendars(n)
  BY DEF InDays
<1> HIDE DEF s, k, D, r
<1>3. \A i \in 1 .. Len(s) : s[i] \notin D
  BY <1>1, RangeIs
<1>4. InDays(m, n, C) /\ Rest(m) = Rest(k)
  <2>1. InDays(m, n, D \cup Range(s)) /\ Rest(m) = Rest(k)
    BY <1>1, <1>3, InsertAllIs
  <2> QED
    BY <1>1, <2>1
<1> HIDE DEF m
<1>5. m.width = c.width /\ m.qSize = c.qSize /\ m.reverse = c.reverse
  BY <1>1, <1>4 DEF Rest
<1>6. m \in Calendars(n)
  BY <1>4 DEF InDays
<1>7. /\ r \in Calendars(n) /\ r.days = m.days /\ r.width = m.width /\ r.reverse = m.reverse
      /\ r.qSize = m.qSize /\ r.lastBucket = c.lastBucket /\ r.bucketTop = c.bucketTop
      /\ r.lastPrio = c.lastPrio
  BY <1>0, <1>2, <1>6 DEF Calendars
<1>8. InDays(r, n, C)
  BY ONLY <1>4, <1>7, SameDays
<1> QED
  BY <1>5, <1>7, <1>8 DEF Rest, r

IsSum(f, s) ==
    f = [i \in 0 .. Len(s) |-> IF i = 0 THEN 0 ELSE f[i - 1] + s[i]]

LEMMA TotalIs ==
    ASSUME NEW s \in Seq(Int)
    PROVE  Total(s) \in Int
<1> DEFINE l == Len(s)
           T == [j \in 0 .. l |-> Int]
           step == [j \in 1 .. l |-> [x \in Int |-> x + s[j]]]
<1>1. l \in Nat /\ \A j \in 1 .. l : s[j] \in Int
  OBVIOUS
<1>2. 0 \in T[0]
  BY <1>1
<1>3. \A j \in 1 .. l : \A x \in Int : step[j][x] = x + s[j]
  OBVIOUS
<1>4. \A j \in 0 .. l : T[j] = Int
  OBVIOUS
<1> HIDE DEF T, step, l
<1>5. \A j \in 1 .. l : j \in 0 .. l /\ j - 1 \in 0 .. l
  BY <1>1
<1>6. \A j \in 1 .. l : \A x \in T[j - 1] : step[j][x] \in T[j]
  <2> SUFFICES ASSUME NEW j \in 1 .. l, NEW x \in T[j - 1] PROVE step[j][x] \in T[j]
    OBVIOUS
  <2>1. x \in Int /\ T[j] = Int
    BY <1>4, <1>5
  <2>2. step[j][x] = x + s[j]
    BY <1>3, <2>1
  <2> QED
    BY <1>1, <2>1, <2>2
<1>7. PICK f : Follows(f, l, 0, step) /\ \A j \in 0 .. l : f[j] \in T[j]
  BY <1>1, <1>2, <1>6, Recursion
<1>8. IsSum(f, s)
  <2>1. f = [j \in 0 .. l |-> IF j = 0 THEN 0 ELSE step[j][f[j - 1]]]
    BY <1>7 DEF Follows
  <2>2. ASSUME NEW j \in 0 .. l, j # 0 PROVE step[j][f[j - 1]] = f[j - 1] + s[j]
    <3>1. j \in 1 .. l /\ j - 1 \in 0 .. l
      BY <1>1, <2>2
    <3> QED
      BY <1>3, <1>4, <1>7, <3>1
  <2> QED
    BY <2>1, <2>2 DEF IsSum, l
<1>9. PICK g : IsSum(g, s) /\ Total(s) = g[l]
  BY <1>8 DEF Total, IsSum, l
<1>10. \A j \in 0 .. l : g[j] = IF j = 0 THEN 0 ELSE g[j - 1] + s[j]
  BY <1>9 DEF IsSum, l
<1>11. \A j \in 0 .. l : g[j] \in T[j]
  <2>1. g[0] \in T[0]
    BY <1>1, <1>4, <1>10
  <2>2. \A j \in 1 .. l : g[j - 1] \in T[j - 1] => g[j] \in T[j]
    BY <1>1, <1>4, <1>5, <1>10
  <2> QED
    BY ONLY <1>1, <2>1, <2>2, Along
<1>12. l \in 0 .. l
  BY <1>1
<1> QED
  BY <1>4, <1>9, <1>11, <1>12

\* The new width is never 0, whatever the samples are.
LEMMA WidthIs ==
    ASSUME NEW c, NEW n, NEW C, InDays(c, n, C), InSearch(c, C),
           IsFiniteSet(C), c.qSize = Cardinality(C)
    PROVE  CalculateNewWidth(c) \in Nat \ {0}
<1> DEFINE s == Samples(c)
           l == NSamples(c)
           ts == [i \in 1 .. l |-> s[i].ts]
           diffs == [i \in 1 .. l - 1 |-> ts[i + 1] - ts[i]]
           twiceAvg == (Total(diffs) \div (l - 1)) * 2
           near == [i \in DOMAIN diffs |-> IF diffs[i] <= twiceAvg THEN diffs[i] ELSE 0]
<1>1. CASE c.qSize < 2
  BY <1>1 DEF CalculateNewWidth
<1>2. CASE ~(c.qSize < 2)
  <2>1. CalculateNewWidth(c) = Max({1, 3 * Total(near)})
    BY <1>2 DEF CalculateNewWidth
  <2>2. l \in Nat /\ l >= 2
    BY <1>2, FS_CardinalityType, NSamplesIs
  <2>3. s \in Seq(Events) /\ Len(s) = l
    BY SamplesAre
  <2> HIDE DEF l, s
  <2>4. \A i \in 1 .. l : ts[i] \in Nat
    <3>1. \A i \in 1 .. l : s[i] \in Events
      BY <2>3
    <3> QED
      BY <3>1 DEF Events
  <2> HIDE DEF ts
  <2>5. \A i \in 1 .. l - 1 : ts[i + 1] - ts[i] \in Int
    <3>1. \A i \in 1 .. l - 1 : i \in 1 .. l /\ i + 1 \in 1 .. l
      BY <2>2
    <3> QED
      BY <2>4, <3>1
  <2>6. diffs \in [1 .. l - 1 -> Int] /\ DOMAIN diffs = 1 .. l - 1
    BY <2>5
  <2>7. l - 1 \in Nat \ {0}
    BY <2>2
  <2> HIDE DEF diffs
  <2>8. diffs \in Seq(Int)
    BY <2>6, <2>7, SeqDef
  <2>9. Total(diffs) \in Int
    BY <2>8, TotalIs
  <2> DEFINE t == Total(diffs)
             m == l - 1
  <2> HIDE DEF t, m
  <2>11. near \in [1 .. l - 1 -> Int]
    BY <2>6
  <2> HIDE DEF near
  <2>12. near \in Seq(Int)
    BY <2>7, <2>11, SeqDef
  <2>13. Total(near) \in Int
    BY <2>12, TotalIs
  <2> DEFINE x == 3 * Total(near)
             M == Max({1, x})
  <2>14. x \in Int
    BY <2>13
  <2>15. M = CHOOSE a \in {1, x} : \A b \in {1, x} : a >= b
    BY DEF Max
  <2> HIDE DEF x, M
  <2>16. \E a \in {1, x} : \A b \in {1, x} : a >= b
    BY <2>14
  <2>17. M \in {1, x} /\ \A b \in {1, x} : M >= b
    BY <2>15, <2>16
  <2> QED
    BY <2>1, <2>14, <2>17 DEF x, M
<1> QED
  BY <1>1, <1>2

LEMMA NewCalendarIs ==
    ASSUME NEW n \in Nat \ {0}, NEW w \in Nat \ {0}, NEW p \in Nat, NEW q \in Nat,
           NEW r \in BOOLEAN, NEW c, c = NewCalendar(n, w, p, q, r)
    PROVE  /\ InDays(c, n, {}) /\ InSearch(c, {})
           /\ c.width = w /\ c.lastPrio = p /\ c.qSize = q /\ c.reverse = r
<1> DEFINE x == p \div w
<1>1. x \in Nat
  BY DivIs
<1>2. c = [days |-> [d \in 0 .. n - 1 |-> << >>], nBuckets |-> n, width |-> w,
           lastPrio |-> p, lastBucket |-> x % n, bucketTop |-> (x + 1) * w,
           qSize |-> q, reverse |-> r]
  BY DEF NewCalendar
<1> HIDE DEF x
<1>3. x % n \in Nat
  <2>1. x % n \in 0 .. n - 1
    BY <1>1, ModIs
  <2> QED
    BY <2>1
<1>4. (x + 1) * w \in Nat
  BY <1>1
<1>5. c \in Calendars(n) /\ c.days = [d \in 0 .. n - 1 |-> << >>]
  BY <1>2, <1>3, <1>4 DEF Calendars
<1>6. \A d \in 0 .. n - 1 : c.days[d] = << >> /\ Range(c.days[d]) = {}
  BY <1>5 DEF Range
<1>7. DOMAIN c.days = 0 .. n - 1
  BY <1>5
<1>8. CalendarContents(c) = {}
  <2>1. CalendarContents(c) = UNION {Range(c.days[d]) : d \in 0 .. n - 1}
    BY <1>7 DEF CalendarContents
  <2>2. \A e : e \in CalendarContents(c) <=> \E d \in 0 .. n - 1 : e \in Range(c.days[d])
    BY <2>1
  <2> QED
    BY <1>6, <2>2
<1>9. \A d \in 0 .. n - 1 : Sorted(c.reverse, c.days[d])
  BY <1>6 DEF Sorted
<1>10. InDays(c, n, {})
  BY <1>5, <1>6, <1>8, <1>9 DEF InDays
<1>11. /\ c.width = w /\ c.lastPrio = p /\ c.qSize = q /\ c.reverse = r /\ c.nBuckets = n
       /\ c.lastBucket = x % n /\ c.bucketTop = (x + 1) * w
  BY <1>2
<1>12. InSearch(c, {})
  BY <1>11 DEF InSearch, x
<1> QED
  BY <1>10, <1>11, <1>12

---------------------------------------------------------------------------
(* Resizing                                                                *)

\* The events of the first j days of c
Until(c, j) == UNION {Range(c.days[d]) : d \in 0 .. j - 1}

IsRefilling(f, new, old) ==
    f = [i \in 0 .. old.nBuckets |->
            IF i = 0 THEN new ELSE InsertAll(f[i - 1], old.days[i - 1])]

LEMMA SortedDistinct ==
    ASSUME NEW r \in BOOLEAN, NEW s \in Seq(Events), Sorted(r, s)
    PROVE  Distinct(s)
<1> SUFFICES ASSUME NEW i \in 1 .. Len(s), NEW j \in 1 .. Len(s), s[i] = s[j], i # j
             PROVE  FALSE
  BY DEF Distinct
<1>1. i \in DOMAIN s /\ j \in DOMAIN s /\ s[i] \in Events
  OBVIOUS
<1>2. i < j \/ j < i
  OBVIOUS
<1>3. Before(r, s[i], s[i])
  BY <1>1, <1>2 DEF Sorted
<1> QED
  BY <1>1, <1>3, Order3 DEF Before

LEMMA RefilledIs ==
    ASSUME NEW new, NEW m, InDays(new, m, {}), NEW old, NEW n, NEW C, InDays(old, n, C)
    PROVE  InDays(Refilled(new, old), m, C) /\ Rest(Refilled(new, old)) = Rest(new)
<1> DEFINE T == [j \in 0 .. n |->
                   {k \in Calendars(m) : InDays(k, m, Until(old, j)) /\ Rest(k) = Rest(new)}]
           step == [j \in 1 .. n |-> [k \in T[j - 1] |-> InsertAll(k, old.days[j - 1])]]
<1>1. n \in Nat /\ old.nBuckets = n /\ old.reverse \in BOOLEAN
  BY DEF InDays, Calendars
<1>2. new \in T[0]
  <2>1. Until(old, 0) = {}
    BY DEF Until
  <2>2. new \in Calendars(m) /\ 0 \in 0 .. n
    BY <1>1 DEF InDays
  <2> QED
    BY <2>1, <2>2
<1>3. ASSUME NEW j \in 1 .. n, NEW k \in T[j - 1]
      PROVE  InsertAll(k, old.days[j - 1]) \in T[j]
  <2>1. j - 1 \in 0 .. n /\ j \in 0 .. n /\ j - 1 \in 0 .. n - 1
    BY <1>1
  <2> DEFINE s == old.days[j - 1]
             D == Until(old, j - 1)
  <2>2. InDays(k, m, D) /\ Rest(k) = Rest(new)
    BY <2>1
  <2>3. s \in Seq(Events) /\ Sorted(old.reverse, s) /\ \A e \in Range(s) : Hash(old, e.ts) = j - 1
    BY <2>1, DaysAre DEF InDays
  <2>4. \A d \in 0 .. j - 2 : \A e \in Range(old.days[d]) : Hash(old, e.ts) = d
    BY <1>1 DEF InDays
  <2>5. \A e : e \in D <=> \E d \in 0 .. j - 2 : e \in Range(old.days[d])
    BY DEF Until
  <2> DEFINE E == Until(old, j)
  <2>6. \A e : e \in E <=> \E d \in 0 .. j - 1 : e \in Range(old.days[d])
    BY DEF Until
  <2>7. D \cup Range(s) = E
    <3>1. \A d \in 0 .. j - 1 : d \in 0 .. j - 2 \/ d = j - 1
      OBVIOUS
    <3>2. (\A d \in 0 .. j - 2 : d \in 0 .. j - 1) /\ j - 1 \in 0 .. j - 1
      OBVIOUS
    <3> HIDE DEF D, E
    <3> QED
      BY <2>5, <2>6, <3>1, <3>2
  <2> HIDE DEF D, E
  <2>8. \A e \in Range(s) : e \notin D
    <3>1. \A d \in 0 .. j - 2 : d # j - 1
      OBVIOUS
    <3> QED
      BY <2>3, <2>4, <2>5, <3>1
  <2> HIDE DEF s
  <2>9. \A i \in 1 .. Len(s) : s[i] \notin D
    BY <2>3, <2>8, RangeIs
  <2>10. Distinct(s)
    BY <1>1, <2>3, SortedDistinct
  <2>11. InDays(InsertAll(k, s), m, D \cup Range(s)) /\ Rest(InsertAll(k, s)) = Rest(k)
    BY <2>2, <2>3, <2>9, <2>10, InsertAllIs
  <2>12. InsertAll(k, s) \in Calendars(m)
    BY <2>11 DEF InDays
  <2> QED
    BY <2>1, <2>2, <2>7, <2>11, <2>12 DEF s, E
<1>4. \A j \in 1 .. n : \A k \in T[j - 1] : step[j][k] = InsertAll(k, old.days[j - 1])
  OBVIOUS
<1>5. \A k \in T[n] : InDays(k, m, Until(old, n)) /\ Rest(k) = Rest(new)
  BY <1>1
<1> HIDE DEF T, step
<1>6. \A j \in 1 .. n : \A k \in T[j - 1] : step[j][k] \in T[j]
  BY <1>3, <1>4
<1>7. PICK f : Follows(f, n, new, step) /\ \A j \in 0 .. n : f[j] \in T[j]
  BY <1>1, <1>2, <1>6, Recursion
<1>8. IsRefilling(f, new, old)
  <2>1. f = [j \in 0 .. n |-> IF j = 0 THEN new ELSE step[j][f[j - 1]]]
    BY <1>7 DEF Follows
  <2>2. ASSUME NEW j \in 0 .. n, j # 0 PROVE step[j][f[j - 1]] = InsertAll(f[j - 1], old.days[j - 1])
    <3>1. j \in 1 .. n /\ j - 1 \in 0 .. n
      BY <1>1, <2>2
    <3> QED
      BY <1>4, <1>7, <3>1
  <2> QED
    BY <1>1, <2>1, <2>2 DEF IsRefilling
<1>9. PICK g : IsRefilling(g, new, old) /\ Refilled(new, old) = g[n]
  BY <1>1, <1>8 DEF Refilled, IsRefilling
<1>10. g[0] = new /\ \A j \in 1 .. n : g[j] = InsertAll(g[j - 1], old.days[j - 1])
  <2>1. \A j \in 0 .. n : g[j] = IF j = 0 THEN new ELSE InsertAll(g[j - 1], old.days[j - 1])
    BY <1>1, <1>9 DEF IsRefilling
  <2> QED
    BY <1>1, <2>1
<1>11. \A j \in 0 .. n : g[j] \in T[j]
  <2>1. g[0] \in T[0]
    BY <1>2, <1>10
  <2>2. \A j \in 1 .. n : g[j - 1] \in T[j - 1] => g[j] \in T[j]
    BY <1>3, <1>10
  <2> QED
    BY ONLY <1>1, <2>1, <2>2, Along
<1>12. InDays(g[n], m, Until(old, n)) /\ Rest(g[n]) = Rest(new)
  <2>1. n \in 0 .. n
    BY <1>1
  <2>2. g[n] \in T[n]
    BY <1>11, <2>1
  <2> QED
    BY ONLY <1>5, <2>2
<1>13. Until(old, n) = C
  <2>1. \A e : e \in C <=> \E d \in 0 .. n - 1 : e \in Range(old.days[d])
    BY DaysAre
  <2>2. \A e : e \in Until(old, n) <=> \E d \in 0 .. n - 1 : e \in Range(old.days[d])
    BY DEF Until
  <2> QED
    BY <2>1, <2>2
<1> QED
  BY <1>9, <1>12, <1>13

\* A calendar that holds the finite set of events C
CalendarOf(c, C) ==
    /\ InDays(c, c.nBuckets, C) /\ InSearch(c, C)
    /\ IsFiniteSet(C) /\ c.qSize = Cardinality(C)

\* Resizing changes neither the events nor where the search starts.
LEMMA ResizeIs ==
    ASSUME NEW c, NEW C, CalendarOf(c, C), NEW m \in Nat \ {0}
    PROVE  /\ CalendarOf(Resize(c, m), C)
           /\ Resize(c, m).lastPrio = c.lastPrio /\ Resize(c, m).reverse = c.reverse
<1> DEFINE old == IF c.qSize < 2 THEN c ELSE Sampled(c)
           w == CalculateNewWidth(c)
           p == c.lastPrio
           q == c.qSize
           r == c.reverse
           new == NewCalendar(m, w, p, q, r)
           k == Refilled(new, old)
<1>1. InDays(c, c.nBuckets, C) /\ InSearch(c, C) /\ IsFiniteSet(C) /\ q = Cardinality(C)
  BY DEF CalendarOf
<1>2. InDays(old, c.nBuckets, C) /\ Rest(old) = Rest(c)
  BY <1>1, SampledIs
<1>3. old.lastPrio = p
  BY <1>2 DEF Rest
<1>4. Resize(c, m) = k
  BY <1>3 DEF Resize
<1>5. w \in Nat \ {0} /\ m \in Nat \ {0}
  BY <1>1, WidthIs
<1>6. p \in Nat /\ q \in Nat /\ r \in BOOLEAN
  BY <1>1 DEF InDays, Calendars
<1>7. /\ InDays(new, m, {}) /\ InSearch(new, {})
      /\ new.width = w /\ new.lastPrio = p /\ new.qSize = q /\ new.reverse = r
  <2>1. new = NewCalendar(m, w, p, q, r)
    OBVIOUS
  <2> HIDE DEF new, w, p, q, r
  <2> QED
    BY ONLY <1>5, <1>6, <2>1, NewCalendarIs
<1> HIDE DEF old, w, p, q, r, new
<1>8. InDays(k, m, C) /\ Rest(k) = Rest(new)
  BY <1>2, <1>7, RefilledIs
<1> HIDE DEF k
<1>10. /\ k.width = w /\ k.lastPrio = p /\ k.qSize = q /\ k.reverse = r
       /\ k.lastBucket = new.lastBucket /\ k.bucketTop = new.bucketTop
  BY <1>7, <1>8 DEF Rest
<1>11. k.nBuckets = m /\ new.nBuckets = m
  BY <1>7, <1>8 DEF InDays, Calendars
<1>12. \A e \in C : p <= e.ts
  BY <1>1 DEF InSearch, p
<1>13. InSearch(k, C)
  BY <1>7, <1>10, <1>11, <1>12 DEF InSearch
<1>14. CalendarOf(k, C)
  BY <1>1, <1>8, <1>10, <1>11, <1>13 DEF CalendarOf
<1> QED
  BY <1>4, <1>10, <1>14 DEF r, p

LEMMA ResizedIs ==
    ASSUME NEW c, NEW C, CalendarOf(c, C), NEW k, k \in {ResizeUp(c), ResizeDown(c)}
    PROVE  CalendarOf(k, C) /\ k.lastPrio = c.lastPrio /\ k.reverse = c.reverse
<1> DEFINE n == c.nBuckets
<1>1. n \in Nat \ {0} /\ c.qSize \in Nat
  BY DEF CalendarOf, InDays, Calendars
<1>2. n * 2 \in Nat \ {0}
  BY <1>1
<1>3. c.qSize < n \div 2 => n \div 2 \in Nat \ {0}
  BY <1>1
<1>4. ResizeUp(c) = c \/ ResizeUp(c) = Resize(c, n * 2)
  BY DEF ResizeUp
<1>5. ResizeDown(c) = c \/ (c.qSize < n \div 2 /\ ResizeDown(c) = Resize(c, n \div 2))
  BY DEF ResizeDown
<1>6. CASE k = c
  BY <1>6
<1>7. CASE k = Resize(c, n * 2)
  BY <1>2, <1>7, ResizeIs
<1>8. CASE c.qSize < n \div 2 /\ k = Resize(c, n \div 2)
  BY <1>3, <1>8, ResizeIs
<1> QED
  BY <1>4, <1>5, <1>6, <1>7, <1>8

---------------------------------------------------------------------------
(* The operations of a calendar                                            *)

LEMMA CalendarEmptyIs ==
    ASSUME NEW r \in BOOLEAN, NEW c, c = CalendarEmpty(r)
    PROVE  CalendarOf(c, {}) /\ c.lastPrio = 0 /\ c.reverse = r
<1>1. c = NewCalendar(2, 1, 0, 0, r)
  BY DEF CalendarEmpty
<1>2. /\ InDays(c, 2, {}) /\ InSearch(c, {})
      /\ c.width = 1 /\ c.lastPrio = 0 /\ c.qSize = 0 /\ c.reverse = r
  BY <1>1, NewCalendarIs
<1>4. c.nBuckets = 2
  BY <1>2 DEF InDays, Calendars
<1>6. IsFiniteSet({}) /\ Cardinality({}) = 0
  BY FS_EmptySet
<1> QED
  BY <1>2, <1>4, <1>6 DEF CalendarOf

LEMMA CalendarInsertIs ==
    ASSUME NEW c, NEW C, CalendarOf(c, C), NEW e \in Events, e \notin C, c.lastPrio <= e.ts,
           NEW k, k = CalendarInsert(c, e)
    PROVE  CalendarOf(k, C \cup {e}) /\ k.lastPrio = c.lastPrio /\ k.reverse = c.reverse
<1> DEFINE n == c.nBuckets
           d == DoInsert(c, e)
           g == [d EXCEPT !.qSize = @ + 1]
           D == C \cup {e}
<1>1. /\ InDays(c, n, C) /\ InSearch(c, C)
      /\ IsFiniteSet(C) /\ c.qSize = Cardinality(C) /\ c.qSize \in Nat
  BY DEF CalendarOf, InDays, Calendars
<1>2. InDays(d, n, D) /\ Rest(d) = Rest(c)
  BY <1>1, DoInsertIs
<1>3. IsFiniteSet(D) /\ Cardinality(D) = Cardinality(C) + 1
  BY <1>1, FS_AddElement
<1>4. k \in {ResizeUp(g), ResizeDown(g)}
  BY DEF CalendarInsert
<1>5. \A x \in D : c.lastPrio <= x.ts
  BY <1>1 DEF InSearch
<1> HIDE DEF n, d, D
<1>6. /\ d.width = c.width /\ d.lastPrio = c.lastPrio /\ d.lastBucket = c.lastBucket
      /\ d.bucketTop = c.bucketTop /\ d.qSize = c.qSize /\ d.reverse = c.reverse
  BY <1>2 DEF Rest
<1>7. /\ g \in Calendars(n) /\ g.days = d.days /\ g.width = d.width /\ g.reverse = d.reverse
      /\ g.qSize = c.qSize + 1 /\ g.lastPrio = c.lastPrio /\ g.lastBucket = c.lastBucket
      /\ g.bucketTop = c.bucketTop /\ g.nBuckets = n
  <2>1. d \in Calendars(n) /\ c.qSize + 1 \in Nat
    BY <1>1, <1>2 DEF InDays
  <2> QED
    BY <1>6, <2>1 DEF Calendars
<1> HIDE DEF g
<1>8. InDays(g, n, D)
  BY <1>2, <1>7, SameDays
<1>9. InSearch(g, D)
  BY <1>1, <1>5, <1>6, <1>7 DEF InSearch, n
<1>10. CalendarOf(g, D)
  BY <1>1, <1>3, <1>7, <1>8, <1>9 DEF CalendarOf
<1>11. CalendarOf(k, D) /\ k.lastPrio = g.lastPrio /\ k.reverse = g.reverse
  BY ONLY <1>4, <1>10, ResizedIs
<1> QED
  BY <1>6, <1>7, <1>11 DEF D

LEMMA CalendarRemoveNextIs ==
    ASSUME NEW c, NEW C, CalendarOf(c, C), C # {}, NEW k, k = CalendarRemoveNext(c),
           NEW e, e = CalendarPeekNext(c)
    PROVE  /\ IsLeast(e, C) /\ CalendarOf(k, C \ {e})
           /\ k.lastPrio = e.ts /\ k.reverse = c.reverse
<1> DEFINE n == c.nBuckets
           d == DoRemoveNext(c)
           g == [d EXCEPT !.qSize = @ - 1]
           D == C \ {e}
<1>1. /\ InDays(c, n, C) /\ InSearch(c, C)
      /\ IsFiniteSet(C) /\ c.qSize = Cardinality(C) /\ c.qSize \in Nat
  BY DEF CalendarOf, InDays, Calendars
<1>2. RemovesLeast(d, c, n, C, e)
  BY <1>1, DoRemoveNextIs
<1>3. k \in {ResizeUp(g), ResizeDown(g)}
  BY DEF CalendarRemoveNext
<1> HIDE DEF n, d
<1>4. /\ e \in Events /\ IsLeast(e, C) /\ InDays(d, n, D) /\ InSearch(d, D)
      /\ d.lastPrio = e.ts /\ d.width = c.width /\ d.qSize = c.qSize /\ d.reverse = c.reverse
  BY <1>2 DEF RemovesLeast
<1>5. IsFiniteSet(D) /\ Cardinality(D) = Cardinality(C) - 1
  BY <1>1, <1>4, FS_RemoveElement DEF IsLeast
<1>6. Cardinality(D) \in Nat
  BY <1>5, FS_CardinalityType
<1> HIDE DEF D
<1>7. /\ g \in Calendars(n) /\ g.days = d.days /\ g.width = d.width /\ g.reverse = d.reverse
      /\ g.qSize = c.qSize - 1 /\ g.lastPrio = d.lastPrio /\ g.lastBucket = d.lastBucket
      /\ g.bucketTop = d.bucketTop /\ g.nBuckets = n /\ d.nBuckets = n
  <2>1. d \in Calendars(n) /\ c.qSize - 1 \in Nat
    BY <1>1, <1>4, <1>5, <1>6 DEF InDays
  <2> QED
    BY <1>4, <2>1 DEF Calendars
<1> HIDE DEF g
<1>8. InDays(g, n, D)
  BY <1>4, <1>7, SameDays
<1>9. InSearch(g, D)
  BY <1>4, <1>7 DEF InSearch
<1>10. CalendarOf(g, D)
  BY <1>1, <1>5, <1>7, <1>8, <1>9 DEF CalendarOf
<1>11. CalendarOf(k, D) /\ k.lastPrio = g.lastPrio /\ k.reverse = g.reverse
  BY ONLY <1>3, <1>10, ResizedIs
<1> QED
  BY <1>4, <1>7, <1>11 DEF D

\* No two events of C have one uid.
Unique(C) == \A e, f \in C : e.uid = f.uid => e = f

LEMMA CalendarRemoveIs ==
    ASSUME NEW c, NEW C, CalendarOf(c, C), Unique(C), NEW e \in C,
           NEW k, k = CalendarRemove(c, e)
    PROVE  CalendarOf(k, C \ {e}) /\ k.lastPrio = c.lastPrio /\ k.reverse = c.reverse
<1> DEFINE n == c.nBuckets
           d == Hash(c, e.ts)
           s == c.days[d]
           i == CHOOSE j \in DOMAIN s : s[j].uid = e.uid
           t == RemoveAt(s, i)
           g == [c EXCEPT !.days = [c.days EXCEPT ![d] = t], !.qSize = c.qSize - 1]
           D == C \ {e}
<1>1. /\ InDays(c, n, C) /\ InSearch(c, C) /\ c \in Calendars(n) /\ DOMAIN c.days = 0 .. n - 1
      /\ IsFiniteSet(C) /\ c.qSize = Cardinality(C) /\ c.qSize \in Nat /\ c.reverse \in BOOLEAN
  BY DEF CalendarOf, InDays, Calendars
<1>2. k \in {ResizeUp(g), ResizeDown(g)}
  BY DEF CalendarRemove
<1>3. IsFiniteSet(D) /\ Cardinality(D) = Cardinality(C) - 1
  BY <1>1, FS_RemoveElement
<1>4. Cardinality(D) \in Nat
  BY <1>3, FS_CardinalityType
<1>5. d \in 0 .. n - 1 /\ e \in Range(s) /\ e \in Events
  BY <1>1, DaysAre
<1>6. s \in Seq(Events) /\ Sorted(c.reverse, s)
  BY <1>1, <1>5, DaysAre DEF InDays
<1>7. \A x \in Range(s) : x \in C /\ Hash(c, x.ts) = d
  BY <1>1, <1>5, DaysAre DEF InDays
<1>8. \A x \in C : Hash(c, x.ts) = d => x \in Range(s)
  BY <1>1, DaysAre
<1> HIDE DEF n, d, s, D
<1>9. i \in 1 .. Len(s) /\ s[i] = e
  <2>1. \A x : x \in Range(s) <=> \E j \in 1 .. Len(s) : s[j] = x
    BY <1>6, RangeIs
  <2>2. PICK j \in 1 .. Len(s) : s[j] = e
    BY <1>5, <2>1
  <2>3. DOMAIN s = 1 .. Len(s)
    BY <1>6
  <2>4. i \in 1 .. Len(s) /\ s[i].uid = e.uid
    BY <2>2, <2>3
  <2> HIDE DEF i
  <2>5. s[i] \in C
    BY <1>7, <2>1, <2>4
  <2> QED
    BY <2>4, <2>5 DEF Unique
<1> HIDE DEF i
<1>10. t \in Seq(Events) /\ Sorted(c.reverse, t) /\ Range(t) = Range(s) \ {e}
  <2>1. PICK r \in BOOLEAN : r = c.reverse
    BY <1>1
  <2>2. Skips(t, s, i)
    BY <1>6, <1>9, RemoveAtIs
  <2>3. Sorted(r, s)
    BY <1>6, <2>1
  <2> HIDE DEF t
  <2>4. t \in Seq(Events) /\ Sorted(r, t) /\ Range(t) = Range(s) \ {s[i]}
    BY <1>6, <1>9, <2>2, <2>3, SortedSkips
  <2> QED
    BY <1>9, <2>1, <2>4
<1> HIDE DEF t
<1>11. /\ g \in Calendars(n) /\ g.days = [c.days EXCEPT ![d] = t] /\ g.width = c.width
       /\ g.reverse = c.reverse /\ g.qSize = c.qSize - 1 /\ g.lastPrio = c.lastPrio
       /\ g.lastBucket = c.lastBucket /\ g.bucketTop = c.bucketTop
       /\ g.nBuckets = n /\ c.nBuckets = n
  <2>1. c.qSize - 1 \in Nat
    BY <1>1, <1>3, <1>4
  <2> QED
    BY <1>1, <1>5, <1>10, <2>1 DEF Calendars
<1> HIDE DEF g
<1>12. \A x \in Range(t) : Hash(c, x.ts) = d
  BY <1>7, <1>10
<1>13. \A x : x \in D <=> x \in Range(t) \/ (x \in C /\ Hash(c, x.ts) # d)
  BY <1>5, <1>7, <1>8, <1>10 DEF D
<1>14. InDays(g, n, D)
  BY <1>1, <1>5, <1>10, <1>11, <1>12, <1>13, DayChanged
<1>15. InSearch(g, D)
  BY <1>1, <1>11 DEF InSearch, D
<1>16. CalendarOf(g, D)
  BY <1>1, <1>3, <1>11, <1>14, <1>15 DEF CalendarOf
<1>17. CalendarOf(k, D) /\ k.lastPrio = g.lastPrio /\ k.reverse = g.reverse
  BY ONLY <1>2, <1>16, ResizedIs
<1> QED
  BY <1>11, <1>17 DEF D

---------------------------------------------------------------------------
(* The schedulers behind their interface                                   *)

AllKinds == {"Map", "PriorityQueue", "List", "Heap", "Calendar", "ReverseCalendar"}

\* s is a store of kind k that holds the events C.
Holds(k, s, C) ==
    /\ C \subseteq Events /\ IsFiniteSet(C)
    /\ IsSet(k) => s = C
    /\ k = "List" => s \in Seq(Events) /\ Sorted(FALSE, s) /\ Range(s) = C
    /\ k = "Heap" => HeapOf(s, C) /\ HeapOrdered(s)
    /\ IsCalendar(k) => CalendarOf(s, C)

\* The search of a calendar starts no later than at t.
Behind(k, s, t) == IsCalendar(k) => s.lastPrio <= t

LEMMA KindIs ==
    ASSUME NEW k \in AllKinds
    PROVE  \/ IsSet(k) /\ k # "List" /\ k # "Heap" /\ ~IsCalendar(k)
           \/ ~IsSet(k) /\ k = "List" /\ ~IsCalendar(k)
           \/ ~IsSet(k) /\ k = "Heap" /\ ~IsCalendar(k)
           \/ ~IsSet(k) /\ k # "List" /\ k # "Heap" /\ IsCalendar(k)
  BY DEF AllKinds, IsSet, IsCalendar

LEMMA ContentsIs ==
    ASSUME NEW k \in AllKinds, NEW s, NEW C, Holds(k, s, C)
    PROVE  Contents(k, s) = C
<1>1. CASE IsSet(k)
  BY <1>1, KindIs DEF Contents, Holds
<1>2. CASE k = "List"
  BY <1>2, KindIs DEF Contents, Holds
<1>3. CASE k = "Heap"
  BY <1>3, KindIs DEF Contents, Holds, HeapOf
<1>4. CASE IsCalendar(k)
  BY <1>4, KindIs DEF Contents, Holds, CalendarOf, InDays
<1> QED
  BY <1>1, <1>2, <1>3, <1>4, KindIs

LEMMA EmptyIs ==
    ASSUME NEW k \in AllKinds, NEW s, s = Empty(k)
    PROVE  Holds(k, s, {}) /\ Behind(k, s, 0)
<1>0. {} \subseteq Events /\ IsFiniteSet({})
  BY FS_EmptySet
<1>1. CASE IsSet(k)
  BY <1>0, <1>1, KindIs DEF Empty, Holds, Behind
<1>2. CASE k = "List" \/ k = "Heap"
  <2>1. s = << >>
    BY <1>2, KindIs DEF Empty, HeapEmpty
  <2>2. s \in Seq(Events) /\ Len(s) = 0 /\ DOMAIN s = {} /\ Range(s) = {}
    BY <2>1 DEF Range
  <2>3. Sorted(FALSE, s)
    BY <2>2 DEF Sorted
  <2>4. HeapOf(s, {}) /\ HeapOrdered(s)
    BY <2>2 DEF HeapOf, HeapOrdered, Distinct
  <2> QED
    BY <1>0, <1>2, <2>2, <2>3, <2>4, KindIs DEF Holds, Behind
<1>3. CASE IsCalendar(k)
  <2>1. PICK r \in BOOLEAN : r = (k = "ReverseCalendar")
    OBVIOUS
  <2>2. s = CalendarEmpty(r)
    BY <1>3, <2>1, KindIs DEF Empty
  <2>3. CalendarOf(s, {}) /\ s.lastPrio = 0
    BY <2>2, CalendarEmptyIs
  <2>4. Behind(k, s, 0)
    BY <2>3 DEF Behind
  <2>5. ~IsSet(k) /\ k # "List" /\ k # "Heap"
    BY <1>3, KindIs
  <2> QED
    BY ONLY <1>0, <2>3, <2>4, <2>5 DEF Holds
<1> QED
  BY <1>1, <1>2, <1>3, KindIs

LEMMA InsertIs ==
    ASSUME NEW k \in AllKinds, NEW s, NEW C, Holds(k, s, C),
           NEW e \in Events, e \notin C, Behind(k, s, e.ts), NEW r, r = Insert(k, s, e)
    PROVE  Holds(k, r, C \cup {e}) /\ \A t : Behind(k, s, t) => Behind(k, r, t)
<1>0. C \cup {e} \subseteq Events /\ IsFiniteSet(C \cup {e})
  BY FS_AddElement DEF Holds
<1>1. CASE IsSet(k)
  BY <1>0, <1>1, KindIs DEF Insert, Holds, Behind
<1>2. CASE k = "List"
  <2>1. s \in Seq(Events) /\ Sorted(FALSE, s) /\ Range(s) = C
    BY <1>2 DEF Holds
  <2>2. r = ListInsert(s, e)
    BY <1>2, KindIs DEF Insert
  <2>3. r = Inserted(FALSE, s, e)
    BY <2>2 DEF ListInsert, Inserted, Before
  <2>4. r \in Seq(Events) /\ Sorted(FALSE, r) /\ Range(r) = Range(s) \cup {e}
    BY <2>1, <2>3, SortedInsert
  <2> QED
    BY <1>0, <1>2, <2>1, <2>4, KindIs DEF Holds, Behind
<1>3. CASE k = "Heap"
  <2>1. r = HeapInsert(s, e)
    BY <1>3, KindIs DEF Insert
  <2>2. HeapOf(s, C) /\ HeapOrdered(s)
    BY <1>3 DEF Holds
  <2>3. HeapOf(r, C \cup {e}) /\ HeapOrdered(r)
    BY <2>1, <2>2, HeapInsertIs
  <2> QED
    BY <1>0, <1>3, <2>3, KindIs DEF Holds, Behind
<1>4. CASE IsCalendar(k)
  <2>1. r = CalendarInsert(s, e)
    BY <1>4, KindIs DEF Insert
  <2>2. CalendarOf(s, C) /\ s.lastPrio <= e.ts
    BY <1>4 DEF Holds, Behind
  <2>3. CalendarOf(r, C \cup {e}) /\ r.lastPrio = s.lastPrio
    BY <2>1, <2>2, CalendarInsertIs
  <2> QED
    BY <1>0, <1>4, <2>3, KindIs DEF Holds, Behind
<1> QED
  BY <1>1, <1>2, <1>3, <1>4, KindIs

LEMMA PeekNextIs ==
    ASSUME NEW k \in AllKinds, NEW s, NEW C, Holds(k, s, C), C # {}
    PROVE  IsLeast(PeekNext(k, s), C)
<1>0. C \subseteq Events
  BY DEF Holds
<1>1. CASE IsSet(k)
  <2>1. PeekNext(k, s) = Least(C)
    BY <1>1, KindIs DEF PeekNext, Holds
  <2>2. PICK e : IsLeast(e, C)
    BY <1>0, LeastExists
  <2> QED
    BY <1>0, <2>1, <2>2, LeastIs
<1>2. CASE k = "List"
  <2>1. s \in Seq(Events) /\ Sorted(FALSE, s) /\ Range(s) = C
    BY <1>2 DEF Holds
  <2>2. PeekNext(k, s) = Head(s)
    BY <1>2, KindIs DEF PeekNext
  <2>3. s # << >>
    BY <2>1 DEF Range
  <2> QED
    BY <2>1, <2>2, <2>3, SortedEnds DEF First
<1>3. CASE k = "Heap"
  <2>1. PeekNext(k, s) = s[1]
    BY <1>3, KindIs DEF PeekNext, HeapPeekNext
  <2>2. HeapOf(s, C) /\ HeapOrdered(s)
    BY <1>3 DEF Holds
  <2> QED
    BY <2>1, <2>2, HeapTop
<1>4. CASE IsCalendar(k)
  <2>1. PeekNext(k, s) = CalendarPeekNext(s)
    BY <1>4, KindIs DEF PeekNext
  <2>2. CalendarOf(s, C)
    BY <1>4 DEF Holds
  <2> QED
    BY <2>1, <2>2, CalendarRemoveNextIs
<1> QED
  BY <1>1, <1>2, <1>3, <1>4, KindIs

LEMMA RemoveNextIs ==
    ASSUME NEW k \in AllKinds, NEW s, NEW C, Holds(k, s, C), C # {},
           NEW e, IsLeast(e, C), NEW r, r = RemoveNext(k, s)
    PROVE  Holds(k, r, C \ {e}) /\ Behind(k, r, e.ts) /\ Returned(k, s) = e
<1>0. C \subseteq Events /\ IsFiniteSet(C) /\ C \ {e} \subseteq Events /\ IsFiniteSet(C \ {e})
  BY FS_RemoveElement DEF Holds
<1>a. \A x : IsLeast(x, C) => x = e
  BY <1>0, Order3 DEF IsLeast
<1>1. ASSUME IsSet(k) PROVE Holds(k, r, C \ {e}) /\ Behind(k, r, e.ts)
  <2>1. r = C \ {e}
    BY <1>0, <1>1, KindIs, LeastIs DEF RemoveNext, Holds
  <2> QED
    BY <1>0, <1>1, <2>1, KindIs DEF Holds, Behind
<1>2. ASSUME k = "List" PROVE Holds(k, r, C \ {e}) /\ Behind(k, r, e.ts)
  <2>1. s \in Seq(Events) /\ Sorted(FALSE, s) /\ Range(s) = C
    BY <1>2 DEF Holds
  <2>2. r = Tail(s)
    BY <1>2, KindIs DEF RemoveNext
  <2>3. s # << >>
    BY <2>1 DEF Range
  <2>4. /\ IsLeast(Head(s), C)
        /\ r \in Seq(Events) /\ Sorted(FALSE, r) /\ Range(r) = C \ {Head(s)}
    BY <2>1, <2>2, <2>3, SortedEnds DEF First, Others
  <2> QED
    BY <1>0, <1>a, <1>2, <2>4, KindIs DEF Holds, Behind
<1>3. ASSUME k = "Heap" PROVE Holds(k, r, C \ {e}) /\ Behind(k, r, e.ts)
  <2>1. r = HeapRemoveNext(s)
    BY <1>3, KindIs DEF RemoveNext
  <2>2. HeapOf(s, C) /\ HeapOrdered(s)
    BY <1>3 DEF Holds
  <2>3. s[1] = e
    BY <1>a, <2>2, HeapTop
  <2>4. HeapOf(r, C \ {e}) /\ HeapOrdered(r)
    BY <2>1, <2>2, <2>3, HeapRemoveNextIs
  <2> QED
    BY <1>0, <1>3, <2>4, KindIs DEF Holds, Behind
<1>4. ASSUME IsCalendar(k) PROVE Holds(k, r, C \ {e}) /\ Behind(k, r, e.ts)
  <2>1. r = CalendarRemoveNext(s)
    BY <1>4, KindIs DEF RemoveNext
  <2>2. CalendarOf(s, C)
    BY <1>4 DEF Holds
  <2> DEFINE x == CalendarPeekNext(s)
  <2>3. IsLeast(x, C) /\ CalendarOf(r, C \ {x}) /\ r.lastPrio = x.ts
    BY <2>1, <2>2, CalendarRemoveNextIs
  <2>4. x = e
    BY <1>a, <2>3
  <2> HIDE DEF x
  <2>5. CalendarOf(r, C \ {e}) /\ r.lastPrio = e.ts
    BY <2>3, <2>4
  <2>6. e.ts \in Nat
    BY <1>0 DEF IsLeast, Events
  <2>7. Behind(k, r, e.ts)
    BY <2>5, <2>6 DEF Behind
  <2>8. Holds(k, r, C \ {e})
    BY <1>0, <1>4, <2>5, KindIs DEF Holds
  <2> QED
    BY ONLY <2>7, <2>8
<1>5. Holds(k, r, C \ {e}) /\ Behind(k, r, e.ts)
  BY <1>1, <1>2, <1>3, <1>4, KindIs
<1>6. Contents(k, s) = C /\ Contents(k, r) = C \ {e}
  BY <1>5, ContentsIs
<1>7. Returned(k, s) = e
  BY <1>6 DEF Returned, IsLeast
<1> QED
  BY <1>5, <1>7

LEMMA RemoveEventIs ==
    ASSUME NEW k \in AllKinds, k # "Heap", NEW s, NEW C, Holds(k, s, C), Unique(C),
           NEW e \in C, NEW r, r = RemoveEvent(k, s, e)
    PROVE  Holds(k, r, C \ {e}) /\ \A t : Behind(k, s, t) => Behind(k, r, t)
<1>0. C \subseteq Events /\ C \ {e} \subseteq Events /\ IsFiniteSet(C \ {e})
  BY FS_RemoveElement DEF Holds
<1>1. CASE IsSet(k)
  <2>1. r = {f \in C : f.uid # e.uid}
    BY <1>1, KindIs DEF RemoveEvent, Holds
  <2>2. r = C \ {e}
    BY <2>1 DEF Unique
  <2> QED
    BY <1>0, <1>1, <2>2, KindIs DEF Holds, Behind
<1>2. CASE k = "List"
  <2> DEFINE i == CHOOSE n \in DOMAIN s : s[n].uid = e.uid
  <2>1. s \in Seq(Events) /\ Sorted(FALSE, s) /\ Range(s) = C
    BY <1>2 DEF Holds
  <2>9. DOMAIN s = 1 .. Len(s)
    BY <2>1
  <2>2. r = RemoveAt(s, i)
    BY <1>2, KindIs DEF RemoveEvent
  <2>3. \A x : x \in C <=> \E j \in 1 .. Len(s) : s[j] = x
    BY <2>1, RangeIs
  <2>4. PICK j \in 1 .. Len(s) : s[j] = e
    BY <2>3
  <2>5. i \in 1 .. Len(s) /\ s[i].uid = e.uid
    BY <2>4, <2>9
  <2> HIDE DEF i
  <2>6. s[i] = e
    BY <2>3, <2>5 DEF Unique
  <2>7. Skips(r, s, i)
    BY <2>1, <2>2, <2>5, RemoveAtIs
  <2>8. r \in Seq(Events) /\ Sorted(FALSE, r) /\ Range(r) = Range(s) \ {s[i]}
    BY <2>1, <2>5, <2>7, SortedSkips
  <2> QED
    BY <1>0, <1>2, <2>1, <2>6, <2>8, KindIs DEF Holds, Behind
<1>4. CASE IsCalendar(k)
  <2>1. r = CalendarRemove(s, e)
    BY <1>4, KindIs DEF RemoveEvent
  <2>2. CalendarOf(s, C)
    BY <1>4 DEF Holds
  <2>3. CalendarOf(r, C \ {e}) /\ r.lastPrio = s.lastPrio
    BY <2>1, <2>2, CalendarRemoveIs
  <2> QED
    BY <1>0, <1>4, <2>3, KindIs DEF Holds, Behind
<1> QED
  BY <1>1, <1>2, <1>4, KindIs

---------------------------------------------------------------------------
(* Moving to another scheduler                                             *)

Stores == (SUBSET Events) \cup Seq(Events) \cup UNION {Calendars(n) : n \in Nat \ {0}}

LEMMA StoresAre ==
    ASSUME NEW k \in AllKinds, NEW s, NEW C, Holds(k, s, C)
    PROVE  s \in Stores
<1>1. CASE IsSet(k)
  BY <1>1 DEF Holds, Stores
<1>2. CASE k = "List"
  BY <1>2 DEF Holds, Stores
<1>3. CASE k = "Heap"
  BY <1>3 DEF Holds, HeapOf, Stores
<1>4. CASE IsCalendar(k)
  <2>1. s.nBuckets \in Nat \ {0} /\ s \in Calendars(s.nBuckets)
    BY <1>4 DEF Holds, CalendarOf, InDays
  <2> QED
    BY <2>1 DEF Stores
<1> QED
  BY <1>1, <1>2, <1>3, <1>4, KindIs

\* The stores that a scheduler of kind k leaves, and those that one of kind l
\* gets, as the n events of s move
IsLeaving(f, k, s, n) ==
    f = [i \in 0 .. n |-> IF i = 0 THEN s ELSE RemoveNext(k, f[i - 1])]
IsArriving(g, f, k, l, n) ==
    g = [i \in 0 .. n |->
            IF i = 0 THEN Empty(l) ELSE Insert(l, g[i - 1], Returned(k, f[i - 1]))]

Leaving(k, s, n) == CHOOSE f : IsLeaving(f, k, s, n)
Arriving(k, l, s, n) == CHOOSE g : IsArriving(g, Leaving(k, s, n), k, l, n)

\* x holds all but j of the events C.
Leaves(x, k, C, j) ==
    LET D == Contents(k, x)
    IN  Holds(k, x, D) /\ D \subseteq C /\ Cardinality(D) = Cardinality(C) - j

LEMMA LeavesNext ==
    ASSUME NEW k \in AllKinds, NEW C, IsFiniteSet(C), NEW j \in Nat, j < Cardinality(C),
           NEW x, Leaves(x, k, C, j)
    PROVE  /\ Leaves(RemoveNext(k, x), k, C, j + 1)
           /\ Returned(k, x) \in Contents(k, x)
           /\ Contents(k, RemoveNext(k, x)) = Contents(k, x) \ {Returned(k, x)}
<1> DEFINE D == Contents(k, x)
           r == RemoveNext(k, x)
<1>1. Holds(k, x, D) /\ D \subseteq C /\ Cardinality(D) = Cardinality(C) - j
  BY DEF Leaves
<1> HIDE DEF D, r
<1>2. Cardinality(C) \in Nat
  BY FS_CardinalityType
<1>3. IsFiniteSet(D) /\ D \subseteq Events
  BY <1>1 DEF Holds
<1>4. D # {}
  <2>1. Cardinality(D) # 0
    BY <1>1, <1>2
  <2>2. Cardinality({}) = 0
    BY FS_EmptySet
  <2> QED
    BY <2>1, <2>2
<1>5. PICK e : IsLeast(e, D)
  BY <1>3, <1>4, LeastExists
<1>6. Holds(k, r, D \ {e}) /\ Returned(k, x) = e
  BY <1>1, <1>4, <1>5, RemoveNextIs DEF r
<1>7. Contents(k, r) = D \ {e}
  BY <1>6, ContentsIs
<1>8. e \in D
  BY <1>5 DEF IsLeast
<1>9. Cardinality(D \ {e}) = Cardinality(D) - 1
  BY <1>3, <1>8, FS_RemoveElement
<1>10. Cardinality(D \ {e}) = Cardinality(C) - (j + 1)
  BY <1>1, <1>2, <1>9
<1>11. Leaves(r, k, C, j + 1)
  BY <1>1, <1>6, <1>7, <1>10 DEF Leaves
<1> QED
  BY <1>6, <1>7, <1>8, <1>11 DEF D, r

LEMMA LeavingIs ==
    ASSUME NEW k \in AllKinds, NEW s, NEW C, Holds(k, s, C), NEW n, n = Cardinality(C),
           NEW f, f = Leaving(k, s, n)
    PROVE  /\ f[0] = s
           /\ \A j \in 1 .. n : f[j] = RemoveNext(k, f[j - 1])
           /\ \A j \in 0 .. n : Leaves(f[j], k, C, j)
<1> DEFINE T == [j \in 0 .. n |-> {x \in Stores : Leaves(x, k, C, j)}]
           step == [j \in 1 .. n |-> [x \in T[j - 1] |-> RemoveNext(k, x)]]
<1>1. n \in Nat /\ IsFiniteSet(C) /\ n = Cardinality(C)
  BY FS_CardinalityType DEF Holds
<1>2. s \in T[0]
  <2>1. Contents(k, s) = C /\ s \in Stores
    BY ContentsIs, StoresAre
  <2>2. Leaves(s, k, C, 0)
    BY <1>1, <2>1 DEF Leaves
  <2>3. 0 \in 0 .. n
    BY <1>1
  <2> QED
    BY <2>1, <2>2, <2>3
<1>3. ASSUME NEW j \in 1 .. n, NEW x \in T[j - 1] PROVE RemoveNext(k, x) \in T[j]
  <2>1. j - 1 \in 0 .. n /\ j \in 0 .. n /\ j - 1 \in Nat /\ j - 1 < Cardinality(C)
        /\ (j - 1) + 1 = j
    BY <1>1
  <2>2. Leaves(x, k, C, j - 1)
    BY <2>1
  <2> DEFINE i == j - 1
  <2> HIDE DEF i
  <2>3. i \in Nat /\ i < Cardinality(C) /\ Leaves(x, k, C, i) /\ i + 1 = j
    BY <2>1, <2>2 DEF i
  <2>4. Leaves(RemoveNext(k, x), k, C, i + 1)
    BY <1>1, <2>3, LeavesNext
  <2>5. Leaves(RemoveNext(k, x), k, C, j)
    BY <2>3, <2>4
  <2>6. RemoveNext(k, x) \in Stores
    BY <2>5, StoresAre DEF Leaves
  <2> QED
    BY <2>1, <2>5, <2>6
<1>4. \A j \in 1 .. n : \A x \in T[j - 1] : step[j][x] = RemoveNext(k, x)
  OBVIOUS
<1>5. \A j \in 0 .. n : \A x \in T[j] : Leaves(x, k, C, j)
  OBVIOUS
<1> HIDE DEF T, step
<1>6. \A j \in 1 .. n : \A x \in T[j - 1] : step[j][x] \in T[j]
  BY <1>3, <1>4
<1>7. PICK h : Follows(h, n, s, step) /\ \A j \in 0 .. n : h[j] \in T[j]
  BY <1>1, <1>2, <1>6, Recursion
<1>8. IsLeaving(h, k, s, n)
  <2>1. h = [j \in 0 .. n |-> IF j = 0 THEN s ELSE step[j][h[j - 1]]]
    BY <1>7 DEF Follows
  <2>2. ASSUME NEW j \in 0 .. n, j # 0 PROVE step[j][h[j - 1]] = RemoveNext(k, h[j - 1])
    <3>1. j \in 1 .. n /\ j - 1 \in 0 .. n
      BY <1>1, <2>2
    <3> QED
      BY <1>4, <1>7, <3>1
  <2> QED
    BY <2>1, <2>2 DEF IsLeaving
<1>9. IsLeaving(f, k, s, n)
  BY <1>8 DEF Leaving
<1>10. f[0] = s /\ \A j \in 1 .. n : f[j] = RemoveNext(k, f[j - 1])
  <2>1. \A j \in 0 .. n : f[j] = IF j = 0 THEN s ELSE RemoveNext(k, f[j - 1])
    BY <1>9 DEF IsLeaving
  <2> QED
    BY <1>1, <2>1
<1>11. \A j \in 0 .. n : f[j] \in T[j]
  <2>1. f[0] \in T[0]
    BY <1>2, <1>10
  <2>2. \A j \in 1 .. n : f[j - 1] \in T[j - 1] => f[j] \in T[j]
    BY <1>3, <1>10
  <2> QED
    BY ONLY <1>1, <2>1, <2>2, Along
<1> QED
  BY <1>5, <1>10, <1>11

LEMMA ArrivingIs ==
    ASSUME NEW k \in AllKinds, NEW s, NEW C, Holds(k, s, C), NEW n, n = Cardinality(C),
           NEW l \in AllKinds, NEW g, g = Arriving(k, l, s, n)
    PROVE  Holds(l, g[n], C) /\ Behind(l, g[n], 0)
<1> DEFINE f == Leaving(k, s, n)
           D(j) == Contents(k, f[j])
           e(j) == Returned(k, f[j - 1])
           T == [j \in 0 .. n |->
                   {x \in Stores : Holds(l, x, C \ D(j)) /\ Behind(l, x, 0)}]
           step == [j \in 1 .. n |-> [x \in T[j - 1] |-> Insert(l, x, e(j))]]
<1>1. n \in Nat /\ IsFiniteSet(C) /\ C \subseteq Events /\ n = Cardinality(C)
  BY FS_CardinalityType DEF Holds
<1>2. /\ f[0] = s
      /\ \A j \in 1 .. n : f[j] = RemoveNext(k, f[j - 1])
      /\ \A j \in 0 .. n : Leaves(f[j], k, C, j)
  BY LeavingIs
<1> HIDE DEF f
<1>3. D(0) = C
  BY <1>2, ContentsIs
<1>4. ASSUME NEW j \in 1 .. n
      PROVE  e(j) \in D(j - 1) /\ e(j) \in C /\ D(j - 1) \subseteq C /\ D(j) = D(j - 1) \ {e(j)}
  <2> DEFINE i == j - 1
             x == f[i]
  <2>1. i \in 0 .. n /\ i \in Nat /\ i < Cardinality(C)
    BY <1>1
  <2>2. f[j] = RemoveNext(k, x) /\ Leaves(x, k, C, i)
    BY <1>2, <2>1
  <2> HIDE DEF x, i
  <2>3. /\ Returned(k, x) \in Contents(k, x)
        /\ Contents(k, RemoveNext(k, x)) = Contents(k, x) \ {Returned(k, x)}
    BY <1>1, <2>1, <2>2, LeavesNext
  <2>4. Contents(k, x) \subseteq C
    BY <2>2 DEF Leaves
  <2> QED
    BY <2>2, <2>3, <2>4 DEF x, i
<1>5. D(n) = {}
  <2>1. n \in 0 .. n
    BY <1>1
  <2>2. Leaves(f[n], k, C, n)
    BY <1>2, <2>1
  <2>3. IsFiniteSet(D(n)) /\ Cardinality(D(n)) = Cardinality(C) - n
    BY <2>2 DEF Leaves, Holds
  <2>4. Cardinality(D(n)) = 0
    BY <1>1, <2>3
  <2> QED
    BY <2>3, <2>4, FS_EmptySet
<1> HIDE DEF D, e
<1>7. Empty(l) \in T[0]
  <2>1. Holds(l, Empty(l), {}) /\ Behind(l, Empty(l), 0)
    BY EmptyIs
  <2>2. Empty(l) \in Stores
    BY <2>1, StoresAre
  <2>3. C \ D(0) = {} /\ 0 \in 0 .. n
    BY <1>1, <1>3
  <2> QED
    BY <2>1, <2>2, <2>3
<1>8. ASSUME NEW j \in 1 .. n, NEW x \in T[j - 1] PROVE Insert(l, x, e(j)) \in T[j]
  <2>1. j - 1 \in 0 .. n /\ j \in 0 .. n
    BY <1>1
  <2> DEFINE E == C \ D(j - 1)
             y == e(j)
             r == Insert(l, x, y)
  <2>2. Holds(l, x, E) /\ Behind(l, x, 0)
    BY <2>1
  <2>3. y \in Events /\ y \notin E /\ C \ D(j) = E \cup {y}
    BY <1>1, <1>4
  <2> HIDE DEF E, y
  <2>4. Behind(l, x, y.ts)
    <3>1. y.ts \in Nat
      BY <2>3 DEF Events
    <3>2. IsCalendar(l) => x.lastPrio \in Nat
      BY <2>2 DEF Holds, CalendarOf, InDays, Calendars
    <3> QED
      BY <2>2, <3>1, <3>2 DEF Behind
  <2>5. Holds(l, r, E \cup {y}) /\ \A t : Behind(l, x, t) => Behind(l, r, t)
    BY <2>2, <2>3, <2>4, InsertIs
  <2>6. r \in Stores
    BY <2>5, StoresAre
  <2> QED
    BY <2>1, <2>2, <2>3, <2>5, <2>6 DEF y
<1>9. \A j \in 1 .. n : \A x \in T[j - 1] : step[j][x] = Insert(l, x, e(j))
  OBVIOUS
<1>10. \A x \in T[n] : Holds(l, x, C \ D(n)) /\ Behind(l, x, 0)
  BY <1>1
<1> HIDE DEF T, step
<1>11. \A j \in 1 .. n : \A x \in T[j - 1] : step[j][x] \in T[j]
  BY <1>8, <1>9
<1>12. PICK h : Follows(h, n, Empty(l), step) /\ \A j \in 0 .. n : h[j] \in T[j]
  BY <1>1, <1>7, <1>11, Recursion
<1>13. IsArriving(h, f, k, l, n)
  <2>1. h = [j \in 0 .. n |-> IF j = 0 THEN Empty(l) ELSE step[j][h[j - 1]]]
    BY <1>12 DEF Follows
  <2>2. ASSUME NEW j \in 0 .. n, j # 0 PROVE step[j][h[j - 1]] = Insert(l, h[j - 1], e(j))
    <3>1. j \in 1 .. n /\ j - 1 \in 0 .. n
      BY <1>1, <2>2
    <3> QED
      BY <1>9, <1>12, <3>1
  <2> QED
    BY <2>1, <2>2 DEF IsArriving, e
<1>14. IsArriving(g, f, k, l, n)
  BY <1>13 DEF Arriving, f
<1>15. g[0] = Empty(l) /\ \A j \in 1 .. n : g[j] = Insert(l, g[j - 1], e(j))
  <2>1. \A j \in 0 .. n : g[j] = IF j = 0 THEN Empty(l) ELSE Insert(l, g[j - 1], e(j))
    BY <1>14 DEF IsArriving, e
  <2> QED
    BY <1>1, <2>1
<1>16. \A j \in 0 .. n : g[j] \in T[j]
  <2>1. g[0] \in T[0]
    BY <1>7, <1>15
  <2>2. \A j \in 1 .. n : g[j - 1] \in T[j - 1] => g[j] \in T[j]
    BY <1>8, <1>15
  <2> QED
    BY ONLY <1>1, <2>1, <2>2, Along
<1>17. g[n] \in T[n]
  <2>1. n \in 0 .. n
    BY <1>1
  <2> QED
    BY <1>16, <2>1
<1> QED
  BY <1>5, <1>10, <1>17

\* SetScheduler loses no event, and the new scheduler may search from 0.
LEMMA MovedIs ==
    ASSUME kind \in AllKinds, NEW C, Holds(kind, store, C), NEW l \in AllKinds
    PROVE  Holds(l, Moved(kind, l), C) /\ Behind(l, Moved(kind, l), 0)
<1> DEFINE n == Cardinality(C)
<1>1. Contents(kind, store) = C
  BY ContentsIs
<1>2. Moved(kind, l) = Arriving(kind, l, store, n)[n]
  BY <1>1 DEF Moved, Arriving, Leaving, IsArriving, IsLeaving
<1> QED
  BY <1>2, ArrivingIs

---------------------------------------------------------------------------
(* The queue                                                               *)

Queue == Contents(kind, store)

SchedulersInv ==
    /\ kind \in Kinds /\ now \in Nat /\ uid \in Nat
    /\ Holds(kind, store, Queue) /\ Behind(kind, store, now)
    /\ Unique(Queue) /\ \A e \in Queue : e.uid < uid /\ now <= e.ts

LEMMA InvInit == Init => SchedulersInv
<1> SUFFICES ASSUME Init PROVE SchedulersInv
  OBVIOUS
<1>1. kind \in AllKinds /\ kind \in Kinds
  BY SchedulersAssumption DEF Init, AllKinds
<1>2. Holds(kind, store, {}) /\ Behind(kind, store, 0)
  BY <1>1, EmptyIs DEF Init
<1>3. Queue = {}
  BY <1>1, <1>2, ContentsIs DEF Queue
<1> QED
  BY <1>1, <1>2, <1>3 DEF Init, SchedulersInv, Unique

\* What a step does to the contents of the store is what P allows, and the call
\* names.
Matches == /\ [P!Next]_(P!vars)
           /\ uid' # uid => P!Insert
           /\ taken' # taken => P!RemoveNext
           /\ kind' # kind => UNCHANGED P!vars

\* Each action keeps the invariant and matches.
LEMMA InvNext ==
    ASSUME "Heap" \notin RemovingKinds, SchedulersInv, [Next]_vars
    PROVE  SchedulersInv' /\ Matches
<1>0. /\ kind \in AllKinds /\ kind \in Kinds /\ now \in Nat /\ uid \in Nat
      /\ Holds(kind, store, Queue) /\ Behind(kind, store, now)
      /\ Unique(Queue) /\ \A e \in Queue : e.uid < uid /\ now <= e.ts
      /\ Queue \subseteq Events
  BY SchedulersAssumption DEF SchedulersInv, AllKinds, Holds
<1>1. CASE EventScheduled
  <2>1. PICK d \in Delays : store' = Insert(kind, store, [ts |-> now + d, uid |-> uid])
    BY <1>1 DEF EventScheduled
  <2> DEFINE e == [ts |-> now + d, uid |-> uid]
             C == Queue
  <2>2. kind' = kind /\ now' = now /\ uid' = uid + 1 /\ taken' = taken
    BY <1>1 DEF EventScheduled
  <2>3. d \in Nat
    BY SchedulersAssumption
  <2>4. e \in Events /\ e.ts = now + d /\ e.uid = uid /\ e \notin C
    BY <1>0, <2>3 DEF Events
  <2>5. store' = Insert(kind, store, e)
    BY <2>1
  <2> HIDE DEF e, C
  <2>6. Behind(kind, store, e.ts)
    <3>1. IsCalendar(kind) => store.lastPrio \in Nat
      BY <1>0 DEF Holds, CalendarOf, InDays, Calendars
    <3> QED
      BY <1>0, <2>3, <2>4, <3>1 DEF Behind
  <2>7. Holds(kind, store', C \cup {e}) /\ Behind(kind, store', now)
    BY <1>0, <2>4, <2>5, <2>6, InsertIs DEF C
  <2>8. Queue' = C \cup {e}
    BY <1>0, <2>2, <2>7, ContentsIs DEF Queue
  <2>9. \A f \in C \cup {e} : f.uid < uid + 1 /\ now <= f.ts
    BY <1>0, <2>3, <2>4 DEF C, Events
  <2>10. Unique(C \cup {e})
    BY <1>0, <2>4 DEF C, Unique, Events
  <2>11. SchedulersInv'
    BY <1>0, <2>2, <2>7, <2>8, <2>9, <2>10 DEF SchedulersInv
  <2>12. P!Insert
    BY <2>2, <2>4, <2>8 DEF P!Insert, Queue, C
  <2> QED
    BY <2>2, <2>11, <2>12 DEF P!Next, Matches
<1>2. CASE EventTaken
  <2> DEFINE C == Queue
  <2>1. /\ C # {} /\ taken' = Returned(kind, store) /\ now' = taken'.ts
        /\ store' = RemoveNext(kind, store) /\ kind' = kind /\ uid' = uid
    BY <1>2 DEF EventTaken, Queue
  <2> HIDE DEF C
  <2>2. PICK e : IsLeast(e, C)
    BY <1>0, <2>1, LeastExists DEF C
  <2>3. /\ Holds(kind, store', C \ {e}) /\ Behind(kind, store', e.ts)
        /\ Returned(kind, store) = e
    BY <1>0, <2>1, <2>2, RemoveNextIs DEF C
  <2>4. Queue' = C \ {e}
    BY <1>0, <2>1, <2>3, ContentsIs DEF Queue
  <2>5. e \in C /\ e \in Events /\ \A f \in C \ {e} : f \in Events /\ Precedes(e, f)
    BY <1>0, <2>2 DEF IsLeast, C
  <2>6. \A f \in C \ {e} : f.uid < uid /\ e.ts <= f.ts
    BY <1>0, <2>5 DEF C, Precedes, Events
  <2>7. Unique(C \ {e})
    BY <1>0 DEF Unique, C
  <2>8. now' = e.ts /\ e.ts \in Nat /\ taken' = e
    BY <2>1, <2>3, <2>5 DEF Events
  <2>9. SchedulersInv'
    BY <1>0, <2>1, <2>3, <2>4, <2>6, <2>7, <2>8 DEF SchedulersInv
  <2>10. P!RemoveNext
    BY <2>4, <2>5, <2>8 DEF P!RemoveNext, P!Precedes, Precedes, Queue, C
  <2> QED
    BY <2>1, <2>9, <2>10 DEF P!Next, Matches
<1>3. CASE EventRemoved
  <2> DEFINE C == Queue
  <2>1. /\ kind \in RemovingKinds /\ kind' = kind /\ now' = now /\ uid' = uid /\ taken' = taken
    BY <1>3 DEF EventRemoved
  <2>2. PICK e \in C : store' = RemoveEvent(kind, store, e)
    BY <1>3 DEF EventRemoved, Queue
  <2>3. kind # "Heap"
    BY <2>1
  <2> HIDE DEF C
  <2>4. Holds(kind, store', C \ {e}) /\ Behind(kind, store', now)
    BY <1>0, <2>2, <2>3, RemoveEventIs DEF C
  <2>5. Queue' = C \ {e}
    BY <1>0, <2>1, <2>4, ContentsIs DEF Queue
  <2>6. Unique(C \ {e})
    BY <1>0 DEF Unique, C
  <2>7. SchedulersInv'
    BY <1>0, <2>1, <2>4, <2>5, <2>6 DEF SchedulersInv, C
  <2>8. P!Remove
    BY <2>1, <2>5 DEF P!Remove, Queue, C
  <2> QED
    BY <2>1, <2>7, <2>8 DEF P!Next, Matches
<1>4. CASE SetScheduler
  <2> DEFINE C == Queue
  <2>1. PICK l \in Kinds : kind' = l /\ store' = Moved(kind, l)
    BY <1>4 DEF SetScheduler
  <2>2. now' = now /\ uid' = uid /\ taken' = taken
    BY <1>4 DEF SetScheduler
  <2>3. l \in AllKinds
    BY SchedulersAssumption DEF AllKinds
  <2> HIDE DEF C
  <2>4. Holds(l, store', C) /\ Behind(l, store', 0)
    BY <1>0, <2>1, <2>3, MovedIs DEF C
  <2>5. Queue' = C
    BY <2>1, <2>3, <2>4, ContentsIs DEF Queue
  <2>6. Behind(l, store', now)
    <3>1. IsCalendar(l) => store'.lastPrio \in Nat
      BY <2>4 DEF Holds, CalendarOf, InDays, Calendars
    <3> QED
      BY <1>0, <2>4, <3>1 DEF Behind
  <2>7. SchedulersInv'
    BY <1>0, <2>1, <2>2, <2>4, <2>5, <2>6 DEF SchedulersInv, C
  <2>8. UNCHANGED P!vars
    BY <2>2, <2>5 DEF P!vars, Queue, C
  <2> QED
    BY <2>2, <2>7, <2>8 DEF Matches
<1>5. CASE UNCHANGED vars
  <2>1. kind' = kind /\ store' = store /\ now' = now /\ uid' = uid /\ taken' = taken
    BY <1>5 DEF vars
  <2>2. Queue' = Queue
    BY <2>1 DEF Queue
  <2>3. SchedulersInv'
    BY <1>0, <2>1, <2>2 DEF SchedulersInv
  <2>4. UNCHANGED P!vars
    BY <2>1, <2>2 DEF P!vars, Queue
  <2> QED
    BY <2>1, <2>3, <2>4 DEF Matches
<1> QED
  BY <1>1, <1>2, <1>3, <1>4, <1>5 DEF Next, Done

LEMMA InvPeek == SchedulersInv => PeekShowsLeast
<1> SUFFICES ASSUME SchedulersInv, Queue # {}
             PROVE  PeekNext(kind, store) = Least(Queue)
  BY DEF PeekShowsLeast, Queue
<1>1. kind \in AllKinds /\ Holds(kind, store, Queue) /\ Queue \subseteq Events
  BY SchedulersAssumption DEF SchedulersInv, AllKinds, Holds
<1> HIDE DEF Queue
<1>2. IsLeast(PeekNext(kind, store), Queue)
  BY <1>1, PeekNextIs
<1> QED
  BY <1>1, <1>2, LeastIs

\* The real-time simulator waits for the event it then takes: PeekNext shows
\* the least event, unless events are removed from the heap (HeapScheduler::Remove
\* does not restore the order upwards).
THEOREM PeekAlwaysShowsLeast ==
    ASSUME "Heap" \notin RemovingKinds
    PROVE  Spec => []PeekShowsLeast
<1>1. SchedulersInv /\ [Next]_vars => SchedulersInv'
  BY InvNext
<1> QED
  BY InvInit, <1>1, InvPeek, PTL DEF Spec

\* The queue of a simulator hands out the events in the order of their keys and
\* loses none, whichever scheduler holds them, and however often it is exchanged
\* (scheduler.h).
THEOREM QueueRefinement ==
    ASSUME "Heap" \notin RemovingKinds
    PROVE  Spec => ImplementsScheduler
<1>1. Init => P!Init
  <2> SUFFICES ASSUME Init PROVE P!Init
    OBVIOUS
  <2>1. kind \in AllKinds /\ store = Empty(kind) /\ taken = Nothing
    BY SchedulersAssumption DEF Init, AllKinds
  <2>2. Holds(kind, store, {})
    BY <2>1, EmptyIs
  <2>3. Contents(kind, store) = {}
    BY <2>1, <2>2, ContentsIs
  <2> QED
    BY <2>1, <2>3 DEF P!Init
<1>2. SchedulersInv /\ [Next]_vars => SchedulersInv' /\ [P!Next]_(P!vars)
  BY InvNext DEF Matches
<1> DEFINE M == /\ uid' # uid => P!Insert
                /\ taken' # taken => P!RemoveNext
                /\ kind' # kind => UNCHANGED P!vars
<1>3. SchedulersInv /\ [Next]_vars => [M]_vars
  BY InvNext DEF Matches
<1>4. Spec => [][M]_vars
  <2> HIDE DEF M
  <2> QED
    BY InvInit, <1>2, <1>3, PTL DEF Spec
<1>5. Spec => CallsMatch
  BY <1>4 DEF CallsMatch
<1>6. Spec => P!Spec
  BY InvInit, <1>1, <1>2, PTL DEF Spec, P!Spec
<1> QED
  BY <1>5, <1>6 DEF ImplementsScheduler
=============================================================================
