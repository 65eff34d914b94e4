------------------------ MODULE PdrawPipeline_proofs -------------------------
(***************************************************************************)
(* Proofs about PdrawPipeline, for any sinks, in both pipeline modes,      *)
(* whatever Allowed lets happen and without any bound.                     *)
(***************************************************************************)
EXTENDS PdrawPipeline, TLAPS

-----------------------------------------------------------------------------
(* Sequences.                                                              *)

\* removeOutputChannel() leaves the other channels there.
LEMMA WithoutKeeps ==
  ASSUME NEW S, NEW out \in Seq(S), NEW c
  PROVE  /\ Without(out, c) \in Seq(S)
         /\ \A x : x # c /\ Contains(out, x) => Contains(Without(out, c), x)
  <1>1. CASE ~Contains(out, c)
    BY <1>1, Zenon DEF Without
  <1>2. CASE Contains(out, c)
    <2> DEFINE k == CHOOSE j \in DOMAIN out : out[j] = c
               t == [j \in 1..(Len(out) - 1) |-> IF j < k THEN out[j] ELSE out[j + 1]]
    <2>1. DOMAIN out = 1..Len(out) /\ Len(out) \in Nat
      BY SMT
    <2>2. \E j \in DOMAIN out : out[j] = c
      BY <1>2, <2>1, Zenon DEF Contains
    <2>3. k \in DOMAIN out /\ out[k] = c
      BY <2>2, Zenon
    <2>4. Without(out, c) = t
      BY <1>2, Zenon DEF Without
    <2> HIDE DEF k
    <2>5. t \in Seq(S) /\ Len(t) = Len(out) - 1
      BY <2>1, <2>3, SMT
    <2>6. ASSUME NEW x, x # c, NEW i \in DOMAIN out, out[i] = x
          PROVE  \E j \in 1..Len(t) : t[j] = x
      <3>1. i # k
        BY <2>3, <2>6
      <3>2. CASE i < k
        <4>1. i \in 1..(Len(out) - 1) /\ t[i] = out[i]
          BY <2>1, <2>3, <3>2, SMT
        <4>. QED
          BY <2>5, <2>6, <4>1, SMT
      <3>3. CASE i > k
        <4>1. i - 1 \in 1..(Len(out) - 1) /\ ~(i - 1 < k) /\ i - 1 + 1 = i
          BY <2>1, <2>3, <3>3, SMT
        <4>2. t[i - 1] = out[i]
          BY <4>1, Zenon
        <4>. QED
          BY <2>5, <2>6, <4>1, <4>2, SMT
      <3>4. i < k \/ i > k
        <4>1. i \in 1..Len(out) /\ k \in 1..Len(out)
          BY <2>1, <2>3, <2>6
        <4>. QED
          BY <2>1, <3>1, <4>1, SMT
      <3>. QED
        BY <3>2, <3>3, <3>4
    <2> HIDE DEF t
    <2>7. ASSUME NEW x, x # c, Contains(out, x)
          PROVE  Contains(t, x)
      BY <2>1, <2>6, <2>7, Zenon DEF Contains
    <2>. QED
      BY <2>4, <2>5, <2>7, Zenon
  <1>. QED
    BY <1>1, <1>2

\* Two sequences joined; two that are the same.
LEMMA Concat ==
  ASSUME NEW S, NEW a \in Seq(S), NEW b \in Seq(S)
  PROVE  /\ a \o b \in Seq(S) /\ Len(a \o b) = Len(a) + Len(b)
         /\ \A i \in 1..(Len(a) + Len(b)) :
                (a \o b)[i] = IF i <= Len(a) THEN a[i] ELSE b[i - Len(a)]
  BY SMT

LEMMA SameSeq ==
  ASSUME NEW S, NEW a \in Seq(S), NEW b \in Seq(S), Len(a) = Len(b),
         \A i \in 1..Len(a) : a[i] = b[i]
  PROVE  a = b
  <1>1. a = [i \in 1..Len(a) |-> a[i]] /\ b = [i \in 1..Len(a) |-> b[i]]
    BY SMT
  <1>. QED
    BY <1>1, Zenon

\* An element at the end of a sequence.
LEMMA AppendContains ==
  ASSUME NEW S, NEW q \in Seq(S), NEW n \in S
  PROVE  /\ Append(q, n) \in Seq(S)
         /\ \A x : Contains(q, x) => Contains(Append(q, n), x)
         /\ Contains(Append(q, n), n)
         /\ \A i \in DOMAIN q : i \in DOMAIN Append(q, n) /\ Append(q, n)[i] = q[i]
         /\ \A i \in DOMAIN Append(q, n) : i \in DOMAIN q \/ i = Len(q) + 1
         /\ Len(q) + 1 \in DOMAIN Append(q, n) /\ Append(q, n)[Len(q) + 1] = n
         /\ \A i \in DOMAIN q : i \in Nat /\ i < Len(q) + 1
  <1> DEFINE t == Append(q, n)
  <1>1. /\ t \in Seq(S) /\ Len(t) = Len(q) + 1
        /\ \A i \in DOMAIN q : i \in DOMAIN t /\ t[i] = q[i]
        /\ \A i \in DOMAIN t : i \in DOMAIN q \/ i = Len(q) + 1
        /\ Len(q) + 1 \in DOMAIN t /\ t[Len(q) + 1] = n
        /\ \A i \in DOMAIN q : i \in Nat /\ i < Len(q) + 1
        /\ DOMAIN q = 1..Len(q) /\ DOMAIN t = 1..Len(t)
    BY SMT
  <1> HIDE DEF t
  <1>2. \A x : Contains(q, x) => Contains(t, x)
    BY <1>1, Zenon DEF Contains
  <1>3. Contains(t, n)
    BY <1>1, Zenon DEF Contains
  <1>. QED
    BY <1>1, <1>2, <1>3, Zenon DEF t

\* Chains of no, one and two calls.
LEMMA Chains ==
  ASSUME NEW S
  PROVE  /\ <<>> \in Seq(S) /\ DOMAIN <<>> = {} /\ Len(<<>>) = 0
         /\ \A x \in S : /\ <<x>> \in Seq(S) /\ Len(<<x>>) = 1 /\ <<x>>[1] = x
                         /\ DOMAIN <<x>> = {1}
         /\ \A x, y \in S : /\ <<x, y>> \in Seq(S) /\ Len(<<x, y>>) = 2
                            /\ <<x, y>>[1] = x /\ <<x, y>>[2] = y
                            /\ DOMAIN <<x, y>> = {1, 2}
  <1>1. <<>> \in Seq(S) /\ DOMAIN <<>> = {} /\ Len(<<>>) = 0
    BY SMT
  <1>2. ASSUME NEW x \in S
        PROVE  <<x>> \in Seq(S) /\ Len(<<x>>) = 1 /\ <<x>>[1] = x /\ DOMAIN <<x>> = {1}
    BY SMT
  <1>3. ASSUME NEW x \in S, NEW y \in S
        PROVE  /\ <<x, y>> \in Seq(S) /\ Len(<<x, y>>) = 2
               /\ <<x, y>>[1] = x /\ <<x, y>>[2] = y /\ DOMAIN <<x, y>> = {1, 2}
    <2>1. <<x, y>> \in Seq(S) /\ Len(<<x, y>>) = 2 /\ <<x, y>>[1] = x /\ <<x, y>>[2] = y
      BY SMT
    <2>2. DOMAIN <<x, y>> = 1..2
      BY <2>1, SMT
    <2>. QED
      BY <2>1, <2>2, SMT
  <1>. QED
    BY <1>1, <1>2, <1>3, Zenon

\* Chains joined.
LEMMA JoinNone ==
  ASSUME NEW S, NEW s \in Seq(S)
  PROVE  <<>> \o s = s /\ s \o <<>> = s
  BY SMT

LEMMA JoinOne ==
  ASSUME NEW S, NEW x \in S, NEW y \in S
  PROVE  <<x>> \o <<y>> = <<x, y>>
  <1> DEFINE a == <<x>>
             b == <<y>>
             c == <<x, y>>
  <1>1. /\ a \in Seq(S) /\ Len(a) = 1 /\ a[1] = x
        /\ b \in Seq(S) /\ Len(b) = 1 /\ b[1] = y
        /\ c \in Seq(S) /\ Len(c) = 2 /\ c[1] = x /\ c[2] = y
    BY Chains
  <1> HIDE DEF a, b, c
  <1>2. /\ a \o b \in Seq(S) /\ Len(a \o b) = Len(a) + Len(b)
        /\ \A i \in 1..(Len(a) + Len(b)) :
              (a \o b)[i] = IF i <= Len(a) THEN a[i] ELSE b[i - Len(a)]
    BY <1>1, Concat, Zenon
  <1>3. \A i \in 1..2 : (a \o b)[i] = c[i]
    BY <1>1, <1>2, SMT
  <1>4. a \o b = c
    BY <1>1, <1>2, <1>3, SameSeq, SMT
  <1>. QED
    BY <1>4 DEF a, b, c

LEMMA Three ==
  ASSUME NEW S, NEW x \in S, NEW y \in S, NEW z \in S
  PROVE  /\ <<x, y, z>> \in Seq(S) /\ Len(<<x, y, z>>) = 3 /\ <<x, y, z>>[1] = x
         /\ <<x, y, z>>[2] = y /\ <<x, y, z>>[3] = z
         /\ Tail(<<x, y, z>>) = <<y, z>>
  <1>1. /\ <<x, y, z>> \in Seq(S) /\ Len(<<x, y, z>>) = 3 /\ <<x, y, z>>[1] = x
        /\ <<x, y, z>>[2] = y /\ <<x, y, z>>[3] = z
    BY SMT
  <1>2. Tail(<<x, y, z>>) = <<y, z>>
    BY SMT
  <1>. QED
    BY <1>1, <1>2

LEMMA JoinTwo ==
  ASSUME NEW S, NEW x \in S, NEW y \in S, NEW z \in S
  PROVE  <<x, y>> \o <<z>> = <<x, y, z>>
  <1> DEFINE a == <<x, y>>
             b == <<z>>
             c == <<x, y, z>>
  <1>1. /\ a \in Seq(S) /\ Len(a) = 2 /\ a[1] = x /\ a[2] = y
        /\ b \in Seq(S) /\ Len(b) = 1 /\ b[1] = z
        /\ c \in Seq(S) /\ Len(c) = 3 /\ c[1] = x /\ c[2] = y /\ c[3] = z
    BY Chains, Three
  <1> HIDE DEF a, b, c
  <1>2. /\ a \o b \in Seq(S) /\ Len(a \o b) = Len(a) + Len(b)
        /\ \A i \in 1..(Len(a) + Len(b)) :
              (a \o b)[i] = IF i <= Len(a) THEN a[i] ELSE b[i - Len(a)]
    BY <1>1, Concat, Zenon
  <1>3. \A i \in 1..3 : (a \o b)[i] = c[i]
    BY <1>1, <1>2, SMT
  <1>4. a \o b = c
    BY <1>1, <1>2, <1>3, SameSeq, SMT
  <1>. QED
    BY <1>4 DEF a, b, c

LEMMA JoinOneTwo ==
  ASSUME NEW S, NEW x \in S, NEW y \in S, NEW z \in S
  PROVE  <<x>> \o <<y, z>> = <<x, y, z>>
  <1> DEFINE a == <<x>>
             b == <<y, z>>
             c == <<x, y, z>>
  <1>1. /\ a \in Seq(S) /\ Len(a) = 1 /\ a[1] = x
        /\ b \in Seq(S) /\ Len(b) = 2 /\ b[1] = y /\ b[2] = z
        /\ c \in Seq(S) /\ Len(c) = 3 /\ c[1] = x /\ c[2] = y /\ c[3] = z
    BY Chains, Three
  <1> HIDE DEF a, b, c
  <1>2. /\ a \o b \in Seq(S) /\ Len(a \o b) = Len(a) + Len(b)
        /\ \A i \in 1..(Len(a) + Len(b)) :
              (a \o b)[i] = IF i <= Len(a) THEN a[i] ELSE b[i - Len(a)]
    BY <1>1, Concat, Zenon
  <1>3. \A i \in 1..3 : (a \o b)[i] = c[i]
    BY <1>1, <1>2, SMT
  <1>4. a \o b = c
    BY <1>1, <1>2, <1>3, SameSeq, SMT
  <1>. QED
    BY <1>4 DEF a, b, c

\* A sequence without its head.
LEMMA TailOfSeq ==
  ASSUME NEW S, NEW s \in Seq(S), s # <<>>
  PROVE  /\ Tail(s) \in Seq(S) /\ Head(s) \in S
         /\ \A i \in DOMAIN Tail(s) :
                i + 1 \in DOMAIN s /\ Tail(s)[i] = s[i + 1] /\ i \in Nat /\ i > 0
         /\ \A i \in DOMAIN s :
                i = 1 \/ (i - 1 \in DOMAIN Tail(s) /\ Tail(s)[i - 1] = s[i] /\ i \in Nat)
         /\ 1 \in DOMAIN s /\ Head(s) = s[1]
  <1>1. Len(s) \in Nat /\ Len(s) > 0 /\ DOMAIN s = 1..Len(s) /\ Head(s) = s[1]
    BY SMT
  <1>2. Tail(s) \in Seq(S) /\ Len(Tail(s)) = Len(s) - 1
    BY SMT
  <1>3. DOMAIN Tail(s) = 1..(Len(s) - 1)
    BY <1>2, SMT
  <1>4. \A i \in 1..(Len(s) - 1) : Tail(s)[i] = s[i + 1]
    BY <1>1, SMT
  <1> DEFINE t == Tail(s)
             n == Len(s)
  <1>5. t = Tail(s) /\ n = Len(s)
    OBVIOUS
  <1> HIDE DEF t, n
  <1>6. \A i \in DOMAIN t : i + 1 \in DOMAIN s /\ t[i] = s[i + 1] /\ i \in Nat /\ i > 0
    BY <1>1, <1>3, <1>4, <1>5, SMT
  <1>7. \A i \in DOMAIN s : i = 1 \/ (i - 1 \in DOMAIN t /\ t[i - 1] = s[i] /\ i \in Nat)
    BY <1>1, <1>3, <1>4, <1>5, SMT
  <1>8. 1 \in DOMAIN s
    BY <1>1, SMT
  <1>9. s[1] \in S
    BY <1>1, <1>8, SMT
  <1>. QED
    BY <1>1, <1>2, <1>5, <1>6, <1>7, <1>8, <1>9, Zenon

\* Calls put in front of what is left of a chain: each call of the new chain is
\* one of them, or a later call of the old chain.
LEMMA CallsInFront ==
  ASSUME NEW S, NEW calls \in Seq(S), NEW s \in Seq(S), s # <<>>
  PROVE  /\ calls \o Tail(s) \in Seq(S)
         /\ \A i \in DOMAIN (calls \o Tail(s)) :
                \/ i \in DOMAIN calls /\ (calls \o Tail(s))[i] = calls[i]
                \/ /\ i - Len(calls) + 1 \in DOMAIN s /\ i - Len(calls) + 1 > 1
                   /\ (calls \o Tail(s))[i] = s[i - Len(calls) + 1]
                   /\ i \in Nat /\ Len(calls) \in Nat
  <1> DEFINE t == Tail(s)
             u == calls \o t
  <1>1. /\ t \in Seq(S) /\ Len(t) \in Nat
        /\ \A i \in DOMAIN t : i + 1 \in DOMAIN s /\ t[i] = s[i + 1] /\ i \in Nat /\ i > 0
    BY TailOfSeq, SMT
  <1> HIDE DEF t
  <1>2. /\ u \in Seq(S) /\ Len(u) = Len(calls) + Len(t) /\ DOMAIN u = 1..Len(u)
        /\ DOMAIN calls = 1..Len(calls) /\ DOMAIN t = 1..Len(t)
        /\ Len(calls) \in Nat
    BY <1>1, SMT
  <1>3. \A i \in DOMAIN u : u[i] = IF i <= Len(calls) THEN calls[i] ELSE t[i - Len(calls)]
    BY <1>1, SMT
  <1> DEFINE n == Len(calls)
             m == Len(t)
  <1> HIDE DEF u, n, m
  <1>4. ASSUME NEW i \in DOMAIN u
        PROVE  \/ i \in DOMAIN calls /\ u[i] = calls[i]
               \/ i - n + 1 \in DOMAIN s /\ i - n + 1 > 1 /\ u[i] = s[i - n + 1]
                  /\ i \in Nat /\ n \in Nat
    <2>1. i \in 1..(n + m) /\ n \in Nat /\ m \in Nat
      BY <1>1, <1>2, <1>4, SMT DEF n, m
    <2>2. CASE i <= n
      BY <1>2, <1>3, <2>1, <2>2, SMT DEF n
    <2>3. CASE ~(i <= n)
      <3>1. i - n \in 1..m
        BY <2>1, <2>3, SMT
      <3>2. i - n \in DOMAIN t
        BY <1>2, <3>1, Zenon DEF m
      <3>3. u[i] = t[i - n]
        BY <1>3, <1>4, <2>3, Zenon DEF n
      <3>4. i - n + 1 \in DOMAIN s /\ t[i - n] = s[i - n + 1] /\ i - n > 0
        BY <1>1, <3>2
      <3>. QED
        BY <2>1, <3>3, <3>4, SMT
    <2>. QED
      BY <2>2, <2>3
  <1>. QED
    BY <1>2, <1>4, Zenon DEF u, t, n

-----------------------------------------------------------------------------
(* The notices to the application.                                         *)

\* A notice that is posted has the last word.
LEMMA LastSaysPosted ==
  ASSUME NEW S, NEW q \in Seq(S), NEW n \in S, NEW on, NEW off, NEW e,
         NEW known, NEW truth,
         n.e = e, n.cb \in {on, off}, n.cb = on <=> truth
  PROVE  LastSays(Append(q, n), on, off, e, known, truth)
  <1> DEFINE t == Append(q, n)
             l == Len(q) + 1
  <1>1. /\ \A i \in DOMAIN q : i \in DOMAIN t /\ t[i] = q[i]
        /\ \A i \in DOMAIN t : i \in DOMAIN q \/ i = l
        /\ l \in DOMAIN t /\ t[l] = n
        /\ \A i \in DOMAIN q : i \in Nat /\ i < l
    BY AppendContains
  <1>2. l \in Nat
    BY SMT
  <1> HIDE DEF t, l
  <1>3. l \in Notices(t, on, off, e)
    BY <1>1, Zenon DEF Notices
  <1>4. \A i \in DOMAIN t : i <= l
    BY <1>1, <1>2, SMT
  <1>5. \A j \in Notices(t, on, off, e) : j <= l
    BY <1>4, Zenon DEF Notices
  <1>6. t[l].cb = on <=> truth
    BY <1>1
  <1>. QED
    BY <1>3, <1>5, <1>6, Zenon DEF LastSays, t

\* A notice about something else changes nothing.
LEMMA LastSaysOther ==
  ASSUME NEW S, NEW q \in Seq(S), NEW n \in S, NEW on, NEW off, NEW e,
         NEW known, NEW truth,
         n.e # e \/ n.cb \notin {on, off},
         LastSays(q, on, off, e, known, truth)
  PROVE  LastSays(Append(q, n), on, off, e, known, truth)
  <1> DEFINE t == Append(q, n)
             l == Len(q) + 1
  <1>1. /\ \A i \in DOMAIN q : i \in DOMAIN t /\ t[i] = q[i]
        /\ \A i \in DOMAIN t : i \in DOMAIN q \/ i = l
        /\ l \in DOMAIN t /\ t[l] = n
    BY AppendContains
  <1> HIDE DEF t, l
  <1>2. Notices(t, on, off, e) = Notices(q, on, off, e)
    BY <1>1, Zenon DEF Notices
  <1>3. \A i \in Notices(q, on, off, e) : t[i] = q[i]
    BY <1>1, Zenon DEF Notices
  <1>4. CASE Notices(q, on, off, e) = {}
    BY <1>2, <1>4, Zenon DEF LastSays, t
  <1>5. CASE Notices(q, on, off, e) # {}
    BY <1>2, <1>3, <1>5, Zenon DEF LastSays, t
  <1>. QED
    BY <1>4, <1>5

\* The application hears the first notice.
LEMMA LastSaysHeard ==
  ASSUME NEW S, NEW q \in Seq(S), q # <<>>, NEW on, NEW off, NEW e,
         NEW known, NEW heard, NEW truth,
         Head(q).e = e /\ Head(q).cb \in {on, off} => (heard <=> Head(q).cb = on),
         ~(Head(q).e = e /\ Head(q).cb \in {on, off}) => (heard <=> known),
         LastSays(q, on, off, e, known, truth)
  PROVE  LastSays(Tail(q), on, off, e, heard, truth)
  <1> DEFINE t == Tail(q)
             N == Notices(q, on, off, e)
             M == Notices(t, on, off, e)
  <1>1. /\ \A i \in DOMAIN t : i + 1 \in DOMAIN q /\ t[i] = q[i + 1] /\ i \in Nat /\ i > 0
        /\ \A i \in DOMAIN q : i = 1 \/ (i - 1 \in DOMAIN t /\ t[i - 1] = q[i] /\ i \in Nat)
        /\ 1 \in DOMAIN q /\ Head(q) = q[1]
    BY TailOfSeq
  <1> HIDE DEF t
  <1>2. \A i : i \in M <=> i \in DOMAIN t /\ t[i].cb \in {on, off} /\ t[i].e = e
    BY Zenon DEF Notices
  <1>3. \A i : i \in N <=> i \in DOMAIN q /\ q[i].cb \in {on, off} /\ q[i].e = e
    BY Zenon DEF Notices
  <1>4. N = {} => (known <=> truth)
    BY Zenon DEF LastSays
  <1>5. N # {} => \E i \in N : (\A j \in N : j <= i) /\ (q[i].cb = on <=> truth)
    BY Zenon DEF LastSays
  <1> HIDE DEF N, M
  <1>6. ASSUME NEW i \in M
        PROVE  i + 1 \in N /\ i \in Nat /\ i > 0
    <2>1. i \in DOMAIN t /\ t[i].cb \in {on, off} /\ t[i].e = e
      BY <1>2, <1>6
    <2>2. i + 1 \in DOMAIN q /\ t[i] = q[i + 1] /\ i \in Nat /\ i > 0
      BY <1>1, <2>1
    <2>. QED
      BY <1>3, <2>1, <2>2, Zenon
  <1>7. \A i \in N : i = 1 \/ (i - 1 \in M /\ t[i - 1] = q[i] /\ i \in Nat)
    BY <1>1, <1>2, <1>3, SMT
  <1>8. CASE M = {}
    <2>1. \A i \in N : i = 1
      BY <1>7, <1>8
    <2>2. CASE 1 \in N
      <3>1. q[1].cb = on <=> truth
        BY <1>5, <2>1, <2>2, Zenon
      <3>2. heard <=> q[1].cb = on
        BY <1>1, <1>3, <2>2, ZenonT(60)
      <3>. QED
        BY <1>8, <3>1, <3>2, Zenon DEF LastSays, M, t
    <2>3. CASE 1 \notin N
      <3>1. N = {}
        BY <2>1, <2>3, Zenon
      <3>2. heard <=> known
        BY <1>1, <1>3, <2>3, Zenon
      <3>. QED
        BY <1>4, <1>8, <3>1, <3>2, Zenon DEF LastSays, M, t
    <2>. QED
      BY <2>2, <2>3
  <1>9. CASE M # {}
    <2>1. PICK m \in M : TRUE
      BY <1>9
    <2>2. N # {}
      BY <1>6, <2>1
    <2>3. PICK i \in N : (\A j \in N : j <= i) /\ (q[i].cb = on <=> truth)
      BY <1>5, <2>2
    <2>4. i # 1
      <3>1. m + 1 \in N /\ m \in Nat /\ m > 0
        BY <1>6, <2>1
      <3>2. m + 1 <= i
        BY <2>3, <3>1
      <3>. QED
        BY <3>1, <3>2, SMT
    <2>5. i - 1 \in M /\ t[i - 1] = q[i] /\ i \in Nat
      BY <1>7, <2>3, <2>4
    <2>6. ASSUME NEW j \in M
          PROVE  j <= i - 1
      <3>1. j + 1 <= i /\ j \in Nat
        BY <1>6, <2>3, <2>6
      <3>. QED
        BY <2>5, <3>1, SMT
    <2>7. t[i - 1].cb = on <=> truth
      BY <2>3, <2>5
    <2>. QED
      BY <1>9, <2>5, <2>6, <2>7, Zenon DEF LastSays, M, t
  <1>. QED
    BY <1>8, <1>9

-----------------------------------------------------------------------------
(* Elements and calls.                                                     *)

LEMMA Distinct ==
  /\ D \in Elements /\ V \in Elements /\ Sinks \subseteq Elements
  /\ V \in SinkElements /\ Sinks \subseteq SinkElements /\ SinkElements \subseteq Elements
  /\ D # V /\ D \notin Sinks /\ V \notin Sinks /\ D \notin SinkElements
  /\ None \notin Elements /\ H264Sinks \subseteq Sinks
  /\ \A c \in SinkElements : c = V \/ c \in Sinks
  /\ \A e \in Elements : e = D \/ e = V \/ e \in Sinks
  BY ElementsOK, Zenon DEF Elements, SinkElements

\* Calls made of the ends of a channel.
LEMMA TypedOfChannel ==
  ASSUME NEW c \in SinkElements,
         NEW f \in {"channel.flush", "channel.flushDone", "onChannelFlush",
                    "onChannelTeardown", "removeInputMedia", "deleteChannel"}
  PROVE  Call(f, c) \in CallType /\ Call(f, c).f = f /\ Call(f, c).e = c
  <1>1. c \in Elements \cup {None}
    BY Distinct
  <1>2. Call(f, c) \in CallsOf({"channel.flush", "channel.flushDone", "onChannelFlush",
                  "onChannelTeardown", "removeInputMedia", "deleteChannel"}, SinkElements)
    BY <1>1, SMT DEF Call, CallsOf
  <1>. QED
    BY <1>2, Zenon DEF CallType, Call

\* Calls of the demuxer, of the decoder, of a sink, of the session.
LEMMA TypedOfD ==
  ASSUME NEW f \in {"stop", "flush", "channelFlushed"}
  PROVE  Call(f, D) \in CallType /\ Call(f, D).f = f /\ Call(f, D).e = D
  <1>1. Call(f, D) \in CallsOf({"stop", "flush", "channelFlushed"}, {D})
    BY Distinct, SMT DEF Call, CallsOf
  <1>. QED
    BY <1>1, Zenon DEF CallType, Call

LEMMA TypedLoop ==
  ASSUME NEW f \in {"flushAt", "flushed"}, NEW i \in Nat \ {0}, NEW n \in Nat
  PROVE  CallLoop(f, D, i, n) \in CallType /\ CallLoop(f, D, i, n).f = f
  <1>1. CallLoop(f, D, i, n) \in [f : {"flushAt", "flushed"}, e : {D}, c : {D},
                                   i : Nat \ {0}, n : Nat]
    BY SMT DEF CallLoop
  <1>. QED
    BY <1>1, Zenon DEF CallType, CallLoop

LEMMA TypedOfV ==
  ASSUME NEW f \in {"flush", "vdec_flush", "completeFlush", "afterFlush", "teardownOutputs",
                    "vdec_stop", "completeStop", "resync"}
  PROVE  Call(f, V) \in CallType /\ Call(f, V).f = f /\ Call(f, V).e = V
  <1>1. Call(f, V) \in CallsOf({"flush", "vdec_flush", "completeFlush", "afterFlush",
                   "teardownOutputs", "vdec_stop", "completeStop", "resync"}, {V})
    BY Distinct, SMT DEF Call, CallsOf
  <1>. QED
    BY <1>1, Zenon DEF CallType, Call

LEMMA TypedOfSink ==
  ASSUME NEW s \in Sinks,
         NEW f \in {"stop", "inputRemoved", "flush", "flushDone", "completeStop"}
  PROVE  Call(f, s) \in CallType /\ Call(f, s).f = f /\ Call(f, s).e = s
  <1>1. s \in Elements \cup {None}
    BY Distinct
  <1>2. Call(f, s) \in CallsOf({"stop", "inputRemoved", "flush", "flushDone",
                               "completeStop"}, Sinks)
    BY <1>1, SMT DEF Call, CallsOf
  <1>. QED
    BY <1>2, Zenon DEF CallType, Call

LEMMA TypedOfSession ==
  /\ \A f \in {"idle", "mboxCb"} :
         Call(f, None) \in CallType /\ Call(f, None).f = f /\ Call(f, None).e = None
  /\ \A e \in Elements : /\ CallOn("onElementStopped", None, e) \in CallType
                         /\ CallOn("onElementStopped", None, e).f = "onElementStopped"
                         /\ CallOn("onElementStopped", None, e).c = e
  <1>1. ASSUME NEW f \in {"idle", "mboxCb"}
        PROVE  Call(f, None) \in CallsOf({"idle", "mboxCb"}, {None})
    BY SMT DEF Call, CallsOf
  <1>2. ASSUME NEW e \in Elements
        PROVE  CallOn("onElementStopped", None, e)
                   \in [f : {"onElementStopped"}, e : {None}, c : Elements, i : Nat, n : Nat]
    BY SMT DEF CallOn
  <1>. QED
    BY <1>1, <1>2, Zenon DEF CallType, Call, CallOn

\* Calls of the source of a channel.
LEMMA TypedUpstream ==
  ASSUME NEW f \in {"onChannelFlushed", "onChannelUnlink"}, NEW e \in {D, V},
         NEW c \in SinkElements
  PROVE  /\ CallOn(f, e, c) \in CallType
         /\ CallOn(f, e, c).f = f /\ CallOn(f, e, c).e = e /\ CallOn(f, e, c).c = c
  <1>1. CallOn(f, e, c) \in Upstream
    BY SMT DEF CallOn, Upstream
  <1>. QED
    BY <1>1, Zenon DEF CallType, CallOn

\* What a call of the type is about.
LEMMA CallFields ==
  ASSUME NEW x \in CallType
  PROVE  /\ x.e \in Elements \cup {None} /\ x.c \in Elements \cup {None}
         /\ x.i \in Nat /\ x.n \in Nat
         /\ x.f \in {"onChannelFlushed", "onChannelUnlink"} =>
                x.e \in {D, V} /\ x.c \in SinkElements
         /\ x.f = "onElementStopped" => x.e = None /\ x.c \in Elements
         /\ x.f \in {"flushAt", "flushed"} => x.i \in Nat \ {0}
         /\ x.f \in {"inputRemoved", "teardownOutputs", "removeInputMedia",
                     "deleteChannel", "onChannelTeardown"} => x.e \in SinkElements
         /\ x.f = "stop" => x.e \in Elements
         /\ x.f = "vdec_stop" => x.e = V
         /\ x.f = "teardownOutputs" => x.e = V
         /\ x.f = "inputRemoved" => x.e \in Sinks
  <1>1. CASE x \in Upstream
    BY <1>1, Distinct, SMT DEF Upstream
  <1>2. CASE x \in CallsOf({"channel.flush", "channel.flushDone", "onChannelFlush",
                "onChannelTeardown", "removeInputMedia", "deleteChannel"}, SinkElements)
    BY <1>2, Distinct, SMT DEF CallsOf
  <1>3. CASE x \in CallsOf({"stop", "flush", "channelFlushed"}, {D})
    BY <1>3, Distinct, SMT DEF CallsOf
  <1>4. CASE x \in [f : {"flushAt", "flushed"}, e : {D}, c : {D}, i : Nat \ {0}, n : Nat]
    BY <1>4, Distinct, SMT
  <1>5. CASE x \in CallsOf({"flush", "vdec_flush", "completeFlush", "afterFlush",
                   "teardownOutputs", "vdec_stop", "completeStop", "resync"}, {V})
    BY <1>5, Distinct, SMT DEF CallsOf
  <1>6. CASE x \in CallsOf({"stop", "inputRemoved", "flush", "flushDone",
                               "completeStop"}, Sinks)
    BY <1>6, Distinct, SMT DEF CallsOf
  <1>7. CASE x \in CallsOf({"idle", "mboxCb"}, {None})
    BY <1>7, Distinct, SMT DEF CallsOf
  <1>8. CASE x \in [f : {"onElementStopped"}, e : {None}, c : Elements, i : Nat, n : Nat]
    BY <1>8, Distinct, SMT
  <1>. QED
    BY <1>1, <1>2, <1>3, <1>4, <1>5, <1>6, <1>7, <1>8, Zenon DEF CallType

-----------------------------------------------------------------------------
(* Most steps make calls that no invariant but the type of the agenda is   *)
(* about.                                                                  *)

Loud == {"stop", "onElementStopped", "onChannelUnlink", "vdec_stop", "teardownOutputs",
         "inputRemoved"}
QuietCalls == {x \in CallType : x.f \notin Loud /\ ~(x.f = "completeStop" /\ x.e = V)}

\* The steps of an element that loses its input media, or that stops.
Steps == {"removeInputMedia", "deleteChannel", "onChannelTeardown", "onChannelUnlink",
          "onElementStopped", "stop"}

\* The agenda after a call that makes these calls.
After(calls) ==
    \A i \in DOMAIN agenda' :
        \/ i \in DOMAIN calls /\ agenda'[i] = calls[i]
        \/ /\ i - Len(calls) + 1 \in DOMAIN agenda /\ i - Len(calls) + 1 > 1
           /\ agenda'[i] = agenda[i - Len(calls) + 1]
           /\ i \in Nat /\ Len(calls) \in Nat

LEMMA ThenAfter ==
  ASSUME agenda \in Seq(CallType), agenda # <<>>, NEW calls \in Seq(CallType), Then(calls)
  PROVE  agenda' \in Seq(CallType) /\ After(calls)
  BY CallsInFront, ZenonT(60) DEF Then, After

QuietStep ==
    \/ UNCHANGED agenda
    \/ \E calls \in Seq(QuietCalls) :
          \/ agenda = <<>> /\ agenda' = calls
          \/ agenda # <<>> /\ Head(agenda).f \notin Steps /\ Then(calls)

LEMMA QuietTyped ==
  ASSUME agenda \in Seq(CallType), QuietStep
  PROVE  agenda' \in Seq(CallType)
  <1>1. Seq(QuietCalls) \subseteq Seq(CallType)
    BY SMT DEF QuietCalls
  <1>. QED
    BY <1>1, ThenAfter, Zenon DEF QuietStep

LEMMA QuietOfChannel ==
  ASSUME NEW c \in SinkElements,
         NEW f \in {"channel.flush", "channel.flushDone", "onChannelFlush",
                    "onChannelTeardown", "removeInputMedia", "deleteChannel"}
  PROVE  Call(f, c) \in QuietCalls
  BY TypedOfChannel, SMT DEF QuietCalls, Loud

LEMMA QuietOfElements ==
  /\ Call("flush", D) \in QuietCalls /\ Call("channelFlushed", D) \in QuietCalls
  /\ \A f \in {"flush", "vdec_flush", "completeFlush", "afterFlush", "resync"} :
         Call(f, V) \in QuietCalls
  /\ \A s \in Sinks : \A f \in {"flush", "flushDone", "completeStop"} :
         Call(f, s) \in QuietCalls
  /\ Call("idle", None) \in QuietCalls /\ Call("mboxCb", None) \in QuietCalls
  <1>1. Call("flush", D) \in QuietCalls /\ Call("channelFlushed", D) \in QuietCalls
    BY TypedOfD, SMT DEF QuietCalls, Loud
  <1>2. ASSUME NEW f \in {"flush", "vdec_flush", "completeFlush", "afterFlush", "resync"}
        PROVE  Call(f, V) \in QuietCalls
    BY TypedOfV, SMT DEF QuietCalls, Loud
  <1>3. ASSUME NEW s \in Sinks, NEW f \in {"flush", "flushDone", "completeStop"}
        PROVE  Call(f, s) \in QuietCalls
    BY TypedOfSink, Distinct, SMT DEF QuietCalls, Loud
  <1>4. Call("idle", None) \in QuietCalls /\ Call("mboxCb", None) \in QuietCalls
    BY TypedOfSession, SMT DEF QuietCalls, Loud
  <1>. QED
    BY <1>1, <1>2, <1>3, <1>4, Zenon

LEMMA QuietLoop ==
  ASSUME NEW f \in {"flushAt", "flushed"}, NEW i \in Nat \ {0}, NEW n \in Nat
  PROVE  CallLoop(f, D, i, n) \in QuietCalls
  BY TypedLoop, SMT DEF QuietCalls, Loud

LEMMA QuietFlushed ==
  ASSUME NEW e \in {D, V}, NEW c \in SinkElements
  PROVE  CallOn("onChannelFlushed", e, c) \in QuietCalls
  BY TypedUpstream, SMT DEF QuietCalls, Loud

\* A call that makes quiet calls.
LEMMA QuietThen ==
  ASSUME NEW f, NEW e, Runs(f, e), f \notin Steps, NEW calls \in Seq(QuietCalls), Then(calls)
  PROVE  QuietStep
  BY Zenon DEF QuietStep, Runs

LEMMA QuietReturn ==
  ASSUME NEW f, NEW e, Runs(f, e), f \notin Steps, Return
  PROVE  QuietStep
  BY Chains, QuietThen, Zenon DEF Return

LEMMA QuietOne ==
  ASSUME NEW f, NEW e, Runs(f, e), f \notin Steps, NEW x \in QuietCalls, Then(<<x>>)
  PROVE  QuietStep
  BY Chains, QuietThen, Zenon

LEMMA QuietTwo ==
  ASSUME NEW f, NEW e, Runs(f, e), f \notin Steps, NEW x \in QuietCalls, NEW y \in QuietCalls,
         Then(<<x, y>>)
  PROVE  QuietStep
  BY Chains, QuietThen, Zenon

\* An event that makes a quiet call.
LEMMA QuietEvent ==
  ASSUME AtEvent, NEW x \in QuietCalls, agenda' = <<x>>
  PROVE  QuietStep
  BY Chains, Zenon DEF QuietStep, AtEvent

\* The call that runs, and what it is about.
LEMMA Running ==
  ASSUME agenda \in Seq(CallType), NEW f, NEW e, Runs(f, e)
  PROVE  /\ agenda # <<>> /\ Head(agenda) \in CallType /\ 1 \in DOMAIN agenda
         /\ Head(agenda) = agenda[1] /\ agenda[1].f = f /\ agenda[1].e = e
         /\ Subject = agenda[1].c
         /\ e \in Elements => est[e] # "deleted"
  BY TailOfSeq, Zenon DEF Runs, Subject, Exists

-----------------------------------------------------------------------------
(* What a step that makes quiet calls leaves alone.                        *)

SameDec == /\ dec'.mInputMedia = dec.mInputMedia /\ dec'.mOutputMedia = dec.mOutputMedia
           /\ dec'.out = dec.out /\ dec'.mVdecStopPending = dec.mVdecStopPending
StopsVdec(v) == v.stopping \/ v.cb \in {"stop", "stopLoaded"}
SameVdec == /\ vdec'.stopping = vdec.stopping
            /\ vdec'.cb \in {"stop", "stopLoaded"} => vdec.cb \in {"stop", "stopLoaded"}
SameSinks == \A s \in Sinks : /\ sink'[s].mInputMedia = sink[s].mInputMedia
                              /\ sink'[s].mVideoSinkListener = sink[s].mVideoSinkListener
SameIdle == \/ UNCHANGED idle
            \/ \E s \in Sinks : idle' = Append(idle, Idle("sinkFlush", s))
            \/ idle # <<>> /\ Head(idle).cb = "sinkFlush" /\ idle' = Tail(idle)
SameMbox ==
    \A i \in DOMAIN mMbox' : \/ mMbox'[i].cmd \in {"COMPLETE_FLUSH", "RESYNC"}
                             \/ \E j \in DOMAIN mMbox : mMbox'[i] = mMbox[j]
sameVars == <<mState, mReadyToPlay, mElements, est, link, port, dmxMedia, dmxOut, told,
              appMedia>>

Plain == /\ QuietStep /\ UNCHANGED sameVars
         /\ SameDec /\ SameVdec /\ SameSinks /\ SameIdle /\ SameMbox

LEMMA Untouched ==
  /\ UNCHANGED dec => SameDec
  /\ UNCHANGED vdec => SameVdec
  /\ UNCHANGED sink => SameSinks
  /\ UNCHANGED idle => SameIdle
  /\ UNCHANGED mMbox => SameMbox
  BY Zenon DEF SameDec, SameVdec, SameSinks, SameIdle, SameMbox

\* A message that is posted.
LEMMA PostedMail ==
  ASSUME mMbox \in Seq(MessageType), NEW cmd, NEW e,
         [cmd |-> cmd, e |-> e] \in MessageType, Post(cmd, e)
  PROVE  /\ mMbox' \in Seq(MessageType)
         /\ \A i \in DOMAIN mMbox' : \/ mMbox'[i] = [cmd |-> cmd, e |-> e]
                                     \/ \E j \in DOMAIN mMbox : mMbox'[i] = mMbox[j]
  <1>1. mMbox' = Append(mMbox, [cmd |-> cmd, e |-> e])
    BY Zenon DEF Post
  <1> DEFINE n == [cmd |-> cmd, e |-> e]
  <1>2. n \in MessageType /\ mMbox' = Append(mMbox, n)
    BY <1>1
  <1> HIDE DEF n
  <1>3. /\ mMbox' \in Seq(MessageType)
        /\ \A i \in DOMAIN mMbox : mMbox'[i] = mMbox[i]
        /\ \A i \in DOMAIN mMbox' : i \in DOMAIN mMbox \/ i = Len(mMbox) + 1
        /\ mMbox'[Len(mMbox) + 1] = n
    BY <1>2, AppendContains
  <1>. QED
    BY <1>3, Zenon DEF n

LEMMA Messages ==
  /\ \A cmd \in {"COMPLETE_FLUSH", "COMPLETE_STOP", "RESYNC"} :
         [cmd |-> cmd, e |-> V] \in MessageType /\ [cmd |-> cmd, e |-> V].cmd = cmd
  /\ \A e \in Elements : /\ [cmd |-> "ELEMENT_DELETE", e |-> e] \in MessageType
                         /\ [cmd |-> "ELEMENT_DELETE", e |-> e].cmd = "ELEMENT_DELETE"
                         /\ [cmd |-> "ELEMENT_DELETE", e |-> e].e = e
  /\ \A m \in MessageType :
         /\ m.e \in Elements
         /\ m.cmd = "ELEMENT_DELETE" \/ m.e = V
         /\ m.cmd \in {"COMPLETE_FLUSH", "COMPLETE_STOP", "RESYNC", "ELEMENT_DELETE"}
  <1>1. ASSUME NEW cmd \in {"COMPLETE_FLUSH", "COMPLETE_STOP", "RESYNC"}
        PROVE  [cmd |-> cmd, e |-> V] \in MessageType /\ [cmd |-> cmd, e |-> V].cmd = cmd
    BY SMT DEF MessageType
  <1>2. ASSUME NEW e \in Elements
        PROVE  /\ [cmd |-> "ELEMENT_DELETE", e |-> e] \in MessageType
               /\ [cmd |-> "ELEMENT_DELETE", e |-> e].cmd = "ELEMENT_DELETE"
               /\ [cmd |-> "ELEMENT_DELETE", e |-> e].e = e
    BY SMT DEF MessageType
  <1>3. ASSUME NEW m \in MessageType
        PROVE  /\ m.e \in Elements
               /\ m.cmd = "ELEMENT_DELETE" \/ m.e = V
               /\ m.cmd \in {"COMPLETE_FLUSH", "COMPLETE_STOP", "RESYNC", "ELEMENT_DELETE"}
    BY Distinct, SMT DEF MessageType
  <1>. QED
    BY <1>1, <1>2, <1>3, Zenon

LEMMA NoticeTypes ==
  /\ \A s \in Sinks : Idle("sinkFlush", s) \in IdleType
  /\ \A cb \in Answers : Idle(cb, None) \in IdleType
  /\ \A cb \in {"mediaAdded", "mediaRemoved"} : \A e \in {D, V} : Idle(cb, e) \in IdleType
  /\ \A n \in IdleType : /\ n.cb = "sinkFlush" => n.e \in Sinks
                         /\ n.cb \in {"mediaAdded", "mediaRemoved"} => n.e \in {D, V}
                         /\ n.cb \in Answers => n.e = None
                         /\ n.cb \in Answers \cup {"sinkFlush", "mediaAdded", "mediaRemoved"}
  <1>1. ASSUME NEW s \in Sinks
        PROVE  Idle("sinkFlush", s) \in IdleType
    BY SMT DEF Idle, IdleType
  <1>2. ASSUME NEW cb \in Answers
        PROVE  Idle(cb, None) \in IdleType
    BY SMT DEF Idle, IdleType
  <1>3. ASSUME NEW cb \in {"mediaAdded", "mediaRemoved"}, NEW e \in {D, V}
        PROVE  Idle(cb, e) \in IdleType
    BY SMT DEF Idle, IdleType
  <1>4. ASSUME NEW n \in IdleType
        PROVE  /\ n.cb = "sinkFlush" => n.e \in Sinks
               /\ n.cb \in {"mediaAdded", "mediaRemoved"} => n.e \in {D, V}
               /\ n.cb \in Answers => n.e = None
               /\ n.cb \in Answers \cup {"sinkFlush", "mediaAdded", "mediaRemoved"}
    BY SMT DEF IdleType, Answers
  <1>. QED
    BY <1>1, <1>2, <1>3, <1>4, Zenon

\* A message that is neither about a stop nor about an element to delete.
LEMMA PlainMail ==
  ASSUME mMbox \in Seq(MessageType), NEW cmd \in {"COMPLETE_FLUSH", "RESYNC"}, Post(cmd, V)
  PROVE  SameMbox
  <1>1. [cmd |-> cmd, e |-> V] \in MessageType /\ [cmd |-> cmd, e |-> V].cmd = cmd
    BY Messages
  <1>2. \A i \in DOMAIN mMbox' : \/ mMbox'[i] = [cmd |-> cmd, e |-> V]
                                 \/ \E j \in DOMAIN mMbox : mMbox'[i] = mMbox[j]
    BY <1>1, PostedMail
  <1>. QED
    BY <1>1, <1>2, Zenon DEF SameMbox

-----------------------------------------------------------------------------
(* The steps that are plain: of channels, ...                              *)

LEMMA ChannelPlain ==
  ASSUME TypeOK, NEW c \in SinkElements, ChannelFlush(c) \/ ChannelFlushDone(c)
  PROVE  Plain
  <1>1. CASE ChannelFlush(c)
    <2>1. QuietStep
      BY <1>1, QuietOne, QuietOfChannel, Zenon DEF ChannelFlush, Steps
    <2>. QED
      BY <1>1, <2>1, Untouched, Zenon DEF ChannelFlush, otherThanChannels, sessionVars,
         dmxVars, appVars, Plain, sameVars
  <1>2. CASE ChannelFlushDone(c)
    <2>1. QuietStep
      <3>1. CASE mFlushPending[c] /\ link[c] # None
        <4>1. link[c] \in {D, V}
          BY <3>1, SMT DEF TypeOK
        <4>. QED
          BY <1>2, <3>1, <4>1, QuietOne, QuietFlushed, Zenon DEF ChannelFlushDone, Steps
      <3>2. CASE ~(mFlushPending[c] /\ link[c] # None)
        BY <1>2, <3>2, QuietReturn, Zenon DEF ChannelFlushDone, Steps
      <3>. QED
        BY <3>1, <3>2
    <2>. QED
      BY <1>2, <2>1, Untouched, Zenon DEF ChannelFlushDone, otherThanChannels, sessionVars,
         dmxVars, appVars, Plain, sameVars
  <1>. QED
    BY <1>1, <1>2

\* ... of the demuxer, ...
LEMMA DmxPlain ==
  ASSUME TypeOK,
         \/ DmxFlush \/ DmxFlushAt \/ DmxChannelCounted
         \/ DmxOnChannelFlushed \/ DmxChannelFlushed
  PROVE  Plain
  <1>0. agenda \in Seq(CallType) /\ dmxOut \in Seq(SinkElements)
    BY Zenon DEF TypeOK
  <1>1. CASE DmxFlush
    <2>1. 1 \in Nat \ {0} /\ Len(dmxOut) \in Nat
      BY <1>0, SMT
    <2>2. QuietStep
      BY <1>1, <2>1, QuietOne, QuietLoop, Zenon DEF DmxFlush, Steps
    <2>. QED
      BY <1>1, <2>2, Untouched, Zenon DEF DmxFlush, otherThanDmx, dmxVars, appVars, Plain,
         sameVars
  <1>2. CASE DmxFlushAt
    <2>1. Runs("flushAt", D)
      BY <1>2, Zenon DEF DmxFlushAt
    <2> DEFINE i == Head(agenda).i
               n == Head(agenda).n
    <2>2. i \in Nat \ {0} /\ n \in Nat
      BY <1>0, <2>1, Running, CallFields, Zenon
    <2>3. QuietStep
      <3>1. CASE /\ i <= n /\ i <= Len(dmxOut)
                 /\ Then(<<Call("channel.flush", dmxOut[i]), CallLoop("flushed", D, i, n)>>)
        <4>1. dmxOut[i] \in SinkElements
          BY <1>0, <2>2, <3>1, SMT
        <4>. QED
          BY <2>1, <2>2, <3>1, <4>1, QuietTwo, QuietOfChannel, QuietLoop, Zenon DEF Steps
      <3>2. CASE Then(<<CallLoop("flushAt", D, i + 1, n)>>)
        <4>1. i + 1 \in Nat \ {0}
          BY <2>2, SMT
        <4>. QED
          BY <2>1, <2>2, <3>2, <4>1, QuietOne, QuietLoop, Zenon DEF Steps
      <3>3. CASE Return
        BY <2>1, <3>3, QuietReturn, Zenon DEF Steps
      <3>. QED
        BY <1>2, <3>1, <3>2, <3>3, Zenon DEF DmxFlushAt
    <2>. QED
      BY <1>2, <2>3, Untouched, Zenon DEF DmxFlushAt, otherThanDmx, appVars, Plain, sameVars
  <1>3. CASE DmxChannelCounted
    <2>1. Runs("flushed", D)
      BY <1>3, Zenon DEF DmxChannelCounted
    <2>2. Head(agenda).i \in Nat \ {0} /\ Head(agenda).n \in Nat
      BY <1>0, <2>1, Running, CallFields, Zenon
    <2>3. Head(agenda).i + 1 \in Nat \ {0}
      BY <2>2, SMT
    <2>4. QuietStep
      BY <1>3, <2>1, <2>2, <2>3, QuietOne, QuietLoop, Zenon DEF DmxChannelCounted, Steps
    <2>. QED
      BY <1>3, <2>4, Untouched, Zenon DEF DmxChannelCounted, otherThanDmx, appVars, Plain,
         sameVars
  <1>4. CASE DmxOnChannelFlushed
    <2>1. Runs("onChannelFlushed", D)
      BY <1>4, Zenon DEF DmxOnChannelFlushed
    <2>2. Subject \in SinkElements
      BY <1>0, <2>1, Running, CallFields, ZenonT(60)
    <2>3. QuietStep
      <3>1. CASE est[D] = "STOPPING"
        <4>1. Then(<<Call("onChannelTeardown", Subject)>> \o <<Call("channelFlushed", D)>>)
          BY <1>4, <3>1, Zenon DEF DmxOnChannelFlushed
        <4>2. <<Call("onChannelTeardown", Subject)>> \o <<Call("channelFlushed", D)>>
                  \in Seq(QuietCalls)
          BY <2>2, Chains, QuietOfChannel, QuietOfElements, SMT
        <4>. QED
          BY <2>1, <4>1, <4>2, QuietThen, Zenon DEF Steps
      <3>2. CASE est[D] # "STOPPING"
        <4>1. Then(<<>> \o <<Call("channelFlushed", D)>>)
          BY <1>4, <3>2, Zenon DEF DmxOnChannelFlushed
        <4>2. <<>> \o <<Call("channelFlushed", D)>> \in Seq(QuietCalls)
          BY QuietOfElements, SMT
        <4>. QED
          BY <2>1, <4>1, <4>2, QuietThen, Zenon DEF Steps
      <3>. QED
        BY <3>1, <3>2
    <2>. QED
      BY <1>4, <2>3, Untouched, Zenon DEF DmxOnChannelFlushed, otherThanDmx, dmxVars, appVars,
         Plain, sameVars
  <1>5. CASE DmxChannelFlushed
    <2>1. QuietStep
      BY <1>5, QuietReturn, Zenon DEF DmxChannelFlushed, Steps
    <2>. QED
      BY <1>5, <2>1, Untouched, Zenon DEF DmxChannelFlushed, otherThanDmx, appVars, Plain,
         sameVars
  <1>. QED
    BY <1>1, <1>2, <1>3, <1>4, <1>5, Zenon

\* ... of the decoder, ...
LEMMA DecPlain ==
  ASSUME TypeOK,
         \/ DecOnChannelFlush \/ DecFlush \/ VdecFlush \/ DecCompleteFlush
         \/ DecOnChannelFlushed \/ DecResync
  PROVE  Plain
  <1>0. /\ agenda \in Seq(CallType) /\ dec \in DecType /\ vdec \in VdecType
        /\ mMbox \in Seq(MessageType) /\ dec.out \in Seq(Sinks)
    BY SMT DEF TypeOK, DecType
  <1>1. CASE DecOnChannelFlush
    <2>1. QuietStep
      BY <1>1, QuietOne, QuietOfElements, Zenon DEF DecOnChannelFlush, Steps
    <2>2. dec' = [dec EXCEPT !.mInputChannelFlushPending = TRUE]
      BY <1>1, Zenon DEF DecOnChannelFlush
    <2>3. SameDec
      BY <1>0, <2>2, Zenon DEF SameDec, DecType
    <2>. QED
      BY <1>1, <2>1, <2>3, Untouched, Zenon DEF DecOnChannelFlush, otherThanDec, sessionVars,
         dmxVars, appVars, Plain, sameVars
  <1>2. CASE DecFlush
    <2>1. CASE dec.mIsFlushed
      <3>1. QuietStep
        BY <1>2, <2>1, QuietOne, QuietOfElements, Zenon DEF DecFlush, Steps
      <3>. QED
        BY <1>2, <2>1, <3>1, Untouched, Zenon DEF DecFlush, otherThanDec, sessionVars,
           dmxVars, appVars, Plain, sameVars
    <2>2. CASE ~dec.mIsFlushed
      <3> DEFINE flushes_ == [i \in DOMAIN dec.out |-> Call("channel.flush", dec.out[i])]
      <3>1. /\ dec' = [dec EXCEPT !.mVdecFlushPending = TRUE]
            /\ Then(flushes_ \o <<Call("vdec_flush", V)>>)
            /\ Runs("flush", V)
        BY <1>2, <2>2, Zenon DEF DecFlush
      <3>2. \A i \in DOMAIN dec.out : Call("channel.flush", dec.out[i]) \in QuietCalls
        <4>1. \A i \in DOMAIN dec.out : dec.out[i] \in Sinks
          BY <1>0, SMT
        <4>. QED
          BY <4>1, QuietOfChannel, Distinct, Zenon
      <3>3. flushes_ \in Seq(QuietCalls)
        BY <1>0, <3>2, SMTT(60)
      <3> HIDE DEF flushes_
      <3>4. flushes_ \o <<Call("vdec_flush", V)>> \in Seq(QuietCalls)
        BY <3>3, QuietOfElements, SMT
      <3>5. QuietStep
        BY <3>1, <3>4, QuietThen, Zenon DEF Steps
      <3>6. SameDec
        BY <1>0, <3>1, Zenon DEF SameDec, DecType
      <3>. QED
        BY <1>2, <3>5, <3>6, Untouched, Zenon DEF DecFlush, otherThanDec, sessionVars,
           dmxVars, appVars, Plain, sameVars
    <2>. QED
      BY <2>1, <2>2
  <1>3. CASE VdecFlush
    <2>1. QuietStep
      BY <1>3, QuietReturn, Zenon DEF VdecFlush, Steps
    <2>2. vdec' = [vdec EXCEPT !.flushing = TRUE]
      BY <1>3, Zenon DEF VdecFlush
    <2>3. SameVdec
      BY <1>0, <2>2, Zenon DEF SameVdec, VdecType
    <2>. QED
      BY <1>3, <2>1, <2>3, Untouched, Zenon DEF VdecFlush, otherThanDec, sessionVars,
         dmxVars, appVars, Plain, sameVars
  <1>4. CASE DecCompleteFlush
    <2>0. Runs("completeFlush", V)
      BY <1>4, Zenon DEF DecCompleteFlush
    <2>1. /\ QuietStep
          /\ \/ UNCHANGED dec
             \/ dec' = [dec EXCEPT !.mIsFlushed = TRUE, !.mInputChannelFlushPending = FALSE]
      <3>1. CASE dec.mVdecFlushPending \/ DecOutputFlushPending
        BY <1>4, <2>0, <3>1, QuietReturn, Zenon DEF DecCompleteFlush, Steps
      <3>2. CASE ~(dec.mVdecFlushPending \/ DecOutputFlushPending) /\ ~dec.mInputMedia
        BY <1>4, <2>0, <3>2, QuietOne, QuietOfElements, Zenon DEF DecCompleteFlush, Steps
      <3>3. CASE /\ ~(dec.mVdecFlushPending \/ DecOutputFlushPending) /\ dec.mInputMedia
                 /\ dec.mInputChannelFlushPending
        <4>1. /\ dec' = [dec EXCEPT !.mIsFlushed = TRUE, !.mInputChannelFlushPending = FALSE]
              /\ Then(<<Call("channel.flushDone", V)>> \o <<Call("afterFlush", V)>>)
          BY <1>4, <3>3, Zenon DEF DecCompleteFlush
        <4>2. <<Call("channel.flushDone", V)>> \o <<Call("afterFlush", V)>> \in Seq(QuietCalls)
          BY QuietOfElements, QuietOfChannel, Distinct, SMT
        <4>. QED
          BY <2>0, <4>1, <4>2, QuietThen, Zenon DEF Steps
      <3>4. CASE /\ ~(dec.mVdecFlushPending \/ DecOutputFlushPending) /\ dec.mInputMedia
                 /\ ~dec.mInputChannelFlushPending
        <4>1. /\ dec' = [dec EXCEPT !.mIsFlushed = TRUE, !.mInputChannelFlushPending = FALSE]
              /\ Then(<<>> \o <<Call("afterFlush", V)>>)
          BY <1>4, <3>4, Zenon DEF DecCompleteFlush
        <4>2. <<>> \o <<Call("afterFlush", V)>> \in Seq(QuietCalls)
          BY QuietOfElements, SMT
        <4>. QED
          BY <2>0, <4>1, <4>2, QuietThen, Zenon DEF Steps
      <3>. QED
        BY <3>1, <3>2, <3>3, <3>4, Zenon
    <2>2. SameDec
      <3>1. CASE dec' = [dec EXCEPT !.mIsFlushed = TRUE, !.mInputChannelFlushPending = FALSE]
        BY <1>0, <3>1, Zenon DEF SameDec, DecType
      <3>. QED
        BY <2>1, <3>1, Untouched, Zenon
    <2>. QED
      BY <1>4, <2>1, <2>2, Untouched, Zenon DEF DecCompleteFlush, otherThanDec, sessionVars,
         dmxVars, appVars, Plain, sameVars
  <1>5. CASE DecOnChannelFlushed
    <2>1. QuietStep
      BY <1>5, QuietReturn, Zenon DEF DecOnChannelFlushed, Steps
    <2>2. Post("COMPLETE_FLUSH", V)
      BY <1>5, Zenon DEF DecOnChannelFlushed
    <2>3. SameMbox
      BY <1>0, <2>2, PlainMail, Zenon
    <2>. QED
      BY <1>5, <2>1, <2>3, Untouched, Zenon DEF DecOnChannelFlushed, otherThanDec, sessionVars,
         dmxVars, appVars, Plain, sameVars
  <1>6. CASE DecResync
    <2>1. QuietStep
      BY <1>6, QuietReturn, Zenon DEF DecResync, Steps
    <2>2. SameDec /\ SameVdec
      <3>1. CASE dec.mIsSync
        BY <1>6, <3>1, Untouched, Zenon DEF DecResync
      <3>2. CASE ~dec.mIsSync
        <4>1. /\ dec' = [dec EXCEPT !.mResyncPending = TRUE]
              /\ vdec' = [vdec EXCEPT !.flushing = TRUE]
          BY <1>6, <3>2, Zenon DEF DecResync
        <4>. QED
          BY <1>0, <4>1, Zenon DEF SameDec, SameVdec, DecType, VdecType
      <3>. QED
        BY <3>1, <3>2
    <2>. QED
      BY <1>6, <2>1, <2>2, Untouched, Zenon DEF DecResync, otherThanDec, sessionVars,
         dmxVars, appVars, Plain, sameVars
  <1>. QED
    BY <1>1, <1>2, <1>3, <1>4, <1>5, <1>6, Zenon

\* What a frame does to the sinks it is queued on.
LEMMA QueuedSinks ==
  ASSUME sink \in [Sinks -> SinkType], NEW out
  PROVE  /\ Queued(out) \in [Sinks -> SinkType]
         /\ \A s \in Sinks : /\ Queued(out)[s].mInputMedia = sink[s].mInputMedia
                             /\ Queued(out)[s].mVideoSinkListener = sink[s].mVideoSinkListener
  <1>1. ASSUME NEW s \in Sinks
        PROVE  /\ Queued(out)[s] \in SinkType
               /\ Queued(out)[s].mInputMedia = sink[s].mInputMedia
               /\ Queued(out)[s].mVideoSinkListener = sink[s].mVideoSinkListener
    <2> DEFINE r == sink[s]
               p == [r EXCEPT !.mIsFlushed = FALSE]
    <2>1. r \in SinkType
      BY SMT
    <2> HIDE DEF r
    <2>2. /\ p \in SinkType /\ p.mInputMedia = r.mInputMedia
          /\ p.mVideoSinkListener = r.mVideoSinkListener
      BY <2>1, Zenon DEF SinkType
    <2>3. Queued(out)[s] = p \/ Queued(out)[s] = r
      BY Zenon DEF Queued, r
    <2> HIDE DEF p
    <2>. QED
      BY <2>1, <2>2, <2>3, Zenon DEF r
  <1>. QED
    BY <1>1, Zenon DEF Queued

\* ... of vdec, ...
LEMMA VdecPlain ==
  ASSUME TypeOK,
         \/ FlushCb \/ FlushCbPost \/ StopCbLoad \/ OutputCb \/ OutputCbQueue \/ OutputError
  PROVE  Plain
  <1>0. /\ dec \in DecType /\ vdec \in VdecType /\ mMbox \in Seq(MessageType)
        /\ sink \in [Sinks -> SinkType]
    BY Zenon DEF TypeOK
  <1>1. UNCHANGED agenda => QuietStep
    BY Zenon DEF QuietStep
  <1>2. CASE FlushCb
    <2>1. /\ dec' = [dec EXCEPT !.mVdecFlushPending = FALSE]
          /\ vdec' = [vdec EXCEPT !.flushing = FALSE, !.busy = FALSE, !.cb = "flush"]
      BY <1>2, Zenon DEF FlushCb
    <2>2. SameDec
      BY <1>0, <2>1, Zenon DEF SameDec, DecType
    <2>3. vdec'.stopping = vdec.stopping /\ vdec'.cb = "flush"
      BY <1>0, <2>1, Zenon DEF VdecType
    <2>4. SameVdec
      BY <2>3, SMT DEF SameVdec
    <2>. QED
      BY <1>1, <1>2, <2>2, <2>4, Untouched, Zenon DEF FlushCb, otherThanVdec, otherThanDec,
         sessionVars, dmxVars, appVars, Plain, sameVars
  <1>3. CASE FlushCbPost
    <2>1. vdec' = [vdec EXCEPT !.cb = "none"] /\ Post("COMPLETE_FLUSH", V)
      BY <1>3, Zenon DEF FlushCbPost
    <2>2. SameMbox
      BY <1>0, <2>1, PlainMail, Zenon
    <2>3. vdec'.stopping = vdec.stopping /\ vdec'.cb = "none"
      BY <1>0, <2>1, Zenon DEF VdecType
    <2>4. SameVdec
      BY <2>3, SMT DEF SameVdec
    <2>. QED
      BY <1>1, <1>3, <2>2, <2>4, Untouched, Zenon DEF FlushCbPost, otherThanVdec, otherThanDec,
         sessionVars, dmxVars, appVars, Plain, sameVars
  <1>4. CASE StopCbLoad
    <2>1. /\ vdec' = [vdec EXCEPT !.cb = "stopLoaded", !.count = dec.mCompleteStopPendingCount]
          /\ vdec.cb = "stop"
      BY <1>4, Zenon DEF StopCbLoad
    <2>3. vdec'.stopping = vdec.stopping
      BY <1>0, <2>1, Zenon DEF VdecType
    <2>4. SameVdec
      BY <2>1, <2>3, Zenon DEF SameVdec
    <2>. QED
      BY <1>1, <1>4, <2>4, Untouched, Zenon DEF StopCbLoad, otherThanVdec, otherThanDec,
         sessionVars, dmxVars, appVars, Plain, sameVars
  <1>5. CASE OutputCb
    <2>1. vdec' = [vdec EXCEPT !.cb = "output"]
      BY <1>5, Zenon DEF OutputCb
    <2>3. vdec'.stopping = vdec.stopping /\ vdec'.cb = "output"
      BY <1>0, <2>1, Zenon DEF VdecType
    <2>4. SameVdec
      BY <2>3, SMT DEF SameVdec
    <2>. QED
      BY <1>1, <1>5, <2>4, Untouched, Zenon DEF OutputCb, otherThanVdec, otherThanDec,
         sessionVars, dmxVars, appVars, Plain, sameVars
  <1>6. CASE OutputCbQueue
    <2>1. PICK busy \in BOOLEAN : vdec' = [vdec EXCEPT !.cb = "none", !.busy = busy]
      BY <1>6, Zenon DEF OutputCbQueue
    <2>2. sink' = sink \/ sink' = Queued(dec.out)
      BY <1>6, Zenon DEF OutputCbQueue
    <2>3. SameSinks
      BY <1>0, <2>2, QueuedSinks, ZenonT(60) DEF SameSinks
    <2>4. vdec'.stopping = vdec.stopping /\ vdec'.cb = "none"
      BY <1>0, <2>1, Zenon DEF VdecType
    <2>5. SameVdec
      BY <2>4, SMT DEF SameVdec
    <2>. QED
      BY <1>1, <1>6, <2>3, <2>5, Untouched, Zenon DEF OutputCbQueue, sessionVars, chanVars,
         dmxVars, appVars, Plain, sameVars
  <1>7. CASE OutputError
    <2>1. Post("RESYNC", V)
      BY <1>7, Zenon DEF OutputError
    <2>2. SameMbox
      BY <1>0, <2>1, PlainMail, Zenon
    <2>. QED
      BY <1>1, <1>7, <2>2, Untouched, Zenon DEF OutputError, sessionVars, chanVars, dmxVars,
         appVars, Plain, sameVars
  <1>. QED
    BY <1>2, <1>3, <1>4, <1>5, <1>6, <1>7, Zenon

\* ... and of a sink.
LEMMA SinkPlain ==
  ASSUME TypeOK, NEW s \in Sinks,
         SinkOnChannelFlush(s) \/ SinkFlush(s) \/ SinkFlushDone(s)
  PROVE  Plain
  <1>0. agenda \in Seq(CallType) /\ sink \in [Sinks -> SinkType]
    BY Zenon DEF TypeOK
  <1>1. CASE SinkOnChannelFlush(s)
    <2>1. QuietStep
      BY <1>1, QuietOne, QuietOfElements, Zenon DEF SinkOnChannelFlush, Steps
    <2>2. sink' = [sink EXCEPT ![s].mInputChannelFlushPending = TRUE]
      BY <1>1, Zenon DEF SinkOnChannelFlush
    <2>3. SameSinks
      BY <1>0, <2>2, Zenon DEF SameSinks, SinkType
    <2>. QED
      BY <1>1, <2>1, <2>3, Untouched, Zenon DEF SinkOnChannelFlush, otherThanSinks,
         sessionVars, chanVars, dmxVars, appVars, Plain, sameVars
  <1>2. CASE SinkFlush(s)
    <2>1. CASE sink[s].mIsFlushed
      <3>1. QuietStep
        BY <1>2, <2>1, QuietOne, QuietOfElements, Zenon DEF SinkFlush, Steps
      <3>. QED
        BY <1>2, <2>1, <3>1, Untouched, Zenon DEF SinkFlush, otherThanSinks,
           sessionVars, chanVars, dmxVars, appVars, Plain, sameVars
    <2>2. CASE ~sink[s].mIsFlushed
      <3>1. QuietStep
        BY <1>2, <2>2, QuietReturn, Zenon DEF SinkFlush, Steps
      <3>2. SameIdle
        BY <1>2, <2>2, Zenon DEF SinkFlush, SameIdle, IdleAdd
      <3>. QED
        BY <1>2, <3>1, <3>2, Untouched, Zenon DEF SinkFlush, otherThanSinks,
           sessionVars, chanVars, dmxVars, appVars, Plain, sameVars
    <2>. QED
      BY <2>1, <2>2
  <1>3. CASE SinkFlushDone(s)
    <2>0. Runs("flushDone", s)
      BY <1>3, Zenon DEF SinkFlushDone
    <2>1. CASE sink[s].mInputMedia /\ sink[s].mInputChannelFlushPending
      <3>1. /\ sink' = [sink EXCEPT ![s].mIsFlushed = TRUE,
                                    ![s].mInputChannelFlushPending = FALSE]
            /\ Then(<<Call("channel.flushDone", s), Call("completeStop", s)>>)
        BY <1>3, <2>1, Zenon DEF SinkFlushDone
      <3>2. QuietStep
        BY <2>0, <3>1, QuietTwo, QuietOfElements, QuietOfChannel, Distinct, Zenon DEF Steps
      <3>3. SameSinks
        BY <1>0, <3>1, Zenon DEF SameSinks, SinkType
      <3>. QED
        BY <1>3, <3>2, <3>3, Untouched, Zenon DEF SinkFlushDone, otherThanSinks,
           sessionVars, chanVars, dmxVars, appVars, Plain, sameVars
    <2>2. CASE ~(sink[s].mInputMedia /\ sink[s].mInputChannelFlushPending)
      <3>1. QuietStep
        BY <1>3, <2>0, <2>2, QuietOne, QuietOfElements, Zenon DEF SinkFlushDone, Steps
      <3>. QED
        BY <1>3, <2>2, <3>1, Untouched, Zenon DEF SinkFlushDone, otherThanSinks,
           sessionVars, chanVars, dmxVars, appVars, Plain, sameVars
    <2>. QED
      BY <2>1, <2>2
  <1>. QED
    BY <1>1, <1>2, <1>3, Zenon

-----------------------------------------------------------------------------
(* Events, idle functions and messages that are plain.                     *)

\* A call put in front of the one that runs.
LEMMA InFront ==
  ASSUME NEW S, NEW s \in Seq(S), s # <<>>, NEW x \in S
  PROVE  <<x>> \o s = <<x, Head(s)>> \o Tail(s)
  <1>1. /\ <<x>> \in Seq(S) /\ Len(<<x>>) = 1 /\ <<x>>[1] = x
        /\ Len(s) \in Nat /\ Len(s) > 0 /\ Head(s) = s[1] /\ Head(s) \in S
    BY SMT
  <1>2. Tail(s) \in Seq(S) /\ Len(Tail(s)) = Len(s) - 1
    BY SMT
  <1>3. \A i \in 1..(Len(s) - 1) : Tail(s)[i] = s[i + 1]
    BY <1>1, SMT
  <1>4. /\ <<x, Head(s)>> \in Seq(S) /\ Len(<<x, Head(s)>>) = 2
        /\ <<x, Head(s)>>[1] = x /\ <<x, Head(s)>>[2] = s[1]
    BY <1>1, SMT
  <1> DEFINE a == <<x>>
             b == <<x, Head(s)>>
             t == Tail(s)
  <1>5. /\ a \in Seq(S) /\ Len(a) = 1 /\ a[1] = x
        /\ b \in Seq(S) /\ Len(b) = 2 /\ b[1] = x /\ b[2] = s[1]
        /\ t \in Seq(S) /\ Len(t) = Len(s) - 1
        /\ \A i \in 1..(Len(s) - 1) : t[i] = s[i + 1]
    BY <1>1, <1>2, <1>3, <1>4
  <1> HIDE DEF a, b, t
  <1>6. /\ a \o s \in Seq(S) /\ Len(a \o s) = 1 + Len(s)
        /\ \A i \in 1..(1 + Len(s)) : (a \o s)[i] = IF i <= 1 THEN a[i] ELSE s[i - 1]
    <2>1. a \in Seq(S) /\ s \in Seq(S) /\ Len(a) = 1
      BY <1>5
    <2>2. /\ a \o s \in Seq(S) /\ Len(a \o s) = Len(a) + Len(s)
          /\ \A i \in 1..(Len(a) + Len(s)) :
                (a \o s)[i] = IF i <= Len(a) THEN a[i] ELSE s[i - Len(a)]
      BY <2>1, Concat, Zenon
    <2>. QED
      BY <2>1, <2>2
  <1>7. /\ b \o t \in Seq(S) /\ Len(b \o t) = 1 + Len(s)
        /\ \A i \in 1..(1 + Len(s)) : (b \o t)[i] = IF i <= 2 THEN b[i] ELSE t[i - 2]
    <2>1. 2 + (Len(s) - 1) = 1 + Len(s)
      BY <1>1, SMT
    <2>2. /\ b \o t \in Seq(S) /\ Len(b \o t) = Len(b) + Len(t)
          /\ \A i \in 1..(Len(b) + Len(t)) :
                (b \o t)[i] = IF i <= Len(b) THEN b[i] ELSE t[i - Len(b)]
      <3>1. b \in Seq(S) /\ t \in Seq(S)
        BY <1>5
      <3>. QED
        BY <3>1, Concat, Zenon
    <2>. QED
      BY <1>5, <2>1, <2>2
  <1> DEFINE u == a \o s
             v == b \o t
             n == Len(s)
  <1> HIDE DEF u, v, n
  <1>8. ASSUME NEW i \in 1..(1 + n)
        PROVE  u[i] = v[i]
    <2>0. n \in Nat /\ n > 0 /\ i \in Nat
      BY <1>1, SMT DEF n
    <2>1. CASE i = 1
      BY <1>1, <1>5, <1>6, <1>7, <2>0, <2>1, SMT DEF u, v, n
    <2>2. CASE i = 2
      BY <1>1, <1>5, <1>6, <1>7, <2>0, <2>2, SMT DEF u, v, n
    <2>3. CASE i > 2
      <3>1. i - 2 \in 1..(n - 1) /\ i - 2 + 1 = i - 1 /\ ~(i <= 1) /\ ~(i <= 2)
        BY <2>0, <2>3, SMT
      <3>2. t[i - 2] = s[i - 1]
        BY <1>5, <3>1, Zenon DEF n
      <3>3. u[i] = s[i - 1] /\ v[i] = t[i - 2]
        BY <1>6, <1>7, <3>1, Zenon DEF u, v, n
      <3>. QED
        BY <3>2, <3>3
    <2>. QED
      BY <2>0, <2>1, <2>2, <2>3, SMT
  <1>9. u = v
    <2>1. u \in Seq(S) /\ v \in Seq(S) /\ Len(u) = 1 + n /\ Len(v) = 1 + n
      BY <1>6, <1>7 DEF u, v, n
    <2>. QED
      BY <1>8, <2>1, SameSeq, Zenon
  <1>. QED
    BY <1>9, Zenon DEF a, b, t, u, v

LEMMA QuietInFront ==
  ASSUME agenda \in Seq(CallType), NEW f \in {"idle", "mboxCb"}, Runs(f, None),
         NEW x \in QuietCalls, agenda' = <<x>> \o agenda
  PROVE  QuietStep
  <1>1. /\ agenda # <<>> /\ Head(agenda) \in CallType /\ Head(agenda).f = f
        /\ x \in CallType
    BY Running, Zenon DEF QuietCalls
  <1>2. Head(agenda) \in QuietCalls
    BY <1>1, SMT DEF QuietCalls, Loud
  <1>3. Then(<<x, Head(agenda)>>)
    BY <1>1, InFront, Zenon DEF Then
  <1>4. f \notin Steps
    BY SMT DEF Steps
  <1>. QED
    BY <1>2, <1>3, <1>4, QuietTwo, Zenon

LEMMA EventPlain ==
  ASSUME TypeOK,
         \/ Play \/ TimerFrame \/ TimerNoBuffer \/ RunIdle \/ RunMbox
         \/ \E s \in Sinks : VideoSinkQueueFlushed(s) \/ ResyncVideoSink(s)
  PROVE  Plain
  <1>0. /\ agenda \in Seq(CallType) /\ sink \in [Sinks -> SinkType]
        /\ dec \in DecType /\ vdec \in VdecType
    BY Zenon DEF TypeOK
  <1>1. CASE Play
    <2>1. QuietStep
      BY <1>1, Zenon DEF Play, QuietStep
    <2>. QED
      BY <1>1, <2>1, Untouched, Zenon DEF Play, otherThanDmx, appVars, Plain, sameVars
  <1>2. CASE TimerFrame
    <2>1. QuietStep
      BY <1>2, Zenon DEF TimerFrame, QuietStep
    <2>2. sink' = Queued(dmxOut)
      BY <1>2, Zenon DEF TimerFrame
    <2>3. SameSinks
      BY <1>0, <2>2, QueuedSinks, Zenon DEF SameSinks
    <2>4. SameDec /\ SameVdec
      <3>1. CASE Contains(dmxOut, V) /\ DecAccepts
        <4>1. PICK isSync \in BOOLEAN :
                 /\ dec' = [dec EXCEPT !.mIsFlushed = FALSE, !.mIsSync = isSync]
                 /\ vdec' = [vdec EXCEPT !.busy = TRUE]
          BY <1>2, <3>1, Zenon DEF TimerFrame
        <4>. QED
          BY <1>0, <4>1, Zenon DEF SameDec, SameVdec, DecType, VdecType
      <3>2. CASE ~(Contains(dmxOut, V) /\ DecAccepts)
        BY <1>2, <3>2, Untouched, Zenon DEF TimerFrame
      <3>. QED
        BY <3>1, <3>2
    <2>. QED
      BY <1>2, <2>1, <2>3, <2>4, Untouched, Zenon DEF TimerFrame, sessionVars, chanVars,
         dmxVars, appVars, Plain, sameVars
  <1>3. CASE TimerNoBuffer
    <2>1. QuietStep
      BY <1>3, QuietEvent, QuietOfElements, Zenon DEF TimerNoBuffer
    <2>. QED
      BY <1>3, <2>1, Untouched, Zenon DEF TimerNoBuffer, otherThanDmx, appVars, Plain, sameVars
  <1>4. CASE RunIdle
    <2>1. QuietStep
      BY <1>4, QuietEvent, QuietOfElements, Zenon DEF RunIdle
    <2>. QED
      BY <1>4, <2>1, Untouched, Zenon DEF RunIdle, sessionVars, chanVars, dmxVars, appVars,
         Plain, sameVars
  <1>5. CASE RunMbox
    <2>1. QuietStep
      BY <1>5, QuietEvent, QuietOfElements, Zenon DEF RunMbox
    <2>. QED
      BY <1>5, <2>1, Untouched, Zenon DEF RunMbox, sessionVars, chanVars, dmxVars, appVars,
         Plain, sameVars
  <1>6. ASSUME NEW s \in Sinks, VideoSinkQueueFlushed(s)
        PROVE  Plain
    <2>1. QuietStep
      BY <1>6, QuietEvent, QuietOfElements, Zenon DEF VideoSinkQueueFlushed
    <2>. QED
      BY <1>6, <2>1, Untouched, Zenon DEF VideoSinkQueueFlushed, sessionVars, chanVars,
         dmxVars, Plain, sameVars
  <1>7. ASSUME NEW s \in Sinks, ResyncVideoSink(s)
        PROVE  Plain
    <2>1. QuietStep
      BY <1>7, QuietEvent, QuietOfElements, Zenon DEF ResyncVideoSink
    <2>. QED
      BY <1>7, <2>1, Untouched, Zenon DEF ResyncVideoSink, sessionVars, chanVars,
         dmxVars, appVars, Plain, sameVars
  <1>. QED
    BY <1>1, <1>2, <1>3, <1>4, <1>5, <1>6, <1>7, Zenon

\* The messages and the idle functions that are about flushes.
FlushMessage == MboxMessage /\ Head(mMbox).cmd \in {"COMPLETE_FLUSH", "RESYNC"}
FlushIdle == IdleFunction /\ Head(idle).cb = "sinkFlush"

LEMMA ShorterMbox ==
  ASSUME mMbox \in Seq(MessageType), mMbox # <<>>, mMbox' = Tail(mMbox)
  PROVE  /\ mMbox' \in Seq(MessageType) /\ Head(mMbox) \in MessageType
         /\ 1 \in DOMAIN mMbox /\ Head(mMbox) = mMbox[1]
         /\ \A i \in DOMAIN mMbox' : \E j \in DOMAIN mMbox : mMbox'[i] = mMbox[j]
  BY TailOfSeq, Zenon

LEMMA MessagePlain ==
  ASSUME TypeOK, EventDone \/ FlushMessage \/ FlushIdle
  PROVE  Plain
  <1>0. /\ agenda \in Seq(CallType) /\ mMbox \in Seq(MessageType) /\ idle \in Seq(IdleType)
    BY Zenon DEF TypeOK
  <1>1. CASE EventDone
    <2>1. (Runs("idle", None) \/ Runs("mboxCb", None)) /\ Return
      BY <1>1, Zenon DEF EventDone
    <2>2. QuietStep
      BY <2>1, QuietReturn, Zenon DEF Steps
    <2>. QED
      BY <1>1, <2>2, Untouched, Zenon DEF EventDone, sessionVars, chanVars, dmxVars, appVars,
         Plain, sameVars
  <1>2. CASE FlushMessage
    <2>1. /\ Runs("mboxCb", None) /\ mMbox # <<>> /\ mMbox' = Tail(mMbox)
      BY <1>2, Zenon DEF FlushMessage, MboxMessage
    <2>2. SameMbox /\ Head(mMbox) \in MessageType
      BY <1>0, <2>1, ShorterMbox, Zenon DEF SameMbox
    <2>3. Head(mMbox).cmd \in {"COMPLETE_FLUSH", "RESYNC"} /\ Head(mMbox).e = V
      BY <1>2, <2>2, Messages, SMT DEF FlushMessage
    <2>4. /\ UNCHANGED <<sessionVars, est>>
          /\ \/ agenda' = <<Call("completeFlush", V)>> \o agenda
             \/ agenda' = <<Call("resync", V)>> \o agenda
      BY <1>2, <2>3, SMT DEF FlushMessage, MboxMessage
    <2>5. QuietStep
      BY <1>0, <2>1, <2>4, QuietInFront, QuietOfElements, Zenon
    <2>. QED
      BY <1>2, <2>2, <2>4, <2>5, Untouched, Zenon DEF FlushMessage, MboxMessage, sessionVars,
         chanVars, dmxVars, appVars, Plain, sameVars
  <1>3. CASE FlushIdle
    <2>1. /\ Runs("idle", None) /\ idle # <<>> /\ idle' = Tail(idle)
          /\ Head(idle).cb = "sinkFlush" /\ CallVideoSinkFlush(Head(idle).e)
      BY <1>3, Zenon DEF FlushIdle, IdleFunction
    <2>2. SameIdle
      BY <2>1, Zenon DEF SameIdle
    <2>3. Head(idle).e \in Sinks
      BY <1>0, <2>1, TailOfSeq, NoticeTypes, Zenon
    <2>4. QuietStep
      <3>1. CASE sink[Head(idle).e].mVideoSinkListener
        BY <2>1, <3>1, Zenon DEF CallVideoSinkFlush, QuietStep
      <3>2. CASE ~sink[Head(idle).e].mVideoSinkListener
        <4>1. agenda' = <<Call("flushDone", Head(idle).e)>> \o agenda
          BY <2>1, <3>2, Zenon DEF CallVideoSinkFlush
        <4>. QED
          BY <1>0, <2>1, <2>3, <4>1, QuietInFront, QuietOfElements, Zenon
      <3>. QED
        BY <3>1, <3>2
    <2>. QED
      BY <1>3, <2>1, <2>2, <2>4, Untouched, Zenon DEF FlushIdle, IdleFunction,
         CallVideoSinkFlush, sessionVars, chanVars, dmxVars, Plain, sameVars
  <1>. QED
    BY <1>1, <1>2, <1>3

\* All of them.
PlainStep ==
    \/ \E c \in SinkElements : ChannelFlush(c) \/ ChannelFlushDone(c)
    \/ DmxFlush \/ DmxFlushAt \/ DmxChannelCounted \/ DmxOnChannelFlushed
    \/ DmxChannelFlushed
    \/ DecOnChannelFlush \/ DecFlush \/ VdecFlush \/ DecCompleteFlush
    \/ DecOnChannelFlushed \/ DecResync
    \/ FlushCb \/ FlushCbPost \/ StopCbLoad \/ OutputCb \/ OutputCbQueue \/ OutputError
    \/ \E s \in Sinks : SinkOnChannelFlush(s) \/ SinkFlush(s) \/ SinkFlushDone(s)
    \/ Play \/ TimerFrame \/ TimerNoBuffer \/ RunIdle \/ RunMbox
    \/ \E s \in Sinks : VideoSinkQueueFlushed(s) \/ ResyncVideoSink(s)
    \/ EventDone \/ FlushMessage \/ FlushIdle
    \/ UNCHANGED vars

LEMMA PlainSteps ==
  ASSUME TypeOK, PlainStep
  PROVE  Plain
  <1>1. CASE UNCHANGED vars
    BY <1>1, Untouched, Zenon DEF vars, sessionVars, chanVars, dmxVars, appVars, Plain, sameVars,
       QuietStep
  <1>. QED
    BY <1>1, ChannelPlain, DmxPlain, DecPlain, VdecPlain, SinkPlain, EventPlain, MessagePlain,
       Zenon DEF PlainStep

-----------------------------------------------------------------------------
(* Plain steps keep the invariants.                                        *)

\* A call that is left of the chain keeps the call before it, but for the
\* first.
LEMMA Later ==
  ASSUME agenda \in Seq(CallType), agenda # <<>>, NEW calls \in Seq(CallType), Then(calls),
         NEW i \in DOMAIN agenda'
  PROVE  \/ i \in DOMAIN calls /\ agenda'[i] = calls[i]
         \/ \E j \in DOMAIN agenda :
               /\ j > 1 /\ agenda'[i] = agenda[j] /\ j \in Nat
               /\ j = 2 => i = Len(calls) + 1
               /\ j # 2 => i # 1 /\ i - 1 \in DOMAIN agenda' /\ agenda'[i - 1] = agenda[j - 1]
                           /\ j - 1 \in DOMAIN agenda
  <1>1. agenda' \in Seq(CallType) /\ After(calls)
    BY ThenAfter
  <1> DEFINE n == Len(calls)
  <1>2. n \in Nat /\ DOMAIN calls = 1..n
    BY SMT
  <1>3. /\ DOMAIN agenda = 1..Len(agenda) /\ Len(agenda) \in Nat
        /\ DOMAIN agenda' = 1..Len(agenda') /\ Len(agenda') \in Nat
    BY <1>1, SMT
  <1> HIDE DEF n
  <1>4. \A k \in DOMAIN agenda' :
           \/ k \in 1..n /\ agenda'[k] = calls[k]
           \/ k - n + 1 \in DOMAIN agenda /\ k - n + 1 > 1 /\ agenda'[k] = agenda[k - n + 1]
    BY <1>1, <1>2, Zenon DEF After, n
  <1>5. CASE i \in 1..n /\ agenda'[i] = calls[i]
    BY <1>2, <1>5
  <1>6. CASE i - n + 1 \in DOMAIN agenda /\ i - n + 1 > 1 /\ agenda'[i] = agenda[i - n + 1]
    <2> DEFINE j == i - n + 1
    <2>0. i \in Nat /\ j \in Nat
      BY <1>2, <1>3, <1>6, SMT
    <2>1. j = 2 => i = n + 1
      BY <1>2, <2>0, SMT
    <2>2. ASSUME j # 2
          PROVE  i # 1 /\ i - 1 \in DOMAIN agenda' /\ agenda'[i - 1] = agenda[j - 1]
                 /\ j - 1 \in DOMAIN agenda
      <3>1. i - 1 \in DOMAIN agenda' /\ i - 1 \notin 1..n /\ i - 1 - n + 1 = j - 1 /\ i # 1
        BY <1>2, <1>3, <1>6, <2>0, <2>2, SMT
      <3>. QED
        BY <1>4, <3>1
    <2>. QED
      BY <1>6, <2>0, <2>1, <2>2, Zenon DEF n
  <1>. QED
    BY <1>4, <1>5, <1>6

LEMMA QuietParts ==
  ASSUME agenda \in Seq(CallType), QuietStep, agenda' # agenda
  PROVE  /\ agenda # <<>> => agenda[1].f \notin Steps
         /\ \A i \in DOMAIN agenda' :
               \/ agenda'[i] \in QuietCalls
               \/ \E j \in DOMAIN agenda :
                     /\ j > 1 /\ agenda'[i] = agenda[j] /\ j \in Nat
                     /\ j # 2 => /\ i # 1 /\ agenda'[i - 1] = agenda[j - 1]
                                 /\ j - 1 \in DOMAIN agenda
  <1>1. PICK calls \in Seq(QuietCalls) :
           \/ agenda = <<>> /\ agenda' = calls
           \/ agenda # <<>> /\ Head(agenda).f \notin Steps /\ Then(calls)
    BY Zenon DEF QuietStep
  <1>2. \A i \in DOMAIN calls : calls[i] \in QuietCalls
    BY SMT
  <1>3. CASE agenda = <<>> /\ agenda' = calls
    BY <1>2, <1>3
  <1>4. CASE agenda # <<>> /\ Head(agenda).f \notin Steps /\ Then(calls)
    <2>1. calls \in Seq(CallType)
      BY <1>1, SMT DEF QuietCalls
    <2>2. Head(agenda) = agenda[1]
      BY <1>4, SMT
    <2>3. ASSUME NEW i \in DOMAIN agenda'
          PROVE  \/ agenda'[i] \in QuietCalls
                 \/ \E j \in DOMAIN agenda :
                       /\ j > 1 /\ agenda'[i] = agenda[j] /\ j \in Nat
                       /\ j # 2 => /\ i # 1 /\ agenda'[i - 1] = agenda[j - 1]
                                   /\ j - 1 \in DOMAIN agenda
      <3>1. CASE i \in DOMAIN calls /\ agenda'[i] = calls[i]
        BY <1>2, <3>1
      <3>2. CASE \E j \in DOMAIN agenda :
                     /\ j > 1 /\ agenda'[i] = agenda[j] /\ j \in Nat
                     /\ j = 2 => i = Len(calls) + 1
                     /\ j # 2 => i # 1 /\ i - 1 \in DOMAIN agenda'
                                 /\ agenda'[i - 1] = agenda[j - 1] /\ j - 1 \in DOMAIN agenda
        BY <3>2, Zenon
      <3>. QED
        BY <1>4, <2>1, <3>1, <3>2, Later
    <2>. QED
      BY <1>4, <2>2, <2>3
  <1>. QED
    BY <1>1, <1>3, <1>4

LEMMA QuietIsQuiet ==
  ASSUME NEW x \in QuietCalls
  PROVE  x.f \notin Loud /\ ~(x.f = "completeStop" /\ x.e = V)
  BY DEF QuietCalls

LEMMA StopCallQuiet ==
  ASSUME agenda \in Seq(CallType), QuietStep, UNCHANGED <<est, mState>>, StopCall
  PROVE  StopCall'
  <1>1. CASE UNCHANGED agenda
    BY <1>1, Zenon DEF StopCall
  <1>2. CASE agenda' # agenda
    <2>1. ASSUME NEW i \in DOMAIN agenda', agenda'[i].f = "stop"
          PROVE  FALSE
      <3>1. agenda'[i] \notin QuietCalls
        BY <2>1, QuietIsQuiet, SMT DEF Loud
      <3>2. PICK j \in DOMAIN agenda : j > 1 /\ agenda'[i] = agenda[j] /\ j \in Nat
        BY <1>2, <3>1, QuietParts, Zenon
      <3>3. agenda = <<agenda[j]>>
        BY <2>1, <3>2, Zenon DEF StopCall
      <3> DEFINE x == agenda[j]
      <3>4. agenda = <<x>>
        BY <3>3
      <3> HIDE DEF x
      <3>5. DOMAIN agenda = {1}
        BY <3>4, SMT
      <3>. QED
        BY <3>2, <3>5, SMT
    <2>. QED
      BY <2>1, Zenon DEF StopCall
  <1>. QED
    BY <1>1, <1>2

LEMMA StoppedCallQuiet ==
  ASSUME agenda \in Seq(CallType), QuietStep, UNCHANGED est, SameMbox, StoppedCall
  PROVE  StoppedCall'
  <1>1. ASSUME NEW i \in DOMAIN agenda', agenda'[i].f = "onElementStopped"
        PROVE  est'[agenda'[i].c] \in {"STOPPED", "deleted"}
    <2>1. CASE UNCHANGED agenda
      BY <1>1, <2>1, Zenon DEF StoppedCall
    <2>2. CASE agenda' # agenda
      <3>1. agenda'[i] \notin QuietCalls
        BY <1>1, QuietIsQuiet, SMT DEF Loud
      <3>2. PICK j \in DOMAIN agenda : agenda'[i] = agenda[j]
        BY <2>2, <3>1, QuietParts, Zenon
      <3>. QED
        BY <1>1, <3>2, Zenon DEF StoppedCall
    <2>. QED
      BY <2>1, <2>2
  <1>2. ASSUME NEW i \in DOMAIN mMbox', mMbox'[i].cmd = "ELEMENT_DELETE"
        PROVE  est'[mMbox'[i].e] \in {"STOPPED", "deleted"}
    <2>1. mMbox'[i].cmd \notin {"COMPLETE_FLUSH", "RESYNC"}
      BY <1>2, SMT
    <2>2. PICK j \in DOMAIN mMbox : mMbox'[i] = mMbox[j]
      BY <2>1, Zenon DEF SameMbox
    <2>. QED
      BY <1>2, <2>2, Zenon DEF StoppedCall
  <1>. QED
    BY <1>1, <1>2, Zenon DEF StoppedCall

LEMMA UnlinkCallQuiet ==
  ASSUME agenda \in Seq(CallType), QuietStep, UNCHANGED link, UnlinkCall
  PROVE  UnlinkCall'
  <1>1. CASE UNCHANGED agenda
    BY <1>1, Zenon DEF UnlinkCall
  <1>2. CASE agenda' # agenda
    <2>1. ASSUME NEW i \in DOMAIN agenda', agenda'[i].f = "onChannelUnlink"
          PROVE  FALSE
      <3>1. agenda'[i] \notin QuietCalls
        BY <2>1, QuietIsQuiet, SMT DEF Loud
      <3>2. PICK j \in DOMAIN agenda : j > 1 /\ agenda'[i] = agenda[j]
        BY <1>2, <3>1, QuietParts, Zenon
      <3>3. j = 1
        BY <2>1, <3>2, Zenon DEF UnlinkCall
      <3>. QED
        BY <3>2, <3>3, SMT
    <2>. QED
      BY <2>1, Zenon DEF UnlinkCall
  <1>. QED
    BY <1>1, <1>2

LEMMA TeardownCallQuiet ==
  ASSUME agenda \in Seq(CallType), QuietStep, UNCHANGED port, TeardownCall
  PROVE  TeardownCall'
  <1>1. CASE UNCHANGED agenda
    BY <1>1, Zenon DEF TeardownCall
  <1>2. CASE agenda' # agenda
    <2>1. ASSUME NEW i \in DOMAIN agenda', agenda'[i].f \in {"inputRemoved", "teardownOutputs"}
          PROVE  /\ i # 1
                 /\ agenda'[i - 1].f \in {"removeInputMedia", "deleteChannel"}
                 /\ agenda'[i - 1].e = agenda'[i].e
      <3>1. agenda'[i] \notin QuietCalls
        BY <2>1, QuietIsQuiet, SMT DEF Loud
      <3>2. PICK j \in DOMAIN agenda :
                     /\ j > 1 /\ agenda'[i] = agenda[j] /\ j \in Nat
                     /\ j # 2 => i # 1 /\ agenda'[i - 1] = agenda[j - 1]
        BY <1>2, <3>1, QuietParts, Zenon
      <3>3. /\ agenda[j - 1].f \in {"removeInputMedia", "deleteChannel"}
            /\ agenda[j - 1].e = agenda[j].e
        <4>1. j # 1
          BY <3>2, SMT
        <4>. QED
          BY <2>1, <3>2, <4>1, Zenon DEF TeardownCall
      <3>4. j # 2
        <4>1. ASSUME j = 2
              PROVE  FALSE
          <5>1. agenda[1].f \in {"removeInputMedia", "deleteChannel"}
            BY <3>3, <4>1, SMT
          <5>2. agenda # <<>>
            BY <3>2, SMT
          <5>3. agenda[1].f \notin Steps
            BY <1>2, <5>2, QuietParts
          <5>. QED
            BY <5>1, <5>3, SMT DEF Steps
        <4>. QED
          BY <4>1
      <3>. QED
        BY <3>2, <3>3, <3>4
    <2>. QED
      BY <2>1, Zenon DEF TeardownCall
  <1>. QED
    BY <1>1, <1>2

\* A sink that loses its channel is in the middle of it.
LEMMA LosesHead ==
  ASSUME NEW s, LosesChannel(s)
  PROVE  /\ agenda # <<>>
         /\ agenda[1].f \in {"onChannelTeardown", "removeInputMedia", "deleteChannel",
                             "onChannelUnlink", "onElementStopped"}
  <1>1. CASE agenda = <<Call("onChannelTeardown", s)>>
    BY <1>1, SMT DEF Call
  <1>2. CASE agenda = <<Call("removeInputMedia", s), Call("inputRemoved", s)>>
    BY <1>2, SMT DEF Call
  <1>3. CASE agenda = <<Call("deleteChannel", s), Call("inputRemoved", s)>>
    BY <1>3, SMT DEF Call
  <1>4. CASE Len(agenda) = 3 /\ agenda[1].f \in {"onChannelUnlink", "onElementStopped"}
    BY <1>4, SMT
  <1>. QED
    BY <1>1, <1>2, <1>3, <1>4, Zenon DEF LosesChannel

LEMMA PortQuiet ==
  ASSUME agenda \in Seq(CallType), QuietStep, UNCHANGED <<est, port>>,
         \A s \in Sinks : sink[s].mInputMedia => sink'[s].mInputMedia,
         dec.mInputMedia => dec'.mInputMedia, PortInv
  PROVE  PortInv'
  <1>1. ASSUME NEW s \in Sinks, est'[s] = "STOPPING", port'[s]
        PROVE  LosesChannel(s)'
    <2>1. LosesChannel(s)
      BY <1>1, Zenon DEF PortInv
    <2>2. agenda' = agenda
      <3>1. ASSUME agenda' # agenda
            PROVE  FALSE
        <4>1. agenda # <<>> /\ agenda[1].f \notin Steps
          BY <2>1, <3>1, LosesHead, QuietParts
        <4>. QED
          BY <2>1, <4>1, LosesHead, SMT DEF Steps
      <3>. QED
        BY <3>1
    <2>. QED
      BY <2>1, <2>2, Zenon DEF LosesChannel
  <1>. QED
    BY <1>1, Zenon DEF PortInv

LEMMA CallsQuiet ==
  ASSUME agenda \in Seq(CallType), QuietStep
  PROVE  \A f \in {"vdec_stop", "teardownOutputs", "completeStop"} :
            Calls(f, V)' => Calls(f, V)
  <1> SUFFICES ASSUME NEW f \in {"vdec_stop", "teardownOutputs", "completeStop"}, Calls(f, V)'
               PROVE  Calls(f, V)
    OBVIOUS
  <1>1. CASE UNCHANGED agenda
    BY <1>1, Zenon DEF Calls
  <1>2. CASE agenda' # agenda
    <2>1. PICK i \in DOMAIN agenda' : agenda'[i].f = f /\ agenda'[i].e = V
      BY Zenon DEF Calls
    <2>2. agenda'[i] \notin QuietCalls
      BY <2>1, QuietIsQuiet, SMT DEF Loud
    <2>3. PICK j \in DOMAIN agenda : agenda'[i] = agenda[j]
      BY <1>2, <2>2, QuietParts, Zenon
    <2>. QED
      BY <2>1, <2>3, Zenon DEF Calls
  <1>. QED
    BY <1>1, <1>2

LEMMA LifeFrame ==
  ASSUME UNCHANGED <<mState, mReadyToPlay, mElements, est>>,
         \A s \in Sinks : sink'[s].mVideoSinkListener => sink[s].mVideoSinkListener,
         LifeInv
  PROVE  LifeInv'
  BY Zenon DEF LifeInv, Gone

LEMMA MediaFrame ==
  ASSUME est'[D] = est[D], est'[V] = est[V], UNCHANGED <<link, dmxMedia, dmxOut>>,
         dec'.mOutputMedia = dec.mOutputMedia, dec'.out = dec.out, MediaInv
  PROVE  MediaInv'
  BY Zenon DEF MediaInv, Gone

\* No more of the decoder is to be stopped than was before.
LEMMA DecoderFrame ==
  ASSUME est'[V] = est[V],
         dec'.mInputMedia => dec.mInputMedia,
         dec'.mVdecStopPending = dec.mVdecStopPending,
         StopsVdec(vdec') => StopsVdec(vdec), vdec'.stopping => vdec.stopping,
         \A f \in {"vdec_stop", "teardownOutputs", "completeStop"} :
            Calls(f, V)' => Calls(f, V),
         \A i \in DOMAIN mMbox' : mMbox'[i].cmd = "COMPLETE_STOP" =>
            \E j \in DOMAIN mMbox : mMbox'[i] = mMbox[j],
         DecoderInv
  PROVE  DecoderInv'
  <1>1. /\ Calls("vdec_stop", V)' => Calls("vdec_stop", V)
        /\ Calls("teardownOutputs", V)' => Calls("teardownOutputs", V)
        /\ Calls("completeStop", V)' => Calls("completeStop", V)
    BY Zenon
  <1>2. (\E i \in DOMAIN mMbox' : mMbox'[i].cmd = "COMPLETE_STOP")
            => \E i \in DOMAIN mMbox : mMbox[i].cmd = "COMPLETE_STOP"
    BY Zenon
  <1>. QED
    BY <1>1, <1>2, Zenon DEF DecoderInv, StopsVdec

\* What is known is not affected by the flushes of the sinks.
LEMMA SaysFrame ==
  ASSUME idle \in Seq(IdleType), SameIdle,
         NEW on, NEW off, NEW e, NEW known, NEW truth,
         on # "sinkFlush", off # "sinkFlush",
         LastSays(idle, on, off, e, known, truth)
  PROVE  LastSays(idle', on, off, e, known, truth)
  <1>1. CASE UNCHANGED idle
    BY <1>1, Zenon
  <1>2. ASSUME NEW s \in Sinks, idle' = Append(idle, Idle("sinkFlush", s))
        PROVE  LastSays(idle', on, off, e, known, truth)
    <2> DEFINE n == Idle("sinkFlush", s)
    <2>1. n \in IdleType /\ n.cb \notin {on, off} /\ idle' = Append(idle, n)
      <3>1. n.cb = "sinkFlush"
        BY SMT DEF Idle
      <3>. QED
        BY <1>2, <3>1, NoticeTypes
    <2> HIDE DEF n
    <2>2. LastSays(Append(idle, n), on, off, e, known, truth)
      BY <2>1, LastSaysOther
    <2>. QED
      BY <2>1, <2>2
  <1>3. CASE idle # <<>> /\ Head(idle).cb = "sinkFlush" /\ idle' = Tail(idle)
    <2>1. ~(Head(idle).e = e /\ Head(idle).cb \in {on, off})
      BY <1>3
    <2>2. LastSays(Tail(idle), on, off, e, known, truth)
      BY <1>3, <2>1, LastSaysHeard
    <2>. QED
      BY <1>3, <2>2
  <1>. QED
    BY <1>1, <1>2, <1>3, Zenon DEF SameIdle

\* Nor are the answers.
LEMMA AnswersFrame ==
  ASSUME idle \in Seq(IdleType), SameIdle
  PROVE  /\ \A i \in DOMAIN idle' : \/ idle'[i].cb = "sinkFlush"
                                    \/ \E k \in DOMAIN idle : idle[k] = idle'[i]
         /\ \A i, j \in DOMAIN idle' : i < j =>
               \/ idle'[i].cb = "sinkFlush" \/ idle'[j].cb = "sinkFlush"
               \/ \E k, l \in DOMAIN idle : k < l /\ idle[k] = idle'[i] /\ idle[l] = idle'[j]
         /\ \A i, j \in DOMAIN idle' :
               idle'[i].cb = "closeResponse" /\ idle'[j].cb = "closeResponse"
                  /\ (\A k, l \in DOMAIN idle : idle[k].cb = "closeResponse"
                                                 /\ idle[l].cb = "closeResponse" => k = l)
               => i = j
  <1>1. CASE UNCHANGED idle
    BY <1>1, Zenon
  <1>2. ASSUME NEW s \in Sinks, idle' = Append(idle, Idle("sinkFlush", s))
        PROVE  /\ \A i \in DOMAIN idle' : \/ i \in DOMAIN idle /\ idle'[i] = idle[i]
                                          \/ idle'[i].cb = "sinkFlush"
    <2> DEFINE n == Idle("sinkFlush", s)
    <2>1. n \in IdleType /\ n.cb = "sinkFlush" /\ idle' = Append(idle, n)
      <3>1. n.cb = "sinkFlush"
        BY SMT DEF Idle
      <3>. QED
        BY <1>2, <3>1, NoticeTypes
    <2> HIDE DEF n
    <2>2. /\ \A i \in DOMAIN idle : idle'[i] = idle[i]
          /\ \A i \in DOMAIN idle' : i \in DOMAIN idle \/ i = Len(idle) + 1
          /\ idle'[Len(idle) + 1] = n
      BY <2>1, AppendContains
    <2>. QED
      BY <2>1, <2>2, Zenon
  <1>3. CASE \E s \in Sinks : idle' = Append(idle, Idle("sinkFlush", s))
    <2>1. \A i \in DOMAIN idle' : \/ i \in DOMAIN idle /\ idle'[i] = idle[i]
                                  \/ idle'[i].cb = "sinkFlush"
      BY <1>2, <1>3
    <2>. QED
      BY <2>1, SMT
  <1>4. CASE idle # <<>> /\ idle' = Tail(idle)
    <2>1. /\ \A i \in DOMAIN idle' : i + 1 \in DOMAIN idle /\ idle'[i] = idle[i + 1]
                                     /\ i \in Nat
      BY <1>4, TailOfSeq
    <2>. QED
      BY <2>1, SMT
  <1>. QED
    BY <1>1, <1>3, <1>4, Zenon DEF SameIdle

LEMMA NoticeFrame ==
  ASSUME idle \in Seq(IdleType), SameIdle,
         UNCHANGED <<mState, mReadyToPlay, told, appMedia, dmxMedia>>,
         dec'.mOutputMedia = dec.mOutputMedia, NoticeInv
  PROVE  NoticeInv'
  <1>1. /\ LastSays(idle', "ready", "notReady", None, told.ready, mReadyToPlay)
        /\ LastSays(idle', "mediaAdded", "mediaRemoved", D, D \in appMedia, dmxMedia)
        /\ LastSays(idle', "mediaAdded", "mediaRemoved", V, V \in appMedia, dec.mOutputMedia)
    <2>1. /\ LastSays(idle, "ready", "notReady", None, told.ready, mReadyToPlay)
          /\ LastSays(idle, "mediaAdded", "mediaRemoved", D, D \in appMedia, dmxMedia)
          /\ LastSays(idle, "mediaAdded", "mediaRemoved", V, V \in appMedia, dec.mOutputMedia)
      BY DEF NoticeInv
    <2>. QED
      BY <2>1, SaysFrame, SMT
  <1>2. (\E i \in DOMAIN idle' : idle'[i].cb = "closeResponse")
           => \E i \in DOMAIN idle : idle[i].cb = "closeResponse"
    <2>1. \A i \in DOMAIN idle' : idle'[i].cb = "closeResponse" => idle'[i].cb # "sinkFlush"
      BY SMT
    <2>. QED
      BY <2>1, AnswersFrame, ZenonT(60)
  <1>3. ASSUME NEW i \in DOMAIN idle', NEW j \in DOMAIN idle', i < j,
               idle'[i].cb = "closeResponse"
        PROVE  idle'[j].cb = "sinkFlush"
    <2>1. idle'[i].cb # "sinkFlush"
      BY <1>3, SMT
    <2>2. \A k, l \in DOMAIN idle : k < l /\ idle[k].cb = "closeResponse" =>
             idle[l].cb = "sinkFlush"
      BY Zenon DEF NoticeInv
    <2>3. \/ idle'[i].cb = "sinkFlush" \/ idle'[j].cb = "sinkFlush"
          \/ \E k, l \in DOMAIN idle : k < l /\ idle[k] = idle'[i] /\ idle[l] = idle'[j]
      BY <1>3, AnswersFrame
    <2>. QED
      BY <1>3, <2>1, <2>2, <2>3, Zenon
  <1>4. told.closed > 0 => \A i \in DOMAIN idle' : idle'[i].cb = "sinkFlush"
    <2>1. told.closed > 0 => \A i \in DOMAIN idle : idle[i].cb = "sinkFlush"
      BY Zenon DEF NoticeInv
    <2>2. \A i \in DOMAIN idle' : \/ idle'[i].cb = "sinkFlush"
                                  \/ \E k \in DOMAIN idle : idle[k] = idle'[i]
      BY AnswersFrame
    <2>. QED
      BY <2>1, <2>2, Zenon
  <1>. QED
    BY <1>1, <1>2, <1>3, <1>4, Zenon DEF NoticeInv

LEMMA AnswerFrame ==
  ASSUME idle \in Seq(IdleType), SameIdle, UNCHANGED <<mState, told>>, told.open, AnswerInv
  PROVE  AnswerInv'
  <1>1. /\ (\A i \in DOMAIN idle : idle[i].cb # "closeResponse")
              => \A i \in DOMAIN idle' : idle'[i].cb # "closeResponse"
    <2>1. \A i \in DOMAIN idle' : idle'[i].cb = "closeResponse" => idle'[i].cb # "sinkFlush"
      BY SMT
    <2>. QED
      BY <2>1, AnswersFrame, ZenonT(60)
  <1>2. ASSUME NEW i \in DOMAIN idle', NEW j \in DOMAIN idle',
               idle'[i].cb = "closeResponse", idle'[j].cb = "closeResponse"
        PROVE  i = j
    <2>1. \A k, l \in DOMAIN idle : idle[k].cb = "closeResponse"
                                    /\ idle[l].cb = "closeResponse" => k = l
      BY Zenon DEF AnswerInv
    <2>. QED
      BY <1>2, <2>1, AnswersFrame, Zenon
  <1>. QED
    BY <1>1, <1>2, Zenon DEF AnswerInv

LEMMA PlainKeeps ==
  ASSUME TypeOK, Plain, OpenedInv
  PROVE  OpenedInv'
  <1>0. agenda \in Seq(CallType) /\ idle \in Seq(IdleType)
    BY Zenon DEF TypeOK
  <1>1. /\ QuietStep /\ SameDec /\ SameVdec /\ SameSinks /\ SameIdle /\ SameMbox
        /\ UNCHANGED <<mState, mReadyToPlay, mElements, est>>
        /\ est' = est /\ UNCHANGED <<link, dmxMedia, dmxOut>>
        /\ UNCHANGED <<mState, mReadyToPlay, told, appMedia, dmxMedia>>
        /\ UNCHANGED <<est, port>> /\ UNCHANGED <<est, mState>>
        /\ UNCHANGED est /\ UNCHANGED link /\ UNCHANGED port
    BY Zenon DEF Plain, sameVars
  <1>2. /\ LifeInv /\ StopCall /\ StoppedCall /\ MediaInv /\ UnlinkCall
        /\ DecoderInv /\ TeardownCall /\ PortInv /\ NoticeInv
    BY Zenon DEF OpenedInv
  <1>3. LifeInv'
    BY <1>1, <1>2, LifeFrame, Zenon DEF SameSinks
  <1>4. StopCall' /\ StoppedCall' /\ UnlinkCall' /\ TeardownCall'
    BY <1>0, <1>1, <1>2, StopCallQuiet, StoppedCallQuiet, UnlinkCallQuiet, TeardownCallQuiet
  <1>5. MediaInv'
    BY <1>1, <1>2, MediaFrame, Zenon DEF SameDec
  <1>6. DecoderInv'
    <2>1. \A f \in {"vdec_stop", "teardownOutputs", "completeStop"} :
            Calls(f, V)' => Calls(f, V)
      BY <1>0, <1>1, CallsQuiet
    <2>2. \A i \in DOMAIN mMbox' : mMbox'[i].cmd = "COMPLETE_STOP" =>
            \E j \in DOMAIN mMbox : mMbox'[i] = mMbox[j]
      <3>1. "COMPLETE_STOP" \notin {"COMPLETE_FLUSH", "RESYNC"}
        BY SMT
      <3>. QED
        BY <1>1, <3>1, Zenon DEF SameMbox
    <2>3. (StopsVdec(vdec') => StopsVdec(vdec)) /\ (vdec'.stopping => vdec.stopping)
      BY <1>1, Zenon DEF StopsVdec, SameVdec
    <2>4. (dec'.mInputMedia => dec.mInputMedia)
           /\ dec'.mVdecStopPending = dec.mVdecStopPending
      BY <1>1, Zenon DEF SameDec
    <2>. QED
      BY <1>1, <1>2, <2>1, <2>2, <2>3, <2>4, DecoderFrame
  <1>7. PortInv'
    BY <1>0, <1>1, <1>2, PortQuiet, Zenon DEF SameSinks, SameDec
  <1>8. NoticeInv'
    BY <1>0, <1>1, <1>2, NoticeFrame, Zenon DEF SameDec
  <1>. QED
    BY <1>3, <1>4, <1>5, <1>6, <1>7, <1>8, Zenon DEF OpenedInv

-----------------------------------------------------------------------------
(* The steps that are not plain: where a call of the new chain comes from. *)

LEMMA ThenKeeps ==
  ASSUME agenda \in Seq(CallType), NEW f, NEW e, Runs(f, e), f # "stop",
         NEW calls \in Seq(CallType), Then(calls), StopCall, UnlinkCall, TeardownCall
  PROVE  /\ agenda' \in Seq(CallType)
         /\ \A i \in DOMAIN agenda' : agenda'[i].f \in {"stop", "onChannelUnlink"} =>
                i \in DOMAIN calls /\ agenda'[i] = calls[i]
         /\ \A i \in DOMAIN agenda' :
                agenda'[i].f \in {"inputRemoved", "teardownOutputs"} =>
                   \/ i \in DOMAIN calls /\ agenda'[i] = calls[i]
                   \/ /\ i # 1 /\ agenda'[i - 1].f \in {"removeInputMedia", "deleteChannel"}
                      /\ agenda'[i - 1].e = agenda'[i].e
                   \/ /\ f \in {"removeInputMedia", "deleteChannel"}
                      /\ i = Len(calls) + 1 /\ agenda'[i].e = e
         /\ \A i \in DOMAIN agenda' : \/ i \in DOMAIN calls /\ agenda'[i] = calls[i]
                                      \/ \E j \in DOMAIN agenda : agenda'[i] = agenda[j]
         /\ \A i \in DOMAIN calls : i \in DOMAIN agenda' /\ agenda'[i] = calls[i]
  <1>0. /\ agenda # <<>> /\ agenda[1].f = f /\ agenda[1].e = e
        /\ agenda' \in Seq(CallType)
    BY Running, ThenAfter, Zenon
  <1>1. ASSUME NEW i \in DOMAIN agenda', agenda'[i].f \in {"stop", "onChannelUnlink"}
        PROVE  i \in DOMAIN calls /\ agenda'[i] = calls[i]
    <2>1. ASSUME NEW j \in DOMAIN agenda, j > 1, agenda'[i] = agenda[j]
          PROVE  FALSE
      <3>1. CASE agenda[j].f = "onChannelUnlink"
        <4>1. j = 1
          BY <3>1, Zenon DEF UnlinkCall
        <4>. QED
          BY <2>1, <4>1, SMT
      <3>2. CASE agenda[j].f = "stop"
        <4> DEFINE x == agenda[j]
        <4>1. agenda = <<x>>
          BY <3>2, Zenon DEF StopCall
        <4> HIDE DEF x
        <4>2. DOMAIN agenda = {1}
          BY <4>1, SMT
        <4>. QED
          BY <2>1, <4>2, SMT
      <3>. QED
        BY <1>1, <2>1, <3>1, <3>2, SMT
    <2>. QED
      BY <1>0, <2>1, Later, ZenonT(60)
  <1>2. ASSUME NEW i \in DOMAIN agenda', agenda'[i].f \in {"inputRemoved", "teardownOutputs"},
               ~(i \in DOMAIN calls /\ agenda'[i] = calls[i])
        PROVE  \/ /\ i # 1 /\ agenda'[i - 1].f \in {"removeInputMedia", "deleteChannel"}
                  /\ agenda'[i - 1].e = agenda'[i].e
               \/ /\ f \in {"removeInputMedia", "deleteChannel"}
                  /\ i = Len(calls) + 1 /\ agenda'[i].e = e
    <2>1. PICK j \in DOMAIN agenda :
               /\ j > 1 /\ agenda'[i] = agenda[j] /\ j \in Nat
               /\ j = 2 => i = Len(calls) + 1
               /\ j # 2 => i # 1 /\ i - 1 \in DOMAIN agenda' /\ agenda'[i - 1] = agenda[j - 1]
                           /\ j - 1 \in DOMAIN agenda
      BY <1>0, <1>2, Later
    <2>2. j # 1
      BY <2>1, SMT
    <2>3. /\ agenda[j - 1].f \in {"removeInputMedia", "deleteChannel"}
          /\ agenda[j - 1].e = agenda[j].e
      BY <1>2, <2>1, <2>2, Zenon DEF TeardownCall
    <2>4. CASE j = 2
      <3>1. j - 1 = 1
        BY <2>4, SMT
      <3>. QED
        BY <1>0, <2>1, <2>3, <2>4, <3>1
    <2>5. CASE j # 2
      BY <2>1, <2>3, <2>5
    <2>. QED
      BY <2>4, <2>5
  <1>3. \A i \in DOMAIN agenda' : \/ i \in DOMAIN calls /\ agenda'[i] = calls[i]
                                  \/ \E j \in DOMAIN agenda : agenda'[i] = agenda[j]
    BY <1>0, Later, ZenonT(60)
  <1>4. \A i \in DOMAIN calls : i \in DOMAIN agenda' /\ agenda'[i] = calls[i]
    <2> DEFINE t == Tail(agenda)
    <2>1. t \in Seq(CallType) /\ agenda' = calls \o t
      BY <1>0, TailOfSeq, Zenon DEF Then
    <2> HIDE DEF t
    <2>2. /\ calls \o t \in Seq(CallType) /\ Len(calls \o t) = Len(calls) + Len(t)
          /\ \A i \in 1..(Len(calls) + Len(t)) :
                (calls \o t)[i] = IF i <= Len(calls) THEN calls[i] ELSE t[i - Len(calls)]
      BY <2>1, Concat
    <2>3. /\ Len(calls) \in Nat /\ Len(t) \in Nat /\ DOMAIN calls = 1..Len(calls)
          /\ DOMAIN agenda' = 1..Len(agenda')
      BY <1>0, <2>1, SMT
    <2>4. ASSUME NEW i \in DOMAIN calls
          PROVE  i \in 1..(Len(calls) + Len(t)) /\ i <= Len(calls)
      BY <2>3, SMT
    <2>. QED
      BY <2>1, <2>2, <2>3, <2>4, Zenon
  <1>. QED
    BY <1>0, <1>1, <1>2, <1>3, <1>4, Zenon

\* A step with no such call keeps StopCall, UnlinkCall and TeardownCall.
LEMMA NoSuchCall ==
  ASSUME agenda \in Seq(CallType), NEW f, NEW e, Runs(f, e),
         f \notin {"stop", "removeInputMedia", "deleteChannel"},
         NEW calls \in Seq(CallType), Then(calls), StopCall, UnlinkCall, TeardownCall,
         \A i \in DOMAIN calls : calls[i].f \notin {"stop", "onChannelUnlink", "inputRemoved",
                                                   "teardownOutputs"}
  PROVE  StopCall' /\ UnlinkCall' /\ TeardownCall'
  <1>1. ASSUME NEW i \in DOMAIN agenda', agenda'[i].f \in {"stop", "onChannelUnlink"}
        PROVE  FALSE
    <2>1. i \in DOMAIN calls /\ agenda'[i] = calls[i]
      BY <1>1, ThenKeeps
    <2>. QED
      BY <1>1, <2>1, SMT
  <1>2. ASSUME NEW i \in DOMAIN agenda', agenda'[i].f \in {"inputRemoved", "teardownOutputs"}
        PROVE  /\ i # 1 /\ agenda'[i - 1].f \in {"removeInputMedia", "deleteChannel"}
               /\ agenda'[i - 1].e = agenda'[i].e
    <2>1. ~(i \in DOMAIN calls /\ agenda'[i] = calls[i])
      BY <1>2, SMT
    <2>2. \/ /\ i # 1 /\ agenda'[i - 1].f \in {"removeInputMedia", "deleteChannel"}
             /\ agenda'[i - 1].e = agenda'[i].e
          \/ /\ f \in {"removeInputMedia", "deleteChannel"}
             /\ i = Len(calls) + 1 /\ agenda'[i].e = e
      BY <1>2, <2>1, ThenKeeps
    <2>. QED
      BY <2>2, SMT
  <1>3. \A i \in DOMAIN agenda' : agenda'[i].f # "stop" /\ agenda'[i].f # "onChannelUnlink"
    BY <1>1, SMT
  <1>. QED
    BY <1>2, <1>3, Zenon DEF StopCall, UnlinkCall, TeardownCall

\* What is about to be told and to be deleted.
LEMMA StoppedCallKept ==
  ASSUME agenda \in Seq(CallType), NEW f, NEW e, Runs(f, e), f # "stop",
         NEW calls \in Seq(CallType), Then(calls), StopCall, UnlinkCall, TeardownCall,
         StoppedCall,
         \A x \in Elements : est[x] \in {"STOPPED", "deleted"} =>
             est'[x] \in {"STOPPED", "deleted"},
         \A i \in DOMAIN calls : calls[i].f = "onElementStopped" =>
             est'[calls[i].c] \in {"STOPPED", "deleted"},
         mMbox \in Seq(MessageType),
         \A i \in DOMAIN mMbox' : mMbox'[i].cmd = "ELEMENT_DELETE" =>
             \/ est'[mMbox'[i].e] \in {"STOPPED", "deleted"}
             \/ \E j \in DOMAIN mMbox : mMbox'[i] = mMbox[j]
  PROVE  StoppedCall'
  <1>1. ASSUME NEW i \in DOMAIN agenda', agenda'[i].f = "onElementStopped"
        PROVE  est'[agenda'[i].c] \in {"STOPPED", "deleted"}
    <2>1. CASE i \in DOMAIN calls /\ agenda'[i] = calls[i]
      BY <1>1, <2>1
    <2>2. ASSUME NEW j \in DOMAIN agenda, agenda'[i] = agenda[j]
          PROVE  est'[agenda'[i].c] \in {"STOPPED", "deleted"}
      <3>1. agenda[j] \in CallType
        BY <2>2, SMT
      <3>2. agenda[j].c \in Elements
        BY <1>1, <2>2, <3>1, CallFields
      <3>. QED
        BY <1>1, <2>2, <3>2, Zenon DEF StoppedCall
    <2>. QED
      BY <2>1, <2>2, ThenKeeps
  <1>2. ASSUME NEW i \in DOMAIN mMbox', mMbox'[i].cmd = "ELEMENT_DELETE"
        PROVE  est'[mMbox'[i].e] \in {"STOPPED", "deleted"}
    <2>1. ASSUME NEW j \in DOMAIN mMbox, mMbox'[i] = mMbox[j]
          PROVE  est'[mMbox'[i].e] \in {"STOPPED", "deleted"}
      <3>1. mMbox[j] \in MessageType
        BY <2>1, SMT
      <3>2. mMbox[j].e \in Elements
        BY <3>1, Messages
      <3>. QED
        BY <1>2, <2>1, <3>2, Zenon DEF StoppedCall
    <2>. QED
      BY <1>2, <2>1
  <1>. QED
    BY <1>1, <1>2, Zenon DEF StoppedCall

LEMMA CallsKept ==
  ASSUME agenda \in Seq(CallType), NEW f, NEW e, Runs(f, e), f # "stop",
         NEW calls \in Seq(CallType), Then(calls), StopCall, UnlinkCall, TeardownCall
  PROVE  \A g : Calls(g, V)' => \/ Calls(g, V)
                                \/ \E i \in DOMAIN calls : calls[i].f = g /\ calls[i].e = V
  <1>1. \A i \in DOMAIN agenda' : \/ i \in DOMAIN calls /\ agenda'[i] = calls[i]
                                  \/ \E j \in DOMAIN agenda : agenda'[i] = agenda[j]
    BY ThenKeeps
  <1>. QED
    BY <1>1, Zenon DEF Calls

\* How a sink that stops loses its channel.
LEMMA LosesShape ==
  ASSUME agenda \in Seq(CallType), NEW f, NEW e, Runs(f, e), NEW s \in Sinks, LosesChannel(s)
  PROVE  /\ f \in {"onChannelTeardown", "removeInputMedia", "deleteChannel",
                   "onChannelUnlink", "onElementStopped"}
         /\ f = "onChannelTeardown" => e = s /\ Tail(agenda) = <<>>
         /\ f = "removeInputMedia" => e = s /\ Tail(agenda) = <<Call("inputRemoved", s)>>
         /\ f = "deleteChannel" => e = s
         /\ f \in {"onChannelUnlink", "onElementStopped"} =>
                Tail(agenda) = <<Call("deleteChannel", s), Call("inputRemoved", s)>>
  <1>1. agenda[1].f = f /\ agenda[1].e = e
    BY Running
  <1>2. CASE agenda = <<Call("onChannelTeardown", s)>>
    <2>1. agenda[1].f = "onChannelTeardown" /\ agenda[1].e = s /\ Tail(agenda) = <<>>
      BY <1>2, SMT DEF Call
    <2>. QED
      BY <1>1, <2>1, SMT
  <1>3. CASE agenda = <<Call("removeInputMedia", s), Call("inputRemoved", s)>>
    <2> DEFINE x == Call("removeInputMedia", s)
               y == Call("inputRemoved", s)
    <2>1. x.f = "removeInputMedia" /\ x.e = s
      BY SMT DEF Call
    <2>2. agenda = <<x, y>>
      BY <1>3
    <2> HIDE DEF x, y
    <2>3. agenda[1] = x /\ Tail(agenda) = <<y>>
      BY <2>2, SMT
    <2>. QED
      BY <1>1, <2>1, <2>3, SMT DEF y
  <1>4. CASE agenda = <<Call("deleteChannel", s), Call("inputRemoved", s)>>
    <2>1. agenda[1].f = "deleteChannel" /\ agenda[1].e = s
      BY <1>4, SMT DEF Call
    <2>. QED
      BY <1>1, <2>1, SMT
  <1>5. CASE /\ Len(agenda) = 3 /\ agenda[1].f \in {"onChannelUnlink", "onElementStopped"}
             /\ Tail(agenda) = <<Call("deleteChannel", s), Call("inputRemoved", s)>>
    BY <1>1, <1>5, SMT
  <1>. QED
    BY <1>2, <1>3, <1>4, <1>5, Zenon DEF LosesChannel

-----------------------------------------------------------------------------
(* Channels that are removed.                                              *)

LEMMA Parts ==
  ASSUME TypeOK, OpenedInv
  PROVE  /\ LifeInv /\ StopCall /\ StoppedCall /\ MediaInv /\ UnlinkCall
         /\ DecoderInv /\ TeardownCall /\ PortInv /\ NoticeInv
         /\ agenda \in Seq(CallType) /\ mMbox \in Seq(MessageType) /\ idle \in Seq(IdleType)
         /\ dec \in DecType /\ vdec \in VdecType /\ sink \in [Sinks -> SinkType]
         /\ est \in [Elements -> ElementStates]
         /\ link \in [SinkElements -> {D, V, None}] /\ port \in [SinkElements -> BOOLEAN]
  BY Zenon DEF OpenedInv, TypeOK

\* The notices are left alone.
LEMMA NoticeSame ==
  ASSUME UNCHANGED <<idle, mState, mReadyToPlay, told, appMedia, dmxMedia>>,
         dec'.mOutputMedia = dec.mOutputMedia, NoticeInv
  PROVE  NoticeInv'
  BY Zenon DEF NoticeInv

LEMMA RemoveInputMediaKeeps ==
  ASSUME TypeOK, OpenedInv, NEW c \in SinkElements, RemoveInputMedia(c)
  PROVE  OpenedInv'
  <1>0. /\ LifeInv /\ StopCall /\ StoppedCall /\ MediaInv /\ UnlinkCall
        /\ DecoderInv /\ TeardownCall /\ PortInv /\ NoticeInv
        /\ agenda \in Seq(CallType) /\ mMbox \in Seq(MessageType)
        /\ link \in [SinkElements -> {D, V, None}]
    BY Parts
  <1>1. Runs("removeInputMedia", c)
    BY Zenon DEF RemoveInputMedia
  <1>2. UNCHANGED <<chanVars, otherThanChannels>>
    BY Zenon DEF RemoveInputMedia
  <1>3. /\ UNCHANGED link /\ UNCHANGED port
        /\ UNCHANGED <<mState, mReadyToPlay, mElements, est>>
        /\ est' = est /\ UNCHANGED <<link, dmxMedia, dmxOut>>
        /\ UNCHANGED <<idle, mState, mReadyToPlay, told, appMedia, dmxMedia>>
        /\ UNCHANGED dec /\ UNCHANGED vdec /\ UNCHANGED sink /\ UNCHANGED mMbox
        /\ UNCHANGED est
    BY <1>2, Zenon DEF chanVars, otherThanChannels, sessionVars, dmxVars, appVars
  <1>4. LifeInv' /\ MediaInv' /\ NoticeInv'
    BY <1>0, <1>3, LifeFrame, MediaFrame, NoticeSame
  <1> DEFINE y == Call("deleteChannel", c)
             x == CallOn("onChannelUnlink", link[c], c)
  <1>5. y \in CallType /\ y.f = "deleteChannel" /\ y.e = c
    BY TypedOfChannel
  <1>6. link[c] # None => /\ x \in CallType /\ x.f = "onChannelUnlink" /\ x.c = c
                          /\ x.e = link[c]
    <2>1. link[c] # None => link[c] \in {D, V}
      BY <1>0, SMT
    <2>. QED
      BY <2>1, TypedUpstream
  <1>7. IF link[c] = None THEN Then(<<>> \o <<y>>) ELSE Then(<<x>> \o <<y>>)
    BY Zenon DEF RemoveInputMedia
  <1> HIDE DEF x, y
  \* The calls it makes.
  <1>8. PICK calls \in Seq(CallType) :
           /\ Then(calls)
           /\ Len(calls) \in Nat \ {0} /\ Len(calls) \in DOMAIN calls
           /\ calls[Len(calls)] = y
           /\ \/ calls = <<y>>
              \/ calls = <<x, y>> /\ link[c] # None
           /\ \A i \in DOMAIN calls :
                 calls[i] = y \/ (calls[i] = x /\ link[c] # None /\ i = 1)
    <2>1. CASE link[c] = None
      <3>1. <<>> \o <<y>> = <<y>>
        BY <1>5, SMT
      <3>2. Then(<<y>>)
        BY <1>7, <2>1, <3>1
      <3>3. /\ <<y>> \in Seq(CallType) /\ Len(<<y>>) = 1 /\ <<y>>[1] = y /\ DOMAIN <<y>> = {1}
        BY <1>5, Chains
      <3> DEFINE cs == <<y>>
      <3>4. cs \in Seq(CallType) /\ Len(cs) = 1 /\ cs[1] = y /\ DOMAIN cs = {1} /\ cs = <<y>>
            /\ Then(cs)
        BY <3>2, <3>3
      <3> HIDE DEF cs
      <3>5. 1 \in Nat \ {0}
        BY SMT
      <3>. QED
        BY <3>4, <3>5, Zenon
    <2>2. CASE link[c] # None
      <3>1. <<x>> \o <<y>> = <<x, y>>
        <4>1. x \in CallType /\ y \in CallType
          BY <1>5, <1>6, <2>2
        <4>. QED
          BY <4>1, JoinOne
      <3>2. Then(<<x, y>>)
        BY <1>7, <2>2, <3>1
      <3>3. /\ <<x, y>> \in Seq(CallType) /\ Len(<<x, y>>) = 2
            /\ <<x, y>>[1] = x /\ <<x, y>>[2] = y /\ DOMAIN <<x, y>> = {1, 2}
        BY <1>5, <1>6, <2>2, Chains
      <3> DEFINE cs == <<x, y>>
      <3>4. cs \in Seq(CallType) /\ Len(cs) = 2 /\ cs[1] = x /\ cs[2] = y
            /\ DOMAIN cs = {1, 2} /\ cs = <<x, y>> /\ Then(cs)
        BY <3>2, <3>3
      <3> HIDE DEF cs
      <3>5. 2 \in Nat \ {0}
        BY SMT
      <3>. QED
        BY <2>2, <3>4, <3>5, Zenon
    <2>. QED
      BY <2>1, <2>2
  <1>9. StopCall'
    <2>1. ASSUME NEW i \in DOMAIN agenda', agenda'[i].f = "stop"
          PROVE  FALSE
      <3>1. i \in DOMAIN calls /\ agenda'[i] = calls[i]
        BY <1>0, <1>1, <1>8, <2>1, ThenKeeps
      <3>. QED
        BY <1>5, <1>6, <1>8, <2>1, <3>1, SMT
    <2>. QED
      BY <2>1, Zenon DEF StopCall
  <1>10. UnlinkCall'
    <2>1. ASSUME NEW i \in DOMAIN agenda', agenda'[i].f = "onChannelUnlink"
          PROVE  i = 1 /\ link'[agenda'[i].c] = agenda'[i].e
      <3>1. i \in DOMAIN calls /\ agenda'[i] = calls[i]
        BY <1>0, <1>1, <1>8, <2>1, ThenKeeps
      <3>2. calls[i] # y
        BY <1>5, <2>1, <3>1, SMT
      <3>. QED
        BY <1>3, <1>6, <1>8, <3>1, <3>2, Zenon
    <2>. QED
      BY <2>1, Zenon DEF UnlinkCall
  <1>11. TeardownCall'
    <2>1. ASSUME NEW i \in DOMAIN agenda', agenda'[i].f \in {"inputRemoved", "teardownOutputs"}
          PROVE  /\ i # 1 /\ agenda'[i - 1].f \in {"removeInputMedia", "deleteChannel"}
                 /\ agenda'[i - 1].e = agenda'[i].e
      <3>1. ~(i \in DOMAIN calls /\ agenda'[i] = calls[i])
        BY <1>5, <1>6, <1>8, <2>1, SMT
      <3>2. \/ /\ i # 1 /\ agenda'[i - 1].f \in {"removeInputMedia", "deleteChannel"}
               /\ agenda'[i - 1].e = agenda'[i].e
            \/ i = Len(calls) + 1 /\ agenda'[i].e = c
        BY <1>0, <1>1, <1>8, <2>1, <3>1, ThenKeeps
      <3>3. CASE i = Len(calls) + 1 /\ agenda'[i].e = c
        <4>1. i # 1 /\ i - 1 = Len(calls)
          BY <1>8, <3>3, SMT
        <4>2. agenda'[i - 1] = y
          BY <1>0, <1>1, <1>8, <4>1, ThenKeeps
        <4>. QED
          BY <1>5, <3>3, <4>1, <4>2
      <3>. QED
        BY <3>2, <3>3
    <2>. QED
      BY <2>1, Zenon DEF TeardownCall
  <1>12. StoppedCall'
    <2>1. \A i \in DOMAIN calls : calls[i].f # "onElementStopped"
      BY <1>5, <1>6, <1>8, SMT
    <2>. QED
      BY <1>0, <1>1, <1>3, <1>8, <2>1, StoppedCallKept, Zenon
  <1>13. DecoderInv'
    <2>1. \A g \in {"vdec_stop", "teardownOutputs", "completeStop"} :
             Calls(g, V)' => Calls(g, V)
      <3>1. \A i \in DOMAIN calls : calls[i].f \notin {"vdec_stop", "teardownOutputs",
                                                      "completeStop"}
        BY <1>5, <1>6, <1>8, SMT
      <3>2. \A g : Calls(g, V)' => \/ Calls(g, V)
                                   \/ \E i \in DOMAIN calls : calls[i].f = g /\ calls[i].e = V
        BY <1>0, <1>1, <1>8, CallsKept
      <3>. QED
        BY <3>1, <3>2, Zenon
    <2>. QED
      BY <1>0, <1>3, <2>1, DecoderFrame, Zenon
  <1>14. PortInv'
    <2>1. ASSUME NEW s \in Sinks, est'[s] = "STOPPING", port'[s]
          PROVE  LosesChannel(s)'
      <3>1. LosesChannel(s)
        BY <1>0, <1>3, <2>1, Zenon DEF PortInv
      <3>2. c = s /\ Tail(agenda) = <<Call("inputRemoved", s)>>
        BY <1>0, <1>1, <3>1, LosesShape
      <3> DEFINE z == Call("inputRemoved", s)
      <3>3. z \in CallType
        BY TypedOfSink
      <3>4. agenda' = calls \o <<z>>
        BY <1>8, <3>2, Zenon DEF Then
      <3> HIDE DEF z
      <3>5. CASE calls = <<y>>
        <4>1. agenda' = <<y, z>>
          BY <1>5, <3>3, <3>4, <3>5, JoinOne
        <4>. QED
          BY <3>2, <4>1, Zenon DEF LosesChannel, y, z
      <3>6. CASE calls = <<x, y>> /\ link[c] # None
        <4>0. agenda' = <<x, y>> \o <<z>>
          BY <3>4, <3>6
        <4>1. agenda' = <<x, y, z>>
          <5>1. x \in CallType /\ y \in CallType /\ z \in CallType
            BY <1>5, <1>6, <3>3, <3>6
          <5>2. <<x, y>> \o <<z>> = <<x, y, z>>
            BY <5>1, JoinTwo
          <5>. QED
            BY <4>0, <5>2
        <4>2. Len(agenda') = 3 /\ agenda'[1] = x /\ Tail(agenda') = <<y, z>>
          BY <1>5, <1>6, <3>3, <3>6, <4>1, Three
        <4>3. agenda'[1].f = "onChannelUnlink"
          BY <1>6, <3>6, <4>2
        <4>. QED
          BY <3>2, <4>2, <4>3, Zenon DEF LosesChannel, y, z
      <3>. QED
        BY <1>8, <3>5, <3>6
    <2>2. est' = est /\ port' = port /\ sink' = sink /\ dec' = dec /\ PortInv
      BY <1>0, <1>3
    <2>. QED
      BY <2>1, <2>2, Zenon DEF PortInv
  <1>. QED
    BY <1>4, <1>9, <1>10, <1>11, <1>12, <1>13, <1>14, Zenon DEF OpenedInv

LEMMA DeleteChannelKeeps ==
  ASSUME TypeOK, OpenedInv, NEW c \in SinkElements, DeleteChannel(c)
  PROVE  OpenedInv'
  <1>0. /\ LifeInv /\ StopCall /\ StoppedCall /\ MediaInv /\ UnlinkCall
        /\ DecoderInv /\ TeardownCall /\ PortInv /\ NoticeInv
        /\ agenda \in Seq(CallType) /\ mMbox \in Seq(MessageType)
        /\ port \in [SinkElements -> BOOLEAN]
    BY Parts
  <1>1. Runs("deleteChannel", c) /\ Then(<<>>) /\ UNCHANGED <<link, otherThanChannels>>
        /\ port' = [port EXCEPT ![c] = FALSE]
    BY Zenon DEF DeleteChannel, Return
  <1>2. /\ UNCHANGED link
        /\ UNCHANGED <<mState, mReadyToPlay, mElements, est>>
        /\ est' = est /\ UNCHANGED <<link, dmxMedia, dmxOut>>
        /\ UNCHANGED <<idle, mState, mReadyToPlay, told, appMedia, dmxMedia>>
        /\ UNCHANGED dec /\ UNCHANGED vdec /\ UNCHANGED sink /\ UNCHANGED mMbox
        /\ UNCHANGED est
    BY <1>1, Zenon DEF otherThanChannels, sessionVars, dmxVars, appVars
  <1>3. LifeInv' /\ MediaInv' /\ NoticeInv'
    BY <1>0, <1>2, LifeFrame, MediaFrame, NoticeSame
  <1>4. port'[c] = FALSE /\ \A x \in SinkElements : port'[x] => port[x]
    BY <1>0, <1>1, SMT
  <1> DEFINE cs == <<>>
  <1>5. cs \in Seq(CallType) /\ DOMAIN cs = {} /\ Len(cs) = 0 /\ Then(cs)
    BY <1>1, Chains
  <1> HIDE DEF cs
  <1>50. \A i \in DOMAIN agenda' :
                agenda'[i].f \in {"inputRemoved", "teardownOutputs"} =>
                   \/ i \in DOMAIN cs /\ agenda'[i] = cs[i]
                   \/ /\ i # 1 /\ agenda'[i - 1].f \in {"removeInputMedia", "deleteChannel"}
                      /\ agenda'[i - 1].e = agenda'[i].e
                   \/ i = Len(cs) + 1 /\ agenda'[i].e = c
    <2>1. PICK f : f = "deleteChannel"
      OBVIOUS
    <2>2. Runs(f, c) /\ f # "stop"
      BY <1>1, <2>1
    <2>3. \A i \in DOMAIN agenda' :
                agenda'[i].f \in {"inputRemoved", "teardownOutputs"} =>
                   \/ i \in DOMAIN cs /\ agenda'[i] = cs[i]
                   \/ /\ i # 1 /\ agenda'[i - 1].f \in {"removeInputMedia", "deleteChannel"}
                      /\ agenda'[i - 1].e = agenda'[i].e
                   \/ /\ f \in {"removeInputMedia", "deleteChannel"}
                      /\ i = Len(cs) + 1 /\ agenda'[i].e = c
      BY <1>0, <1>5, <2>2, ThenKeeps, ZenonT(60)
    <2>. QED
      BY <2>3, Zenon
  <1>6. StopCall' /\ UnlinkCall'
    <2>1. \A i \in DOMAIN agenda' : agenda'[i].f \notin {"stop", "onChannelUnlink"}
      BY <1>0, <1>1, <1>5, ThenKeeps
    <2>2. \A i \in DOMAIN agenda' : agenda'[i].f # "stop" /\ agenda'[i].f # "onChannelUnlink"
      BY <2>1, SMT
    <2>. QED
      BY <2>2, Zenon DEF StopCall, UnlinkCall
  <1>7. TeardownCall'
    <2>1. ASSUME NEW i \in DOMAIN agenda', agenda'[i].f \in {"inputRemoved", "teardownOutputs"}
          PROVE  IF i = 1 THEN ~port'[agenda'[i].e]
                 ELSE /\ agenda'[i - 1].f \in {"removeInputMedia", "deleteChannel"}
                      /\ agenda'[i - 1].e = agenda'[i].e
      <3>1. \/ /\ i # 1 /\ agenda'[i - 1].f \in {"removeInputMedia", "deleteChannel"}
               /\ agenda'[i - 1].e = agenda'[i].e
            \/ i = Len(cs) + 1 /\ agenda'[i].e = c
        BY <1>5, <1>50, <2>1, Zenon
      <3>2. Len(cs) + 1 = 1
        BY <1>5, SMT
      <3>. QED
        BY <1>4, <3>1, <3>2, Zenon
    <2>. QED
      BY <2>1, Zenon DEF TeardownCall
  <1>8. StoppedCall'
    BY <1>0, <1>1, <1>2, <1>5, StoppedCallKept, Zenon
  <1>9. DecoderInv'
    <2>1. \A g : Calls(g, V)' => Calls(g, V)
      BY <1>0, <1>1, <1>5, CallsKept
    <2>. QED
      BY <1>0, <1>2, <2>1, DecoderFrame, Zenon
  <1>10. PortInv'
    <2>1. ASSUME NEW s \in Sinks, est'[s] = "STOPPING", port'[s]
          PROVE  FALSE
      <3>1. port[s]
        BY <1>4, <2>1, Distinct, Zenon
      <3>2. LosesChannel(s)
        BY <1>0, <1>2, <2>1, <3>1, Zenon DEF PortInv
      <3>3. c = s
        BY <1>0, <1>1, <3>2, LosesShape
      <3>. QED
        BY <1>4, <2>1, <3>3
    <2>2. est' = est /\ sink' = sink /\ dec' = dec /\ PortInv
      BY <1>0, <1>2
    <2>3. (port'[V] => port[V]) /\ \A s \in Sinks : port'[s] => port[s]
      BY <1>4, Distinct, Zenon
    <2>. QED
      BY <2>1, <2>2, <2>3, Zenon DEF PortInv
  <1>. QED
    BY <1>3, <1>6, <1>7, <1>8, <1>9, <1>10, Zenon DEF OpenedInv

-----------------------------------------------------------------------------
(* The sinks.                                                              *)

\* channelTeardown(): the channel is removed, then the media.
LEMMA SinkTeardownKeeps ==
  ASSUME TypeOK, OpenedInv, NEW s \in Sinks, SinkTeardown(s)
  PROVE  OpenedInv'
  <1>0. /\ LifeInv /\ StopCall /\ StoppedCall /\ MediaInv /\ UnlinkCall
        /\ DecoderInv /\ TeardownCall /\ PortInv /\ NoticeInv
        /\ agenda \in Seq(CallType) /\ mMbox \in Seq(MessageType)
    BY Parts
  <1>1. Runs("onChannelTeardown", s) /\ UNCHANGED <<sink, est, idle, otherThanSinks>>
    BY Zenon DEF SinkTeardown
  <1>2. /\ UNCHANGED link /\ UNCHANGED port
        /\ UNCHANGED <<mState, mReadyToPlay, mElements, est>>
        /\ est' = est /\ UNCHANGED <<link, dmxMedia, dmxOut>>
        /\ UNCHANGED <<idle, mState, mReadyToPlay, told, appMedia, dmxMedia>>
        /\ UNCHANGED dec /\ UNCHANGED vdec /\ UNCHANGED sink /\ UNCHANGED mMbox
        /\ UNCHANGED est
    BY <1>1, Zenon DEF otherThanSinks, sessionVars, chanVars, dmxVars, appVars
  <1>3. LifeInv' /\ MediaInv' /\ NoticeInv'
    BY <1>0, <1>2, LifeFrame, MediaFrame, NoticeSame
  <1> DEFINE x == Call("removeInputMedia", s)
             y == Call("inputRemoved", s)
  <1>4. /\ x \in CallType /\ x.f = "removeInputMedia" /\ x.e = s
        /\ y \in CallType /\ y.f = "inputRemoved" /\ y.e = s
    BY TypedOfChannel, TypedOfSink, Distinct
  <1>5. IF sink[s].mInputMedia THEN Then(<<x, y>>) ELSE Then(<<>>)
    BY Zenon DEF SinkTeardown, Return
  <1> HIDE DEF x, y
  <1>6. PICK calls \in Seq(CallType) :
           /\ Then(calls)
           /\ \/ sink[s].mInputMedia /\ calls = <<x, y>>
              \/ ~sink[s].mInputMedia /\ calls = <<>>
           /\ \A i \in DOMAIN calls :
                 \/ i = 1 /\ calls[i] = x
                 \/ i = 2 /\ calls[i] = y /\ 1 \in DOMAIN calls /\ calls[1] = x
    <2>1. CASE sink[s].mInputMedia
      <3> DEFINE cs == <<x, y>>
      <3>1. cs \in Seq(CallType) /\ cs[1] = x /\ cs[2] = y /\ DOMAIN cs = {1, 2}
            /\ cs = <<x, y>> /\ Then(cs)
        BY <1>4, <1>5, <2>1, Chains
      <3> HIDE DEF cs
      <3>. QED
        BY <2>1, <3>1, Zenon
    <2>2. CASE ~sink[s].mInputMedia
      <3> DEFINE cs == <<>>
      <3>1. cs \in Seq(CallType) /\ DOMAIN cs = {} /\ cs = <<>> /\ Then(cs)
        BY <1>5, <2>2, Chains
      <3> HIDE DEF cs
      <3>. QED
        BY <2>2, <3>1, Zenon
    <2>. QED
      BY <2>1, <2>2
  <1>7. StopCall' /\ UnlinkCall'
    <2>1. ASSUME NEW i \in DOMAIN agenda', agenda'[i].f \in {"stop", "onChannelUnlink"}
          PROVE  FALSE
      <3>1. i \in DOMAIN calls /\ agenda'[i] = calls[i]
        BY <1>0, <1>1, <1>6, <2>1, ThenKeeps
      <3>. QED
        BY <1>4, <1>6, <2>1, <3>1, SMT
    <2>2. \A i \in DOMAIN agenda' : agenda'[i].f # "stop" /\ agenda'[i].f # "onChannelUnlink"
      BY <2>1, SMT
    <2>. QED
      BY <2>2, Zenon DEF StopCall, UnlinkCall
  <1>8. TeardownCall'
    <2>1. ASSUME NEW i \in DOMAIN agenda', agenda'[i].f \in {"inputRemoved", "teardownOutputs"}
          PROVE  /\ i # 1 /\ agenda'[i - 1].f \in {"removeInputMedia", "deleteChannel"}
                 /\ agenda'[i - 1].e = agenda'[i].e
      <3>1. CASE i \in DOMAIN calls /\ agenda'[i] = calls[i]
        <4>1. i = 2 /\ calls[2] = y /\ 1 \in DOMAIN calls /\ calls[1] = x
          BY <1>4, <1>6, <2>1, <3>1, SMT
        <4>2. i - 1 = 1 /\ i # 1
          BY <4>1, SMT
        <4>3. agenda'[1] = x
          BY <1>0, <1>1, <1>6, <4>1, ThenKeeps
        <4>. QED
          BY <1>4, <3>1, <4>1, <4>2, <4>3, SMT
      <3>2. CASE ~(i \in DOMAIN calls /\ agenda'[i] = calls[i])
        <4>1. \/ /\ i # 1 /\ agenda'[i - 1].f \in {"removeInputMedia", "deleteChannel"}
                 /\ agenda'[i - 1].e = agenda'[i].e
              \/ "onChannelTeardown" \in {"removeInputMedia", "deleteChannel"}
          BY <1>0, <1>1, <1>6, <2>1, <3>2, ThenKeeps
        <4>. QED
          BY <4>1, SMT
      <3>. QED
        BY <3>1, <3>2
    <2>. QED
      BY <2>1, Zenon DEF TeardownCall
  <1>9. StoppedCall'
    <2>1. \A i \in DOMAIN calls : calls[i].f # "onElementStopped"
      BY <1>4, <1>6, SMT
    <2>. QED
      BY <1>0, <1>1, <1>2, <1>6, <2>1, StoppedCallKept, Zenon
  <1>10. DecoderInv'
    <2>1. \A g \in {"vdec_stop", "teardownOutputs", "completeStop"} :
             Calls(g, V)' => Calls(g, V)
      <3>1. \A i \in DOMAIN calls : calls[i].f \notin {"vdec_stop", "teardownOutputs",
                                                      "completeStop"}
        BY <1>4, <1>6, SMT
      <3>2. \A g : Calls(g, V)' => \/ Calls(g, V)
                                   \/ \E i \in DOMAIN calls : calls[i].f = g /\ calls[i].e = V
        BY <1>0, <1>1, <1>6, CallsKept
      <3>. QED
        BY <3>1, <3>2, Zenon
    <2>. QED
      BY <1>0, <1>2, <2>1, DecoderFrame, Zenon
  <1>11. PortInv'
    <2>1. ASSUME NEW r \in Sinks, est'[r] = "STOPPING", port'[r]
          PROVE  LosesChannel(r)'
      <3>1. LosesChannel(r) /\ sink[r].mInputMedia
        BY <1>0, <1>2, <2>1, Zenon DEF PortInv
      <3>2. s = r /\ Tail(agenda) = <<>>
        BY <1>0, <1>1, <3>1, LosesShape
      <3>3. agenda' = calls \o <<>>
        BY <1>6, <3>2, Zenon DEF Then
      <3>4. agenda' = <<x, y>>
        BY <1>6, <3>1, <3>2, <3>3, JoinNone
      <3>. QED
        BY <3>2, <3>4, Zenon DEF LosesChannel, x, y
    <2>2. est' = est /\ port' = port /\ sink' = sink /\ dec' = dec /\ PortInv
      BY <1>0, <1>2
    <2>. QED
      BY <2>1, <2>2, Zenon DEF PortInv
  <1>. QED
    BY <1>3, <1>7, <1>8, <1>9, <1>10, <1>11, Zenon DEF OpenedInv

\* A call of stop() is alone.
LEMMA StopAlone ==
  ASSUME agenda \in Seq(CallType), NEW e, Runs("stop", e), StopCall
  PROVE  /\ Tail(agenda) = <<>> /\ est[e] = "STARTED" /\ (e = D => mState = "CLOSING")
         /\ \A s \in Sinks : ~LosesChannel(s)
         /\ \A g : Calls(g, V) => g = "stop"
  <1>1. 1 \in DOMAIN agenda /\ agenda[1].f = "stop" /\ agenda[1].e = e
    BY Running
  <1> DEFINE x == agenda[1]
  <1>2. agenda = <<x>> /\ est[e] = "STARTED" /\ (e = D => mState = "CLOSING")
    BY <1>1, Zenon DEF StopCall
  <1>3. x.f = "stop"
    BY <1>1
  <1> HIDE DEF x
  <1>4. Tail(agenda) = <<>> /\ DOMAIN agenda = {1} /\ agenda[1] = x
    BY <1>2, SMT
  <1>5. ASSUME NEW s \in Sinks, LosesChannel(s)
        PROVE  FALSE
    <2>1. "stop" \in {"onChannelTeardown", "removeInputMedia", "deleteChannel",
                      "onChannelUnlink", "onElementStopped"}
      BY <1>5, LosesShape
    <2>. QED
      BY <2>1, SMT
  <1>6. ASSUME NEW g, Calls(g, V)
        PROVE  g = "stop"
    <2>1. PICK i \in DOMAIN agenda : agenda[i].f = g
      BY <1>6, Zenon DEF Calls
    <2>. QED
      BY <1>3, <1>4, <2>1
  <1>. QED
    BY <1>2, <1>4, <1>5, <1>6

\* The life of a sink that stops or that has stopped.
LEMMA LifeOfSink ==
  ASSUME NEW s \in Sinks, NEW x \in {"STOPPING", "STOPPED"}, est \in [Elements -> ElementStates],
         est' = [est EXCEPT ![s] = x], est[s] \in {"STARTED", "STOPPING"},
         UNCHANGED <<mState, mReadyToPlay, mElements>>,
         ~sink'[s].mVideoSinkListener,
         \A r \in Sinks : sink'[r].mVideoSinkListener => sink[r].mVideoSinkListener, LifeInv
  PROVE  /\ LifeInv' /\ est'[D] = est[D] /\ est'[V] = est[V] /\ est'[s] = x
         /\ \A e \in Elements : e # s => est'[e] = est[e]
         /\ \A e \in Elements : est[e] \in {"STOPPED", "deleted"} =>
                est'[e] \in {"STOPPED", "deleted"}
  <1>1. est'[s] = x /\ \A e \in Elements : e # s => est'[e] = est[e]
    BY Distinct, SMT
  <1>2. est'[D] = est[D] /\ est'[V] = est[V] /\ s \in Elements
    BY <1>1, Distinct
  <1>3. \A r \in Sinks : est'[r] \in {"none", "STARTED", "STOPPING", "STOPPED", "deleted"}
    <2>1. \A r \in Sinks : r # s => est'[r] = est[r]
      BY <1>1, Distinct
    <2>. QED
      BY <1>1, <2>1, SMT DEF LifeInv
  <1>4. \A r \in Sinks : sink'[r].mVideoSinkListener => est'[r] = "STARTED"
    BY <1>1, Distinct, Zenon DEF LifeInv
  <1>5. \A e \in Elements \ mElements : est'[e] \in {"none", "deleted"}
    <2>1. s \in mElements
      BY <1>2, SMT DEF LifeInv
    <2>. QED
      BY <1>1, <2>1, Zenon DEF LifeInv
  <1>6. mState # "CLOSED"
    BY <1>2, SMT DEF LifeInv, Gone
  <1>7. \A e \in Elements : est[e] \in {"STOPPED", "deleted"} =>
                est'[e] \in {"STOPPED", "deleted"}
    <2>1. est[s] \notin {"STOPPED", "deleted"}
      BY SMT
    <2>. QED
      BY <1>1, <2>1, Zenon
  <1>. QED
    BY <1>1, <1>2, <1>3, <1>4, <1>5, <1>6, <1>7, Zenon DEF LifeInv

LEMMA SinkStopKeeps ==
  ASSUME TypeOK, OpenedInv, NEW s \in Sinks, SinkStop(s)
  PROVE  OpenedInv'
  <1>0. /\ LifeInv /\ StopCall /\ StoppedCall /\ MediaInv /\ UnlinkCall
        /\ DecoderInv /\ TeardownCall /\ PortInv /\ NoticeInv
        /\ agenda \in Seq(CallType) /\ mMbox \in Seq(MessageType)
        /\ est \in [Elements -> ElementStates] /\ sink \in [Sinks -> SinkType]
    BY Parts
  <1>1. /\ Runs("stop", s) /\ UNCHANGED <<idle, otherThanSinks>>
        /\ sink' = [sink EXCEPT ![s].mVideoSinkListener = FALSE]
    BY Zenon DEF SinkStop
  <1>2. /\ UNCHANGED link /\ UNCHANGED port
        /\ UNCHANGED <<mState, mReadyToPlay, mElements>>
        /\ UNCHANGED <<link, dmxMedia, dmxOut>>
        /\ UNCHANGED <<idle, mState, mReadyToPlay, told, appMedia, dmxMedia>>
        /\ UNCHANGED dec /\ UNCHANGED vdec /\ UNCHANGED mMbox
    BY <1>1, Zenon DEF otherThanSinks, sessionVars, chanVars, dmxVars, appVars
  <1>3. /\ Tail(agenda) = <<>> /\ est[s] = "STARTED"
        /\ \A r \in Sinks : ~LosesChannel(r)
        /\ \A g : Calls(g, V) => g = "stop"
    BY <1>0, <1>1, StopAlone
  <1>4. /\ ~sink'[s].mVideoSinkListener
        /\ \A r \in Sinks : /\ sink'[r].mVideoSinkListener => sink[r].mVideoSinkListener
                            /\ sink'[r].mInputMedia = sink[r].mInputMedia
    BY <1>0, <1>1, Zenon DEF SinkType
  <1> DEFINE x == Call("onChannelTeardown", s)
             y == CallOn("onElementStopped", None, s)
  <1>5. /\ x \in CallType /\ x.f = "onChannelTeardown"
        /\ y \in CallType /\ y.f = "onElementStopped" /\ y.c = s
    BY TypedOfChannel, TypedOfSession, Distinct
  <1>6. IF sink[s].mInputMedia
        THEN est' = [est EXCEPT ![s] = "STOPPING"] /\ Then(<<x>>)
        ELSE est' = [est EXCEPT ![s] = "STOPPED"] /\ Then(<<y>>)
    BY Zenon DEF SinkStop
  <1>7. x = Call("onChannelTeardown", s)
    OBVIOUS
  <1> HIDE DEF x, y
  <1>8. PICK st \in {"STOPPING", "STOPPED"}, z \in {x, y} :
           /\ est' = [est EXCEPT ![s] = st] /\ agenda' = <<z>>
           /\ \/ st = "STOPPING" /\ z = x
              \/ st = "STOPPED" /\ z = y /\ ~sink[s].mInputMedia
    <2>1. <<x>> \o Tail(agenda) = <<x>> /\ <<y>> \o Tail(agenda) = <<y>>
      <3>1. <<x>> \in Seq(CallType) /\ <<y>> \in Seq(CallType)
        BY <1>5, Chains
      <3>. QED
        BY <1>3, <3>1, JoinNone
    <2>2. CASE sink[s].mInputMedia
      <3>1. est' = [est EXCEPT ![s] = "STOPPING"] /\ agenda' = <<x>>
        BY <1>6, <2>1, <2>2, Zenon DEF Then
      <3>2. WITNESS "STOPPING" \in {"STOPPING", "STOPPED"}, x \in {x, y}
      <3>. QED
        BY <3>1
    <2>3. CASE ~sink[s].mInputMedia
      <3>1. est' = [est EXCEPT ![s] = "STOPPED"] /\ agenda' = <<y>>
        BY <1>6, <2>1, <2>3, Zenon DEF Then
      <3>2. WITNESS "STOPPED" \in {"STOPPING", "STOPPED"}, y \in {x, y}
      <3>. QED
        BY <2>3, <3>1
    <2>. QED
      BY <2>2, <2>3
  <1>9. /\ LifeInv' /\ est'[D] = est[D] /\ est'[V] = est[V] /\ est'[s] = st
        /\ \A e \in Elements : e # s => est'[e] = est[e]
        /\ \A e \in Elements : est[e] \in {"STOPPED", "deleted"} =>
                est'[e] \in {"STOPPED", "deleted"}
    <2>1. est[s] \in {"STARTED", "STOPPING"}
      BY <1>3
    <2>. QED
      BY <1>0, <1>2, <1>4, <1>8, <2>1, LifeOfSink
  <1>10. DOMAIN agenda' = {1} /\ agenda'[1] = z /\ z \in CallType
         /\ z.f \in {"onChannelTeardown", "onElementStopped"}
    BY <1>5, <1>8, Chains
  <1>11. StopCall' /\ UnlinkCall' /\ TeardownCall'
    <2>1. \A i \in DOMAIN agenda' :
             agenda'[i].f \notin {"stop", "onChannelUnlink", "inputRemoved", "teardownOutputs"}
      BY <1>10, SMT
    <2>2. \A i \in DOMAIN agenda' : agenda'[i].f # "stop" /\ agenda'[i].f # "onChannelUnlink"
                /\ agenda'[i].f \notin {"inputRemoved", "teardownOutputs"}
      BY <2>1, SMT
    <2>. QED
      BY <2>2, Zenon DEF StopCall, UnlinkCall, TeardownCall
  <1>12. StoppedCall'
    <2>1. ASSUME NEW i \in DOMAIN agenda', agenda'[i].f = "onElementStopped"
          PROVE  est'[agenda'[i].c] \in {"STOPPED", "deleted"}
      <3>1. z = y /\ st = "STOPPED" /\ agenda'[i] = y
        BY <1>5, <1>8, <1>10, <2>1, SMT
      <3>. QED
        BY <1>5, <1>9, <3>1
    <2>2. ASSUME NEW i \in DOMAIN mMbox', mMbox'[i].cmd = "ELEMENT_DELETE"
          PROVE  est'[mMbox'[i].e] \in {"STOPPED", "deleted"}
      <3>1. mMbox' = mMbox
        BY <1>2
      <3>2. mMbox[i] \in MessageType
        BY <1>0, <2>2, <3>1, SMT
      <3>3. mMbox[i].e \in Elements
        BY <3>2, Messages
      <3>4. est[mMbox[i].e] \in {"STOPPED", "deleted"}
        BY <1>0, <2>2, <3>1, Zenon DEF StoppedCall
      <3>. QED
        BY <1>9, <3>1, <3>3, <3>4
    <2>. QED
      BY <2>1, <2>2, Zenon DEF StoppedCall
  <1>13. MediaInv'
    BY <1>0, <1>2, <1>9, MediaFrame
  <1>14. DecoderInv'
    <2>1. \A g \in {"vdec_stop", "teardownOutputs", "completeStop"} : ~Calls(g, V)'
      <3>1. \A i \in DOMAIN agenda' : agenda'[i].f \notin {"vdec_stop", "teardownOutputs",
                                                          "completeStop"}
        BY <1>10, SMT
      <3>. QED
        BY <3>1, Zenon DEF Calls
    <2>. QED
      BY <1>0, <1>2, <1>9, <2>1, DecoderFrame, Zenon
  <1>15. PortInv'
    <2>1. ASSUME NEW r \in Sinks, est'[r] = "STOPPING", port'[r]
          PROVE  LosesChannel(r)'
      <3>1. r = s
        BY <1>0, <1>2, <1>3, <1>9, <2>1, Distinct, Zenon DEF PortInv
      <3>2. st = "STOPPING" /\ z = x
        BY <1>8, <1>9, <2>1, <3>1, SMT
      <3>3. agenda' = <<Call("onChannelTeardown", s)>>
        BY <1>7, <1>8, <3>2
      <3>. QED
        BY <3>1, <3>3, Zenon DEF LosesChannel
    <2>2. ASSUME NEW r \in Sinks, port'[r]
          PROVE  sink'[r].mInputMedia /\ est'[r] \notin Gone
      <3>1. port[r] /\ sink[r].mInputMedia /\ est[r] \notin Gone
        BY <1>0, <1>2, <2>2, Zenon DEF PortInv
      <3>2. sink'[r].mInputMedia
        BY <1>4, <3>1
      <3>3. CASE r = s
        <4>1. st = "STOPPING"
          BY <1>8, <3>1, <3>3
        <4>. QED
          BY <1>9, <3>2, <3>3, <4>1, SMT DEF Gone
      <3>4. CASE r # s
        BY <1>9, <3>1, <3>2, <3>4, Distinct
      <3>. QED
        BY <3>3, <3>4
    <2>3. port'[V] => dec'.mInputMedia /\ est'[V] # "none"
      BY <1>0, <1>2, <1>9, Zenon DEF PortInv
    <2>. QED
      BY <2>1, <2>2, <2>3, Zenon DEF PortInv
  <1>16. NoticeInv'
    BY <1>0, <1>2, NoticeSame
  <1>. QED
    BY <1>9, <1>11, <1>12, <1>13, <1>14, <1>15, <1>16, Zenon DEF OpenedInv

-----------------------------------------------------------------------------
(* Steps that make at most one call.                                       *)

OneCall(z) == Then(<<>>) \/ Then(<<z>>)

\* None but these functions are called while a sink loses its channel.
LEMMA NotLosing ==
  ASSUME agenda \in Seq(CallType), NEW f, NEW e, Runs(f, e),
         f \notin {"onChannelTeardown", "removeInputMedia", "deleteChannel",
                   "onChannelUnlink", "onElementStopped"}
  PROVE  \A s \in Sinks : ~LosesChannel(s)
  BY LosesShape

\* A sink that loses its channel goes on to lose it.
LEMMA LosingGoesOn ==
  ASSUME agenda \in Seq(CallType), NEW f \in {"onChannelUnlink", "onElementStopped"}, NEW e,
         Runs(f, e), NEW z \in CallType, z.f = "onElementStopped", OneCall(z),
         NEW s \in Sinks, LosesChannel(s)
  PROVE  LosesChannel(s)'
  <1> DEFINE x == Call("deleteChannel", s)
             y == Call("inputRemoved", s)
  <1>1. x \in CallType /\ y \in CallType
    BY TypedOfChannel, TypedOfSink, Distinct
  <1>2. Tail(agenda) = <<x, y>>
    BY LosesShape
  <1>3. LosesChannel(s)' <=>
           \/ agenda' = <<Call("onChannelTeardown", s)>>
           \/ agenda' = <<Call("removeInputMedia", s), y>>
           \/ agenda' = <<x, y>>
           \/ /\ Len(agenda') = 3 /\ agenda'[1].f \in {"onChannelUnlink", "onElementStopped"}
              /\ Tail(agenda') = <<x, y>>
    BY Zenon DEF LosesChannel
  <1> HIDE DEF x, y
  <1>4. CASE Then(<<>>)
    <2>1. agenda' = <<x, y>>
      <3>1. <<x, y>> \in Seq(CallType)
        BY <1>1, Chains
      <3>. QED
        BY <1>2, <1>4, <3>1, JoinNone, Zenon DEF Then
    <2>. QED
      BY <1>3, <2>1
  <1>5. CASE Then(<<z>>)
    <2>1. agenda' = <<z>> \o <<x, y>>
      BY <1>2, <1>5, Zenon DEF Then
    <2>2. agenda' = <<z, x, y>>
      BY <1>1, <2>1, JoinOneTwo
    <2>3. Len(agenda') = 3 /\ agenda'[1] = z /\ Tail(agenda') = <<x, y>>
      BY <1>1, <2>2, SMT
    <2>. QED
      BY <1>3, <2>3
  <1>. QED
    BY <1>4, <1>5 DEF OneCall

\* A step that makes at most one call, and no such one.
LEMMA ChainOne ==
  ASSUME agenda \in Seq(CallType), NEW f, NEW e, Runs(f, e),
         f \notin {"removeInputMedia", "deleteChannel"},
         NEW z \in CallType, OneCall(z),
         z.f \notin {"stop", "onChannelUnlink", "inputRemoved", "teardownOutputs"},
         z.f = "onElementStopped" => Then(<<>>) \/ est'[z.c] \in {"STOPPED", "deleted"},
         StopCall, UnlinkCall, TeardownCall, StoppedCall,
         \A x \in Elements : est[x] \in {"STOPPED", "deleted"} =>
             est'[x] \in {"STOPPED", "deleted"},
         mMbox \in Seq(MessageType),
         \A i \in DOMAIN mMbox' : mMbox'[i].cmd = "ELEMENT_DELETE" =>
             \/ est'[mMbox'[i].e] \in {"STOPPED", "deleted"}
             \/ \E j \in DOMAIN mMbox : mMbox'[i] = mMbox[j]
  PROVE  /\ StopCall' /\ UnlinkCall' /\ TeardownCall' /\ StoppedCall'
         /\ \A g : Calls(g, V)' => Calls(g, V) \/ (z.f = g /\ z.e = V)
  <1>1. PICK calls \in Seq(CallType) : /\ Then(calls)
                                       /\ \A i \in DOMAIN calls : calls[i] = z /\ ~Then(<<>>)
    <2>1. CASE Then(<<>>)
      <3> DEFINE cs == <<>>
      <3>1. cs \in Seq(CallType) /\ DOMAIN cs = {} /\ Then(cs)
        BY <2>1, Chains
      <3> HIDE DEF cs
      <3>. QED
        BY <3>1, Zenon
    <2>2. CASE Then(<<z>>) /\ ~Then(<<>>)
      <3> DEFINE cs == <<z>>
      <3>1. cs \in Seq(CallType) /\ DOMAIN cs = {1} /\ cs[1] = z /\ Then(cs)
        BY <2>2, Chains
      <3> HIDE DEF cs
      <3>. QED
        BY <2>2, <3>1, Zenon
    <2>. QED
      BY <2>1, <2>2 DEF OneCall
  <1>2. CASE f # "stop"
    <2>1. \A i \in DOMAIN calls : calls[i].f \notin {"stop", "onChannelUnlink", "inputRemoved",
                                                   "teardownOutputs"}
      BY <1>1, SMT
    <2>2. \A i \in DOMAIN calls : calls[i].f = "onElementStopped" =>
             est'[calls[i].c] \in {"STOPPED", "deleted"}
      BY <1>1, Zenon
    <2>3. StopCall' /\ UnlinkCall' /\ TeardownCall'
      <3>1. f \notin {"stop", "removeInputMedia", "deleteChannel"}
        BY <1>2, SMT
      <3>. QED
        BY <1>1, <2>1, <3>1, NoSuchCall
    <2>4. StoppedCall'
      BY <1>1, <1>2, <2>2, StoppedCallKept, Zenon
    <2>5. \A g : Calls(g, V)' => \/ Calls(g, V)
                                 \/ \E i \in DOMAIN calls : calls[i].f = g /\ calls[i].e = V
      BY <1>1, <1>2, CallsKept
    <2>. QED
      BY <1>1, <2>3, <2>4, <2>5, Zenon
  <1>3. CASE f = "stop"
    <2>1. Tail(agenda) = <<>>
      BY <1>3, StopAlone
    <2>2. agenda' = calls
      <3>1. agenda' = calls \o <<>>
        BY <1>1, <2>1, Zenon DEF Then
      <3>. QED
        BY <3>1, JoinNone
    <2>3. \A i \in DOMAIN agenda' : agenda'[i].f # "stop" /\ agenda'[i].f # "onChannelUnlink"
                /\ agenda'[i].f \notin {"inputRemoved", "teardownOutputs"}
      BY <1>1, <2>2, SMT
    <2>4. StopCall' /\ UnlinkCall' /\ TeardownCall'
      BY <2>3, Zenon DEF StopCall, UnlinkCall, TeardownCall
    <2>5. ASSUME NEW i \in DOMAIN mMbox', mMbox'[i].cmd = "ELEMENT_DELETE"
          PROVE  est'[mMbox'[i].e] \in {"STOPPED", "deleted"}
      <3>1. ASSUME NEW j \in DOMAIN mMbox, mMbox'[i] = mMbox[j]
            PROVE  est'[mMbox'[i].e] \in {"STOPPED", "deleted"}
        <4>1. mMbox[j] \in MessageType
          BY <3>1, SMT
        <4>2. mMbox[j].e \in Elements
          BY <4>1, Messages
        <4>. QED
          BY <2>5, <3>1, <4>2, Zenon DEF StoppedCall
      <3>. QED
        BY <2>5, <3>1
    <2>6. StoppedCall'
      BY <1>1, <2>2, <2>5, Zenon DEF StoppedCall
    <2>7. \A g : Calls(g, V)' => \/ Calls(g, V)
                                 \/ \E i \in DOMAIN calls : calls[i].f = g /\ calls[i].e = V
      BY <2>2, Zenon DEF Calls
    <2>. QED
      BY <1>1, <2>4, <2>6, <2>7, Zenon
  <1>. QED
    BY <1>2, <1>3

\* The notices when one is posted and the session is not closed.
LEMMA NoticePosted ==
  ASSUME idle \in Seq(IdleType), NEW n \in IdleType, n.cb # "closeResponse",
         idle' = Append(idle, n) \/ UNCHANGED idle, mState # "CLOSED", told'.closed = told.closed,
         LastSays(idle', "ready", "notReady", None, told'.ready, mReadyToPlay'),
         LastSays(idle', "mediaAdded", "mediaRemoved", D, D \in appMedia', dmxMedia'),
         LastSays(idle', "mediaAdded", "mediaRemoved", V, V \in appMedia', dec'.mOutputMedia),
         NoticeInv
  PROVE  NoticeInv'
  <1>1. ~(told.closed > 0) /\ \A i \in DOMAIN idle : idle[i].cb # "closeResponse"
    BY Zenon DEF NoticeInv
  <1>2. \A i \in DOMAIN idle' : idle'[i].cb # "closeResponse"
    <2>1. CASE idle' = Append(idle, n)
      <3>1. /\ \A i \in DOMAIN idle : idle'[i] = idle[i]
            /\ \A i \in DOMAIN idle' : i \in DOMAIN idle \/ i = Len(idle) + 1
            /\ idle'[Len(idle) + 1] = n
        BY <2>1, AppendContains
      <3>. QED
        BY <1>1, <3>1, Zenon
    <2>2. CASE UNCHANGED idle
      BY <1>1, <2>2
    <2>. QED
      BY <2>1, <2>2
  <1>. QED
    BY <1>1, <1>2, Zenon DEF NoticeInv

\* The input media of a sink is forgotten once its channel is gone.
LEMMA SinkInputRemovedKeeps ==
  ASSUME TypeOK, OpenedInv, NEW s \in Sinks, SinkInputRemoved(s)
  PROVE  OpenedInv'
  <1>0. /\ LifeInv /\ StopCall /\ StoppedCall /\ MediaInv /\ UnlinkCall
        /\ DecoderInv /\ TeardownCall /\ PortInv /\ NoticeInv
        /\ agenda \in Seq(CallType) /\ mMbox \in Seq(MessageType)
        /\ sink \in [Sinks -> SinkType]
    BY Parts
  <1>1. /\ Runs("inputRemoved", s) /\ UNCHANGED <<est, idle, otherThanSinks>>
        /\ sink' = [sink EXCEPT ![s].mInputMedia = FALSE] /\ Then(<<Call("flush", s)>>)
    BY Zenon DEF SinkInputRemoved
  <1>2. /\ UNCHANGED link /\ UNCHANGED port
        /\ UNCHANGED <<mState, mReadyToPlay, mElements, est>>
        /\ UNCHANGED <<link, dmxMedia, dmxOut>>
        /\ UNCHANGED <<idle, mState, mReadyToPlay, told, appMedia, dmxMedia>>
        /\ UNCHANGED dec /\ UNCHANGED vdec /\ UNCHANGED mMbox /\ UNCHANGED est
    BY <1>1, Zenon DEF otherThanSinks, sessionVars, chanVars, dmxVars, appVars
  <1>3. \A r \in Sinks : /\ sink'[r].mVideoSinkListener => sink[r].mVideoSinkListener
                         /\ r # s => sink'[r].mInputMedia = sink[r].mInputMedia
    BY <1>0, <1>1, Zenon DEF SinkType
  <1> DEFINE z == Call("flush", s)
  <1>4. z \in CallType /\ z.f = "flush" /\ OneCall(z)
    BY <1>1, TypedOfSink, Zenon DEF OneCall
  <1> HIDE DEF z
  <1>5. LifeInv' /\ MediaInv' /\ NoticeInv'
    BY <1>0, <1>2, <1>3, LifeFrame, MediaFrame, NoticeSame
  <1>6. /\ StopCall' /\ UnlinkCall' /\ TeardownCall' /\ StoppedCall'
        /\ \A g : Calls(g, V)' => Calls(g, V) \/ (z.f = g /\ z.e = V)
    <2>1. /\ "inputRemoved" \notin {"removeInputMedia", "deleteChannel"}
          /\ z.f \notin {"stop", "onChannelUnlink", "inputRemoved", "teardownOutputs"}
          /\ z.f # "onElementStopped"
      BY <1>4, SMT
    <2>2. /\ \A x \in Elements : est[x] \in {"STOPPED", "deleted"} =>
                 est'[x] \in {"STOPPED", "deleted"}
          /\ \A i \in DOMAIN mMbox' : mMbox'[i].cmd = "ELEMENT_DELETE" =>
                 \/ est'[mMbox'[i].e] \in {"STOPPED", "deleted"}
                 \/ \E j \in DOMAIN mMbox : mMbox'[i] = mMbox[j]
      BY <1>2, Zenon
    <2>. QED
      BY <1>0, <1>1, <1>4, <2>1, <2>2, ChainOne
  <1>7. DecoderInv'
    <2>1. \A g \in {"vdec_stop", "teardownOutputs", "completeStop"} :
             Calls(g, V)' => Calls(g, V)
      BY <1>4, <1>6, SMT
    <2>. QED
      BY <1>0, <1>2, <2>1, DecoderFrame, Zenon
  <1>8. PortInv'
    <2>1. ~port[s]
      <3>1. 1 \in DOMAIN agenda /\ agenda[1].f = "inputRemoved" /\ agenda[1].e = s
        BY <1>0, <1>1, Running
      <3>. QED
        BY <1>0, <3>1, Zenon DEF TeardownCall
    <2>2. \A r \in Sinks : ~LosesChannel(r)
      BY <1>0, <1>1, NotLosing
    <2>3. port' = port /\ est' = est /\ dec' = dec
      BY <1>2
    <2>. QED
      BY <1>0, <1>3, <2>1, <2>2, <2>3, Zenon DEF PortInv
  <1>. QED
    BY <1>5, <1>6, <1>7, <1>8, Zenon DEF OpenedInv

\* A sink that was flushed while it stops has stopped: its channel is gone.
LEMMA SinkCompleteStopKeeps ==
  ASSUME TypeOK, OpenedInv, NEW s \in Sinks, SinkCompleteStop(s)
  PROVE  OpenedInv'
  <1>0. /\ LifeInv /\ StopCall /\ StoppedCall /\ MediaInv /\ UnlinkCall
        /\ DecoderInv /\ TeardownCall /\ PortInv /\ NoticeInv
        /\ agenda \in Seq(CallType) /\ mMbox \in Seq(MessageType)
        /\ est \in [Elements -> ElementStates]
    BY Parts
  <1>1. /\ Runs("completeStop", s) /\ UNCHANGED <<sink, idle, otherThanSinks>>
    BY Zenon DEF SinkCompleteStop
  <1>2. /\ UNCHANGED link /\ UNCHANGED port
        /\ UNCHANGED <<mState, mReadyToPlay, mElements>>
        /\ UNCHANGED <<link, dmxMedia, dmxOut>>
        /\ UNCHANGED <<idle, mState, mReadyToPlay, told, appMedia, dmxMedia>>
        /\ UNCHANGED dec /\ UNCHANGED vdec /\ UNCHANGED mMbox /\ UNCHANGED sink
    BY <1>1, Zenon DEF otherThanSinks, sessionVars, chanVars, dmxVars, appVars
  <1> DEFINE z == CallOn("onElementStopped", None, s)
  <1>3. z \in CallType /\ z.f = "onElementStopped" /\ z.c = s
    BY TypedOfSession, Distinct
  <1>4. IF est[s] = "STOPPING"
        THEN est' = [est EXCEPT ![s] = "STOPPED"] /\ Then(<<z>>)
        ELSE Then(<<>>) /\ UNCHANGED est
    BY Zenon DEF SinkCompleteStop, Return
  <1> HIDE DEF z
  <1>5. OneCall(z)
    BY <1>4, Zenon DEF OneCall
  <1>6. \A r \in Sinks : ~LosesChannel(r)
    BY <1>0, <1>1, NotLosing
  <1>7. /\ LifeInv' /\ est'[D] = est[D] /\ est'[V] = est[V]
        /\ \A e \in Elements : e # s => est'[e] = est[e]
        /\ \A e \in Elements : est[e] \in {"STOPPED", "deleted"} =>
                est'[e] \in {"STOPPED", "deleted"}
        /\ est[s] = "STOPPING" => est'[s] = "STOPPED"
        /\ est[s] # "STOPPING" => est' = est
    <2>1. CASE est[s] = "STOPPING"
      <3>1. est' = [est EXCEPT ![s] = "STOPPED"]
        BY <1>4, <2>1
      <3>2. "STOPPED" \in {"STOPPING", "STOPPED"} /\ est[s] \in {"STARTED", "STOPPING"}
        BY <2>1
      <3>3. ~sink'[s].mVideoSinkListener
        <4>1. est[s] # "STARTED"
          BY <2>1
        <4>. QED
          BY <1>0, <1>2, <4>1, Zenon DEF LifeInv
      <3>4. PICK st \in {"STOPPING", "STOPPED"} : st = "STOPPED" /\ est' = [est EXCEPT ![s] = st]
        BY <3>1
      <3>5. \A r \in Sinks : sink'[r].mVideoSinkListener => sink[r].mVideoSinkListener
        BY <1>2
      <3>6. /\ LifeInv' /\ est'[D] = est[D] /\ est'[V] = est[V] /\ est'[s] = st
            /\ \A e \in Elements : e # s => est'[e] = est[e]
            /\ \A e \in Elements : est[e] \in {"STOPPED", "deleted"} =>
                est'[e] \in {"STOPPED", "deleted"}
        BY <1>0, <1>2, <3>2, <3>3, <3>4, <3>5, LifeOfSink
      <3>. QED
        BY <2>1, <3>4, <3>6
    <2>2. CASE est[s] # "STOPPING"
      <3>1. UNCHANGED est
        BY <1>4, <2>2
      <3>2. UNCHANGED <<mState, mReadyToPlay, mElements, est>>
        BY <1>2, <3>1
      <3>3. LifeInv'
        BY <1>0, <1>2, <3>2, LifeFrame
      <3>. QED
        BY <2>2, <3>1, <3>3
    <2>. QED
      BY <2>1, <2>2
  <1>8. /\ StopCall' /\ UnlinkCall' /\ TeardownCall' /\ StoppedCall'
        /\ \A g : Calls(g, V)' => Calls(g, V) \/ (z.f = g /\ z.e = V)
    <2>1. /\ "completeStop" \notin {"removeInputMedia", "deleteChannel"}
          /\ z.f \notin {"stop", "onChannelUnlink", "inputRemoved", "teardownOutputs"}
      BY <1>3, SMT
    <2>2. Then(<<>>) \/ est'[z.c] \in {"STOPPED", "deleted"}
      BY <1>3, <1>4, <1>7, Zenon
    <2>3. \A i \in DOMAIN mMbox' : mMbox'[i].cmd = "ELEMENT_DELETE" =>
             \/ est'[mMbox'[i].e] \in {"STOPPED", "deleted"}
             \/ \E j \in DOMAIN mMbox : mMbox'[i] = mMbox[j]
      BY <1>2, Zenon
    <2>. QED
      BY <1>0, <1>1, <1>3, <1>5, <1>7, <2>1, <2>2, <2>3, ChainOne
  <1>9. MediaInv' /\ NoticeInv'
    BY <1>0, <1>2, <1>7, MediaFrame, NoticeSame
  <1>10. DecoderInv'
    <2>1. \A g \in {"vdec_stop", "teardownOutputs", "completeStop"} :
             Calls(g, V)' => Calls(g, V)
      BY <1>3, <1>8, SMT
    <2>. QED
      BY <1>0, <1>2, <1>7, <2>1, DecoderFrame, Zenon
  <1>11. PortInv'
    <2>1. ASSUME NEW r \in Sinks, port'[r]
          PROVE  /\ sink'[r].mInputMedia /\ est'[r] \notin Gone /\ est'[r] # "STOPPING"
      <3>1. port[r] /\ sink[r].mInputMedia /\ est[r] \notin Gone /\ est[r] # "STOPPING"
        BY <1>0, <1>2, <1>6, <2>1, Zenon DEF PortInv
      <3>2. est'[r] = est[r]
        BY <1>7, <3>1, Distinct
      <3>. QED
        BY <1>2, <3>1, <3>2
    <2>2. port'[V] => dec'.mInputMedia /\ est'[V] # "none"
      BY <1>0, <1>2, <1>7, Zenon DEF PortInv
    <2>. QED
      BY <2>1, <2>2, Zenon DEF PortInv
  <1>. QED
    BY <1>7, <1>8, <1>9, <1>10, <1>11, Zenon DEF OpenedInv

-----------------------------------------------------------------------------
(* The demuxer and the decoder that stop, or have stopped.                 *)

LEMMA LifeOfEnd ==
  ASSUME NEW x \in {D, V}, NEW st \in {"STOPPING", "STOPPED"},
         est \in [Elements -> ElementStates], est' = [est EXCEPT ![x] = st],
         est[x] \in {"STARTED", "STOPPING"}, x = D => mState # "OPENED",
         UNCHANGED <<mState, mReadyToPlay, mElements>>, UNCHANGED sink, LifeInv
  PROVE  /\ LifeInv' /\ est'[x] = st
         /\ \A e \in Elements : e # x => est'[e] = est[e]
         /\ \A e \in Elements : est[e] \in {"STOPPED", "deleted"} =>
                est'[e] \in {"STOPPED", "deleted"}
  <1>0. x \in Elements /\ x \notin Sinks
    BY Distinct
  <1>1. est'[x] = st /\ \A e \in Elements : e # x => est'[e] = est[e]
    BY <1>0, SMT
  <1>2. est'[D] \in {"STARTED", "STOPPING", "STOPPED", "deleted"}
    <2>1. CASE x = D
      BY <1>1, <2>1, SMT
    <2>2. CASE x # D
      BY <1>1, <2>2, Distinct, Zenon DEF LifeInv
    <2>. QED
      BY <2>1, <2>2
  <1>3. \A s \in Sinks : est'[s] = est[s]
    BY <1>0, <1>1, Distinct
  <1>4. mState = "OPENED" => est'[D] = "STARTED"
    BY <1>1, Distinct, Zenon DEF LifeInv
  <1>5. \A e \in Elements \ mElements : est'[e] \in {"none", "deleted"}
    <2>1. x \in mElements
      BY <1>0, SMT DEF LifeInv
    <2>. QED
      BY <1>1, <2>1, Zenon DEF LifeInv
  <1>6. mState # "CLOSED"
    BY <1>0, SMT DEF LifeInv, Gone
  <1>7. \A e \in Elements : est[e] \in {"STOPPED", "deleted"} =>
                est'[e] \in {"STOPPED", "deleted"}
    <2>1. est[x] \notin {"STOPPED", "deleted"}
      BY SMT
    <2>. QED
      BY <1>1, <2>1, Zenon
  <1>. QED
    BY <1>1, <1>2, <1>3, <1>4, <1>5, <1>6, <1>7, ZenonT(60) DEF LifeInv

\* stop() of the demuxer, called by close(): it is not ready to play any more.
LEMMA DmxStopKeeps ==
  ASSUME TypeOK, OpenedInv, DmxStop
  PROVE  OpenedInv'
  <1>0. /\ LifeInv /\ StopCall /\ StoppedCall /\ MediaInv /\ UnlinkCall
        /\ DecoderInv /\ TeardownCall /\ PortInv /\ NoticeInv
        /\ agenda \in Seq(CallType) /\ mMbox \in Seq(MessageType)
        /\ est \in [Elements -> ElementStates]
    BY Parts
  <1>1. /\ Runs("stop", D) /\ est' = [est EXCEPT ![D] = "STOPPING"]
        /\ Then(<<Call("flush", D)>>)
        /\ mReadyToPlay' = FALSE
        /\ idle' = IF mReadyToPlay THEN Append(idle, Idle("notReady", None)) ELSE idle
        /\ UNCHANGED <<dmxMedia, dmxOut, mChannelsFlushing, link, dec, sink, counters,
                       otherThanDmx>>
    BY Zenon DEF DmxStop
  <1>2. est[D] = "STARTED" /\ mState = "CLOSING"
    BY <1>0, <1>1, StopAlone
  <1>3. mReadyToPlay = FALSE
    <2>1. mState # "OPENED"
      BY <1>2, SMT
    <2>2. mReadyToPlay \in BOOLEAN
      BY Zenon DEF TypeOK
    <2>. QED
      BY <1>0, <2>1, <2>2, Zenon DEF LifeInv
  <1>4. /\ UNCHANGED <<mState, mReadyToPlay, mElements>> /\ UNCHANGED sink
        /\ UNCHANGED <<link, dmxMedia, dmxOut>>
        /\ UNCHANGED <<idle, mState, mReadyToPlay, told, appMedia, dmxMedia>>
        /\ UNCHANGED dec /\ UNCHANGED vdec /\ UNCHANGED mMbox /\ UNCHANGED port
    BY <1>1, <1>3, Zenon DEF otherThanDmx, appVars
  <1> DEFINE z == Call("flush", D)
  <1>5. z \in CallType /\ z.f = "flush" /\ OneCall(z)
    BY <1>1, TypedOfD, Zenon DEF OneCall
  <1> HIDE DEF z
  <1>6. PICK st \in {"STOPPING", "STOPPED"} : st = "STOPPING" /\ est' = [est EXCEPT ![D] = st]
    BY <1>1
  <1>7. /\ LifeInv' /\ est'[D] = st
        /\ \A e \in Elements : e # D => est'[e] = est[e]
        /\ \A e \in Elements : est[e] \in {"STOPPED", "deleted"} =>
                est'[e] \in {"STOPPED", "deleted"}
    <2>1. PICK x \in {D, V} : x = D
      OBVIOUS
    <2>2. est[x] \in {"STARTED", "STOPPING"} /\ (x = D => mState # "OPENED")
      BY <1>2, <2>1, SMT
    <2>3. est' = [est EXCEPT ![x] = st]
      BY <1>6, <2>1
    <2>4. /\ LifeInv' /\ est'[x] = st
          /\ \A e \in Elements : e # x => est'[e] = est[e]
          /\ \A e \in Elements : est[e] \in {"STOPPED", "deleted"} =>
                est'[e] \in {"STOPPED", "deleted"}
      BY <1>0, <1>4, <2>2, <2>3, LifeOfEnd
    <2>. QED
      BY <2>1, <2>4
  <1>8. est'[V] = est[V] /\ est'[D] \notin Gone
    BY <1>6, <1>7, Distinct, SMT DEF Gone
  <1>9. /\ StopCall' /\ UnlinkCall' /\ TeardownCall' /\ StoppedCall'
        /\ \A g : Calls(g, V)' => Calls(g, V) \/ (z.f = g /\ z.e = V)
    <2>1. /\ "stop" \notin {"removeInputMedia", "deleteChannel"}
          /\ z.f \notin {"stop", "onChannelUnlink", "inputRemoved", "teardownOutputs"}
          /\ z.f # "onElementStopped"
      BY <1>5, SMT
    <2>2. \A i \in DOMAIN mMbox' : mMbox'[i].cmd = "ELEMENT_DELETE" =>
             \/ est'[mMbox'[i].e] \in {"STOPPED", "deleted"}
             \/ \E j \in DOMAIN mMbox : mMbox'[i] = mMbox[j]
      BY <1>4, Zenon
    <2>. QED
      BY <1>0, <1>1, <1>5, <1>7, <2>1, <2>2, ChainOne
  <1>10. MediaInv'
    <2>1. MediaInv /\ UNCHANGED <<link, dmxMedia, dmxOut>> /\ UNCHANGED dec
      BY <1>0, <1>4
    <2>. QED
      BY <1>8, <2>1, Zenon DEF MediaInv, Gone
  <1>11. NoticeInv'
    BY <1>0, <1>4, NoticeSame
  <1>12. DecoderInv'
    <2>1. \A g \in {"vdec_stop", "teardownOutputs", "completeStop"} :
             Calls(g, V)' => Calls(g, V)
      BY <1>5, <1>9, SMT
    <2>. QED
      BY <1>0, <1>4, <1>8, <2>1, DecoderFrame, Zenon
  <1>13. PortInv'
    <2>1. \A r \in Sinks : est'[r] = est[r]
      BY <1>7, Distinct
    <2>2. \A r \in Sinks : ~LosesChannel(r)
      BY <1>0, <1>1, StopAlone
    <2>. QED
      BY <1>0, <1>4, <1>8, <2>1, <2>2, Zenon DEF PortInv
  <1>. QED
    BY <1>7, <1>9, <1>10, <1>11, <1>12, <1>13, Zenon DEF OpenedInv

\* The channel that is unlinked.
LEMMA Unlinked ==
  ASSUME agenda \in Seq(CallType), NEW e \in {D, V}, Runs("onChannelUnlink", e), UnlinkCall
  PROVE  Subject \in SinkElements /\ link[Subject] = e
  <1>1. /\ agenda[1] \in CallType /\ 1 \in DOMAIN agenda /\ agenda[1].f = "onChannelUnlink"
        /\ agenda[1].e = e /\ Subject = agenda[1].c
    BY Running
  <1>2. agenda[1].c \in SinkElements
    BY <1>1, CallFields
  <1>3. link[agenda[1].c] = agenda[1].e
    BY <1>1, Zenon DEF UnlinkCall
  <1>. QED
    BY <1>1, <1>2, <1>3

\* The application is told that a media is gone.
LEMMA MediaGone ==
  ASSUME idle \in Seq(IdleType), NEW e \in {D, V}, IdleAdd("mediaRemoved", e),
         mState # "CLOSED", UNCHANGED <<told, appMedia, mReadyToPlay>>,
         dmxMedia' = (dmxMedia /\ e # D), dec'.mOutputMedia = (dec.mOutputMedia /\ e # V),
         dmxMedia \in BOOLEAN, dec.mOutputMedia \in BOOLEAN,
         NoticeInv
  PROVE  NoticeInv' /\ idle' \in Seq(IdleType)
  <1> DEFINE n == Idle("mediaRemoved", e)
  <1>1. n \in IdleType /\ n.cb = "mediaRemoved" /\ n.e = e
    <2>1. n.cb = "mediaRemoved" /\ n.e = e
      BY SMT DEF Idle
    <2>2. "mediaRemoved" \in {"mediaAdded", "mediaRemoved"}
      OBVIOUS
    <2>3. n \in IdleType
      BY <2>2, NoticeTypes
    <2>. QED
      BY <2>1, <2>3
  <1>2. idle' = Append(idle, n)
    BY Zenon DEF IdleAdd
  <1> HIDE DEF n
  <1>3. idle' \in Seq(IdleType)
    BY <1>1, <1>2, AppendContains
  <1>4. /\ LastSays(idle, "ready", "notReady", None, told.ready, mReadyToPlay)
        /\ LastSays(idle, "mediaAdded", "mediaRemoved", D, D \in appMedia, dmxMedia)
        /\ LastSays(idle, "mediaAdded", "mediaRemoved", V, V \in appMedia, dec.mOutputMedia)
    BY Zenon DEF NoticeInv
  <1>5. LastSays(Append(idle, n), "ready", "notReady", None, told.ready, mReadyToPlay)
    <2>1. n.cb \notin {"ready", "notReady"}
      BY <1>1, SMT
    <2>. QED
      BY <1>1, <1>4, <2>1, LastSaysOther
  <1>6. ASSUME NEW x \in {D, V}, NEW truth, x = e => ~truth,
               x # e => LastSays(idle, "mediaAdded", "mediaRemoved", x, x \in appMedia, truth)
        PROVE  LastSays(Append(idle, n), "mediaAdded", "mediaRemoved", x, x \in appMedia, truth)
    <2>1. CASE x = e
      <3>1. n.cb \in {"mediaAdded", "mediaRemoved"} /\ (n.cb = "mediaAdded" <=> truth) /\ n.e = x
        BY <1>1, <1>6, <2>1, SMT
      <3>. QED
        BY <1>1, <3>1, LastSaysPosted
    <2>2. CASE x # e
      <3>1. n.e # x
        BY <1>1, <2>2
      <3>. QED
        BY <1>1, <1>6, <2>2, <3>1, LastSaysOther
    <2>. QED
      BY <2>1, <2>2
  <1>7. LastSays(Append(idle, n), "mediaAdded", "mediaRemoved", D, D \in appMedia, dmxMedia')
    <2>1. (D = e => ~dmxMedia') /\ (D # e => dmxMedia' = dmxMedia)
      OBVIOUS
    <2>. QED
      BY <1>4, <1>6, <2>1
  <1>8. LastSays(Append(idle, n), "mediaAdded", "mediaRemoved", V, V \in appMedia,
                 dec'.mOutputMedia)
    <2>1. (V = e => ~dec'.mOutputMedia) /\ (V # e => dec'.mOutputMedia = dec.mOutputMedia)
      OBVIOUS
    <2>. QED
      BY <1>4, <1>6, <2>1
  <1>9. n.cb # "closeResponse"
    BY <1>1, SMT
  <1>. QED
    BY <1>1, <1>2, <1>3, <1>5, <1>7, <1>8, <1>9, NoticePosted

\* A channel of the demuxer is unlinked; with the last one the media goes, and
\* a demuxer that stops has stopped.
LEMMA DmxOnChannelUnlinkKeeps ==
  ASSUME TypeOK, OpenedInv, DmxOnChannelUnlink
  PROVE  OpenedInv'
  <1>0. /\ LifeInv /\ StopCall /\ StoppedCall /\ MediaInv /\ UnlinkCall
        /\ DecoderInv /\ TeardownCall /\ PortInv /\ NoticeInv
        /\ agenda \in Seq(CallType) /\ mMbox \in Seq(MessageType) /\ idle \in Seq(IdleType)
        /\ est \in [Elements -> ElementStates] /\ dec \in DecType
        /\ link \in [SinkElements -> {D, V, None}]
    BY Parts
  <1> DEFINE z == CallOn("onElementStopped", None, D)
             c == Subject
  <1>1. /\ Runs("onChannelUnlink", D)
        /\ link' = [link EXCEPT ![c] = None] /\ dmxOut' = Without(dmxOut, c)
        /\ UNCHANGED <<mDemuxerReady, mReadyToPlay, mChannelsFlushing, mRunning, mTimer,
                       dec, sink, counters, otherThanDmx>>
    BY Zenon DEF DmxOnChannelUnlink
  <1>2. \/ dmxOut' # <<>> /\ Then(<<>>) /\ UNCHANGED <<dmxMedia, idle, est>>
        \/ /\ dmxOut' = <<>> /\ IdleAdd("mediaRemoved", D) /\ dmxMedia' = FALSE
           /\ \/ /\ est[D] = "STOPPING" /\ est' = [est EXCEPT ![D] = "STOPPED"] /\ Then(<<z>>)
              \/ est[D] # "STOPPING" /\ Then(<<>>) /\ UNCHANGED est
    BY Zenon DEF DmxOnChannelUnlink, Return
  <1>3. z \in CallType /\ z.f = "onElementStopped" /\ z.c = D
    BY TypedOfSession, Distinct
  <1>4. c \in SinkElements /\ link[c] = D
    <2>1. PICK x \in {D, V} : x = D
      OBVIOUS
    <2>. QED
      BY <1>0, <1>1, <2>1, Unlinked
  <1> HIDE DEF z, c
  <1>5. OneCall(z)
    BY <1>2, Zenon DEF OneCall
  <1>6. /\ UNCHANGED <<mState, mReadyToPlay, mElements>> /\ UNCHANGED sink
        /\ UNCHANGED dec /\ UNCHANGED vdec /\ UNCHANGED mMbox /\ UNCHANGED port
        /\ UNCHANGED <<told, appMedia, mReadyToPlay>>
        /\ UNCHANGED <<mState, mReadyToPlay, told, appMedia>>
    BY <1>1, Zenon DEF otherThanDmx, appVars
  <1>7. /\ dmxMedia /\ est[D] \notin Gone /\ mState # "CLOSED"
    <2>1. Contains(dmxOut, c)
      BY <1>0, <1>4, Zenon DEF MediaInv
    <2>2. dmxOut # <<>>
      BY <2>1, SMT DEF Contains
    <2>3. dmxMedia /\ est[D] \notin Gone
      BY <1>0, <2>2, Zenon DEF MediaInv
    <2>4. mState # "CLOSED"
      BY <1>0, <2>3, Distinct, Zenon DEF LifeInv
    <2>. QED
      BY <2>3, <2>4
  <1>8. /\ LifeInv' /\ \A e \in Elements : e # D => est'[e] = est[e]
        /\ \A e \in Elements : est[e] \in {"STOPPED", "deleted"} =>
                est'[e] \in {"STOPPED", "deleted"}
        /\ Then(<<>>) \/ est'[D] = "STOPPED"
        /\ dmxMedia' => est'[D] = est[D]
    <2>1. CASE UNCHANGED est
      <3>1. UNCHANGED <<mState, mReadyToPlay, mElements, est>>
        BY <1>6, <2>1
      <3>2. LifeInv'
        BY <1>0, <1>6, <3>1, LifeFrame
      <3>3. Then(<<>>) \/ est'[D] = "STOPPED"
        <4>1. est[D] = "STOPPING" /\ est' = [est EXCEPT ![D] = "STOPPED"] => FALSE
          BY <1>0, <2>1, Distinct, SMT
        <4>. QED
          BY <1>2, <4>1, Zenon
      <3>. QED
        BY <2>1, <3>2, <3>3
    <2>2. CASE est[D] = "STOPPING" /\ est' = [est EXCEPT ![D] = "STOPPED"] /\ ~dmxMedia'
      <3>1. PICK x \in {D, V}, st \in {"STOPPING", "STOPPED"} : x = D /\ st = "STOPPED"
        OBVIOUS
      <3>2. est[x] \in {"STARTED", "STOPPING"} /\ (x = D => mState # "OPENED")
        <4>1. est[D] # "STARTED"
          BY <2>2, SMT
        <4>. QED
          BY <1>0, <2>2, <3>1, <4>1, Zenon DEF LifeInv
      <3>3. est' = [est EXCEPT ![x] = st]
        BY <2>2, <3>1
      <3>4. /\ LifeInv' /\ est'[x] = st
            /\ \A e \in Elements : e # x => est'[e] = est[e]
            /\ \A e \in Elements : est[e] \in {"STOPPED", "deleted"} =>
                  est'[e] \in {"STOPPED", "deleted"}
        BY <1>0, <1>6, <3>2, <3>3, LifeOfEnd
      <3>. QED
        BY <2>2, <3>1, <3>4
    <2>. QED
      BY <1>2, <2>1, <2>2, Zenon
  <1>9. est'[V] = est[V]
    BY <1>8, Distinct
  <1>10. /\ StopCall' /\ UnlinkCall' /\ TeardownCall' /\ StoppedCall'
         /\ \A g : Calls(g, V)' => Calls(g, V) \/ (z.f = g /\ z.e = V)
    <2>1. /\ "onChannelUnlink" \notin {"removeInputMedia", "deleteChannel"}
          /\ z.f \notin {"stop", "onChannelUnlink", "inputRemoved", "teardownOutputs"}
      BY <1>3, SMT
    <2>2. \A i \in DOMAIN mMbox' : mMbox'[i].cmd = "ELEMENT_DELETE" =>
             \/ est'[mMbox'[i].e] \in {"STOPPED", "deleted"}
             \/ \E j \in DOMAIN mMbox : mMbox'[i] = mMbox[j]
      BY <1>6, Zenon
    <2>3. Then(<<>>) \/ est'[z.c] \in {"STOPPED", "deleted"}
      BY <1>3, <1>8, SMT
    <2>. QED
      BY <1>0, <1>1, <1>3, <1>5, <1>8, <2>1, <2>2, <2>3, ChainOne
  <1>11. MediaInv'
    <2>1. \A x \in SinkElements : link'[x] = IF x = c THEN None ELSE link[x]
      BY <1>0, <1>1, <1>4, SMT
    <2>2. \A x : x # c /\ Contains(dmxOut, x) => Contains(dmxOut', x)
      <3>1. dmxOut \in Seq(SinkElements)
        BY Zenon DEF TypeOK
      <3>. QED
        BY <1>1, <3>1, WithoutKeeps
    <2>7. \A x \in SinkElements : link'[x] # None => x # c /\ link[x] = link'[x]
      BY <2>1, Zenon
    <2>8. D # None /\ V # None
      BY Distinct
    <2>3. \A x \in SinkElements : link'[x] = D => Contains(dmxOut', x)
      <3>1. \A x \in SinkElements : link[x] = D => Contains(dmxOut, x)
        BY <1>0, Zenon DEF MediaInv
      <3>. QED
        BY <2>2, <2>7, <2>8, <3>1, Zenon
    <2>4. \A x \in SinkElements : link'[x] = V => Contains(dec.out, x)
      <3>1. \A x \in SinkElements : link[x] = V => Contains(dec.out, x)
        BY <1>0, Zenon DEF MediaInv
      <3>. QED
        BY <2>7, <2>8, <3>1, Zenon
    <2>5. (est'[D] \in Gone => ~dmxMedia') /\ (~dmxMedia' => dmxOut' = <<>>)
      BY <1>2, <1>7, <1>8, Zenon
    <2>6. /\ est'[V] \in Gone => ~dec.mOutputMedia
          /\ ~dec.mOutputMedia => dec.out = <<>>
      BY <1>0, <1>9, Zenon DEF MediaInv
    <2>. QED
      BY <1>6, <2>3, <2>4, <2>5, <2>6, Zenon DEF MediaInv, Gone
  <1>12. NoticeInv'
    <2>1. CASE UNCHANGED <<dmxMedia, idle>>
      <3>1. UNCHANGED <<idle, mState, mReadyToPlay, told, appMedia, dmxMedia>>
        BY <1>6, <2>1
      <3>. QED
        BY <1>0, <1>6, <3>1, NoticeSame
    <2>2. CASE IdleAdd("mediaRemoved", D) /\ dmxMedia' = FALSE
      <3>1. dec.mOutputMedia \in BOOLEAN /\ dmxMedia \in BOOLEAN
        BY <1>0, Zenon DEF DecType, TypeOK
      <3>2. PICK x \in {D, V} : x = D
        OBVIOUS
      <3>3. /\ dmxMedia' = (dmxMedia /\ x # D)
            /\ dec'.mOutputMedia = (dec.mOutputMedia /\ x # V)
        BY <1>6, <2>2, <3>1, <3>2, Distinct, Zenon
      <3>4. IdleAdd("mediaRemoved", x)
        BY <2>2, <3>2
      <3>. QED
        BY <1>0, <1>6, <1>7, <3>1, <3>3, <3>4, MediaGone
    <2>. QED
      BY <1>2, <2>1, <2>2, Zenon
  <1>13. DecoderInv'
    <2>1. \A g \in {"vdec_stop", "teardownOutputs", "completeStop"} :
             Calls(g, V)' => Calls(g, V)
      BY <1>3, <1>10, SMT
    <2>. QED
      BY <1>0, <1>6, <1>9, <2>1, DecoderFrame, Zenon
  <1>14. PortInv'
    <2>1. \A r \in Sinks : est'[r] = est[r]
      BY <1>8, Distinct
    <2>2. \A r \in Sinks : LosesChannel(r) => LosesChannel(r)'
      <3>1. PICK f \in {"onChannelUnlink", "onElementStopped"} : f = "onChannelUnlink"
        OBVIOUS
      <3>2. Runs(f, D)
        BY <1>1, <3>1
      <3>. QED
        BY <1>0, <1>3, <1>5, <3>2, LosingGoesOn
    <2>. QED
      BY <1>0, <1>6, <1>9, <2>1, <2>2, Zenon DEF PortInv, Gone
  <1>. QED
    BY <1>8, <1>10, <1>11, <1>12, <1>13, <1>14, Zenon DEF OpenedInv

-----------------------------------------------------------------------------
(* The decoder.                                                            *)

\* stop() of the decoder.
LEMMA DecStopKeeps ==
  ASSUME TypeOK, OpenedInv, DecStop
  PROVE  OpenedInv'
  <1>0. /\ LifeInv /\ StopCall /\ StoppedCall /\ MediaInv /\ UnlinkCall
        /\ DecoderInv /\ TeardownCall /\ PortInv /\ NoticeInv
        /\ agenda \in Seq(CallType) /\ mMbox \in Seq(MessageType)
        /\ est \in [Elements -> ElementStates] /\ dec \in DecType
    BY Parts
  <1> DEFINE z == Call("flush", V)
  <1>1. /\ Runs("onChannelTeardown", V)
        /\ UNCHANGED <<mMbox, idle, link, vdec, otherThanDec>>
        /\ IF est[V] = "STARTED"
           THEN /\ est' = [est EXCEPT ![V] = "STOPPING"]
                /\ dec' = [dec EXCEPT !.mVdecStopPending = TRUE]
                /\ Then(<<z>>)
           ELSE Then(<<>>) /\ UNCHANGED <<est, dec>>
    BY Zenon DEF DecStop, Return
  <1>2. /\ UNCHANGED link /\ UNCHANGED port
        /\ UNCHANGED <<mState, mReadyToPlay, mElements>>
        /\ UNCHANGED <<link, dmxMedia, dmxOut>>
        /\ UNCHANGED <<idle, mState, mReadyToPlay, told, appMedia, dmxMedia>>
        /\ UNCHANGED vdec /\ UNCHANGED mMbox /\ UNCHANGED sink
    BY <1>1, Zenon DEF otherThanDec, sessionVars, dmxVars, appVars
  <1>3. z \in CallType /\ z.f = "flush"
    BY TypedOfV
  <1> HIDE DEF z
  <1>4. OneCall(z)
    BY <1>1, Zenon DEF OneCall
  <1>5. \A r \in Sinks : ~LosesChannel(r)
    <2>1. ASSUME NEW r \in Sinks, LosesChannel(r)
          PROVE  FALSE
      <3>1. V = r
        BY <1>0, <1>1, <2>1, LosesShape
      <3>. QED
        BY <3>1, Distinct
    <2>. QED
      BY <2>1
  <1>6. /\ dec'.mInputMedia = dec.mInputMedia /\ dec'.mOutputMedia = dec.mOutputMedia
        /\ dec'.out = dec.out
        /\ est[V] = "STARTED" => dec'.mVdecStopPending
    <2>1. CASE est[V] = "STARTED"
      <3>1. dec' = [dec EXCEPT !.mVdecStopPending = TRUE]
        BY <1>1, <2>1
      <3>. QED
        BY <1>0, <3>1, Zenon DEF DecType
    <2>2. CASE est[V] # "STARTED"
      BY <1>1, <2>2
    <2>. QED
      BY <2>1, <2>2
  <1>7. /\ LifeInv' /\ \A e \in Elements : e # V => est'[e] = est[e]
        /\ \A e \in Elements : est[e] \in {"STOPPED", "deleted"} =>
                est'[e] \in {"STOPPED", "deleted"}
        /\ est[V] = "STARTED" => est'[V] = "STOPPING"
        /\ est[V] # "STARTED" => UNCHANGED <<est, dec>>
    <2>1. CASE est[V] # "STARTED"
      <3>1. UNCHANGED <<est, dec>>
        BY <1>1, <2>1
      <3>2. UNCHANGED <<mState, mReadyToPlay, mElements, est>>
        BY <1>2, <3>1
      <3>3. LifeInv'
        BY <1>0, <1>2, <3>2, LifeFrame
      <3>. QED
        BY <2>1, <3>1, <3>3
    <2>2. CASE est[V] = "STARTED"
      <3>1. PICK x \in {D, V}, st \in {"STOPPING", "STOPPED"} : x = V /\ st = "STOPPING"
        OBVIOUS
      <3>2. est[x] \in {"STARTED", "STOPPING"} /\ (x = D => mState # "OPENED")
        BY <2>2, <3>1, Distinct
      <3>3. est' = [est EXCEPT ![x] = st]
        BY <1>1, <2>2, <3>1
      <3>4. /\ LifeInv' /\ est'[x] = st
            /\ \A e \in Elements : e # x => est'[e] = est[e]
            /\ \A e \in Elements : est[e] \in {"STOPPED", "deleted"} =>
                  est'[e] \in {"STOPPED", "deleted"}
        BY <1>0, <1>2, <3>2, <3>3, LifeOfEnd
      <3>. QED
        BY <2>2, <3>1, <3>4
    <2>. QED
      BY <2>1, <2>2
  <1>8. est'[D] = est[D] /\ (est[V] \notin Gone => est'[V] \notin Gone)
        /\ (est'[V] = "none" => est[V] = "none")
    <2>1. est'[D] = est[D]
      BY <1>7, Distinct
    <2>2. CASE est[V] = "STARTED"
      BY <1>7, <2>1, <2>2, SMT DEF Gone
    <2>3. CASE est[V] # "STARTED"
      BY <1>7, <2>1, <2>3
    <2>. QED
      BY <2>2, <2>3
  <1>9. /\ StopCall' /\ UnlinkCall' /\ TeardownCall' /\ StoppedCall'
        /\ \A g : Calls(g, V)' => Calls(g, V) \/ (z.f = g /\ z.e = V)
    <2>1. /\ "onChannelTeardown" \notin {"removeInputMedia", "deleteChannel"}
          /\ z.f \notin {"stop", "onChannelUnlink", "inputRemoved", "teardownOutputs"}
          /\ z.f # "onElementStopped"
      BY <1>3, SMT
    <2>2. \A i \in DOMAIN mMbox' : mMbox'[i].cmd = "ELEMENT_DELETE" =>
             \/ est'[mMbox'[i].e] \in {"STOPPED", "deleted"}
             \/ \E j \in DOMAIN mMbox : mMbox'[i] = mMbox[j]
      BY <1>2, Zenon
    <2>. QED
      BY <1>0, <1>1, <1>3, <1>4, <1>7, <2>1, <2>2, ChainOne
  <1>10. MediaInv'
    <2>1. est'[V] \in Gone => ~dec.mOutputMedia
      <3>1. est[V] \in Gone => ~dec.mOutputMedia
        BY <1>0, Zenon DEF MediaInv
      <3>. QED
        BY <1>8, <3>1
    <2>2. /\ est'[D] \in Gone => ~dmxMedia
          /\ ~dmxMedia => dmxOut = <<>>
          /\ ~dec.mOutputMedia => dec.out = <<>>
          /\ \A x \in SinkElements : link[x] = D => Contains(dmxOut, x)
          /\ \A x \in SinkElements : link[x] = V => Contains(dec.out, x)
      BY <1>0, <1>8, Zenon DEF MediaInv
    <2>3. /\ est'[D] \in Gone => ~dmxMedia'
          /\ est'[V] \in Gone => ~dec'.mOutputMedia
          /\ ~dmxMedia' => dmxOut' = <<>>
          /\ ~dec'.mOutputMedia => dec'.out = <<>>
      BY <1>2, <1>6, <2>1, <2>2
    <2>4. /\ \A x \in SinkElements : link'[x] = D => Contains(dmxOut', x)
          /\ \A x \in SinkElements : link'[x] = V => Contains(dec'.out, x)
      BY <1>2, <1>6, <2>2
    <2>. QED
      BY <2>3, <2>4, Zenon DEF MediaInv, Gone
  <1>11. NoticeInv'
    BY <1>0, <1>2, <1>6, NoticeSame
  <1>12. DecoderInv'
    <2>1. \A g \in {"vdec_stop", "teardownOutputs", "completeStop"} :
             Calls(g, V)' => Calls(g, V)
      BY <1>3, <1>9, SMT
    <2>2. CASE est[V] = "STARTED"
      <3>1. ~Calls("vdec_stop", V)' /\ ~vdec'.stopping
        <4>1. est[V] \notin {"STOPPING", "STOPPED", "deleted"}
          BY <2>2, SMT
        <4>2. ~Calls("vdec_stop", V) /\ ~vdec.stopping
          BY <1>0, <4>1, Zenon DEF DecoderInv
        <4>. QED
          BY <1>2, <2>1, <4>2
      <3>2. est'[V] = "STOPPING" /\ dec'.mVdecStopPending
        BY <1>6, <1>7, <2>2
      <3>3. est'[V] \notin {"STOPPED", "deleted"} /\ est'[V] \in {"STOPPING", "STOPPED", "deleted"}
        BY <3>2, SMT
      <3>. QED
        BY <3>1, <3>2, <3>3, Zenon DEF DecoderInv
    <2>3. CASE est[V] # "STARTED"
      <3>1. UNCHANGED est /\ UNCHANGED dec
        BY <1>7, <2>3
      <3>. QED
        BY <1>0, <1>2, <2>1, <3>1, DecoderFrame, Zenon
    <2>. QED
      BY <2>2, <2>3
  <1>13. PortInv'
    <2>1. \A r \in Sinks : est'[r] = est[r]
      BY <1>7, Distinct
    <2>. QED
      BY <1>0, <1>2, <1>5, <1>6, <1>8, <2>1, Zenon DEF PortInv, Gone
  <1>. QED
    BY <1>7, <1>9, <1>10, <1>11, <1>12, <1>13, Zenon DEF OpenedInv

\* vdec_stop(): the input media is gone by then.
LEMMA VdecStopKeeps ==
  ASSUME TypeOK, OpenedInv, VdecStop
  PROVE  OpenedInv'
  <1>0. /\ LifeInv /\ StopCall /\ StoppedCall /\ MediaInv /\ UnlinkCall
        /\ DecoderInv /\ TeardownCall /\ PortInv /\ NoticeInv
        /\ agenda \in Seq(CallType) /\ mMbox \in Seq(MessageType)
        /\ vdec \in VdecType
    BY Parts
  <1>1. /\ Runs("vdec_stop", V) /\ Then(<<>>)
        /\ vdec' = [vdec EXCEPT !.stopping = dec.mVdecStopPending]
        /\ UNCHANGED <<dec, mMbox, idle, est, link, otherThanDec>>
    BY Zenon DEF VdecStop, Return
  <1>2. /\ UNCHANGED link /\ UNCHANGED port
        /\ UNCHANGED <<mState, mReadyToPlay, mElements, est>>
        /\ UNCHANGED <<link, dmxMedia, dmxOut>>
        /\ UNCHANGED <<idle, mState, mReadyToPlay, told, appMedia, dmxMedia>>
        /\ UNCHANGED dec /\ UNCHANGED mMbox /\ UNCHANGED sink /\ UNCHANGED est
    BY <1>1, Zenon DEF otherThanDec, sessionVars, dmxVars, appVars
  <1> DEFINE z == Call("flush", V)
  <1>3. z \in CallType /\ z.f = "flush"
    BY TypedOfV
  <1> HIDE DEF z
  <1>4. OneCall(z)
    BY <1>1, Zenon DEF OneCall
  <1>5. LifeInv' /\ MediaInv' /\ NoticeInv'
    BY <1>0, <1>2, LifeFrame, MediaFrame, NoticeSame
  <1>6. /\ StopCall' /\ UnlinkCall' /\ TeardownCall' /\ StoppedCall'
        /\ \A g : Calls(g, V)' => Calls(g, V) \/ (z.f = g /\ z.e = V)
    <2>1. /\ "vdec_stop" \notin {"removeInputMedia", "deleteChannel"}
          /\ z.f \notin {"stop", "onChannelUnlink", "inputRemoved", "teardownOutputs"}
          /\ z.f # "onElementStopped"
      BY <1>3, SMT
    <2>2. /\ \A x \in Elements : est[x] \in {"STOPPED", "deleted"} =>
                 est'[x] \in {"STOPPED", "deleted"}
          /\ \A i \in DOMAIN mMbox' : mMbox'[i].cmd = "ELEMENT_DELETE" =>
                 \/ est'[mMbox'[i].e] \in {"STOPPED", "deleted"}
                 \/ \E j \in DOMAIN mMbox : mMbox'[i] = mMbox[j]
      BY <1>2, Zenon
    <2>. QED
      BY <1>0, <1>1, <1>3, <1>4, <2>1, <2>2, ChainOne
  <1>7. DecoderInv'
    <2>1. Calls("vdec_stop", V)
      <3>1. 1 \in DOMAIN agenda /\ agenda[1].f = "vdec_stop" /\ agenda[1].e = V
        BY <1>0, <1>1, Running
      <3>. QED
        BY <3>1, Zenon DEF Calls
    <2>2. ~dec.mInputMedia /\ est[V] \in {"STOPPING", "STOPPED", "deleted"}
      BY <1>0, <2>1, Zenon DEF DecoderInv
    <2>3. ~dec'.mInputMedia /\ est'[V] \in {"STOPPING", "STOPPED", "deleted"}
      BY <1>2, <2>2
    <2>. QED
      BY <2>3, Zenon DEF DecoderInv
  <1>8. PortInv'
    <2>1. \A r \in Sinks : ~LosesChannel(r)
      BY <1>0, <1>1, NotLosing
    <2>2. est' = est
      BY <1>2
    <2>. QED
      BY <1>0, <1>2, <2>1, <2>2, Zenon DEF PortInv
  <1>. QED
    BY <1>5, <1>6, <1>7, <1>8, Zenon DEF OpenedInv

\* The callback of vdec_stop(), and the message it posts.
LEMMA StopCbKeeps ==
  ASSUME TypeOK, OpenedInv, StopCb \/ StopCbCount \/ StopCbStore
  PROVE  OpenedInv'
  <1>0. /\ LifeInv /\ StopCall /\ StoppedCall /\ MediaInv /\ UnlinkCall
        /\ DecoderInv /\ TeardownCall /\ PortInv /\ NoticeInv
        /\ agenda \in Seq(CallType) /\ mMbox \in Seq(MessageType)
        /\ dec \in DecType /\ vdec \in VdecType
    BY Parts
  <1>1. UNCHANGED otherThanVdec
    BY Zenon DEF StopCb, StopCbCount, StopCbStore
  <1>2. /\ UNCHANGED agenda /\ UNCHANGED link /\ UNCHANGED port
        /\ UNCHANGED <<mState, mReadyToPlay, mElements, est>>
        /\ UNCHANGED <<link, dmxMedia, dmxOut>>
        /\ UNCHANGED <<idle, mState, mReadyToPlay, told, appMedia, dmxMedia>>
        /\ UNCHANGED sink /\ UNCHANGED est /\ UNCHANGED <<est, mState>> /\ UNCHANGED <<est, port>>
    BY <1>1, Zenon DEF otherThanVdec, otherThanDec, sessionVars, dmxVars, appVars
  <1>3. QuietStep
    BY <1>2, Zenon DEF QuietStep
  <1>4. /\ dec'.mInputMedia = dec.mInputMedia /\ dec'.mOutputMedia = dec.mOutputMedia
        /\ dec'.out = dec.out
    <2>1. CASE StopCb
      <3>1. dec' = [dec EXCEPT !.mVdecStopPending = FALSE]
        BY <2>1, Zenon DEF StopCb
      <3>. QED
        BY <1>0, <3>1, Zenon DEF DecType
    <2>2. CASE StopCbCount
      <3>1. dec' = [dec EXCEPT !.mCompleteStopPendingCount = @ + 1]
        BY <2>2, Zenon DEF StopCbCount
      <3>. QED
        BY <1>0, <3>1, Zenon DEF DecType
    <2>3. CASE StopCbStore
      <3>1. dec' = [dec EXCEPT !.mCompleteStopPendingCount = vdec.count + 1]
        BY <2>3, Zenon DEF StopCbStore
      <3>. QED
        BY <1>0, <3>1, Zenon DEF DecType
    <2>. QED
      BY <2>1, <2>2, <2>3
  <1>5. SameMbox \/ Post("COMPLETE_STOP", V)
    <2>1. CASE StopCb
      BY <2>1, Zenon DEF StopCb, SameMbox
    <2>. QED
      BY <2>1, Zenon DEF StopCbCount, StopCbStore
  <1>6. \A i \in DOMAIN mMbox' : mMbox'[i].cmd = "ELEMENT_DELETE" =>
            \E j \in DOMAIN mMbox : mMbox'[i] = mMbox[j]
    <2>1. CASE SameMbox
      <3>1. \A i \in DOMAIN mMbox' : mMbox'[i].cmd \in {"COMPLETE_FLUSH", "RESYNC"} =>
                mMbox'[i].cmd # "ELEMENT_DELETE"
        BY SMT
      <3>. QED
        BY <2>1, <3>1, Zenon DEF SameMbox
    <2>2. CASE Post("COMPLETE_STOP", V)
      <3>1. [cmd |-> "COMPLETE_STOP", e |-> V] \in MessageType
            /\ [cmd |-> "COMPLETE_STOP", e |-> V].cmd = "COMPLETE_STOP"
        <4>1. "COMPLETE_STOP" \in {"COMPLETE_FLUSH", "COMPLETE_STOP", "RESYNC"}
          OBVIOUS
        <4>. QED
          BY <4>1, Messages
      <3>2. \A i \in DOMAIN mMbox' : \/ mMbox'[i] = [cmd |-> "COMPLETE_STOP", e |-> V]
                                     \/ \E j \in DOMAIN mMbox : mMbox'[i] = mMbox[j]
        BY <1>0, <2>2, <3>1, PostedMail
      <3>3. "COMPLETE_STOP" # "ELEMENT_DELETE"
        OBVIOUS
      <3>. QED
        BY <3>1, <3>2, <3>3, Zenon
    <2>. QED
      BY <1>5, <2>1, <2>2
  <1>7. StopCall' /\ UnlinkCall' /\ TeardownCall'
    BY <1>0, <1>2, <1>3, StopCallQuiet, UnlinkCallQuiet, TeardownCallQuiet
  <1>8. StoppedCall'
    <2>1. est' = est /\ agenda' = agenda
      BY <1>2
    <2>. QED
      BY <1>0, <1>6, <2>1, Zenon DEF StoppedCall
  <1>9. LifeInv' /\ MediaInv' /\ NoticeInv'
    BY <1>0, <1>2, <1>4, LifeFrame, MediaFrame, NoticeSame
  <1>10. PortInv'
    BY <1>0, <1>2, <1>3, <1>4, PortQuiet
  <1>11. DecoderInv'
    <2>1. est[V] \in {"STOPPING", "STOPPED", "deleted"}
      <3>1. CASE StopCb
        BY <1>0, <3>1, Zenon DEF StopCb, DecoderInv
      <3>2. CASE vdec.cb \in {"stop", "stopLoaded"}
        BY <1>0, <3>2, Zenon DEF DecoderInv
      <3>3. StopCbCount \/ StopCbStore => vdec.cb \in {"stop", "stopLoaded"}
        BY SMT DEF StopCbCount, StopCbStore
      <3>. QED
        BY <3>1, <3>2, <3>3
    <2>2. est'[V] \in {"STOPPING", "STOPPED", "deleted"}
      BY <1>2, <2>1
    <2>3. CASE StopCb
      <3>1. ~dec.mInputMedia
        BY <1>0, <2>3, Zenon DEF StopCb, DecoderInv
      <3>2. ~dec'.mInputMedia
        BY <1>4, <3>1
      <3>. QED
        BY <2>2, <3>2, Zenon DEF DecoderInv
    <2>4. ASSUME dec'.mVdecStopPending = dec.mVdecStopPending, vdec'.stopping = vdec.stopping
          PROVE  DecoderInv'
      <3>1. Calls("vdec_stop", V)' => Calls("vdec_stop", V)
        BY <1>2, Zenon DEF Calls
      <3>2. est'[V] = est[V]
        BY <1>2
      <3>. QED
        BY <1>0, <1>4, <2>2, <2>4, <3>1, <3>2, Zenon DEF DecoderInv
    <2>5. CASE StopCbCount
      <3>1. /\ dec' = [dec EXCEPT !.mCompleteStopPendingCount = @ + 1]
            /\ vdec' = [vdec EXCEPT !.cb = "none"]
        BY <2>5, Zenon DEF StopCbCount
      <3>2. dec'.mVdecStopPending = dec.mVdecStopPending /\ vdec'.stopping = vdec.stopping
        BY <1>0, <3>1, Zenon DEF DecType, VdecType
      <3>. QED
        BY <2>4, <3>2
    <2>6. CASE StopCbStore
      <3>1. /\ dec' = [dec EXCEPT !.mCompleteStopPendingCount = vdec.count + 1]
            /\ vdec' = [vdec EXCEPT !.cb = "none", !.count = 0]
        BY <2>6, Zenon DEF StopCbStore
      <3>2. dec'.mVdecStopPending = dec.mVdecStopPending /\ vdec'.stopping = vdec.stopping
        BY <1>0, <3>1, Zenon DEF DecType, VdecType
      <3>. QED
        BY <2>4, <3>2
    <2>. QED
      BY <2>3, <2>5, <2>6
  <1>. QED
    BY <1>7, <1>8, <1>9, <1>10, <1>11, Zenon DEF OpenedInv

\* The first half of tryStop(): the input channel is removed, then the rest.
LEMMA DecAfterFlushKeeps ==
  ASSUME TypeOK, OpenedInv, DecAfterFlush
  PROVE  OpenedInv'
  <1>0. /\ LifeInv /\ StopCall /\ StoppedCall /\ MediaInv /\ UnlinkCall
        /\ DecoderInv /\ TeardownCall /\ PortInv /\ NoticeInv
        /\ agenda \in Seq(CallType) /\ mMbox \in Seq(MessageType)
        /\ dec \in DecType
    BY Parts
  <1> DEFINE x == Call("removeInputMedia", V)
             y == Call("teardownOutputs", V)
  <1>1. /\ Runs("afterFlush", V)
        /\ dec' = IF dec.mResyncPending
                  THEN [dec EXCEPT !.mResyncPending = FALSE, !.mIsSync = TRUE] ELSE dec
        /\ UNCHANGED <<mMbox, idle, est, link, vdec, otherThanDec>>
        /\ IF est[V] = "STOPPING"
           THEN Then((IF dec.mInputMedia THEN <<x>> ELSE <<>>) \o <<y>>)
           ELSE Then(<<>>)
    BY Zenon DEF DecAfterFlush, Return
  <1>2. /\ UNCHANGED link /\ UNCHANGED port
        /\ UNCHANGED <<mState, mReadyToPlay, mElements, est>>
        /\ UNCHANGED <<link, dmxMedia, dmxOut>>
        /\ UNCHANGED <<idle, mState, mReadyToPlay, told, appMedia, dmxMedia>>
        /\ UNCHANGED vdec /\ UNCHANGED mMbox /\ UNCHANGED sink /\ UNCHANGED est
    BY <1>1, Zenon DEF otherThanDec, sessionVars, dmxVars, appVars
  <1>3. /\ dec'.mInputMedia = dec.mInputMedia /\ dec'.mOutputMedia = dec.mOutputMedia
        /\ dec'.out = dec.out /\ dec'.mVdecStopPending = dec.mVdecStopPending
    <2>1. CASE dec.mResyncPending
      <3>1. dec' = [dec EXCEPT !.mResyncPending = FALSE, !.mIsSync = TRUE]
        BY <1>1, <2>1
      <3>. QED
        BY <1>0, <3>1, Zenon DEF DecType
    <2>2. CASE ~dec.mResyncPending
      BY <1>1, <2>2
    <2>. QED
      BY <2>1, <2>2
  <1>4. /\ x \in CallType /\ x.f = "removeInputMedia" /\ x.e = V
        /\ y \in CallType /\ y.f = "teardownOutputs" /\ y.e = V
    BY TypedOfChannel, TypedOfV, Distinct
  <1> HIDE DEF x, y
  <1>5. PICK calls \in Seq(CallType) :
           /\ Then(calls)
           /\ \A i \in DOMAIN calls :
                 \/ calls[i] = x
                 \/ /\ calls[i] = y /\ est[V] = "STOPPING"
                    /\ \/ i = 1 /\ ~dec.mInputMedia
                       \/ i = 2 /\ 1 \in DOMAIN calls /\ calls[1] = x
    <2>1. CASE est[V] = "STOPPING" /\ dec.mInputMedia
      <3> DEFINE cs == <<x, y>>
      <3>1. <<x>> \o <<y>> = cs
        BY <1>4, JoinOne
      <3>2. Then(cs)
        BY <1>1, <2>1, <3>1
      <3>3. cs \in Seq(CallType) /\ cs[1] = x /\ cs[2] = y /\ DOMAIN cs = {1, 2}
        BY <1>4, Chains
      <3> HIDE DEF cs
      <3>. QED
        BY <2>1, <3>2, <3>3, Zenon
    <2>2. CASE est[V] = "STOPPING" /\ ~dec.mInputMedia
      <3> DEFINE cs == <<y>>
      <3>1. cs \in Seq(CallType) /\ cs[1] = y /\ DOMAIN cs = {1}
        BY <1>4, Chains
      <3>2. <<>> \o cs = cs
        BY <3>1, JoinNone
      <3>3. Then(cs)
        BY <1>1, <2>2, <3>2
      <3> HIDE DEF cs
      <3>. QED
        BY <2>2, <3>1, <3>3, Zenon
    <2>3. CASE est[V] # "STOPPING"
      <3> DEFINE cs == <<>>
      <3>1. cs \in Seq(CallType) /\ DOMAIN cs = {} /\ Then(cs)
        BY <1>1, <2>3, Chains
      <3> HIDE DEF cs
      <3>. QED
        BY <3>1, Zenon
    <2>. QED
      BY <2>1, <2>2, <2>3
  <1>6. LifeInv' /\ MediaInv' /\ NoticeInv'
    BY <1>0, <1>2, <1>3, LifeFrame, MediaFrame, NoticeSame
  <1>7. StopCall' /\ UnlinkCall'
    <2>1. ASSUME NEW i \in DOMAIN agenda', agenda'[i].f \in {"stop", "onChannelUnlink"}
          PROVE  FALSE
      <3>1. i \in DOMAIN calls /\ agenda'[i] = calls[i]
        BY <1>0, <1>1, <1>5, <2>1, ThenKeeps
      <3>. QED
        BY <1>4, <1>5, <2>1, <3>1, SMT
    <2>2. \A i \in DOMAIN agenda' : agenda'[i].f # "stop" /\ agenda'[i].f # "onChannelUnlink"
      BY <2>1, SMT
    <2>. QED
      BY <2>2, Zenon DEF StopCall, UnlinkCall
  <1>8. TeardownCall'
    <2>1. ASSUME NEW i \in DOMAIN agenda', agenda'[i].f \in {"inputRemoved", "teardownOutputs"}
          PROVE  \/ i = 1 /\ ~port'[agenda'[i].e]
                 \/ /\ i # 1 /\ agenda'[i - 1].f \in {"removeInputMedia", "deleteChannel"}
                    /\ agenda'[i - 1].e = agenda'[i].e
      <3>1. CASE i \in DOMAIN calls /\ agenda'[i] = calls[i]
        <4>1. /\ calls[i] = y
              /\ \/ i = 1 /\ ~dec.mInputMedia
                 \/ i = 2 /\ 1 \in DOMAIN calls /\ calls[1] = x
          BY <1>4, <1>5, <2>1, <3>1, SMT
        <4>2. CASE i = 1 /\ ~dec.mInputMedia
          <5>1. ~port[V]
            BY <1>0, <4>2, Zenon DEF PortInv
          <5>. QED
            BY <1>2, <1>4, <3>1, <4>1, <4>2, <5>1
        <4>3. CASE i = 2 /\ 1 \in DOMAIN calls /\ calls[1] = x
          <5>1. i - 1 = 1 /\ i # 1
            BY <4>3, SMT
          <5>2. agenda'[1] = x
            BY <1>0, <1>1, <1>5, <4>3, ThenKeeps
          <5>. QED
            BY <1>4, <3>1, <4>1, <5>1, <5>2, SMT
        <4>. QED
          BY <4>1, <4>2, <4>3
      <3>2. CASE ~(i \in DOMAIN calls /\ agenda'[i] = calls[i])
        <4>1. \/ /\ i # 1 /\ agenda'[i - 1].f \in {"removeInputMedia", "deleteChannel"}
                 /\ agenda'[i - 1].e = agenda'[i].e
              \/ "afterFlush" \in {"removeInputMedia", "deleteChannel"}
          BY <1>0, <1>1, <1>5, <2>1, <3>2, ThenKeeps
        <4>. QED
          BY <4>1, SMT
      <3>. QED
        BY <3>1, <3>2
    <2>. QED
      BY <2>1, Zenon DEF TeardownCall
  <1>9. StoppedCall'
    <2>1. \A i \in DOMAIN calls : calls[i].f # "onElementStopped"
      BY <1>4, <1>5, SMT
    <2>. QED
      BY <1>0, <1>1, <1>2, <1>5, <2>1, StoppedCallKept, Zenon
  <1>10. DecoderInv'
    <2>1. \A g : Calls(g, V)' => \/ Calls(g, V)
                                 \/ \E i \in DOMAIN calls : calls[i].f = g /\ calls[i].e = V
      BY <1>0, <1>1, <1>5, CallsKept
    <2>2. \A g \in {"vdec_stop", "completeStop"} : Calls(g, V)' => Calls(g, V)
      <3>1. \A i \in DOMAIN calls : calls[i].f \notin {"vdec_stop", "completeStop"}
        BY <1>4, <1>5, SMT
      <3>. QED
        BY <2>1, <3>1, Zenon
    <2>3. CASE est[V] # "STOPPING"
      <3>1. \A i \in DOMAIN calls : calls[i].f # "teardownOutputs"
        BY <1>4, <1>5, <2>3, SMT
      <3>2. \A g \in {"vdec_stop", "teardownOutputs", "completeStop"} :
               Calls(g, V)' => Calls(g, V)
        BY <2>1, <2>2, <3>1, Zenon
      <3>. QED
        BY <1>0, <1>2, <1>3, <3>2, DecoderFrame, Zenon
    <2>4. CASE est[V] = "STOPPING"
      <3>1. est'[V] = "STOPPING" /\ est'[V] \in {"STOPPING", "STOPPED", "deleted"}
        BY <1>2, <2>4, SMT
      <3>2. Calls("vdec_stop", V)' => Calls("vdec_stop", V)
        BY <2>2
      <3>3. vdec' = vdec /\ est'[V] = est[V]
        BY <1>2
      <3>. QED
        BY <1>0, <1>3, <3>1, <3>2, <3>3, Zenon DEF DecoderInv
    <2>. QED
      BY <2>3, <2>4
  <1>11. PortInv'
    <2>1. \A r \in Sinks : ~LosesChannel(r)
      BY <1>0, <1>1, NotLosing
    <2>2. est' = est
      BY <1>2
    <2>. QED
      BY <1>0, <1>2, <1>3, <2>1, <2>2, Zenon DEF PortInv
  <1>. QED
    BY <1>6, <1>7, <1>8, <1>9, <1>10, <1>11, Zenon DEF OpenedInv

\* The calls of teardownOutputs().
LEMMA OutputsTornDown ==
  ASSUME dec \in DecType, NEW y, y = Call("vdec_stop", V)
  PROVE  LET calls == [i \in DOMAIN dec.out |-> Call("onChannelTeardown", Reverse(dec.out)[i])]
                      \o <<y>>
         IN  /\ calls \in Seq(CallType)
             /\ \A i \in DOMAIN calls : calls[i] = y \/ calls[i].f = "onChannelTeardown"
  <1> DEFINE outs == [i \in DOMAIN dec.out |-> Call("onChannelTeardown", Reverse(dec.out)[i])]
             calls == outs \o <<y>>
  <1>4. y \in CallType /\ y.f = "vdec_stop" /\ y.e = V
    BY TypedOfV
  <1>5. /\ outs \in Seq(CallType)
        /\ \A i \in DOMAIN outs : outs[i].f = "onChannelTeardown"
    <2>1. dec.out \in Seq(Sinks)
      BY Zenon DEF DecType
    <2> DEFINE n == Len(dec.out)
               rev == Reverse(dec.out)
    <2>2. n \in Nat /\ DOMAIN dec.out = 1..n /\ \A i \in 1..n : dec.out[i] \in Sinks
      BY <2>1, SMT
    <2>3. \A i \in 1..n : rev[i] \in Sinks
      <3>1. rev = [i \in 1..n |-> dec.out[(n - i) + 1]]
        BY Zenon DEF Reverse
      <3> HIDE DEF rev, n
      <3>2. \A i \in 1..n : (n - i) + 1 \in 1..n
        BY <2>2, SMT
      <3>. QED
        BY <2>2, <3>1, <3>2, Zenon
    <2> HIDE DEF rev, n
    <2>4. outs = [i \in 1..n |-> Call("onChannelTeardown", rev[i])]
      BY <2>2, Zenon DEF rev
    <2>5. \A i \in 1..n : /\ Call("onChannelTeardown", rev[i]) \in CallType
                          /\ Call("onChannelTeardown", rev[i]).f = "onChannelTeardown"
      <3>1. "onChannelTeardown" \in {"channel.flush", "channel.flushDone", "onChannelFlush",
                    "onChannelTeardown", "removeInputMedia", "deleteChannel"}
        OBVIOUS
      <3>. QED
        BY <2>3, <3>1, TypedOfChannel, Distinct, Zenon
    <2> HIDE DEF outs
    <2>6. DOMAIN outs = 1..n /\ \A i \in 1..n : outs[i] \in CallType
      BY <2>4, <2>5
    <2>7. outs \in Seq(CallType)
      BY <2>2, <2>4, <2>5, SMT
    <2>. QED
      BY <2>4, <2>5, <2>6, <2>7
  <1> HIDE DEF outs
  <1>6. /\ calls \in Seq(CallType)
        /\ \A i \in DOMAIN calls : calls[i] = y \/ calls[i].f = "onChannelTeardown"
    <2>1. /\ <<y>> \in Seq(CallType) /\ Len(<<y>>) = 1 /\ <<y>>[1] = y
      BY <1>4, Chains
    <2>2. /\ calls \in Seq(CallType) /\ Len(calls) = Len(outs) + Len(<<y>>)
          /\ \A i \in 1..(Len(outs) + Len(<<y>>)) :
                calls[i] = IF i <= Len(outs) THEN outs[i] ELSE <<y>>[i - Len(outs)]
      BY <1>5, <2>1, Concat, Zenon
    <2> HIDE DEF calls
    <2>3. /\ DOMAIN calls = 1..(Len(outs) + 1) /\ Len(outs) \in Nat
          /\ DOMAIN outs = 1..Len(outs)
      BY <1>5, <2>1, <2>2, SMT
    <2>4. ASSUME NEW i \in DOMAIN calls
          PROVE  calls[i] = y \/ calls[i].f = "onChannelTeardown"
      <3>1. i <= Len(outs) \/ i - Len(outs) = 1
        BY <2>3, SMT
      <3>2. i <= Len(outs) => i \in DOMAIN outs
        BY <2>3, SMT
      <3>. QED
        BY <1>5, <2>1, <2>2, <2>3, <3>1, <3>2, SMT
    <2>. QED
      BY <2>2, <2>4
  <1>. QED
    BY <1>6 DEF calls, outs

\* The second half: its input channel is gone.
LEMMA DecTeardownOutputsKeeps ==
  ASSUME TypeOK, OpenedInv, DecTeardownOutputs
  PROVE  OpenedInv' /\ agenda' \in Seq(CallType)
  <1>0. /\ LifeInv /\ StopCall /\ StoppedCall /\ MediaInv /\ UnlinkCall
        /\ DecoderInv /\ TeardownCall /\ PortInv /\ NoticeInv
        /\ agenda \in Seq(CallType) /\ mMbox \in Seq(MessageType)
        /\ dec \in DecType
    BY Parts
  <1> DEFINE y == Call("vdec_stop", V)
             outs == [i \in DOMAIN dec.out |-> Call("onChannelTeardown", Reverse(dec.out)[i])]
             calls == outs \o <<y>>
  <1>1. /\ Runs("teardownOutputs", V)
        /\ dec' = [dec EXCEPT !.mInputMedia = FALSE]
        /\ UNCHANGED <<mMbox, idle, est, link, vdec, otherThanDec>>
        /\ Then(calls)
    BY Zenon DEF DecTeardownOutputs
  <1>2. /\ UNCHANGED link /\ UNCHANGED port
        /\ UNCHANGED <<mState, mReadyToPlay, mElements, est>>
        /\ UNCHANGED <<link, dmxMedia, dmxOut>>
        /\ UNCHANGED <<idle, mState, mReadyToPlay, told, appMedia, dmxMedia>>
        /\ UNCHANGED vdec /\ UNCHANGED mMbox /\ UNCHANGED sink /\ UNCHANGED est
    BY <1>1, Zenon DEF otherThanDec, sessionVars, dmxVars, appVars
  <1>3. /\ ~dec'.mInputMedia /\ dec'.mOutputMedia = dec.mOutputMedia
        /\ dec'.out = dec.out /\ dec'.mVdecStopPending = dec.mVdecStopPending
    BY <1>0, <1>1, Zenon DEF DecType
  <1>4. y \in CallType /\ y.f = "vdec_stop" /\ y.e = V
    BY TypedOfV
  <1>6. /\ calls \in Seq(CallType)
        /\ \A i \in DOMAIN calls : calls[i] = y \/ calls[i].f = "onChannelTeardown"
    BY <1>0, OutputsTornDown
  <1> HIDE DEF y, outs, calls
  <1>7. /\ 1 \in DOMAIN agenda /\ agenda[1].f = "teardownOutputs" /\ agenda[1].e = V
    BY <1>0, <1>1, Running
  <1>8. ~port[V] /\ est[V] \in {"STOPPING", "STOPPED", "deleted"}
    <2>1. ~port[V]
      BY <1>0, <1>7, Zenon DEF TeardownCall
    <2>2. Calls("teardownOutputs", V)
      BY <1>7, Zenon DEF Calls
    <2>. QED
      BY <1>0, <2>1, <2>2, Zenon DEF DecoderInv
  <1>9. LifeInv' /\ MediaInv' /\ NoticeInv'
    BY <1>0, <1>2, <1>3, LifeFrame, MediaFrame, NoticeSame
  <1>10. StopCall' /\ UnlinkCall' /\ TeardownCall' /\ StoppedCall' /\ agenda' \in Seq(CallType)
    <2>1. \A i \in DOMAIN calls :
             /\ calls[i].f \notin {"stop", "onChannelUnlink", "inputRemoved", "teardownOutputs"}
             /\ calls[i].f # "onElementStopped"
      BY <1>4, <1>6, SMT
    <2>2. "teardownOutputs" \notin {"stop", "removeInputMedia", "deleteChannel"}
      OBVIOUS
    <2>3. StopCall' /\ UnlinkCall' /\ TeardownCall'
      BY <1>0, <1>1, <1>6, <2>1, <2>2, NoSuchCall
    <2>4. StoppedCall'
      BY <1>0, <1>1, <1>2, <1>6, <2>1, StoppedCallKept, Zenon
    <2>5. agenda' \in Seq(CallType)
      BY <1>0, <1>1, <1>6, ThenKeeps
    <2>. QED
      BY <2>3, <2>4, <2>5
  <1>11. DecoderInv'
    <2>1. ~dec'.mInputMedia /\ est'[V] \in {"STOPPING", "STOPPED", "deleted"}
      BY <1>2, <1>3, <1>8
    <2>. QED
      BY <2>1, Zenon DEF DecoderInv
  <1>12. PortInv'
    <2>1. \A r \in Sinks : ~LosesChannel(r)
      BY <1>0, <1>1, NotLosing
    <2>2. est' = est
      BY <1>2
    <2>. QED
      BY <1>0, <1>2, <1>8, <2>1, <2>2, Zenon DEF PortInv
  <1>. QED
    BY <1>9, <1>10, <1>11, <1>12, Zenon DEF OpenedInv

\* completeStop(): the media goes with the last output channel, and the decoder
\* has stopped when vdec has too.
LEMMA DecCompleteStopKeeps ==
  ASSUME TypeOK, OpenedInv, DecCompleteStop
  PROVE  OpenedInv'
  <1>0. /\ LifeInv /\ StopCall /\ StoppedCall /\ MediaInv /\ UnlinkCall
        /\ DecoderInv /\ TeardownCall /\ PortInv /\ NoticeInv
        /\ agenda \in Seq(CallType) /\ mMbox \in Seq(MessageType) /\ idle \in Seq(IdleType)
        /\ est \in [Elements -> ElementStates] /\ dec \in DecType
    BY Parts
  <1> DEFINE z == CallOn("onElementStopped", None, V)
  <1>1. /\ Runs("completeStop", V)
        /\ dec' = [dec EXCEPT !.mCompleteStopPendingCount = @ - 1,
                              !.mOutputMedia = @ /\ dec.out # <<>>]
        /\ UNCHANGED <<mMbox, link, vdec, otherThanDec>>
        /\ IF dec.mOutputMedia /\ ~dec'.mOutputMedia THEN IdleAdd("mediaRemoved", V)
           ELSE UNCHANGED idle
    BY Zenon DEF DecCompleteStop
  <1>2. \/ /\ ~dec'.mOutputMedia /\ ~dec.mVdecStopPending /\ est[V] # "STOPPED"
           /\ est' = [est EXCEPT ![V] = "STOPPED"] /\ Then(<<z>>)
        \/ Then(<<>>) /\ UNCHANGED est
    BY Zenon DEF DecCompleteStop, Return
  <1>3. z \in CallType /\ z.f = "onElementStopped" /\ z.c = V
    BY TypedOfSession, Distinct
  <1> HIDE DEF z
  <1>4. /\ UNCHANGED link /\ UNCHANGED port
        /\ UNCHANGED <<mState, mReadyToPlay, mElements>>
        /\ UNCHANGED <<link, dmxMedia, dmxOut>>
        /\ UNCHANGED <<mState, mReadyToPlay, told, appMedia, dmxMedia>>
        /\ UNCHANGED <<told, appMedia, mReadyToPlay>>
        /\ UNCHANGED vdec /\ UNCHANGED mMbox /\ UNCHANGED sink
    BY <1>1, Zenon DEF otherThanDec, sessionVars, dmxVars, appVars
  <1>5. /\ dec'.mInputMedia = dec.mInputMedia
        /\ dec'.out = dec.out /\ dec'.mVdecStopPending = dec.mVdecStopPending
        /\ dec'.mOutputMedia = (dec.mOutputMedia /\ dec.out # <<>>)
        /\ dec.mOutputMedia \in BOOLEAN
    BY <1>0, <1>1, Zenon DEF DecType
  <1>6. OneCall(z)
    BY <1>2, Zenon DEF OneCall
  <1>7. est[V] \in {"STOPPING", "STOPPED"}
    <2>1. 1 \in DOMAIN agenda /\ agenda[1].f = "completeStop" /\ agenda[1].e = V
          /\ est[V] # "deleted"
      BY <1>0, <1>1, Running, Distinct
    <2>2. Calls("completeStop", V)
      BY <2>1, Zenon DEF Calls
    <2>3. est[V] \in {"STOPPING", "STOPPED", "deleted"}
      BY <1>0, <2>2, Zenon DEF DecoderInv
    <2>. QED
      BY <2>1, <2>3, SMT
  <1>8. /\ LifeInv' /\ \A e \in Elements : e # V => est'[e] = est[e]
        /\ \A e \in Elements : est[e] \in {"STOPPED", "deleted"} =>
                est'[e] \in {"STOPPED", "deleted"}
        /\ \/ UNCHANGED est /\ Then(<<>>)
           \/ /\ est'[V] = "STOPPED" /\ est[V] = "STOPPING"
              /\ ~dec'.mOutputMedia /\ ~dec.mVdecStopPending
    <2>1. CASE UNCHANGED est /\ Then(<<>>)
      <3>1. UNCHANGED <<mState, mReadyToPlay, mElements, est>>
        BY <1>4, <2>1
      <3>2. LifeInv'
        BY <1>0, <1>4, <3>1, LifeFrame
      <3>. QED
        BY <2>1, <3>2
    <2>2. CASE /\ ~dec'.mOutputMedia /\ ~dec.mVdecStopPending /\ est[V] # "STOPPED"
               /\ est' = [est EXCEPT ![V] = "STOPPED"] /\ Then(<<z>>)
      <3>1. PICK x \in {D, V}, st \in {"STOPPING", "STOPPED"} : x = V /\ st = "STOPPED"
        OBVIOUS
      <3>2. est[x] \in {"STARTED", "STOPPING"} /\ (x = D => mState # "OPENED")
            /\ est[V] = "STOPPING"
        BY <1>7, <2>2, <3>1, Distinct
      <3>3. est' = [est EXCEPT ![x] = st]
        BY <2>2, <3>1
      <3>4. /\ LifeInv' /\ est'[x] = st
            /\ \A e \in Elements : e # x => est'[e] = est[e]
            /\ \A e \in Elements : est[e] \in {"STOPPED", "deleted"} =>
                  est'[e] \in {"STOPPED", "deleted"}
        BY <1>0, <1>4, <3>2, <3>3, LifeOfEnd
      <3>. QED
        BY <2>2, <3>1, <3>2, <3>4
    <2>. QED
      BY <1>2, <2>1, <2>2
  <1>9. est'[D] = est[D] /\ est'[V] \in {"STOPPING", "STOPPED"}
    BY <1>7, <1>8, Distinct
  <1>10. /\ StopCall' /\ UnlinkCall' /\ TeardownCall' /\ StoppedCall'
         /\ \A g : Calls(g, V)' => Calls(g, V) \/ (z.f = g /\ z.e = V)
    <2>1. /\ "completeStop" \notin {"removeInputMedia", "deleteChannel"}
          /\ z.f \notin {"stop", "onChannelUnlink", "inputRemoved", "teardownOutputs"}
      BY <1>3, SMT
    <2>2. \A i \in DOMAIN mMbox' : mMbox'[i].cmd = "ELEMENT_DELETE" =>
             \/ est'[mMbox'[i].e] \in {"STOPPED", "deleted"}
             \/ \E j \in DOMAIN mMbox : mMbox'[i] = mMbox[j]
      BY <1>4, Zenon
    <2>3. Then(<<>>) \/ est'[z.c] \in {"STOPPED", "deleted"}
      BY <1>3, <1>8, SMT
    <2>. QED
      BY <1>0, <1>1, <1>3, <1>6, <1>8, <2>1, <2>2, <2>3, ChainOne
  <1>11. MediaInv'
    <2>1. /\ est[D] \in Gone => ~dmxMedia
          /\ est[V] \in Gone => ~dec.mOutputMedia
          /\ ~dmxMedia => dmxOut = <<>>
          /\ ~dec.mOutputMedia => dec.out = <<>>
          /\ \A x \in SinkElements : link[x] = D => Contains(dmxOut, x)
          /\ \A x \in SinkElements : link[x] = V => Contains(dec.out, x)
      BY <1>0, Zenon DEF MediaInv
    <2>2. /\ est'[D] \in Gone => ~dmxMedia'
          /\ ~dmxMedia' => dmxOut' = <<>>
          /\ ~dec'.mOutputMedia => dec'.out = <<>>
      BY <1>4, <1>5, <1>9, <2>1
    <2>3. est'[V] \in Gone => ~dec'.mOutputMedia
      BY <1>5, <1>8, <2>1, Zenon
    <2>4. /\ \A x \in SinkElements : link'[x] = D => Contains(dmxOut', x)
          /\ \A x \in SinkElements : link'[x] = V => Contains(dec'.out, x)
      BY <1>4, <1>5, <2>1
    <2>. QED
      BY <2>2, <2>3, <2>4, Zenon DEF MediaInv, Gone
  <1>12. NoticeInv'
    <2>1. CASE dec.mOutputMedia /\ ~dec'.mOutputMedia
      <3>1. IdleAdd("mediaRemoved", V)
        BY <1>1, <2>1
      <3>2. mState # "CLOSED"
        <4>1. est[V] \notin Gone
          BY <1>0, <2>1, Zenon DEF MediaInv
        <4>. QED
          BY <1>0, <4>1, Distinct, Zenon DEF LifeInv
      <3>3. PICK x \in {D, V} : x = V
        OBVIOUS
      <3>4. dmxMedia \in BOOLEAN
        BY Zenon DEF TypeOK
      <3>5. /\ dmxMedia' = (dmxMedia /\ x # D)
            /\ dec'.mOutputMedia = (dec.mOutputMedia /\ x # V)
        <4>1. dec'.mOutputMedia = FALSE
          BY <1>5, <2>1, Zenon
        <4>. QED
          BY <1>4, <3>3, <3>4, <4>1, Distinct, Zenon
      <3>6. IdleAdd("mediaRemoved", x)
        BY <3>1, <3>3
      <3>. QED
        BY <1>0, <1>4, <1>5, <3>2, <3>4, <3>5, <3>6, MediaGone
    <2>2. CASE ~(dec.mOutputMedia /\ ~dec'.mOutputMedia)
      <3>1. UNCHANGED idle
        BY <1>1, <2>2
      <3>2. UNCHANGED <<idle, mState, mReadyToPlay, told, appMedia, dmxMedia>>
        BY <1>4, <3>1
      <3>3. dec'.mOutputMedia = dec.mOutputMedia
        BY <1>5, <2>2, Zenon
      <3>. QED
        BY <1>0, <3>2, <3>3, NoticeSame
    <2>. QED
      BY <2>1, <2>2
  <1>13. DecoderInv'
    <2>1. Calls("vdec_stop", V)' => Calls("vdec_stop", V)
      BY <1>3, <1>10, SMT
    <2>2. est'[V] \in {"STOPPING", "STOPPED", "deleted"}
      BY <1>9, SMT
    <2>3. CASE UNCHANGED est
      <3>1. est'[V] = est[V] /\ vdec' = vdec
        BY <1>4, <2>3
      <3>. QED
        BY <1>0, <1>5, <2>1, <2>2, <3>1, Zenon DEF DecoderInv
    <2>4. CASE est'[V] = "STOPPED" /\ est[V] = "STOPPING" /\ ~dec.mVdecStopPending
      <3>1. ~dec.mInputMedia
        BY <1>0, <2>4, Zenon DEF DecoderInv
      <3>2. ~dec'.mInputMedia
        BY <1>5, <3>1
      <3>. QED
        BY <2>2, <3>2, Zenon DEF DecoderInv
    <2>. QED
      BY <1>8, <2>3, <2>4
  <1>14. PortInv'
    <2>1. \A r \in Sinks : est'[r] = est[r]
      BY <1>8, Distinct
    <2>2. \A r \in Sinks : ~LosesChannel(r)
      BY <1>0, <1>1, NotLosing
    <2>3. est'[V] # "none"
      BY <1>9, SMT
    <2>. QED
      BY <1>0, <1>4, <1>5, <2>1, <2>2, <2>3, Zenon DEF PortInv, Gone
  <1>. QED
    BY <1>8, <1>10, <1>11, <1>12, <1>13, <1>14, Zenon DEF OpenedInv

\* An output channel of the decoder is unlinked; if it stops it goes on with
\* that from a message.
LEMMA DecOnChannelUnlinkKeeps ==
  ASSUME TypeOK, OpenedInv, DecOnChannelUnlink
  PROVE  OpenedInv'
  <1>0. /\ LifeInv /\ StopCall /\ StoppedCall /\ MediaInv /\ UnlinkCall
        /\ DecoderInv /\ TeardownCall /\ PortInv /\ NoticeInv
        /\ agenda \in Seq(CallType) /\ mMbox \in Seq(MessageType)
        /\ dec \in DecType
        /\ link \in [SinkElements -> {D, V, None}]
    BY Parts
  <1> DEFINE c == Subject
             z == CallOn("onElementStopped", None, V)
  <1>1. /\ Runs("onChannelUnlink", V) /\ Then(<<>>)
        /\ link' = [link EXCEPT ![c] = None]
        /\ dec' = [dec EXCEPT !.out = Without(@, c),
                              !.mCompleteStopPendingCount =
                                   IF est[V] = "STOPPING" THEN @ + 1 ELSE @]
        /\ IF est[V] = "STOPPING" THEN Post("COMPLETE_STOP", V) ELSE UNCHANGED mMbox
        /\ UNCHANGED <<idle, est, vdec, otherThanDec>>
    BY Zenon DEF DecOnChannelUnlink, Return
  <1>2. c \in SinkElements /\ link[c] = V
    <2>1. PICK x \in {D, V} : x = V
      OBVIOUS
    <2>. QED
      BY <1>0, <1>1, <2>1, Unlinked
  <1>3. z \in CallType /\ z.f = "onElementStopped"
    BY TypedOfSession, Distinct
  <1> HIDE DEF c, z
  <1>4. OneCall(z)
    BY <1>1, Zenon DEF OneCall
  <1>5. /\ UNCHANGED port /\ UNCHANGED <<mState, mReadyToPlay, mElements, est>>
        /\ UNCHANGED <<dmxMedia, dmxOut>>
        /\ UNCHANGED <<idle, mState, mReadyToPlay, told, appMedia, dmxMedia>>
        /\ UNCHANGED vdec /\ UNCHANGED sink /\ UNCHANGED est
    BY <1>1, Zenon DEF otherThanDec, sessionVars, dmxVars, appVars
  <1>6. /\ dec'.mInputMedia = dec.mInputMedia /\ dec'.mOutputMedia = dec.mOutputMedia
        /\ dec'.out = Without(dec.out, c) /\ dec'.mVdecStopPending = dec.mVdecStopPending
        /\ dec.out \in Seq(Sinks)
    BY <1>0, <1>1, Zenon DEF DecType
  <1>7. \A i \in DOMAIN mMbox' :
            \/ mMbox'[i].cmd = "COMPLETE_STOP" /\ est[V] = "STOPPING"
            \/ \E j \in DOMAIN mMbox : mMbox'[i] = mMbox[j]
    <2>1. CASE est[V] = "STOPPING"
      <3>1. [cmd |-> "COMPLETE_STOP", e |-> V] \in MessageType
            /\ [cmd |-> "COMPLETE_STOP", e |-> V].cmd = "COMPLETE_STOP"
        <4>1. "COMPLETE_STOP" \in {"COMPLETE_FLUSH", "COMPLETE_STOP", "RESYNC"}
          OBVIOUS
        <4>. QED
          BY <4>1, Messages
      <3>2. Post("COMPLETE_STOP", V)
        BY <1>1, <2>1
      <3>3. \A i \in DOMAIN mMbox' : \/ mMbox'[i] = [cmd |-> "COMPLETE_STOP", e |-> V]
                                     \/ \E j \in DOMAIN mMbox : mMbox'[i] = mMbox[j]
        BY <1>0, <3>1, <3>2, PostedMail
      <3>. QED
        BY <2>1, <3>1, <3>3, Zenon
    <2>2. CASE est[V] # "STOPPING"
      <3>1. UNCHANGED mMbox
        BY <1>1, <2>2
      <3>. QED
        BY <3>1, Zenon
    <2>. QED
      BY <2>1, <2>2
  <1>8. LifeInv' /\ NoticeInv'
    BY <1>0, <1>5, <1>6, LifeFrame, NoticeSame
  <1>9. /\ StopCall' /\ UnlinkCall' /\ TeardownCall' /\ StoppedCall'
        /\ \A g : Calls(g, V)' => Calls(g, V) \/ (z.f = g /\ z.e = V)
    <2>1. /\ "onChannelUnlink" \notin {"removeInputMedia", "deleteChannel"}
          /\ z.f \notin {"stop", "onChannelUnlink", "inputRemoved", "teardownOutputs"}
      BY <1>3, SMT
    <2>2. \A i \in DOMAIN mMbox' : mMbox'[i].cmd = "ELEMENT_DELETE" =>
             \/ est'[mMbox'[i].e] \in {"STOPPED", "deleted"}
             \/ \E j \in DOMAIN mMbox : mMbox'[i] = mMbox[j]
      <3>1. "COMPLETE_STOP" # "ELEMENT_DELETE"
        OBVIOUS
      <3>. QED
        BY <1>7, <3>1, Zenon
    <2>3. \A x \in Elements : est[x] \in {"STOPPED", "deleted"} =>
             est'[x] \in {"STOPPED", "deleted"}
      BY <1>5, Zenon
    <2>. QED
      BY <1>0, <1>1, <1>3, <1>4, <2>1, <2>2, <2>3, ChainOne
  <1>10. MediaInv'
    <2>0. /\ est[D] \in Gone => ~dmxMedia
          /\ est[V] \in Gone => ~dec.mOutputMedia
          /\ ~dmxMedia => dmxOut = <<>>
          /\ ~dec.mOutputMedia => dec.out = <<>>
          /\ \A x \in SinkElements : link[x] = D => Contains(dmxOut, x)
          /\ \A x \in SinkElements : link[x] = V => Contains(dec.out, x)
      BY <1>0, Zenon DEF MediaInv
    <2>1. \A x \in SinkElements : link'[x] = IF x = c THEN None ELSE link[x]
      BY <1>0, <1>1, <1>2, SMT
    <2>2. \A x : x # c /\ Contains(dec.out, x) => Contains(dec'.out, x)
      BY <1>6, WithoutKeeps
    <2>3. \A x \in SinkElements : link'[x] # None => x # c /\ link[x] = link'[x]
      BY <2>1, Zenon
    <2>4. D # None /\ V # None
      BY Distinct
    <2>5. \A x \in SinkElements : link'[x] = D => Contains(dmxOut', x)
      BY <1>5, <2>0, <2>3, <2>4, Zenon
    <2>6. \A x \in SinkElements : link'[x] = V => Contains(dec'.out, x)
      BY <2>0, <2>2, <2>3, <2>4, Zenon
    <2>7. dec.mOutputMedia
      <3>1. Contains(dec.out, c)
        BY <1>2, <2>0
      <3>2. dec.out # <<>>
        BY <3>1, SMT DEF Contains
      <3>. QED
        BY <2>0, <3>2
    <2>8. /\ est'[D] \in Gone => ~dmxMedia'
          /\ est'[V] \in Gone => ~dec'.mOutputMedia
          /\ ~dmxMedia' => dmxOut' = <<>>
          /\ ~dec'.mOutputMedia => dec'.out = <<>>
      BY <1>5, <1>6, <2>0, <2>7
    <2>. QED
      BY <2>5, <2>6, <2>8, Zenon DEF MediaInv, Gone
  <1>11. DecoderInv'
    <2>1. \A g \in {"vdec_stop", "teardownOutputs", "completeStop"} :
             Calls(g, V)' => Calls(g, V)
      BY <1>3, <1>9, SMT
    <2>2. CASE est[V] = "STOPPING"
      <3>1. est'[V] = "STOPPING" /\ est'[V] \in {"STOPPING", "STOPPED", "deleted"}
        BY <1>5, <2>2, SMT
      <3>2. Calls("vdec_stop", V)' => Calls("vdec_stop", V)
        BY <2>1
      <3>3. vdec' = vdec /\ est'[V] = est[V]
        BY <1>5
      <3>. QED
        BY <1>0, <1>6, <3>1, <3>2, <3>3, Zenon DEF DecoderInv
    <2>3. CASE est[V] # "STOPPING"
      <3>1. \A i \in DOMAIN mMbox' : mMbox'[i].cmd = "COMPLETE_STOP" =>
               \E j \in DOMAIN mMbox : mMbox'[i] = mMbox[j]
        BY <1>7, <2>3, Zenon
      <3>. QED
        BY <1>0, <1>5, <1>6, <2>1, <3>1, DecoderFrame, Zenon
    <2>. QED
      BY <2>2, <2>3
  <1>12. PortInv'
    <2>1. \A r \in Sinks : LosesChannel(r) => LosesChannel(r)'
      <3>1. PICK f \in {"onChannelUnlink", "onElementStopped"} : f = "onChannelUnlink"
        OBVIOUS
      <3>2. Runs(f, V)
        BY <1>1, <3>1
      <3>. QED
        BY <1>0, <1>3, <1>4, <3>2, LosingGoesOn
    <2>2. est' = est
      BY <1>5
    <2>. QED
      BY <1>0, <1>5, <1>6, <2>1, <2>2, Zenon DEF PortInv
  <1>. QED
    BY <1>8, <1>9, <1>10, <1>11, <1>12, Zenon DEF OpenedInv

-----------------------------------------------------------------------------
(* The session.                                                            *)

\* An element that has stopped is told so; the session is closed when it was
\* the last.
LEMMA OnElementStoppedKeeps ==
  ASSUME TypeOK, OpenedInv, OnElementStopped
  PROVE  OpenedInv'
  <1>0. /\ LifeInv /\ StopCall /\ StoppedCall /\ MediaInv /\ UnlinkCall
        /\ DecoderInv /\ TeardownCall /\ PortInv /\ NoticeInv
        /\ agenda \in Seq(CallType) /\ mMbox \in Seq(MessageType) /\ idle \in Seq(IdleType)
    BY Parts
  <1> DEFINE x == Subject
  <1>1. /\ Runs("onElementStopped", None) /\ Then(<<>>) /\ Post("ELEMENT_DELETE", x)
        /\ UNCHANGED <<mDemuxer, mDemuxerReady, mReadyToPlay, mElements, est, chanVars,
                       dmxVars, dec, vdec, sink, appVars, counters>>
    BY Zenon DEF OnElementStopped, Return
  <1>2. \/ /\ AllStopped(mElements) /\ mState = "CLOSING" /\ mState' = "CLOSED"
           /\ IdleAdd("closeResponse", None)
        \/ UNCHANGED <<mState, idle>>
    BY Zenon DEF OnElementStopped
  <1>3. x \in Elements /\ est[x] \in {"STOPPED", "deleted"}
    <2>1. /\ agenda[1] \in CallType /\ 1 \in DOMAIN agenda /\ agenda[1].f = "onElementStopped"
          /\ x = agenda[1].c
      BY <1>0, <1>1, Running
    <2>2. agenda[1].c \in Elements
      BY <2>1, CallFields
    <2>3. est[agenda[1].c] \in {"STOPPED", "deleted"}
      BY <1>0, <2>1, Zenon DEF StoppedCall
    <2>. QED
      BY <2>1, <2>2, <2>3
  <1> HIDE DEF x
  <1>4. /\ UNCHANGED link /\ UNCHANGED port /\ UNCHANGED est /\ est' = est
        /\ UNCHANGED <<mReadyToPlay, mElements, est>>
        /\ UNCHANGED <<link, dmxMedia, dmxOut>>
        /\ UNCHANGED <<mReadyToPlay, told, appMedia, dmxMedia>>
        /\ UNCHANGED dec /\ UNCHANGED vdec /\ UNCHANGED sink
    BY <1>1, Zenon DEF chanVars, dmxVars, appVars
  <1> DEFINE z == CallOn("onElementStopped", None, x)
             m == [cmd |-> "ELEMENT_DELETE", e |-> x]
  <1>5. z \in CallType /\ z.f = "onElementStopped" /\ z.c = x
    BY <1>3, TypedOfSession
  <1>6. m \in MessageType /\ m.cmd = "ELEMENT_DELETE" /\ m.e = x
    BY <1>3, Messages
  <1>7. \A i \in DOMAIN mMbox' : mMbox'[i] = m \/ \E j \in DOMAIN mMbox : mMbox'[i] = mMbox[j]
    BY <1>0, <1>1, <1>6, PostedMail
  <1> HIDE DEF z, m
  <1>8. OneCall(z)
    BY <1>1, Zenon DEF OneCall
  <1>9. /\ StopCall' /\ UnlinkCall' /\ TeardownCall' /\ StoppedCall'
        /\ \A g : Calls(g, V)' => Calls(g, V) \/ (z.f = g /\ z.e = V)
    <2>1. /\ "onElementStopped" \notin {"removeInputMedia", "deleteChannel"}
          /\ z.f \notin {"stop", "onChannelUnlink", "inputRemoved", "teardownOutputs"}
      BY <1>5, SMT
    <2>2. \A i \in DOMAIN mMbox' : mMbox'[i].cmd = "ELEMENT_DELETE" =>
             \/ est'[mMbox'[i].e] \in {"STOPPED", "deleted"}
             \/ \E j \in DOMAIN mMbox : mMbox'[i] = mMbox[j]
      BY <1>3, <1>4, <1>6, <1>7, Zenon
    <2>3. \A y \in Elements : est[y] \in {"STOPPED", "deleted"} =>
             est'[y] \in {"STOPPED", "deleted"}
      BY <1>4, Zenon
    <2>. QED
      BY <1>0, <1>1, <1>5, <1>8, <2>1, <2>2, <2>3, ChainOne
  <1>10. LifeInv'
    <2>1. CASE UNCHANGED mState
      <3>1. UNCHANGED <<mState, mReadyToPlay, mElements, est>>
        BY <1>4, <2>1
      <3>. QED
        BY <1>0, <1>4, <3>1, LifeFrame
    <2>2. CASE AllStopped(mElements) /\ mState = "CLOSING" /\ mState' = "CLOSED"
      <3>1. \A e \in Elements : est[e] \in Gone
        <4>1. \A e \in mElements : est[e] = "STOPPED"
          BY <2>2, Zenon DEF AllStopped
        <4>2. \A e \in Elements \ mElements : est[e] \in {"none", "deleted"}
          BY <1>0, Zenon DEF LifeInv
        <4>. QED
          BY <4>1, <4>2, Zenon DEF Gone
      <3>2. ~mReadyToPlay
        <4>1. mState # "OPENED"
          BY <2>2, SMT
        <4>. QED
          BY <1>0, <4>1, Zenon DEF LifeInv
      <3>3. mState' # "OPENED"
        BY <2>2, SMT
      <3>4. /\ est[D] \in {"STARTED", "STOPPING", "STOPPED", "deleted"}
            /\ \A s \in Sinks : est[s] \in {"none", "STARTED", "STOPPING", "STOPPED", "deleted"}
            /\ \A s \in Sinks : sink[s].mVideoSinkListener => est[s] = "STARTED"
            /\ \A e \in Elements \ mElements : est[e] \in {"none", "deleted"}
        BY <1>0, Zenon DEF LifeInv
      <3>5. /\ est'[D] \in {"STARTED", "STOPPING", "STOPPED", "deleted"}
            /\ \A s \in Sinks : est'[s] \in {"none", "STARTED", "STOPPING", "STOPPED", "deleted"}
            /\ \A s \in Sinks : sink'[s].mVideoSinkListener => est'[s] = "STARTED"
            /\ \A e \in Elements \ mElements' : est'[e] \in {"none", "deleted"}
        BY <1>4, <3>4
      <3>6. /\ mState' # "OPENED" /\ ~mReadyToPlay'
            /\ \A e \in Elements : est'[e] \in Gone
        BY <1>4, <3>1, <3>2, <3>3
      <3>. QED
        BY <3>5, <3>6, Zenon DEF LifeInv, Gone
    <2>. QED
      BY <1>2, <2>1, <2>2
  <1>11. MediaInv'
    BY <1>0, <1>4, MediaFrame
  <1>12. DecoderInv'
    <2>1. \A g \in {"vdec_stop", "teardownOutputs", "completeStop"} :
             Calls(g, V)' => Calls(g, V)
      BY <1>5, <1>9, SMT
    <2>2. \A i \in DOMAIN mMbox' : mMbox'[i].cmd = "COMPLETE_STOP" =>
             \E j \in DOMAIN mMbox : mMbox'[i] = mMbox[j]
      <3>1. "COMPLETE_STOP" # "ELEMENT_DELETE"
        OBVIOUS
      <3>. QED
        BY <1>6, <1>7, <3>1, Zenon
    <2>. QED
      BY <1>0, <1>4, <2>1, <2>2, DecoderFrame, Zenon
  <1>13. PortInv'
    <2>1. \A r \in Sinks : LosesChannel(r) => LosesChannel(r)'
      <3>1. PICK f \in {"onChannelUnlink", "onElementStopped"} : f = "onElementStopped"
        OBVIOUS
      <3>2. Runs(f, None)
        BY <1>1, <3>1
      <3>. QED
        BY <1>0, <1>5, <1>8, <3>2, LosingGoesOn
    <2>. QED
      BY <1>0, <1>4, <2>1, Zenon DEF PortInv
  <1>14. NoticeInv'
    <2>1. CASE UNCHANGED <<mState, idle>>
      <3>1. UNCHANGED <<idle, mState, mReadyToPlay, told, appMedia, dmxMedia>>
        BY <1>4, <2>1
      <3>. QED
        BY <1>0, <1>4, <3>1, NoticeSame
    <2>2. CASE mState = "CLOSING" /\ mState' = "CLOSED" /\ IdleAdd("closeResponse", None)
      <3> DEFINE n == Idle("closeResponse", None)
      <3>1. n \in IdleType /\ n.cb = "closeResponse"
        <4>1. "closeResponse" \in Answers
          BY SMT DEF Answers
        <4>2. n.cb = "closeResponse"
          BY SMT DEF Idle
        <4>. QED
          BY <4>1, <4>2, NoticeTypes
      <3>2. idle' = Append(idle, n)
        BY <2>2, Zenon DEF IdleAdd
      <3> HIDE DEF n
      <3>3. n.cb \notin {"ready", "notReady"} /\ n.cb \notin {"mediaAdded", "mediaRemoved"}
        BY <3>1, SMT
      <3>4. /\ LastSays(idle, "ready", "notReady", None, told.ready, mReadyToPlay)
            /\ LastSays(idle, "mediaAdded", "mediaRemoved", D, D \in appMedia, dmxMedia)
            /\ LastSays(idle, "mediaAdded", "mediaRemoved", V, V \in appMedia, dec.mOutputMedia)
        BY <1>0, Zenon DEF NoticeInv
      <3>5. /\ LastSays(idle', "ready", "notReady", None, told.ready, mReadyToPlay)
            /\ LastSays(idle', "mediaAdded", "mediaRemoved", D, D \in appMedia, dmxMedia)
            /\ LastSays(idle', "mediaAdded", "mediaRemoved", V, V \in appMedia, dec.mOutputMedia)
        BY <1>0, <3>1, <3>2, <3>3, <3>4, LastSaysOther
      <3>6. mState # "CLOSED"
        BY <2>2, SMT
      <3>7. ~(told.closed > 0) /\ \A i \in DOMAIN idle : idle[i].cb # "closeResponse"
        BY <1>0, <3>6, Zenon DEF NoticeInv
      <3>8. /\ \A i \in DOMAIN idle : idle'[i] = idle[i]
            /\ \A i \in DOMAIN idle' : i \in DOMAIN idle \/ i = Len(idle) + 1
            /\ \A i \in DOMAIN idle : i \in Nat /\ i < Len(idle) + 1
        BY <1>0, <3>1, <3>2, AppendContains
      <3>9. ASSUME NEW i \in DOMAIN idle', NEW j \in DOMAIN idle', i < j,
                   idle'[i].cb = "closeResponse"
            PROVE  FALSE
        <4>1. i \notin DOMAIN idle
          BY <3>7, <3>8, <3>9, Zenon
        <4>2. i = Len(idle) + 1 /\ Len(idle) \in Nat
          BY <1>0, <3>8, <4>1, SMT
        <4>. QED
          BY <3>8, <3>9, <4>2, SMT
      <3>. QED
        BY <1>4, <2>2, <3>5, <3>7, <3>9, Zenon DEF NoticeInv
    <2>. QED
      BY <1>2, <2>1, <2>2
  <1>. QED
    BY <1>9, <1>10, <1>11, <1>12, <1>13, <1>14, Zenon DEF OpenedInv

\* Events that begin a chain with a call of stop().
LEMMA StopEvent ==
  ASSUME agenda = <<>>, NEW e \in Elements, Call("stop", e) \in CallType,
         agenda' = <<Call("stop", e)>>, est[e] = "STARTED", e = D => mState' = "CLOSING",
         UNCHANGED est, UNCHANGED mMbox, StoppedCall
  PROVE  /\ StopCall' /\ UnlinkCall' /\ TeardownCall' /\ StoppedCall'
         /\ \A g \in {"vdec_stop", "teardownOutputs", "completeStop"} : ~Calls(g, V)'
  <1> DEFINE x == Call("stop", e)
  <1>1. x.f = "stop" /\ x.e = e /\ agenda' = <<x>>
    BY Zenon DEF Call
  <1> HIDE DEF x
  <1>2. DOMAIN agenda' = {1} /\ agenda'[1] = x
    BY <1>1, SMT
  <1>3. est' = est /\ mMbox' = mMbox
    OBVIOUS
  <1>4. \A i \in DOMAIN agenda' :
           /\ i = 1 /\ agenda'[i] = x
           /\ agenda'[i].f \notin {"onChannelUnlink", "inputRemoved", "teardownOutputs",
                                   "onElementStopped", "vdec_stop", "completeStop"}
    BY <1>1, <1>2, SMT
  <1>5. StopCall'
    BY <1>1, <1>3, <1>4, Zenon DEF StopCall
  <1>6. \A i \in DOMAIN agenda' :
           /\ agenda'[i].f # "onChannelUnlink" /\ agenda'[i].f # "onElementStopped"
           /\ agenda'[i].f \notin {"inputRemoved", "teardownOutputs"}
    BY <1>4, SMT
  <1>7. UnlinkCall' /\ TeardownCall' /\ StoppedCall'
    BY <1>3, <1>6, Zenon DEF UnlinkCall, TeardownCall, StoppedCall
  <1>8. ASSUME NEW g \in {"vdec_stop", "teardownOutputs", "completeStop"}
        PROVE  ~Calls(g, V)'
    <2>1. \A i \in DOMAIN agenda' : agenda'[i].f # g
      BY <1>4, SMT
    <2>. QED
      BY <2>1, Zenon DEF Calls
  <1>. QED
    BY <1>5, <1>7, <1>8

\* No chain, no sink that loses its channel.
LEMMA NoneLoses ==
  ASSUME agenda = <<>>
  PROVE  \A s \in Sinks : ~LosesChannel(s)
  BY LosesHead

\* stopVideoSink()
LEMMA StopVideoSinkKeeps ==
  ASSUME TypeOK, OpenedInv, NEW s \in Sinks, StopVideoSink(s)
  PROVE  OpenedInv'
  <1>0. /\ LifeInv /\ StopCall /\ StoppedCall /\ MediaInv /\ UnlinkCall
        /\ DecoderInv /\ TeardownCall /\ PortInv /\ NoticeInv
    BY Parts
  <1>1. /\ agenda = <<>> /\ sink[s].mVideoSinkListener /\ agenda' = <<Call("stop", s)>>
        /\ UNCHANGED <<sessionVars, mMbox, idle, est, chanVars, dmxVars, dec, vdec, sink,
                       appMedia, told, counters>>
    BY Zenon DEF StopVideoSink, AtEvent
  <1>2. /\ UNCHANGED link /\ UNCHANGED port
        /\ UNCHANGED <<mState, mReadyToPlay, mElements, est>>
        /\ UNCHANGED <<link, dmxMedia, dmxOut>>
        /\ UNCHANGED <<idle, mState, mReadyToPlay, told, appMedia, dmxMedia>>
        /\ UNCHANGED dec /\ UNCHANGED vdec /\ UNCHANGED mMbox /\ UNCHANGED sink /\ UNCHANGED est
    BY <1>1, Zenon DEF sessionVars, chanVars, dmxVars
  <1>3. LifeInv' /\ MediaInv' /\ NoticeInv'
    BY <1>0, <1>2, LifeFrame, MediaFrame, NoticeSame
  <1>4. est[s] = "STARTED" /\ s \in Elements /\ s # D /\ Call("stop", s) \in CallType
    BY <1>0, <1>1, TypedOfSink, Distinct, ZenonT(60) DEF LifeInv
  <1>5. /\ StopCall' /\ UnlinkCall' /\ TeardownCall' /\ StoppedCall'
        /\ \A g \in {"vdec_stop", "teardownOutputs", "completeStop"} : ~Calls(g, V)'
    BY <1>0, <1>1, <1>2, <1>4, StopEvent
  <1>6. DecoderInv'
    BY <1>0, <1>2, <1>5, DecoderFrame, Zenon
  <1>7. PortInv'
    <2>1. \A r \in Sinks : ~LosesChannel(r)
      BY <1>1, NoneLoses
    <2>2. est' = est
      BY <1>2
    <2>. QED
      BY <1>0, <1>2, <2>1, <2>2, Zenon DEF PortInv
  <1>. QED
    BY <1>3, <1>5, <1>6, <1>7, Zenon DEF OpenedInv

\* close() of a session that is open.
LEMMA CloseKeeps ==
  ASSUME TypeOK, OpenedInv, AnswerInv, mState # "CREATED", Close
  PROVE  OpenedInv' /\ mState = "OPENED"
  <1>0. /\ LifeInv /\ StopCall /\ StoppedCall /\ MediaInv /\ UnlinkCall
        /\ DecoderInv /\ TeardownCall /\ PortInv /\ NoticeInv
        /\ idle \in Seq(IdleType)
    BY Parts
  <1>1. mState = "OPENED"
    <2>1. ~told.closing
      BY Zenon DEF Close
    <2>2. mState \notin {"CLOSING", "CLOSED"}
      BY <2>1, Zenon DEF AnswerInv
    <2>3. mState \in {"CREATED", "OPENED", "CLOSING", "CLOSED"}
      BY Zenon DEF TypeOK
    <2>. QED
      BY <2>2, <2>3, SMT
  <1>2. /\ agenda = <<>> /\ mState' = "CLOSING" /\ mReadyToPlay' = FALSE
        /\ idle' = IF mReadyToPlay THEN Append(idle, Idle("notReady", None)) ELSE idle
        /\ agenda' = <<Call("stop", D)>>
        /\ told' = [told EXCEPT !.closing = TRUE]
        /\ UNCHANGED <<mDemuxer, mDemuxerReady, mElements, mMbox, est, chanVars, dmxVars, dec,
                       vdec, sink, appFlush, appMedia, counters>>
    BY <1>1, Zenon DEF Close, AtEvent
  <1>3. /\ UNCHANGED link /\ UNCHANGED port /\ UNCHANGED mElements
        /\ UNCHANGED <<link, dmxMedia, dmxOut>> /\ UNCHANGED appMedia
        /\ UNCHANGED dec /\ UNCHANGED vdec /\ UNCHANGED mMbox /\ UNCHANGED sink /\ UNCHANGED est
    BY <1>2, Zenon DEF chanVars, dmxVars
  <1>4. est[D] = "STARTED" /\ D \in Elements /\ Call("stop", D) \in CallType
    BY <1>0, <1>1, TypedOfD, Distinct, Zenon DEF LifeInv
  <1>5. /\ StopCall' /\ UnlinkCall' /\ TeardownCall' /\ StoppedCall'
        /\ \A g \in {"vdec_stop", "teardownOutputs", "completeStop"} : ~Calls(g, V)'
    BY <1>0, <1>2, <1>3, <1>4, StopEvent
  <1>6. LifeInv'
    <2>1. mState' # "OPENED" /\ mState' # "CLOSED" /\ ~mReadyToPlay'
      BY <1>2, SMT
    <2>. QED
      BY <1>0, <1>3, <2>1, Zenon DEF LifeInv
  <1>7. MediaInv'
    BY <1>0, <1>3, MediaFrame
  <1>8. DecoderInv'
    BY <1>0, <1>3, <1>5, DecoderFrame, Zenon
  <1>9. PortInv'
    <2>1. \A r \in Sinks : ~LosesChannel(r)
      BY <1>2, NoneLoses
    <2>2. est' = est
      BY <1>3
    <2>. QED
      BY <1>0, <1>3, <2>1, <2>2, Zenon DEF PortInv
  <1>10. NoticeInv'
    <2> DEFINE n == Idle("notReady", None)
    <2>1. n \in IdleType /\ n.cb = "notReady" /\ n.e = None
      <3>1. "notReady" \in Answers
        BY SMT DEF Answers
      <3>2. n.cb = "notReady" /\ n.e = None
        BY SMT DEF Idle
      <3>. QED
        BY <3>1, <3>2, NoticeTypes
    <2> HIDE DEF n
    <2>2. IF mReadyToPlay THEN idle' = Append(idle, n) ELSE idle' = idle
      BY <1>2, Zenon DEF n
    <2>3. told'.ready = told.ready /\ told'.closed = told.closed
      <3>1. told \in [open : BOOLEAN, closing : BOOLEAN, closed : Nat, ready : BOOLEAN]
        BY Zenon DEF TypeOK
      <3>. QED
        BY <1>2, <3>1, Zenon
    <2>4. /\ LastSays(idle, "ready", "notReady", None, told.ready, mReadyToPlay)
          /\ LastSays(idle, "mediaAdded", "mediaRemoved", D, D \in appMedia, dmxMedia)
          /\ LastSays(idle, "mediaAdded", "mediaRemoved", V, V \in appMedia, dec.mOutputMedia)
      BY <1>0, Zenon DEF NoticeInv
    <2>5. /\ LastSays(idle', "mediaAdded", "mediaRemoved", D, D \in appMedia, dmxMedia)
          /\ LastSays(idle', "mediaAdded", "mediaRemoved", V, V \in appMedia, dec.mOutputMedia)
      <3>1. n.cb \notin {"mediaAdded", "mediaRemoved"}
        BY <2>1, SMT
      <3>2. CASE mReadyToPlay
        <4>1. idle' = Append(idle, n)
          BY <2>2, <3>2
        <4>. QED
          BY <1>0, <2>1, <2>4, <3>1, <4>1, LastSaysOther
      <3>3. CASE ~mReadyToPlay
        <4>1. idle' = idle
          BY <2>2, <3>3
        <4>. QED
          BY <2>4, <4>1
      <3>. QED
        BY <3>2, <3>3
    <2>6. LastSays(idle', "ready", "notReady", None, told.ready, FALSE)
      <3>1. CASE mReadyToPlay
        <4>1. n.e = None /\ n.cb \in {"ready", "notReady"} /\ (n.cb = "ready" <=> FALSE)
          BY <2>1, SMT
        <4>2. LastSays(Append(idle, n), "ready", "notReady", None, told.ready, FALSE)
          BY <1>0, <2>1, <4>1, LastSaysPosted
        <4>. QED
          BY <2>2, <3>1, <4>2
      <3>2. CASE ~mReadyToPlay
        <4>1. mReadyToPlay = FALSE
          <5>1. mReadyToPlay \in BOOLEAN
            BY Zenon DEF TypeOK
          <5>. QED
            BY <3>2, <5>1
        <4>2. idle' = idle
          BY <2>2, <3>2
        <4>. QED
          BY <2>4, <4>1, <4>2
      <3>. QED
        BY <3>1, <3>2
    <2>7. n.cb # "closeResponse" /\ mState # "CLOSED"
      BY <1>1, <2>1, SMT
    <2>8. idle' = Append(idle, n) \/ UNCHANGED idle
      BY <2>2
    <2>9. LastSays(idle', "ready", "notReady", None, told'.ready, mReadyToPlay')
      BY <1>2, <2>3, <2>6
    <2>10. /\ LastSays(idle', "mediaAdded", "mediaRemoved", D, D \in appMedia', dmxMedia')
           /\ LastSays(idle', "mediaAdded", "mediaRemoved", V, V \in appMedia', dec'.mOutputMedia)
      BY <1>3, <2>5
    <2>. QED
      BY <1>0, <2>1, <2>3, <2>7, <2>8, <2>9, <2>10, NoticePosted
  <1>. QED
    BY <1>1, <1>5, <1>6, <1>7, <1>8, <1>9, <1>10, Zenon DEF OpenedInv

\* Between two events nothing is called.
LEMMA NothingCalled ==
  ASSUME agenda = <<>>, UNCHANGED agenda
  PROVE  /\ StopCall' /\ UnlinkCall' /\ TeardownCall'
         /\ \A i \in DOMAIN agenda' : FALSE
         /\ \A g : ~Calls(g, V)'
  <1>1. \A i \in DOMAIN agenda' : FALSE
    BY SMT
  <1>. QED
    BY <1>1, Zenon DEF StopCall, UnlinkCall, TeardownCall, Calls

\* The channel of a new sink.
LEMMA StartVideoSinkMedia ==
  ASSUME TypeOK, MediaInv, NEW s \in Sinks, StartVideoSink(s)
  PROVE  /\ MediaInv' /\ est[SourceOf(s)] \notin Gone
         /\ dec'.mInputMedia = dec.mInputMedia /\ dec'.mOutputMedia = dec.mOutputMedia
         /\ dec'.mVdecStopPending = dec.mVdecStopPending
  <1>0. /\ dmxOut \in Seq(SinkElements) /\ dec \in DecType /\ dec.out \in Seq(Sinks)
        /\ link \in [SinkElements -> {D, V, None}] /\ est \in [Elements -> ElementStates]
    BY Zenon DEF TypeOK, DecType
  <1>1. /\ est[s] = "none" /\ est' = [est EXCEPT ![s] = "STARTED"]
        /\ IF SourceOf(s) = D THEN dmxMedia ELSE dec.mOutputMedia
        /\ link' = [link EXCEPT ![s] = SourceOf(s)]
        /\ dmxOut' = IF SourceOf(s) = D THEN Append(dmxOut, s) ELSE dmxOut
        /\ dec' = IF SourceOf(s) = V THEN [dec EXCEPT !.out = Append(@, s)] ELSE dec
        /\ UNCHANGED dmxMedia
    BY Zenon DEF StartVideoSink
  <1>2. s \in Elements /\ s \in SinkElements /\ s # D /\ s # V
    BY Distinct, Zenon
  <1>3. est'[D] = est[D] /\ est'[V] = est[V]
    BY <1>0, <1>1, <1>2, Distinct, Zenon
  <1>4. link'[s] = SourceOf(s) /\ \A c \in SinkElements : c # s => link'[c] = link[c]
    BY <1>0, <1>1, <1>2, Zenon
  <1>5. /\ est[D] \in Gone => ~dmxMedia
        /\ est[V] \in Gone => ~dec.mOutputMedia
        /\ ~dmxMedia => dmxOut = <<>>
        /\ ~dec.mOutputMedia => dec.out = <<>>
        /\ \A c \in SinkElements : link[c] = D => Contains(dmxOut, c)
        /\ \A c \in SinkElements : link[c] = V => Contains(dec.out, c)
    BY Zenon DEF MediaInv
  <1>6. CASE SourceOf(s) = D
    <2>1. /\ dmxMedia /\ dmxOut' = Append(dmxOut, s) /\ dec' = dec /\ dmxMedia' = dmxMedia
          /\ link'[s] = D
      BY <1>1, <1>4, <1>6, Distinct
    <2>2. /\ \A x : Contains(dmxOut, x) => Contains(dmxOut', x)
          /\ Contains(dmxOut', s)
      BY <1>0, <1>2, <2>1, AppendContains
    <2>3. /\ est'[D] \in Gone => ~dmxMedia'
          /\ est'[V] \in Gone => ~dec'.mOutputMedia
          /\ ~dmxMedia' => dmxOut' = <<>>
          /\ ~dec'.mOutputMedia => dec'.out = <<>>
      BY <1>3, <1>5, <2>1
    <2>4. /\ \A c \in SinkElements : link'[c] = D => Contains(dmxOut', c)
          /\ \A c \in SinkElements : link'[c] = V => Contains(dec'.out, c)
      BY <1>2, <1>4, <1>5, <2>1, <2>2, Distinct, Zenon
    <2>5. MediaInv'
      BY <2>3, <2>4, Zenon DEF MediaInv, Gone
    <2>. QED
      BY <1>5, <1>6, <2>1, <2>5
  <1>7. CASE SourceOf(s) = V
    <2>1. /\ dec.mOutputMedia /\ dec' = [dec EXCEPT !.out = Append(@, s)]
          /\ dmxOut' = dmxOut /\ dmxMedia' = dmxMedia /\ link'[s] = V
      BY <1>1, <1>4, <1>7, Distinct
    <2>2. /\ dec'.out = Append(dec.out, s) /\ dec'.mOutputMedia = dec.mOutputMedia
          /\ dec'.mInputMedia = dec.mInputMedia
          /\ dec'.mVdecStopPending = dec.mVdecStopPending
      BY <1>0, <2>1, Zenon DEF DecType
    <2>3. /\ \A x : Contains(dec.out, x) => Contains(dec'.out, x)
          /\ Contains(dec'.out, s)
      BY <1>0, <2>2, AppendContains
    <2>4. /\ est'[D] \in Gone => ~dmxMedia'
          /\ est'[V] \in Gone => ~dec'.mOutputMedia
          /\ ~dmxMedia' => dmxOut' = <<>>
          /\ ~dec'.mOutputMedia => dec'.out = <<>>
      BY <1>3, <1>5, <2>1, <2>2
    <2>5. /\ \A c \in SinkElements : link'[c] = D => Contains(dmxOut', c)
          /\ \A c \in SinkElements : link'[c] = V => Contains(dec'.out, c)
      BY <1>2, <1>4, <1>5, <2>1, <2>3, Distinct, Zenon
    <2>6. MediaInv'
      BY <2>4, <2>5, Zenon DEF MediaInv, Gone
    <2>. QED
      BY <1>5, <1>7, <2>1, <2>2, <2>6
  <1>. QED
    BY <1>6, <1>7, Zenon DEF SourceOf

\* startVideoSink()
LEMMA StartVideoSinkKeeps ==
  ASSUME TypeOK, OpenedInv, NEW s \in Sinks, StartVideoSink(s)
  PROVE  OpenedInv'
  <1>0. /\ LifeInv /\ StopCall /\ StoppedCall /\ MediaInv /\ UnlinkCall
        /\ DecoderInv /\ TeardownCall /\ PortInv /\ NoticeInv
        /\ mMbox \in Seq(MessageType) /\ est \in [Elements -> ElementStates]
        /\ port \in [SinkElements -> BOOLEAN] /\ sink \in [Sinks -> SinkType]
    BY Parts
  <1>1. /\ agenda = <<>> /\ est[s] = "none"
        /\ mElements' = mElements \cup {s}
        /\ est' = [est EXCEPT ![s] = "STARTED"]
        /\ port' = [port EXCEPT ![s] = TRUE]
        /\ sink' = [sink EXCEPT ![s].mInputMedia = TRUE, ![s].mVideoSinkListener = TRUE]
        /\ UNCHANGED <<agenda, mState, mReadyToPlay, mMbox, idle, dmxMedia, vdec, appVars>>
    BY Zenon DEF StartVideoSink, AtEvent
  <1>2. s \in Elements /\ s \in SinkElements /\ s # D /\ s # V
    BY Distinct, Zenon
  <1>3. /\ MediaInv' /\ est[SourceOf(s)] \notin Gone
        /\ dec'.mInputMedia = dec.mInputMedia /\ dec'.mOutputMedia = dec.mOutputMedia
        /\ dec'.mVdecStopPending = dec.mVdecStopPending
    BY <1>0, StartVideoSinkMedia
  <1>4. est'[s] = "STARTED" /\ \A e \in Elements : e # s => est'[e] = est[e]
    BY <1>0, <1>1, <1>2, Zenon
  <1>5. port'[s] /\ \A c \in SinkElements : c # s => port'[c] = port[c]
    BY <1>0, <1>1, <1>2, Zenon
  <1>6. /\ sink'[s].mInputMedia
        /\ \A r \in Sinks : r # s => sink'[r] = sink[r]
    BY <1>0, <1>1, Zenon DEF SinkType
  <1>7. /\ StopCall' /\ UnlinkCall' /\ TeardownCall'
        /\ \A i \in DOMAIN agenda' : FALSE
        /\ \A g : ~Calls(g, V)'
    BY <1>1, NothingCalled
  <1>8. mMbox' = mMbox /\ vdec' = vdec /\ mState' = mState /\ mReadyToPlay' = mReadyToPlay
    BY <1>1
  <1>9. StoppedCall'
    <2>1. ASSUME NEW i \in DOMAIN mMbox, mMbox[i].cmd = "ELEMENT_DELETE"
          PROVE  est'[mMbox[i].e] \in {"STOPPED", "deleted"}
      <3>1. est[mMbox[i].e] \in {"STOPPED", "deleted"}
        BY <1>0, <2>1, Zenon DEF StoppedCall
      <3>2. mMbox[i] \in MessageType
        BY <1>0, SMT
      <3>3. mMbox[i].e \in Elements
        BY <2>1, <3>2, Messages
      <3>4. mMbox[i].e # s
        BY <1>1, <3>1, SMT
      <3>. QED
        BY <1>4, <3>1, <3>3, <3>4, Zenon
    <2>. QED
      BY <1>7, <1>8, <2>1, Zenon DEF StoppedCall
  <1>10. LifeInv'
    <2>1. mState # "CLOSED"
      <3>1. SourceOf(s) \in Elements
        BY Distinct, Zenon DEF SourceOf
      <3>. QED
        BY <1>0, <1>3, <3>1, Zenon DEF LifeInv
    <2>2. /\ est[D] \in {"STARTED", "STOPPING", "STOPPED", "deleted"}
          /\ \A r \in Sinks : est[r] \in {"none", "STARTED", "STOPPING", "STOPPED", "deleted"}
          /\ mState = "OPENED" => est[D] = "STARTED"
          /\ mReadyToPlay => mState = "OPENED"
          /\ \A r \in Sinks : sink[r].mVideoSinkListener => est[r] = "STARTED"
          /\ \A e \in Elements \ mElements : est[e] \in {"none", "deleted"}
      BY <1>0, Zenon DEF LifeInv
    <2>3. est'[D] = est[D]
      BY <1>2, <1>4, Distinct, Zenon
    <2>4. /\ est'[D] \in {"STARTED", "STOPPING", "STOPPED", "deleted"}
          /\ mState' = "OPENED" => est'[D] = "STARTED"
          /\ mReadyToPlay' => mState' = "OPENED"
          /\ mState' # "CLOSED"
      BY <1>8, <2>1, <2>2, <2>3
    <2>5. \A r \in Sinks : /\ est'[r] \in {"none", "STARTED", "STOPPING", "STOPPED", "deleted"}
                           /\ sink'[r].mVideoSinkListener => est'[r] = "STARTED"
      <3>1. "STARTED" \in {"none", "STARTED", "STOPPING", "STOPPED", "deleted"}
        OBVIOUS
      <3>. QED
        BY <1>4, <1>6, <2>2, <3>1, Distinct, Zenon
    <2>6. \A e \in Elements \ mElements' : est'[e] \in {"none", "deleted"}
      BY <1>1, <1>4, <2>2, Zenon
    <2>. QED
      BY <2>4, <2>5, <2>6, Zenon DEF LifeInv
  <1>11. DecoderInv'
    <2>1. est'[V] = est[V]
      BY <1>2, <1>4, Distinct, Zenon
    <2>2. \A i \in DOMAIN mMbox' : \E j \in DOMAIN mMbox : mMbox'[i] = mMbox[j]
      BY <1>8, Zenon
    <2>. QED
      BY <1>0, <1>3, <1>7, <1>8, <2>1, <2>2, DecoderFrame, Zenon
  <1>12. PortInv'
    <2>1. \A r \in Sinks : ~LosesChannel(r)
      BY <1>1, NoneLoses
    <2>2. /\ \A r \in Sinks : port[r] => sink[r].mInputMedia /\ est[r] \notin Gone
          /\ port[V] => dec.mInputMedia /\ est[V] # "none"
          /\ \A r \in Sinks : ~(est[r] = "STOPPING" /\ port[r])
      BY <1>0, <2>1, Zenon DEF PortInv
    <2>3. "STARTED" \notin Gone /\ "STARTED" # "STOPPING"
      BY SMT DEF Gone
    <2>4. \A r \in Sinks : port'[r] => sink'[r].mInputMedia /\ est'[r] \notin Gone
      BY <1>4, <1>5, <1>6, <2>2, <2>3, Distinct, Zenon
    <2>5. port'[V] => dec'.mInputMedia /\ est'[V] # "none"
      BY <1>2, <1>3, <1>4, <1>5, <2>2, Distinct, Zenon
    <2>6. \A r \in Sinks : ~(est'[r] = "STOPPING" /\ port'[r])
      BY <1>4, <1>5, <2>2, <2>3, Distinct, Zenon
    <2>. QED
      BY <2>4, <2>5, <2>6, Zenon DEF PortInv, Gone
  <1>13. NoticeInv'
    BY <1>0, <1>1, <1>3, NoticeSame, Zenon DEF appVars
  <1>. QED
    BY <1>3, <1>7, <1>9, <1>10, <1>11, <1>12, <1>13, Zenon DEF OpenedInv

\* What the application knows once it was called.
ListenerIdle == IdleFunction /\ Head(idle).cb # "sinkFlush"

LEMMA Heard ==
  ASSUME TypeOK, ListenerIdle
  PROVE  /\ idle # <<>> /\ idle' = Tail(idle) /\ Head(idle) \in IdleType
         /\ UNCHANGED agenda
         /\ told'.closed = IF Head(idle).cb = "closeResponse" THEN told.closed + 1 ELSE told.closed
         /\ told'.open = told.open /\ told'.closing = told.closing
         /\ told'.ready <=> Head(idle).cb = "ready" \/ (told.ready /\ Head(idle).cb # "notReady")
         /\ told' \in [open : BOOLEAN, closing : BOOLEAN, closed : Nat, ready : BOOLEAN]
         /\ appMedia' \subseteq {D, V}
         /\ \A e \in {D, V} :
               IF Head(idle).e = e /\ Head(idle).cb \in {"mediaAdded", "mediaRemoved"}
               THEN e \in appMedia' <=> Head(idle).cb = "mediaAdded"
               ELSE e \in appMedia' <=> e \in appMedia
         /\ UNCHANGED <<sessionVars, mMbox, est, chanVars, dmxVars, dec, vdec, sink, counters,
                        appFlush>>
  <1>0. /\ told \in [open : BOOLEAN, closing : BOOLEAN, closed : Nat, ready : BOOLEAN]
        /\ idle \in Seq(IdleType) /\ appMedia \subseteq {D, V}
    BY Zenon DEF TypeOK
  <1>1. /\ idle # <<>> /\ idle' = Tail(idle) /\ Head(idle).cb # "sinkFlush"
        /\ CallListener(Head(idle).cb, Head(idle).e)
        /\ UNCHANGED <<sessionVars, mMbox, est, chanVars, dmxVars, dec, vdec, sink, counters>>
    BY Zenon DEF ListenerIdle, IdleFunction
  <1>2. Head(idle) \in IdleType
    BY <1>0, <1>1, TailOfSeq, Zenon
  <1> DEFINE cb == Head(idle).cb
             e == Head(idle).e
  <1>3. /\ appMedia' = CASE cb = "mediaAdded" -> appMedia \cup {e}
                         [] cb = "mediaRemoved" -> appMedia \ {e}
                         [] OTHER -> appMedia
        /\ told' = [told EXCEPT !.closed = @ + (IF cb = "closeResponse" THEN 1 ELSE 0),
                                !.ready = (cb = "ready" \/ (@ /\ cb # "notReady"))]
        /\ UNCHANGED <<agenda, appFlush>>
    BY <1>1, Zenon DEF CallListener
  <1>4. cb \in {"mediaAdded", "mediaRemoved"} => e \in {D, V}
    BY <1>2, NoticeTypes
  <1> HIDE DEF cb, e
  <1> DEFINE k == told.closed + (IF cb = "closeResponse" THEN 1 ELSE 0)
             r == (cb = "ready" \/ (told.ready /\ cb # "notReady"))
  <1>5. k \in Nat /\ k = IF cb = "closeResponse" THEN told.closed + 1 ELSE told.closed
    <2>1. told.closed \in Nat
      BY <1>0, Zenon
    <2>. QED
      BY <2>1, SMT
  <1>6. r \in BOOLEAN
    BY Zenon
  <1>7. told' = [told EXCEPT !.closed = k, !.ready = r]
    BY <1>0, <1>3, Zenon
  <1> HIDE DEF k, r
  <1>8. /\ told'.closed = k /\ told'.open = told.open /\ told'.closing = told.closing
        /\ told'.ready = r
        /\ told' \in [open : BOOLEAN, closing : BOOLEAN, closed : Nat, ready : BOOLEAN]
    BY <1>0, <1>5, <1>6, <1>7, Zenon
  <1>9. told'.ready <=> cb = "ready" \/ (told.ready /\ cb # "notReady")
    BY <1>8, Zenon DEF r
  <1>10. /\ appMedia' \subseteq {D, V}
         /\ \A x \in {D, V} : IF e = x /\ cb \in {"mediaAdded", "mediaRemoved"}
                              THEN x \in appMedia' <=> cb = "mediaAdded"
                              ELSE x \in appMedia' <=> x \in appMedia
    <2>1. CASE cb = "mediaAdded"
      <3>1. appMedia' = appMedia \cup {e}
        BY <1>3, <2>1, SMT
      <3>. QED
        BY <1>0, <1>4, <2>1, <3>1, SMT
    <2>2. CASE cb = "mediaRemoved"
      <3>1. appMedia' = appMedia \ {e}
        BY <1>3, <2>2, SMT
      <3>. QED
        BY <1>0, <1>4, <2>2, <3>1, SMT
    <2>3. CASE cb \notin {"mediaAdded", "mediaRemoved"}
      <3>1. appMedia' = appMedia
        BY <1>3, <2>3, SMT
      <3>. QED
        BY <1>0, <2>3, <3>1, Zenon
    <2>. QED
      BY <2>1, <2>2, <2>3, Zenon
  <1>11. told'.closed = IF cb = "closeResponse" THEN told.closed + 1 ELSE told.closed
    BY <1>5, <1>8
  <1>. QED
    BY <1>1, <1>2, <1>3, <1>8, <1>9, <1>10, <1>11, Zenon DEF cb, e

\* What it was told is not said again.
LEMMA HeardKeepsNotices ==
  ASSUME TypeOK, ListenerIdle, NoticeInv
  PROVE  NoticeInv'
  <1>0. /\ idle \in Seq(IdleType) /\ told.closed \in Nat
    BY Zenon DEF TypeOK
  <1>1. /\ idle # <<>> /\ idle' = Tail(idle) /\ Head(idle) \in IdleType
        /\ told'.closed = IF Head(idle).cb = "closeResponse" THEN told.closed + 1 ELSE told.closed
        /\ told'.ready <=> Head(idle).cb = "ready" \/ (told.ready /\ Head(idle).cb # "notReady")
        /\ \A e \in {D, V} :
              IF Head(idle).e = e /\ Head(idle).cb \in {"mediaAdded", "mediaRemoved"}
              THEN e \in appMedia' <=> Head(idle).cb = "mediaAdded"
              ELSE e \in appMedia' <=> e \in appMedia
        /\ UNCHANGED <<mState, mReadyToPlay, dmxMedia, dec>>
    BY Heard, Zenon DEF sessionVars, dmxVars
  <1>2. /\ LastSays(idle, "ready", "notReady", None, told.ready, mReadyToPlay)
        /\ LastSays(idle, "mediaAdded", "mediaRemoved", D, D \in appMedia, dmxMedia)
        /\ LastSays(idle, "mediaAdded", "mediaRemoved", V, V \in appMedia, dec.mOutputMedia)
        /\ told.closed > 0 \/ (\E i \in DOMAIN idle : idle[i].cb = "closeResponse") =>
               mState = "CLOSED"
        /\ \A i, j \in DOMAIN idle : i < j /\ idle[i].cb = "closeResponse" =>
               idle[j].cb = "sinkFlush"
        /\ told.closed > 0 => \A i \in DOMAIN idle : idle[i].cb = "sinkFlush"
    BY Zenon DEF NoticeInv
  <1>3. LastSays(idle', "ready", "notReady", None, told'.ready, mReadyToPlay')
    <2>1. Head(idle).cb \in {"ready", "notReady"} => Head(idle).e = None
      <3>1. "ready" \in Answers /\ "notReady" \in Answers
        BY SMT DEF Answers
      <3>. QED
        BY <1>1, <3>1, NoticeTypes, Zenon
    <2>2. Head(idle).e = None /\ Head(idle).cb \in {"ready", "notReady"}
             => (told'.ready <=> Head(idle).cb = "ready")
      BY <1>1, SMT
    <2>3. ~(Head(idle).e = None /\ Head(idle).cb \in {"ready", "notReady"})
             => (told'.ready <=> told.ready)
      BY <1>1, <2>1, SMT
    <2>4. LastSays(Tail(idle), "ready", "notReady", None, told'.ready, mReadyToPlay)
      BY <1>0, <1>1, <1>2, <2>2, <2>3, LastSaysHeard
    <2>. QED
      BY <1>1, <2>4
  <1>4. ASSUME NEW e \in {D, V}, NEW truth,
               LastSays(idle, "mediaAdded", "mediaRemoved", e, e \in appMedia, truth)
        PROVE  LastSays(idle', "mediaAdded", "mediaRemoved", e, e \in appMedia', truth)
    <2>1. Head(idle).e = e /\ Head(idle).cb \in {"mediaAdded", "mediaRemoved"}
             => (e \in appMedia' <=> Head(idle).cb = "mediaAdded")
      BY <1>1, Zenon
    <2>2. ~(Head(idle).e = e /\ Head(idle).cb \in {"mediaAdded", "mediaRemoved"})
             => (e \in appMedia' <=> e \in appMedia)
      BY <1>1, Zenon
    <2>3. LastSays(Tail(idle), "mediaAdded", "mediaRemoved", e, e \in appMedia', truth)
      BY <1>0, <1>1, <1>4, <2>1, <2>2, LastSaysHeard
    <2>. QED
      BY <1>1, <2>3
  <1>5. /\ LastSays(idle', "mediaAdded", "mediaRemoved", D, D \in appMedia', dmxMedia')
        /\ LastSays(idle', "mediaAdded", "mediaRemoved", V, V \in appMedia', dec'.mOutputMedia)
    <2>1. dmxMedia' = dmxMedia /\ dec' = dec
      BY <1>1
    <2>2. LastSays(idle', "mediaAdded", "mediaRemoved", D, D \in appMedia', dmxMedia)
      BY <1>2, <1>4
    <2>3. LastSays(idle', "mediaAdded", "mediaRemoved", V, V \in appMedia', dec.mOutputMedia)
      BY <1>2, <1>4
    <2>. QED
      BY <2>1, <2>2, <2>3
  <1>6. /\ \A i \in DOMAIN idle' : i + 1 \in DOMAIN idle /\ idle'[i] = idle[i + 1] /\ i \in Nat /\ i > 0
        /\ 1 \in DOMAIN idle /\ Head(idle) = idle[1]
    BY <1>0, <1>1, TailOfSeq
  <1>7. told'.closed > 0 => told.closed > 0 \/ idle[1].cb = "closeResponse"
    BY <1>1, <1>6
  <1>8. told'.closed > 0 \/ (\E i \in DOMAIN idle' : idle'[i].cb = "closeResponse") =>
           mState' = "CLOSED"
    BY <1>1, <1>2, <1>6, <1>7, ZenonT(60)
  <1>9. \A i, j \in DOMAIN idle' : i < j /\ idle'[i].cb = "closeResponse" =>
           idle'[j].cb = "sinkFlush"
    <2> SUFFICES ASSUME NEW i \in DOMAIN idle', NEW j \in DOMAIN idle', i < j,
                        idle'[i].cb = "closeResponse"
                 PROVE  idle'[j].cb = "sinkFlush"
      OBVIOUS
    <2>1. i + 1 < j + 1
      BY <1>6, SMT
    <2>2. /\ i + 1 \in DOMAIN idle /\ idle[i + 1].cb = "closeResponse"
          /\ j + 1 \in DOMAIN idle /\ idle'[j] = idle[j + 1]
      BY <1>6
    <2>3. idle[j + 1].cb = "sinkFlush"
      BY <1>2, <2>1, <2>2, Zenon
    <2>. QED
      BY <2>2, <2>3
  <1>10. told'.closed > 0 => \A i \in DOMAIN idle' : idle'[i].cb = "sinkFlush"
    <2> SUFFICES ASSUME told'.closed > 0, NEW i \in DOMAIN idle'
                 PROVE  idle'[i].cb = "sinkFlush"
      OBVIOUS
    <2>1. i + 1 \in DOMAIN idle /\ idle'[i] = idle[i + 1] /\ 1 < i + 1
      BY <1>6, SMT
    <2>2. CASE told.closed > 0
      BY <1>2, <2>1, <2>2, Zenon
    <2>3. CASE idle[1].cb = "closeResponse"
      <3>1. 1 \in DOMAIN idle
        BY <1>6
      <3>. QED
        BY <1>2, <2>1, <2>3, <3>1, Zenon
    <2>. QED
      BY <1>7, <2>2, <2>3
  <1>. QED
    BY <1>3, <1>5, <1>8, <1>9, <1>10, Zenon DEF NoticeInv

\* An idle function that calls the application.
LEMMA ListenerIdleKeeps ==
  ASSUME TypeOK, OpenedInv, ListenerIdle
  PROVE  OpenedInv'
  <1>0. /\ LifeInv /\ StopCall /\ StoppedCall /\ MediaInv /\ UnlinkCall
        /\ DecoderInv /\ TeardownCall /\ PortInv /\ NoticeInv
        /\ agenda \in Seq(CallType)
    BY Parts
  <1>1. /\ UNCHANGED agenda
        /\ UNCHANGED <<sessionVars, mMbox, est, chanVars, dmxVars, dec, vdec, sink>>
    BY Heard
  <1>2. QuietStep
    BY <1>1, Zenon DEF QuietStep
  <1>3. /\ UNCHANGED <<mState, mReadyToPlay, mElements, est>> /\ UNCHANGED <<est, mState>>
        /\ UNCHANGED est /\ UNCHANGED link /\ UNCHANGED port /\ UNCHANGED <<est, port>>
        /\ UNCHANGED <<link, dmxMedia, dmxOut>> /\ UNCHANGED dec /\ UNCHANGED vdec
        /\ UNCHANGED sink /\ UNCHANGED mMbox
    BY <1>1, Zenon DEF sessionVars, chanVars, dmxVars
  <1>4. LifeInv' /\ MediaInv'
    BY <1>0, <1>3, LifeFrame, MediaFrame
  <1>5. SameMbox
    BY <1>3, Untouched
  <1>6. StopCall' /\ StoppedCall' /\ UnlinkCall' /\ TeardownCall'
    BY <1>0, <1>2, <1>3, <1>5, StopCallQuiet, StoppedCallQuiet, UnlinkCallQuiet,
       TeardownCallQuiet
  <1>7. DecoderInv'
    <2>1. \A i \in DOMAIN mMbox' : \E j \in DOMAIN mMbox : mMbox'[i] = mMbox[j]
      BY <1>3, Zenon
    <2>2. \A g \in {"vdec_stop", "teardownOutputs", "completeStop"} :
             Calls(g, V)' => Calls(g, V)
      BY <1>0, <1>2, CallsQuiet
    <2>. QED
      BY <1>0, <1>3, <2>1, <2>2, DecoderFrame, Zenon
  <1>8. PortInv'
    BY <1>0, <1>2, <1>3, PortQuiet
  <1>9. NoticeInv'
    BY <1>0, HeardKeepsNotices
  <1>. QED
    BY <1>4, <1>6, <1>7, <1>8, <1>9, Zenon DEF OpenedInv

\* The messages that are about the end of an element.
DeleteMessage == MboxMessage /\ Head(mMbox).cmd = "ELEMENT_DELETE"
StopMessage == MboxMessage /\ Head(mMbox).cmd = "COMPLETE_STOP"

\* The element a message is about, and the types of what its deletion changes.
LEMMA DeletedTypes ==
  ASSUME TypeOK, DeleteMessage
  PROVE  /\ 1 \in DOMAIN mMbox /\ mMbox[1].cmd = "ELEMENT_DELETE" /\ mMbox[1].e \in Elements
         /\ mElements' = mElements \ {mMbox[1].e}
         /\ est' = [est EXCEPT ![mMbox[1].e] = "deleted"]
         /\ est' \in [Elements -> ElementStates]
         /\ mDemuxer' \in BOOLEAN /\ mDemuxerReady' \in BOOLEAN
         /\ mMbox' \in Seq(MessageType)
         /\ \A i \in DOMAIN mMbox' : \E j \in DOMAIN mMbox : mMbox'[i] = mMbox[j]
         /\ UNCHANGED <<agenda, mState, mReadyToPlay>>
         /\ UNCHANGED <<idle, chanVars, dmxVars, dec, vdec, sink, appVars, counters>>
  <1>0. /\ est \in [Elements -> ElementStates] /\ mMbox \in Seq(MessageType)
        /\ mDemuxer \in BOOLEAN /\ mDemuxerReady \in BOOLEAN
    BY Zenon DEF TypeOK
  <1> DEFINE m == Head(mMbox)
  <1>1. /\ mMbox # <<>> /\ mMbox' = Tail(mMbox) /\ m.cmd = "ELEMENT_DELETE"
        /\ ElementDelete(m.e)
        /\ UNCHANGED <<idle, chanVars, dmxVars, dec, vdec, sink, appVars, counters>>
    <2>1. m.cmd = "ELEMENT_DELETE" /\ "ELEMENT_DELETE" # "COMPLETE_FLUSH"
          /\ "ELEMENT_DELETE" # "COMPLETE_STOP" /\ "ELEMENT_DELETE" # "RESYNC"
      BY SMT DEF DeleteMessage
    <2>. QED
      BY <2>1, Zenon DEF DeleteMessage, MboxMessage
  <1>2. /\ m \in MessageType /\ 1 \in DOMAIN mMbox /\ m = mMbox[1]
        /\ mMbox' \in Seq(MessageType)
        /\ \A i \in DOMAIN mMbox' : \E j \in DOMAIN mMbox : mMbox'[i] = mMbox[j]
    BY <1>0, <1>1, ShorterMbox
  <1>3. m.e \in Elements
    BY <1>1, <1>2, Messages
  <1>4. /\ mElements' = mElements \ {m.e} /\ est' = [est EXCEPT ![m.e] = "deleted"]
        /\ mDemuxer' = (mDemuxer /\ m.e # D) /\ mDemuxerReady' = (mDemuxerReady /\ m.e # D)
        /\ UNCHANGED <<agenda, mState, mReadyToPlay>>
    BY <1>1, Zenon DEF ElementDelete
  <1> HIDE DEF m
  <1>5. est' \in [Elements -> ElementStates]
    <2>1. "deleted" \in ElementStates
      BY SMT DEF ElementStates
    <2>. QED
      BY <1>0, <1>4, <2>1, Zenon
  <1>6. mDemuxer' \in BOOLEAN /\ mDemuxerReady' \in BOOLEAN
    BY <1>4, Zenon
  <1>. QED
    BY <1>1, <1>2, <1>3, <1>4, <1>5, <1>6, Zenon

\* An element is deleted when it has stopped.
LEMMA Deleted ==
  ASSUME TypeOK, StoppedCall, DeleteMessage
  PROVE  /\ UNCHANGED agenda
         /\ \A x \in Elements : \/ est'[x] = est[x]
                                \/ est[x] \in {"STOPPED", "deleted"} /\ est'[x] = "deleted"
         /\ \A x \in Elements \ mElements' : x \in mElements => est'[x] = "deleted"
         /\ mElements' \subseteq mElements
         /\ mMbox' \in Seq(MessageType)
         /\ \A i \in DOMAIN mMbox' : \E j \in DOMAIN mMbox : mMbox'[i] = mMbox[j]
         /\ UNCHANGED <<mState, mReadyToPlay>>
         /\ UNCHANGED <<idle, chanVars, dmxVars, dec, vdec, sink, appVars, counters>>
  <1>0. est \in [Elements -> ElementStates]
    BY Zenon DEF TypeOK
  <1>1. /\ 1 \in DOMAIN mMbox /\ mMbox[1].cmd = "ELEMENT_DELETE" /\ mMbox[1].e \in Elements
        /\ mElements' = mElements \ {mMbox[1].e}
        /\ est' = [est EXCEPT ![mMbox[1].e] = "deleted"]
    BY DeletedTypes
  <1> DEFINE e == mMbox[1].e
  <1>2. est[e] \in {"STOPPED", "deleted"}
    BY <1>1, Zenon DEF StoppedCall
  <1>3. e \in Elements /\ mElements' = mElements \ {e} /\ est' = [est EXCEPT ![e] = "deleted"]
    BY <1>1
  <1> HIDE DEF e
  <1>4. est'[e] = "deleted" /\ \A x \in Elements : x # e => est'[x] = est[x]
    BY <1>0, <1>3, Zenon
  <1>5. /\ \A x \in Elements : \/ est'[x] = est[x]
                               \/ est[x] \in {"STOPPED", "deleted"} /\ est'[x] = "deleted"
        /\ \A x \in Elements \ mElements' : x \in mElements => est'[x] = "deleted"
        /\ mElements' \subseteq mElements
    BY <1>2, <1>3, <1>4, Zenon
  <1>. QED
    BY <1>5, DeletedTypes, Zenon

LEMMA DeleteMessageKeeps ==
  ASSUME TypeOK, OpenedInv, DeleteMessage
  PROVE  OpenedInv'
  <1>0. /\ LifeInv /\ StopCall /\ StoppedCall /\ MediaInv /\ UnlinkCall
        /\ DecoderInv /\ TeardownCall /\ PortInv /\ NoticeInv
        /\ agenda \in Seq(CallType)
    BY Parts
  <1>1. /\ UNCHANGED agenda
        /\ \A x \in Elements : \/ est'[x] = est[x]
                               \/ est[x] \in {"STOPPED", "deleted"} /\ est'[x] = "deleted"
        /\ \A x \in Elements \ mElements' : x \in mElements => est'[x] = "deleted"
        /\ \A i \in DOMAIN mMbox' : \E j \in DOMAIN mMbox : mMbox'[i] = mMbox[j]
        /\ UNCHANGED <<mState, mReadyToPlay>>
        /\ UNCHANGED <<idle, chanVars, dmxVars, dec, vdec, sink, appVars, counters>>
    BY <1>0, Deleted
  <1>2. /\ UNCHANGED link /\ UNCHANGED port /\ UNCHANGED <<link, dmxMedia, dmxOut>>
        /\ UNCHANGED dec /\ UNCHANGED vdec /\ UNCHANGED sink /\ agenda' = agenda
        /\ UNCHANGED <<idle, mState, mReadyToPlay, told, appMedia, dmxMedia>>
        /\ mState' = mState /\ mReadyToPlay' = mReadyToPlay
    BY <1>1, Zenon DEF chanVars, dmxVars, appVars
  <1>3. \A x \in Elements :
           /\ est'[x] = "STARTED" <=> est[x] = "STARTED"
           /\ est'[x] = "STOPPING" <=> est[x] = "STOPPING"
           /\ est'[x] = "none" <=> est[x] = "none"
           /\ est'[x] \in {"STOPPED", "deleted"} <=> est[x] \in {"STOPPED", "deleted"}
           /\ est'[x] \in Gone <=> est[x] \in Gone
           /\ est'[x] = est[x] \/ est'[x] = "deleted"
    <2> SUFFICES ASSUME NEW x \in Elements
                 PROVE  /\ est'[x] = "STARTED" <=> est[x] = "STARTED"
                        /\ est'[x] = "STOPPING" <=> est[x] = "STOPPING"
                        /\ est'[x] = "none" <=> est[x] = "none"
                        /\ est'[x] \in {"STOPPED", "deleted"} <=> est[x] \in {"STOPPED", "deleted"}
                        /\ est'[x] \in Gone <=> est[x] \in Gone
                        /\ est'[x] = est[x] \/ est'[x] = "deleted"
      OBVIOUS
    <2> DEFINE a == est[x]
               b == est'[x]
    <2>1. b = a \/ (a \in {"STOPPED", "deleted"} /\ b = "deleted")
      BY <1>1
    <2> HIDE DEF a, b
    <2>2. /\ b = "STARTED" <=> a = "STARTED"
          /\ b = "STOPPING" <=> a = "STOPPING"
          /\ b = "none" <=> a = "none"
          /\ b \in {"STOPPED", "deleted"} <=> a \in {"STOPPED", "deleted"}
          /\ b \in Gone <=> a \in Gone
          /\ b = a \/ b = "deleted"
      BY <2>1, SMT DEF Gone
    <2>. QED
      BY <2>2 DEF a, b
  <1>4. QuietStep
    BY <1>1, Zenon DEF QuietStep
  <1>5. D \in Elements /\ V \in Elements /\ \A s \in Sinks : s \in Elements
    BY Distinct, Zenon
  <1>6. LifeInv'
    <2>1. /\ est[D] \in {"STARTED", "STOPPING", "STOPPED", "deleted"}
          /\ \A s \in Sinks : est[s] \in {"none", "STARTED", "STOPPING", "STOPPED", "deleted"}
          /\ mState = "OPENED" => est[D] = "STARTED"
          /\ mReadyToPlay => mState = "OPENED"
          /\ \A s \in Sinks : sink[s].mVideoSinkListener => est[s] = "STARTED"
          /\ \A e \in Elements \ mElements : est[e] \in {"none", "deleted"}
          /\ mState = "CLOSED" => \A e \in Elements : est[e] \in Gone
      BY <1>0, Zenon DEF LifeInv
    <2>2. /\ est'[D] \in {"STARTED", "STOPPING", "STOPPED", "deleted"}
          /\ \A s \in Sinks : est'[s] \in {"none", "STARTED", "STOPPING", "STOPPED", "deleted"}
      BY <1>3, <1>5, <2>1, Zenon
    <2>3. /\ mState' = "OPENED" => est'[D] = "STARTED"
          /\ mReadyToPlay' => mState' = "OPENED"
          /\ \A s \in Sinks : sink'[s].mVideoSinkListener => est'[s] = "STARTED"
          /\ mState' = "CLOSED" => \A e \in Elements : est'[e] \in Gone
      <3>1. /\ est'[D] = "STARTED" <=> est[D] = "STARTED"
            /\ \A s \in Sinks : est'[s] = "STARTED" <=> est[s] = "STARTED"
            /\ \A e \in Elements : est'[e] \in Gone <=> est[e] \in Gone
        BY <1>3, <1>5, Zenon
      <3>2. sink' = sink
        BY <1>2
      <3>3. mState' = "OPENED" => est'[D] = "STARTED"
        BY <1>2, <2>1, <3>1
      <3>4. mReadyToPlay' => mState' = "OPENED"
        BY <1>2, <2>1
      <3>5. \A s \in Sinks : sink'[s].mVideoSinkListener => est'[s] = "STARTED"
        BY <2>1, <3>1, <3>2
      <3>6. mState' = "CLOSED" => \A e \in Elements : est'[e] \in Gone
        BY <1>2, <2>1, <3>1
      <3>. QED
        BY <3>3, <3>4, <3>5, <3>6
    <2>4. \A e \in Elements \ mElements' : est'[e] \in {"none", "deleted"}
      BY <1>1, <1>3, <2>1, Zenon
    <2>. QED
      BY <2>2, <2>3, <2>4, Zenon DEF LifeInv, Gone
  <1>7. MediaInv'
    <2>1. /\ est[D] \in Gone => ~dmxMedia
          /\ est[V] \in Gone => ~dec.mOutputMedia
      BY <1>0, Zenon DEF MediaInv
    <2>2. /\ est'[D] \in Gone => ~dmxMedia'
          /\ est'[V] \in Gone => ~dec'.mOutputMedia
      BY <1>2, <1>3, <1>5, <2>1
    <2>. QED
      <3>1. /\ ~dmxMedia => dmxOut = <<>>
            /\ ~dec.mOutputMedia => dec.out = <<>>
            /\ \A c \in SinkElements : link[c] = D => Contains(dmxOut, c)
            /\ \A c \in SinkElements : link[c] = V => Contains(dec.out, c)
        BY <1>0, Zenon DEF MediaInv
      <3>2. /\ ~dmxMedia' => dmxOut' = <<>>
            /\ ~dec'.mOutputMedia => dec'.out = <<>>
            /\ \A c \in SinkElements : link'[c] = D => Contains(dmxOut', c)
            /\ \A c \in SinkElements : link'[c] = V => Contains(dec'.out, c)
        BY <1>2, <3>1
      <3>. QED
        BY <2>2, <3>2, Zenon DEF MediaInv, Gone
  <1>8. StopCall'
    <2>1. \A i \in DOMAIN agenda : agenda[i].f = "stop" =>
             /\ agenda = <<agenda[i]>> /\ est[agenda[i].e] = "STARTED"
             /\ agenda[i].e = D => mState = "CLOSING"
      BY <1>0, Zenon DEF StopCall
    <2>2. \A i \in DOMAIN agenda : agenda[i].f = "stop" => agenda[i].e \in Elements
      <3> SUFFICES ASSUME NEW i \in DOMAIN agenda, agenda[i].f = "stop"
                   PROVE  agenda[i].e \in Elements
        OBVIOUS
      <3>1. agenda[i] \in CallType
        BY <1>0, SMT
      <3>. QED
        BY <3>1, CallFields
    <2>3. \A i \in DOMAIN agenda : agenda[i].f = "stop" => est'[agenda[i].e] = "STARTED"
      BY <1>3, <2>1, <2>2, Zenon
    <2>. QED
      BY <1>2, <2>1, <2>3, Zenon DEF StopCall
  <1>9. UnlinkCall' /\ TeardownCall'
    BY <1>0, <1>2, <1>4, UnlinkCallQuiet, TeardownCallQuiet
  <1>10. StoppedCall'
    <2>1. /\ \A i \in DOMAIN agenda : agenda[i].f = "onElementStopped" =>
                est[agenda[i].c] \in {"STOPPED", "deleted"}
          /\ \A i \in DOMAIN mMbox : mMbox[i].cmd = "ELEMENT_DELETE" =>
                est[mMbox[i].e] \in {"STOPPED", "deleted"}
      BY <1>0, Zenon DEF StoppedCall
    <2>2. ASSUME NEW i \in DOMAIN agenda, agenda[i].f = "onElementStopped"
          PROVE  est'[agenda[i].c] \in {"STOPPED", "deleted"}
      <3>1. agenda[i] \in CallType
        BY <1>0, SMT
      <3>2. agenda[i].c \in Elements
        BY <2>2, <3>1, CallFields
      <3>. QED
        BY <1>3, <2>1, <2>2, <3>2, Zenon
    <2>3. ASSUME NEW i \in DOMAIN mMbox, mMbox[i].cmd = "ELEMENT_DELETE"
          PROVE  est'[mMbox[i].e] \in {"STOPPED", "deleted"}
      <3>1. mMbox[i] \in MessageType
        <4>1. mMbox \in Seq(MessageType)
          BY Parts
        <4>. QED
          BY <4>1, SMT
      <3>2. mMbox[i].e \in Elements
        BY <2>3, <3>1, Messages
      <3>. QED
        BY <1>3, <2>1, <2>3, <3>2, Zenon
    <2>4. \A i \in DOMAIN mMbox' : mMbox'[i].cmd = "ELEMENT_DELETE" =>
             est'[mMbox'[i].e] \in {"STOPPED", "deleted"}
      BY <1>1, <2>3, ZenonT(60)
    <2>. QED
      BY <1>2, <2>2, <2>4, Zenon DEF StoppedCall
  <1>11. DecoderInv'
    <2>1. \A g \in {"vdec_stop", "teardownOutputs", "completeStop"} :
             Calls(g, V)' => Calls(g, V)
      BY <1>0, <1>4, CallsQuiet
    <2>2. /\ Calls("vdec_stop", V)' => Calls("vdec_stop", V)
          /\ Calls("teardownOutputs", V)' => Calls("teardownOutputs", V)
          /\ Calls("completeStop", V)' => Calls("completeStop", V)
      BY <2>1
    <2>3. /\ \/ Calls("vdec_stop", V) \/ vdec.stopping \/ est[V] \in {"STOPPED", "deleted"}
             \/ est[V] = "STOPPING" /\ ~dec.mVdecStopPending
             => ~dec.mInputMedia
          /\ \/ Calls("teardownOutputs", V) \/ Calls("vdec_stop", V) \/ vdec.stopping
             \/ Calls("completeStop", V) \/ vdec.cb \in {"stop", "stopLoaded"}
             \/ dec.mVdecStopPending
             \/ \E i \in DOMAIN mMbox : mMbox[i].cmd = "COMPLETE_STOP"
             => est[V] \in {"STOPPING", "STOPPED", "deleted"}
      BY <1>0, Zenon DEF DecoderInv
    <2>4. /\ est'[V] \in {"STOPPED", "deleted"} => est[V] \in {"STOPPED", "deleted"}
          /\ est'[V] = "STOPPING" => est[V] = "STOPPING"
          /\ est[V] \in {"STOPPING", "STOPPED", "deleted"}
                => est'[V] \in {"STOPPING", "STOPPED", "deleted"}
      BY <1>3, <1>5, SMT
    <2>5. (\E i \in DOMAIN mMbox' : mMbox'[i].cmd = "COMPLETE_STOP")
             => \E i \in DOMAIN mMbox : mMbox[i].cmd = "COMPLETE_STOP"
      BY <1>1, Zenon
    <2>6. dec' = dec /\ vdec' = vdec
      BY <1>2
    <2>. QED
      BY <2>2, <2>3, <2>4, <2>5, <2>6, Zenon DEF DecoderInv
  <1>12. PortInv'
    <2>1. /\ \A s \in Sinks : port[s] => sink[s].mInputMedia /\ est[s] \notin Gone
          /\ port[V] => dec.mInputMedia /\ est[V] # "none"
          /\ \A s \in Sinks : est[s] = "STOPPING" /\ port[s] => LosesChannel(s)
      BY <1>0, Zenon DEF PortInv
    <2>2. \A s \in Sinks : LosesChannel(s) => LosesChannel(s)'
      BY <1>2, Zenon DEF LosesChannel
    <2>3. port' = port /\ sink' = sink /\ dec' = dec
      BY <1>2
    <2>4. /\ \A s \in Sinks : port'[s] => sink'[s].mInputMedia /\ est'[s] \notin Gone
          /\ port'[V] => dec'.mInputMedia /\ est'[V] # "none"
          /\ \A s \in Sinks : est'[s] = "STOPPING" /\ port'[s] => LosesChannel(s)'
      BY <1>3, <1>5, <2>1, <2>2, <2>3, Zenon
    <2>. QED
      BY <2>4, Zenon DEF PortInv, Gone
  <1>13. NoticeInv'
    BY <1>0, <1>2, NoticeSame
  <1>. QED
    BY <1>6, <1>7, <1>8, <1>9, <1>10, <1>11, <1>12, <1>13, Zenon DEF OpenedInv

\* The decoder is called when it may have stopped.
LEMMA StopMessageKeeps ==
  ASSUME TypeOK, OpenedInv, StopMessage
  PROVE  OpenedInv' /\ agenda' \in Seq(CallType)
  <1>0. /\ LifeInv /\ StopCall /\ StoppedCall /\ MediaInv /\ UnlinkCall
        /\ DecoderInv /\ TeardownCall /\ PortInv /\ NoticeInv
        /\ agenda \in Seq(CallType) /\ mMbox \in Seq(MessageType)
    BY Parts
  <1> DEFINE m == Head(mMbox)
             x == Call("completeStop", V)
             h == Head(agenda)
             cs == <<x, h>>
  <1>1. /\ Runs("mboxCb", None) /\ mMbox # <<>> /\ mMbox' = Tail(mMbox)
        /\ m.cmd = "COMPLETE_STOP"
        /\ UNCHANGED <<idle, chanVars, dmxVars, dec, vdec, sink, appVars, counters>>
    BY Zenon DEF StopMessage, MboxMessage
  <1>2. /\ m \in MessageType /\ 1 \in DOMAIN mMbox /\ m = mMbox[1]
        /\ mMbox' \in Seq(MessageType)
        /\ \A i \in DOMAIN mMbox' : \E j \in DOMAIN mMbox : mMbox'[i] = mMbox[j]
    BY <1>0, <1>1, ShorterMbox
  <1>3. m.e = V
    BY <1>1, <1>2, Messages
  <1>4. /\ agenda' = <<x>> \o agenda
        /\ UNCHANGED <<sessionVars, est>>
    <2>1. m.cmd = "COMPLETE_STOP" /\ "COMPLETE_STOP" # "ELEMENT_DELETE"
          /\ "COMPLETE_STOP" # "COMPLETE_FLUSH" /\ "COMPLETE_STOP" # "RESYNC"
      BY <1>1, SMT
    <2>. QED
      BY <1>3, <2>1, Zenon DEF StopMessage, MboxMessage
  <1>5. x \in CallType /\ x.f = "completeStop" /\ x.e = V
    BY TypedOfV
  <1>6. h \in CallType /\ h.f = "mboxCb" /\ h.e = None /\ agenda # <<>>
    BY <1>0, <1>1, Running
  <1>7. /\ UNCHANGED link /\ UNCHANGED port /\ UNCHANGED <<link, dmxMedia, dmxOut>>
        /\ UNCHANGED dec /\ UNCHANGED vdec /\ UNCHANGED sink /\ UNCHANGED est
        /\ UNCHANGED <<mState, mReadyToPlay, mElements, est>>
        /\ UNCHANGED <<idle, mState, mReadyToPlay, told, appMedia, dmxMedia>>
    BY <1>1, <1>4, Zenon DEF sessionVars, chanVars, dmxVars, appVars
  <1>8. \A i \in DOMAIN mMbox' : mMbox'[i].cmd = "ELEMENT_DELETE" =>
             \/ est'[mMbox'[i].e] \in {"STOPPED", "deleted"}
             \/ \E j \in DOMAIN mMbox : mMbox'[i] = mMbox[j]
    BY <1>2, Zenon
  <1>9. est[V] \in {"STOPPING", "STOPPED", "deleted"}
    <2>1. \E i \in DOMAIN mMbox : mMbox[i].cmd = "COMPLETE_STOP"
      BY <1>1, <1>2, Zenon
    <2>. QED
      BY <1>0, <2>1, Zenon DEF DecoderInv
  <1> HIDE DEF m, x, h
  <1>10. Then(cs)
    BY <1>0, <1>4, <1>5, <1>6, InFront, Zenon DEF Then, h
  <1>11. /\ cs \in Seq(CallType)
         /\ \A i \in DOMAIN cs : cs[i] = x \/ cs[i] = h
    <2>1. /\ cs \in Seq(CallType) /\ cs[1] = x /\ cs[2] = h /\ DOMAIN cs = {1, 2}
      BY <1>5, <1>6, Chains
    <2> HIDE DEF cs
    <2>. QED
      BY <2>1, Zenon
  <1> HIDE DEF cs
  <1>12. \A i \in DOMAIN cs :
            /\ cs[i].f \notin {"stop", "onChannelUnlink", "inputRemoved", "teardownOutputs"}
            /\ cs[i].f # "onElementStopped" /\ cs[i].f \notin {"vdec_stop", "teardownOutputs"}
    BY <1>5, <1>6, <1>11, SMT
  <1>13. /\ "mboxCb" \notin {"stop", "removeInputMedia", "deleteChannel"}
         /\ "mboxCb" # "stop"
         /\ "mboxCb" \notin {"onChannelTeardown", "removeInputMedia", "deleteChannel",
                             "onChannelUnlink", "onElementStopped"}
    BY SMT
  <1>14. StopCall' /\ UnlinkCall' /\ TeardownCall'
    BY <1>0, <1>1, <1>10, <1>11, <1>12, <1>13, NoSuchCall
  <1>15. StoppedCall'
    <2>1. \A i \in DOMAIN cs : cs[i].f = "onElementStopped" =>
             est'[cs[i].c] \in {"STOPPED", "deleted"}
      BY <1>12
    <2>2. \A y \in Elements : est[y] \in {"STOPPED", "deleted"} =>
             est'[y] \in {"STOPPED", "deleted"}
      BY <1>7
    <2>. QED
      BY <1>0, <1>1, <1>8, <1>10, <1>11, <1>13, <2>1, <2>2, StoppedCallKept
  <1>16. LifeInv' /\ MediaInv' /\ NoticeInv'
    BY <1>0, <1>7, LifeFrame, MediaFrame, NoticeSame
  <1>17. DecoderInv'
    <2>1. \A g : Calls(g, V)' => \/ Calls(g, V)
                                 \/ \E i \in DOMAIN cs : cs[i].f = g /\ cs[i].e = V
      BY <1>0, <1>1, <1>10, <1>11, <1>13, CallsKept
    <2>2. Calls("vdec_stop", V)' => Calls("vdec_stop", V)
      BY <1>12, <2>1, SMT
    <2>3. est'[V] = est[V] /\ dec' = dec /\ vdec' = vdec
      BY <1>7
    <2>4. \/ Calls("vdec_stop", V) \/ vdec.stopping \/ est[V] \in {"STOPPED", "deleted"}
          \/ est[V] = "STOPPING" /\ ~dec.mVdecStopPending
          => ~dec.mInputMedia
      BY <1>0, Zenon DEF DecoderInv
    <2>. QED
      BY <1>9, <2>2, <2>3, <2>4, Zenon DEF DecoderInv
  <1>18. PortInv'
    <2>1. \A s \in Sinks : ~LosesChannel(s)
      BY <1>0, <1>1, <1>13, NotLosing
    <2>. QED
      BY <1>0, <1>7, <2>1, Zenon DEF PortInv
  <1>19. agenda' \in Seq(CallType)
    BY <1>0, <1>6, <1>10, <1>11, ThenAfter
  <1>. QED
    BY <1>14, <1>15, <1>16, <1>17, <1>18, <1>19, Zenon DEF OpenedInv

\* The last word is the notice at k, or there is none.
LEMMA LastSaysAt ==
  ASSUME NEW q, NEW on, NEW off, NEW e, NEW known, NEW truth, NEW k \in DOMAIN q,
         DOMAIN q \subseteq Nat,
         q[k].e = e, q[k].cb \in {on, off}, q[k].cb = on <=> truth,
         \A j \in DOMAIN q : j <= k \/ q[j].cb \notin {on, off} \/ q[j].e # e
  PROVE  LastSays(q, on, off, e, known, truth)
  <1>1. k \in Notices(q, on, off, e)
    BY Zenon DEF Notices
  <1>2. \A j \in Notices(q, on, off, e) : j <= k
    BY Zenon DEF Notices
  <1>. QED
    BY <1>1, <1>2, Zenon DEF LastSays

LEMMA LastSaysNone ==
  ASSUME NEW q, NEW on, NEW off, NEW e, NEW known, NEW truth, known <=> truth,
         \A j \in DOMAIN q : q[j].cb \notin {on, off} \/ q[j].e # e
  PROVE  LastSays(q, on, off, e, known, truth)
  <1>1. Notices(q, on, off, e) = {}
    BY Zenon DEF Notices
  <1>. QED
    BY <1>1, Zenon DEF LastSays

\* What the application is told by open().
Opened(q, v) ==
    /\ q \in Seq(IdleType)
    /\ \E n \in {3, 4} :
          /\ DOMAIN q = 1..n
          /\ q[n] = Idle("ready", None) /\ q[n - 1] = Idle("openResponse", None)
          /\ q[n - 2] = Idle("mediaAdded", D)
          /\ n = 4 => q[1] = Idle("mediaAdded", V)
          /\ v <=> n = 4

LEMMA OpenNotices ==
  /\ \A e \in Elements \cup {None} : \A cb : Idle(cb, e).cb = cb /\ Idle(cb, e).e = e
  /\ Idle("mediaAdded", D) \in IdleType /\ Idle("mediaAdded", V) \in IdleType
  /\ Idle("openResponse", None) \in IdleType /\ Idle("ready", None) \in IdleType
  <1>1. "openResponse" \in Answers /\ "ready" \in Answers /\ "mediaAdded" \in {"mediaAdded", "mediaRemoved"}
    BY SMT DEF Answers
  <1>2. \A e \in Elements \cup {None} : \A cb : Idle(cb, e).cb = cb /\ Idle(cb, e).e = e
    BY SMT DEF Idle
  <1>. QED
    BY <1>1, <1>2, NoticeTypes, Zenon

LEMMA OpenedThree ==
  Opened(<<Idle("mediaAdded", D), Idle("openResponse", None), Idle("ready", None)>>, FALSE)
  <1> DEFINE b == Idle("mediaAdded", D)
             c == Idle("openResponse", None)
             d == Idle("ready", None)
             q == <<b, c, d>>
  <1>1. b \in IdleType /\ c \in IdleType /\ d \in IdleType
    BY OpenNotices
  <1> HIDE DEF b, c, d
  <1>2. /\ q \in Seq(IdleType) /\ DOMAIN q = 1..3
        /\ q[3] = d /\ q[3 - 1] = c /\ q[3 - 2] = b
    BY <1>1, SMT
  <1> HIDE DEF q
  <1>3. 3 \in {3, 4} /\ 3 # 4
    BY SMT
  <1>4. Opened(q, FALSE)
    BY <1>2, <1>3, Zenon DEF Opened, b, c, d
  <1>. QED
    BY <1>4 DEF q, b, c, d

LEMMA OpenedFour ==
  Opened(<<Idle("mediaAdded", V)>>
         \o <<Idle("mediaAdded", D), Idle("openResponse", None), Idle("ready", None)>>, TRUE)
  <1> DEFINE a == Idle("mediaAdded", V)
             b == Idle("mediaAdded", D)
             c == Idle("openResponse", None)
             d == Idle("ready", None)
             p == <<a>>
             r == <<b, c, d>>
             q == p \o r
  <1>1. a \in IdleType /\ b \in IdleType /\ c \in IdleType /\ d \in IdleType
    BY OpenNotices
  <1> HIDE DEF a, b, c, d
  <1>2. /\ r \in Seq(IdleType) /\ Len(r) = 3
        /\ r[1] = b /\ r[2] = c /\ r[3] = d
    BY <1>1, SMT
  <1>3. p \in Seq(IdleType) /\ Len(p) = 1 /\ p[1] = a
    BY <1>1, SMT
  <1> HIDE DEF p, r
  <1>4. /\ q \in Seq(IdleType) /\ Len(q) = Len(p) + Len(r)
        /\ \A i \in 1..(Len(p) + Len(r)) : q[i] = IF i <= Len(p) THEN p[i] ELSE r[i - Len(p)]
    BY <1>2, <1>3, Concat, Zenon
  <1> HIDE DEF q
  <1>5. /\ DOMAIN q = 1..4 /\ q[1] = a /\ q[4 - 2] = b /\ q[4 - 1] = c /\ q[4] = d
    BY <1>2, <1>3, <1>4, SMT
  <1>6. 4 \in {3, 4}
    BY SMT
  <1>7. Opened(q, TRUE)
    BY <1>4, <1>5, <1>6, Zenon DEF Opened, a, b, c, d
  <1>. QED
    BY <1>7 DEF q, p, r, a, b, c, d

LEMMA OpenedSays ==
  ASSUME NEW q, NEW v \in BOOLEAN, Opened(q, v), NEW known
  PROVE  /\ LastSays(q, "ready", "notReady", None, known, TRUE)
         /\ LastSays(q, "mediaAdded", "mediaRemoved", D, known, TRUE)
         /\ LastSays(q, "mediaAdded", "mediaRemoved", V, FALSE, v)
         /\ \A i \in DOMAIN q : q[i].cb # "closeResponse"
  <1>1. PICK n \in {3, 4} :
          /\ DOMAIN q = 1..n
          /\ q[n] = Idle("ready", None) /\ q[n - 1] = Idle("openResponse", None)
          /\ q[n - 2] = Idle("mediaAdded", D)
          /\ n = 4 => q[1] = Idle("mediaAdded", V)
          /\ v <=> n = 4
    BY Zenon DEF Opened
  <1>2. D # V /\ D \in Elements \cup {None} /\ V \in Elements \cup {None}
        /\ None \in Elements \cup {None}
    BY Distinct, Zenon
  <1>3. /\ q[n].cb = "ready" /\ q[n].e = None
        /\ q[n - 1].cb = "openResponse"
        /\ q[n - 2].cb = "mediaAdded" /\ q[n - 2].e = D
        /\ n = 4 => q[1].cb = "mediaAdded" /\ q[1].e = V
    <2>1. /\ Idle("ready", None).cb = "ready" /\ Idle("ready", None).e = None
          /\ Idle("openResponse", None).cb = "openResponse"
          /\ Idle("mediaAdded", D).cb = "mediaAdded" /\ Idle("mediaAdded", D).e = D
          /\ Idle("mediaAdded", V).cb = "mediaAdded" /\ Idle("mediaAdded", V).e = V
      BY SMT DEF Idle
    <2>. QED
      BY <1>1, <2>1
  <1>4. \A j \in DOMAIN q : j = n \/ j = n - 1 \/ j = n - 2 \/ (n = 4 /\ j = 1)
    BY <1>1, SMT
  <1>5. /\ DOMAIN q \subseteq Nat /\ n \in DOMAIN q /\ n - 2 \in DOMAIN q /\ 1 \in DOMAIN q
        /\ \A j \in DOMAIN q : j <= n
    BY <1>1, SMT
  <1>6. LastSays(q, "ready", "notReady", None, known, TRUE)
    <2>1. q[n].cb \in {"ready", "notReady"} /\ (q[n].cb = "ready" <=> TRUE)
      BY <1>3
    <2>. QED
      BY <1>3, <1>5, <2>1, LastSaysAt
  <1>7. LastSays(q, "mediaAdded", "mediaRemoved", D, known, TRUE)
    <2>1. q[n - 2].cb \in {"mediaAdded", "mediaRemoved"} /\ (q[n - 2].cb = "mediaAdded" <=> TRUE)
      BY <1>3
    <2>2. \A j \in DOMAIN q : j <= n - 2 \/ q[j].cb \notin {"mediaAdded", "mediaRemoved"}
                              \/ q[j].e # D
      <3> SUFFICES ASSUME NEW j \in DOMAIN q, ~(j <= n - 2)
                   PROVE  q[j].cb \notin {"mediaAdded", "mediaRemoved"}
        OBVIOUS
      <3>1. j = n \/ j = n - 1
        BY <1>4, <1>5, SMT
      <3>. QED
        BY <1>3, <3>1
    <2> DEFINE k == n - 2
    <2>3. k \in DOMAIN q /\ q[k].e = D /\ q[k].cb \in {"mediaAdded", "mediaRemoved"}
          /\ (q[k].cb = "mediaAdded" <=> TRUE)
      BY <1>3, <1>5, <2>1
    <2>4. \A j \in DOMAIN q : j <= k \/ q[j].cb \notin {"mediaAdded", "mediaRemoved"}
                              \/ q[j].e # D
      BY <2>2
    <2> HIDE DEF k
    <2>. QED
      BY <1>5, <2>3, <2>4, LastSaysAt
  <1>8. LastSays(q, "mediaAdded", "mediaRemoved", V, FALSE, v)
    <2>1. ASSUME NEW j \in DOMAIN q, j # 1 \/ n # 4
          PROVE  q[j].cb \notin {"mediaAdded", "mediaRemoved"} \/ q[j].e # V
      <3>1. j = n \/ j = n - 1 \/ j = n - 2
        BY <1>4, <2>1, Zenon
      <3>. QED
        BY <1>2, <1>3, <3>1
    <2>2. CASE n = 4
      <3>1. q[1].cb \in {"mediaAdded", "mediaRemoved"} /\ q[1].e = V
            /\ (q[1].cb = "mediaAdded" <=> v)
        BY <1>1, <1>3, <2>2
      <3>2. \A j \in DOMAIN q : j <= 1 \/ q[j].cb \notin {"mediaAdded", "mediaRemoved"}
                                \/ q[j].e # V
        <4>1. 1 <= 1
          OBVIOUS
        <4>. QED
          BY <2>1, <4>1, Zenon
      <3>. QED
        BY <1>5, <3>1, <3>2, LastSaysAt
    <2>3. CASE n # 4
      <3>1. FALSE <=> v
        BY <1>1, <2>3
      <3>2. \A j \in DOMAIN q : q[j].cb \notin {"mediaAdded", "mediaRemoved"} \/ q[j].e # V
        BY <2>1, <2>3, Zenon
      <3>. QED
        BY <3>1, <3>2, LastSaysNone
    <2>. QED
      BY <2>2, <2>3
  <1>9. \A i \in DOMAIN q : q[i].cb # "closeResponse"
    <2> SUFFICES ASSUME NEW i \in DOMAIN q
                 PROVE  q[i].cb # "closeResponse"
      OBVIOUS
    <2>1. i = n \/ i = n - 1 \/ i = n - 2 \/ (n = 4 /\ i = 1)
      BY <1>4
    <2>. QED
      BY <1>3, <2>1, SMT
  <1>. QED
    BY <1>6, <1>7, <1>8, <1>9

\* A session that was just opened.
JustOpened ==
    /\ agenda = <<>> /\ mMbox = <<>> /\ mState = "OPENED" /\ mReadyToPlay = TRUE
    /\ est[D] = "STARTED" /\ \A s \in Sinks : est[s] = "none"
    /\ \A e \in Elements \ mElements : est[e] = "none"
    /\ est[V] \in {"none", "STARTING", "STARTED"}
    /\ dmxMedia /\ (dec.mOutputMedia => est[V] = "STARTED")
    /\ dec.mOutputMedia \in BOOLEAN /\ dec.out = <<>>
    /\ ~dec.mVdecStopPending /\ ~vdec.stopping /\ vdec.cb = "none"
    /\ \A s \in Sinks : link[s] = None /\ ~port[s] /\ ~sink[s].mVideoSinkListener
    /\ link[V] # V /\ (link[V] = D => Contains(dmxOut, V))
    /\ port[V] => dec.mInputMedia /\ est[V] # "none"
    /\ told.closed = 0 /\ appMedia = {} /\ Opened(idle, dec.mOutputMedia)

LEMMA JustOpenedKeeps ==
  ASSUME JustOpened'
  PROVE  OpenedInv'
  <1>1. (\A i \in DOMAIN agenda' : FALSE) /\ (\A i \in DOMAIN mMbox' : FALSE)
    <2>1. agenda' = <<>> /\ mMbox' = <<>>
      BY Zenon DEF JustOpened
    <2>. QED
      BY <2>1, SMT
  <1>2. /\ mState' = "OPENED" /\ mReadyToPlay' = TRUE /\ est'[D] = "STARTED"
        /\ \A s \in Sinks : est'[s] = "none"
        /\ \A e \in Elements \ mElements' : est'[e] = "none"
        /\ est'[V] \in {"none", "STARTING", "STARTED"}
        /\ dmxMedia' /\ (dec'.mOutputMedia => est'[V] = "STARTED")
        /\ dec'.mOutputMedia \in BOOLEAN /\ dec'.out = <<>>
        /\ ~dec'.mVdecStopPending /\ ~vdec'.stopping /\ vdec'.cb = "none"
        /\ \A s \in Sinks : link'[s] = None /\ ~port'[s] /\ ~sink'[s].mVideoSinkListener
        /\ link'[V] # V /\ (link'[V] = D => Contains(dmxOut', V))
        /\ port'[V] => dec'.mInputMedia /\ est'[V] # "none"
        /\ told'.closed = 0 /\ appMedia' = {} /\ Opened(idle', dec'.mOutputMedia)
    BY Zenon DEF JustOpened
  <1>3. /\ "OPENED" # "CLOSED" /\ "STARTED" \notin Gone /\ "none" # "STOPPING"
        /\ "OPENED" # "CLOSING"
        /\ est'[V] \notin {"STOPPED", "deleted"} /\ est'[V] # "STOPPING"
        /\ ~(vdec'.cb \in {"stop", "stopLoaded"})
    BY <1>2, SMT DEF Gone
  <1>4. LifeInv'
    <2>1. /\ est'[D] \in {"STARTED", "STOPPING", "STOPPED", "deleted"}
          /\ \A s \in Sinks : est'[s] \in {"none", "STARTED", "STOPPING", "STOPPED", "deleted"}
          /\ \A s \in Sinks : sink'[s].mVideoSinkListener => est'[s] = "STARTED"
          /\ \A e \in Elements \ mElements' : est'[e] \in {"none", "deleted"}
      BY <1>2
    <2>. QED
      BY <1>2, <1>3, <2>1, Zenon DEF LifeInv
  <1>5. StopCall' /\ StoppedCall' /\ UnlinkCall' /\ TeardownCall'
    BY <1>1, Zenon DEF StopCall, StoppedCall, UnlinkCall, TeardownCall
  <1>6. MediaInv'
    <2>1. /\ est'[D] \in Gone => ~dmxMedia'
          /\ est'[V] \in Gone => ~dec'.mOutputMedia
      BY <1>2, <1>3
    <2>2. /\ \A c \in SinkElements : link'[c] = D => Contains(dmxOut', c)
          /\ \A c \in SinkElements : link'[c] = V => Contains(dec'.out, c)
      <3>1. None # D /\ None # V
        BY Distinct
      <3>. QED
        BY <1>2, <3>1, Distinct, Zenon
    <2>. QED
      BY <1>2, <2>1, <2>2, Zenon DEF MediaInv, Gone
  <1>7. DecoderInv'
    <2>1. \A g : ~Calls(g, V)'
      BY <1>1, Zenon DEF Calls
    <2>2. ~(\E i \in DOMAIN mMbox' : mMbox'[i].cmd = "COMPLETE_STOP")
      BY <1>1
    <2>. QED
      BY <1>2, <1>3, <2>1, <2>2, Zenon DEF DecoderInv
  <1>8. PortInv'
    BY <1>2, Zenon DEF PortInv
  <1>9. NoticeInv'
    <2> DEFINE v == dec'.mOutputMedia
               q == idle'
    <2>1. v \in BOOLEAN /\ Opened(q, v)
      BY <1>2
    <2> HIDE DEF v, q
    <2>2. /\ LastSays(q, "mediaAdded", "mediaRemoved", V, FALSE, v)
          /\ \A i \in DOMAIN q : q[i].cb # "closeResponse"
      BY <2>1, OpenedSays
    <2>3. LastSays(q, "ready", "notReady", None, told'.ready, TRUE)
      BY <2>1, OpenedSays
    <2>4. LastSays(q, "mediaAdded", "mediaRemoved", D, FALSE, TRUE)
      BY <2>1, OpenedSays
    <2>5. dmxMedia' = TRUE \/ dmxMedia' # TRUE
      OBVIOUS
    <2>6. (D \in appMedia' <=> FALSE) /\ (V \in appMedia' <=> FALSE)
      BY <1>2
    <2>7. /\ LastSays(q, "ready", "notReady", None, told'.ready, mReadyToPlay')
          /\ LastSays(q, "mediaAdded", "mediaRemoved", D, D \in appMedia', dmxMedia')
          /\ LastSays(q, "mediaAdded", "mediaRemoved", V, V \in appMedia', v)
      <3>1. LastSays(q, "ready", "notReady", None, told'.ready, mReadyToPlay')
        BY <1>2, <2>3
      <3>2. LastSays(q, "mediaAdded", "mediaRemoved", D, D \in appMedia', dmxMedia')
        BY <1>2, <2>4, <2>6, Zenon DEF LastSays
      <3>3. LastSays(q, "mediaAdded", "mediaRemoved", V, V \in appMedia', v)
        BY <2>2, <2>6, Zenon DEF LastSays
      <3>. QED
        BY <3>1, <3>2, <3>3
    <2>8. ~(told'.closed > 0)
      BY <1>2, SMT
    <2>. QED
      BY <2>2, <2>7, <2>8, Zenon DEF NoticeInv, v, q
  <1>. QED
    BY <1>4, <1>5, <1>6, <1>7, <1>8, <1>9, Zenon DEF OpenedInv

\* The state of the elements before open().
LEMMA Before ==
  ASSUME Init
  PROVE  /\ agenda = <<>> /\ mMbox = <<>> /\ mState = "CREATED" /\ idle = <<>>
         /\ est = [e \in Elements |-> "none"]
         /\ \A e \in Elements : est[e] = "none"
         /\ \A c \in SinkElements : link[c] = None /\ port[c] = FALSE
         /\ link = [c \in SinkElements |-> None] /\ port = [c \in SinkElements |-> FALSE]
         /\ dmxOut = <<>> /\ dec \in DecType /\ dec.mOutputMedia = FALSE
         /\ dec.mInputMedia = FALSE /\ dec.out = <<>> /\ dec.mVdecStopPending = FALSE
         /\ vdec.stopping = FALSE /\ vdec.cb = "none"
         /\ \A s \in Sinks : sink[s].mVideoSinkListener = FALSE
         /\ told = [open |-> FALSE, closing |-> FALSE, closed |-> 0, ready |-> FALSE]
         /\ appMedia = {}
  <1>1. dec = NewDecoder /\ sink = [s \in Sinks |-> NewSink]
    BY Zenon DEF Init
  <1>2. /\ dec.mOutputMedia = FALSE /\ dec.mInputMedia = FALSE /\ dec.out = <<>>
        /\ dec.mVdecStopPending = FALSE
    BY <1>1, SMT DEF NewDecoder
  <1>3. dec \in DecType
    <2>1. <<>> \in Seq(Sinks) /\ 0 \in Int
      BY SMT
    <2>. QED
      BY <1>1, <2>1, Zenon DEF NewDecoder, DecType
  <1>4. \A s \in Sinks : sink[s].mVideoSinkListener = FALSE
    BY <1>1, SMT DEF NewSink
  <1>5. vdec.stopping = FALSE /\ vdec.cb = "none"
    <2>1. vdec = [flushing |-> FALSE, stopping |-> FALSE, busy |-> FALSE,
                  cb |-> "none", count |-> 0]
      BY Zenon DEF Init
    <2>. QED
      BY <2>1, SMT
  <1>6. /\ est = [e \in Elements |-> "none"]
        /\ link = [c \in SinkElements |-> None] /\ port = [c \in SinkElements |-> FALSE]
    BY Zenon DEF Init
  <1>7. /\ \A e \in Elements : est[e] = "none"
        /\ \A c \in SinkElements : link[c] = None /\ port[c] = FALSE
    BY <1>6, Zenon
  <1>. QED
    BY <1>2, <1>3, <1>4, <1>5, <1>6, <1>7, Zenon DEF Init

LEMMA OpenOkKeeps ==
  ASSUME Init, OpenOk
  PROVE  JustOpened'
  <1>0. /\ est = [e \in Elements |-> "none"]
        /\ \A c \in SinkElements : link[c] = None /\ port[c] = FALSE
        /\ link = [c \in SinkElements |-> None] /\ port = [c \in SinkElements |-> FALSE]
        /\ agenda = <<>> /\ mMbox = <<>> /\ dec \in DecType /\ dec.mOutputMedia = FALSE
        /\ dec.mInputMedia = FALSE /\ dec.out = <<>> /\ dec.mVdecStopPending = FALSE
        /\ vdec.stopping = FALSE /\ vdec.cb = "none"
        /\ \A s \in Sinks : sink[s].mVideoSinkListener = FALSE
        /\ told = [open |-> FALSE, closing |-> FALSE, closed |-> 0, ready |-> FALSE]
        /\ appMedia = {}
    BY Before
  <1>1. /\ mState' = "OPENED" /\ mReadyToPlay' = TRUE
        /\ mElements' = {D} \cup (IF DecodeAll THEN {V} ELSE {})
        /\ est' = [e \in Elements |-> IF e \in mElements' THEN "STARTED" ELSE "none"]
        /\ port' = [port EXCEPT ![V] = DecodeAll]
        /\ link' = [link EXCEPT ![V] = IF DecodeAll THEN D ELSE None]
        /\ dmxMedia' = TRUE /\ dmxOut' = (IF DecodeAll THEN <<V>> ELSE <<>>)
        /\ dec' = [dec EXCEPT !.mInputMedia = DecodeAll, !.mOutputMedia = DecodeAll]
        /\ idle' = (IF DecodeAll THEN <<Idle("mediaAdded", V)>> ELSE <<>>)
                   \o <<Idle("mediaAdded", D), Idle("openResponse", None),
                        Idle("ready", None)>>
        /\ told' = [told EXCEPT !.open = TRUE]
        /\ UNCHANGED <<agenda, mMbox, vdec, sink, appMedia>>
    BY Zenon DEF OpenOk
  <1>2. /\ D \in mElements' /\ (V \in mElements' <=> DecodeAll) /\ DecodeAll \in BOOLEAN
        /\ \A s \in Sinks : s \notin mElements'
    BY <1>1, Distinct, EventsOK, Zenon
  <1>3. /\ est'[D] = "STARTED" /\ \A s \in Sinks : est'[s] = "none"
        /\ \A e \in Elements \ mElements' : est'[e] = "none"
        /\ est'[V] = IF DecodeAll THEN "STARTED" ELSE "none"
    BY <1>1, <1>2, Distinct, Zenon
  <1>4. /\ dec'.mInputMedia = DecodeAll /\ dec'.mOutputMedia = DecodeAll
        /\ dec'.out = <<>> /\ dec'.mVdecStopPending = FALSE
    BY <1>0, <1>1, <1>2, Zenon DEF DecType
  <1>5. /\ \A s \in Sinks : link'[s] = None /\ port'[s] = FALSE
        /\ link'[V] = (IF DecodeAll THEN D ELSE None) /\ port'[V] = DecodeAll
    BY <1>0, <1>1, Distinct, Zenon
  <1>6. told'.closed = 0
    BY <1>0, <1>1, SMT
  <1>7. Opened(idle', DecodeAll)
    <2>1. CASE DecodeAll
      BY <1>1, <2>1, OpenedFour
    <2>2. CASE ~DecodeAll
      <3> DEFINE q == <<Idle("mediaAdded", D), Idle("openResponse", None), Idle("ready", None)>>
      <3>1. Opened(q, FALSE)
        BY OpenedThree
      <3> HIDE DEF q
      <3>2. q \in Seq(IdleType)
        BY <3>1, Zenon DEF Opened
      <3>3. idle' = <<>> \o q
        BY <1>1, <2>2 DEF q
      <3>4. idle' = q
        BY <3>2, <3>3, JoinNone
      <3>5. DecodeAll = FALSE
        BY <1>2, <2>2
      <3>. QED
        BY <3>1, <3>4, <3>5
    <2>. QED
      BY <2>1, <2>2
  <1>8. agenda' = <<>> /\ mMbox' = <<>> /\ vdec' = vdec /\ sink' = sink /\ appMedia' = {}
    BY <1>0, <1>1
  <1>9. link'[V] # V /\ (link'[V] = D => Contains(dmxOut', V))
    <2>1. CASE DecodeAll
      <3>1. link'[V] = D /\ dmxOut' = <<V>>
        BY <1>1, <1>5, <2>1
      <3>2. Contains(<<V>>, V)
        BY SMT DEF Contains
      <3>. QED
        BY <3>1, <3>2, Distinct
    <2>2. CASE ~DecodeAll
      <3>1. link'[V] = None
        BY <1>5, <2>2
      <3>. QED
        BY <3>1, Distinct
    <2>. QED
      BY <2>1, <2>2
  <1>10. /\ est'[V] \in {"none", "STARTING", "STARTED"}
         /\ dec'.mOutputMedia => est'[V] = "STARTED"
         /\ port'[V] => dec'.mInputMedia /\ est'[V] # "none"
         /\ dec'.mOutputMedia \in BOOLEAN /\ Opened(idle', dec'.mOutputMedia)
    <2>1. "STARTED" # "none"
      OBVIOUS
    <2>. QED
      BY <1>2, <1>3, <1>4, <1>5, <1>7, <2>1
  <1>11. ~vdec'.stopping /\ vdec'.cb = "none"
    BY <1>0, <1>8
  <1>12. \A s \in Sinks : link'[s] = None /\ ~port'[s] /\ ~sink'[s].mVideoSinkListener
    BY <1>0, <1>5, <1>8
  <1>. QED
    BY <1>1, <1>3, <1>4, <1>6, <1>8, <1>9, <1>10, <1>11, <1>12, Zenon DEF JustOpened

LEMMA OpenWithoutDecoderKeeps ==
  ASSUME Init, OpenWithoutDecoder
  PROVE  JustOpened'
  <1>0. /\ \A e \in Elements : est[e] = "none"
        /\ est = [e \in Elements |-> "none"]
        /\ \A c \in SinkElements : link[c] = None /\ port[c] = FALSE
        /\ port = [c \in SinkElements |-> FALSE]
        /\ agenda = <<>> /\ mMbox = <<>> /\ dec \in DecType /\ dec.mOutputMedia = FALSE
        /\ dec.out = <<>> /\ dec.mVdecStopPending = FALSE
        /\ vdec.stopping = FALSE /\ vdec.cb = "none"
        /\ \A s \in Sinks : sink[s].mVideoSinkListener = FALSE
        /\ told = [open |-> FALSE, closing |-> FALSE, closed |-> 0, ready |-> FALSE]
        /\ appMedia = {}
    BY Before
  <1>1. /\ mState' = "OPENED" /\ mReadyToPlay' = TRUE /\ mElements' = {D, V}
        /\ est' = [est EXCEPT ![D] = "STARTED", ![V] = "STARTING"]
        /\ port' = [port EXCEPT ![V] = TRUE]
        /\ dmxMedia' = TRUE /\ dec' = [dec EXCEPT !.mInputMedia = TRUE]
        /\ idle' = <<Idle("mediaAdded", D), Idle("openResponse", None), Idle("ready", None)>>
        /\ told' = [told EXCEPT !.open = TRUE]
        /\ UNCHANGED <<agenda, mMbox, link, vdec, sink, appMedia>>
    BY Zenon DEF OpenWithoutDecoder
  <1>2. /\ est'[D] = "STARTED" /\ est'[V] = "STARTING"
        /\ \A s \in Sinks : est'[s] = "none"
        /\ \A e \in Elements \ mElements' : est'[e] = "none"
    BY <1>0, <1>1, Distinct, Zenon
  <1>3. /\ dec'.mInputMedia = TRUE /\ dec'.mOutputMedia = FALSE
        /\ dec'.out = <<>> /\ dec'.mVdecStopPending = FALSE
    BY <1>0, <1>1, Zenon DEF DecType
  <1>4. \A s \in Sinks : port'[s] = FALSE
    BY <1>0, <1>1, Distinct, Zenon
  <1>5. told'.closed = 0
    BY <1>0, <1>1, SMT
  <1>6. Opened(idle', FALSE)
    BY <1>1, OpenedThree
  <1>7. agenda' = <<>> /\ mMbox' = <<>> /\ vdec' = vdec /\ sink' = sink /\ appMedia' = {}
        /\ link' = link
    BY <1>0, <1>1
  <1>8. link'[V] # V /\ link'[V] # D /\ \A s \in Sinks : link'[s] = None
    BY <1>0, <1>7, Distinct, Zenon
  <1>9. /\ est'[V] \in {"none", "STARTING", "STARTED"}
        /\ dec'.mOutputMedia => est'[V] = "STARTED"
        /\ port'[V] => dec'.mInputMedia /\ est'[V] # "none"
        /\ dec'.mOutputMedia \in BOOLEAN /\ Opened(idle', dec'.mOutputMedia)
    <2>1. "STARTING" # "none"
      OBVIOUS
    <2>. QED
      BY <1>2, <1>3, <1>6, <2>1
  <1>10. ~vdec'.stopping /\ vdec'.cb = "none"
    BY <1>0, <1>7
  <1>11. \A s \in Sinks : link'[s] = None /\ ~port'[s] /\ ~sink'[s].mVideoSinkListener
    BY <1>0, <1>4, <1>7, <1>8
  <1>. QED
    BY <1>1, <1>2, <1>3, <1>5, <1>7, <1>8, <1>9, <1>10, <1>11, Zenon DEF JustOpened

LEMMA OpenKeeps ==
  ASSUME Init, Open, mState' # "CREATED"
  PROVE  OpenedInv'
  <1>1. OpenOk \/ OpenWithoutDecoder
    <2>1. OpenFails => mState' = mState
      BY Zenon DEF OpenFails
    <2>. QED
      BY <2>1, Before, Zenon DEF Open
  <1>. QED
    BY <1>1, OpenOkKeeps, OpenWithoutDecoderKeeps, JustOpenedKeeps

\* The steps that are not plain.
LoudStep ==
    \/ \E c \in SinkElements : RemoveInputMedia(c) \/ DeleteChannel(c)
    \/ DmxStop \/ DmxOnChannelUnlink
    \/ DecStop \/ DecAfterFlush \/ DecTeardownOutputs \/ VdecStop \/ DecCompleteStop
    \/ DecOnChannelUnlink \/ StopCb \/ StopCbCount \/ StopCbStore
    \/ \E s \in Sinks : \/ SinkStop(s) \/ SinkTeardown(s) \/ SinkInputRemoved(s)
                        \/ SinkCompleteStop(s) \/ StartVideoSink(s) \/ StopVideoSink(s)
    \/ OnElementStopped \/ ListenerIdle \/ DeleteMessage \/ StopMessage

LEMMA AllSteps ==
  ASSUME TypeOK, [Next]_vars
  PROVE  PlainStep \/ LoudStep \/ Open \/ Close
  <1>0. mMbox \in Seq(MessageType)
    BY Zenon DEF TypeOK
  <1>1. ASSUME ChannelStep PROVE PlainStep \/ LoudStep
    BY <1>1, Zenon DEF ChannelStep, PlainStep, LoudStep
  <1>2. ASSUME DmxStep PROVE PlainStep \/ LoudStep
    BY <1>2, Zenon DEF DmxStep, PlainStep, LoudStep
  <1>3. ASSUME DecStep PROVE PlainStep \/ LoudStep
    BY <1>3, Zenon DEF DecStep, PlainStep, LoudStep
  <1>4. ASSUME SinkStep PROVE PlainStep \/ LoudStep
    BY <1>4, Zenon DEF SinkStep, PlainStep, LoudStep
  <1>5. ASSUME VdecCallback PROVE PlainStep \/ LoudStep
    BY <1>5, Zenon DEF VdecCallback, PlainStep, LoudStep
  <1>6. ASSUME IdleFunction PROVE PlainStep \/ LoudStep
    BY <1>6, Zenon DEF PlainStep, LoudStep, FlushIdle, ListenerIdle
  <1>7. ASSUME MboxMessage PROVE PlainStep \/ LoudStep
    <2>1. mMbox # <<>> /\ mMbox' = Tail(mMbox)
      BY <1>7, Zenon DEF MboxMessage
    <2>2. Head(mMbox) \in MessageType
      BY <1>0, <2>1, ShorterMbox
    <2>3. Head(mMbox).cmd \in {"COMPLETE_FLUSH", "COMPLETE_STOP", "RESYNC", "ELEMENT_DELETE"}
      BY <2>2, Messages
    <2>4. \/ Head(mMbox).cmd \in {"COMPLETE_FLUSH", "RESYNC"}
          \/ Head(mMbox).cmd = "ELEMENT_DELETE" \/ Head(mMbox).cmd = "COMPLETE_STOP"
      BY <2>3, Zenon
    <2>. QED
      BY <1>7, <2>4, Zenon DEF PlainStep, LoudStep, FlushMessage, DeleteMessage, StopMessage
  <1>8. ASSUME SessionStep PROVE PlainStep \/ LoudStep
    BY <1>6, <1>7, <1>8, Zenon DEF SessionStep, PlainStep, LoudStep
  <1>9. ASSUME LoopStep PROVE PlainStep \/ LoudStep
    <2>1. ASSUME RunIdle \/ RunMbox PROVE PlainStep
      BY <2>1, Zenon DEF PlainStep
    <2>. QED
      BY <1>1, <1>2, <1>3, <1>4, <1>8, <1>9, <2>1, Zenon DEF LoopStep, CallStep
  <1>10. ASSUME AppEvent PROVE PlainStep \/ LoudStep \/ Open \/ Close
    BY <1>10, Zenon DEF AppEvent, PlainStep, LoudStep
  <1>11. ASSUME TimerFrame \/ TimerNoBuffer \/ OutputError \/ UNCHANGED vars PROVE PlainStep
    BY <1>11, Zenon DEF PlainStep
  <1>. QED
    BY <1>5, <1>9, <1>10, <1>11, Zenon DEF Next

LEMMA LoudKeeps ==
  ASSUME TypeOK, OpenedInv, LoudStep
  PROVE  OpenedInv'
  BY RemoveInputMediaKeeps, DeleteChannelKeeps, DmxStopKeeps, DmxOnChannelUnlinkKeeps,
     DecStopKeeps, DecAfterFlushKeeps, DecTeardownOutputsKeeps, VdecStopKeeps,
     DecCompleteStopKeeps, DecOnChannelUnlinkKeeps, StopCbKeeps, SinkStopKeeps,
     SinkTeardownKeeps, SinkInputRemovedKeeps, SinkCompleteStopKeeps, StartVideoSinkKeeps,
     StopVideoSinkKeeps, OnElementStoppedKeeps, ListenerIdleKeeps, DeleteMessageKeeps,
     StopMessageKeeps, Zenon DEF LoudStep

\* Every step keeps what holds of a session that was opened.
LEMMA OpenedKept ==
  ASSUME TypeOK, AnswerInv, OpenedInv, mState # "CREATED", [Next]_vars
  PROVE  OpenedInv'
  <1>1. ~Open
    <2>1. Init \/ told.open
      BY Zenon DEF AnswerInv
    <2>2. ~Init
      BY Before
    <2>. QED
      BY <2>1, <2>2, Zenon DEF Open
  <1>2. PlainStep => OpenedInv'
    BY PlainSteps, PlainKeeps
  <1>3. LoudStep => OpenedInv'
    BY LoudKeeps
  <1>4. Close => OpenedInv'
    BY CloseKeeps
  <1>. QED
    BY <1>1, <1>2, <1>3, <1>4, AllSteps

-----------------------------------------------------------------------------
(* close() is answered once.                                               *)

\* Before open() nothing happens.
LEMMA FromInit ==
  ASSUME Init, [Next]_vars
  PROVE  Open \/ UNCHANGED vars
  <1>0. /\ agenda = <<>> /\ idle = <<>> /\ mMbox = <<>> /\ \A e \in Elements : est[e] = "none"
        /\ \A s \in Sinks : sink[s].mVideoSinkListener = FALSE
        /\ vdec.stopping = FALSE /\ vdec.cb = "none" /\ appMedia = {}
        /\ told.open = FALSE
    <2>1. told = [open |-> FALSE, closing |-> FALSE, closed |-> 0, ready |-> FALSE]
      BY Before
    <2>. QED
      BY <2>1, Before
  <1>1. mTimer = FALSE /\ mRunning = FALSE /\ appFlush = {} /\ vdec.flushing = FALSE
        /\ vdec.busy = FALSE
    <2>1. vdec = [flushing |-> FALSE, stopping |-> FALSE, busy |-> FALSE,
                  cb |-> "none", count |-> 0]
      BY Zenon DEF Init
    <2>2. vdec.flushing = FALSE /\ vdec.busy = FALSE
      BY <2>1, SMT
    <2>. QED
      BY <2>2, Zenon DEF Init
  <1>2. \A f, e : ~Runs(f, e)
    BY <1>0, Zenon DEF Runs
  <1>3. ~CallStep
    <2>1. ~ChannelStep
      BY <1>2, Zenon DEF ChannelStep, ChannelFlush, ChannelFlushDone, RemoveInputMedia,
         DeleteChannel
    <2>2. ~DmxStep
      BY <1>2, Zenon DEF DmxStep, DmxStop, DmxFlush, DmxFlushAt, DmxChannelCounted,
         DmxOnChannelFlushed, DmxChannelFlushed, DmxOnChannelUnlink
    <2>3. ~DecStep
      BY <1>2, Zenon DEF DecStep, DecStop, DecOnChannelFlush, DecFlush, VdecFlush,
         DecCompleteFlush, DecAfterFlush, DecTeardownOutputs, VdecStop, DecCompleteStop,
         DecOnChannelFlushed, DecOnChannelUnlink, DecResync
    <2>4. ~SinkStep
      BY <1>2, Zenon DEF SinkStep, SinkStop, SinkTeardown, SinkInputRemoved,
         SinkOnChannelFlush, SinkFlush, SinkFlushDone, SinkCompleteStop
    <2>5. ~SessionStep
      BY <1>2, Zenon DEF SessionStep, IdleFunction, MboxMessage, EventDone, OnElementStopped
    <2>. QED
      BY <2>1, <2>2, <2>3, <2>4, <2>5, Zenon DEF CallStep
  <1>4. ~RunIdle /\ ~RunMbox
    BY <1>0, Zenon DEF RunIdle, RunMbox
  <1>5. ~TimerFrame /\ ~TimerNoBuffer /\ ~OutputError
    BY <1>1, Zenon DEF TimerFrame, TimerNoBuffer, OutputError
  <1>6. ~VdecCallback
    <2>1. /\ vdec.cb # "flush" /\ vdec.cb # "stop" /\ vdec.cb # "stopLoaded"
          /\ vdec.cb # "output"
      BY <1>0, SMT
    <2>. QED
      BY <1>0, <1>1, <2>1, Zenon DEF VdecCallback, FlushCb, FlushCbPost, StopCb, StopCbCount,
         StopCbLoad, StopCbStore, OutputCb, OutputCbQueue
  <1>7. /\ ~Close /\ ~Play
        /\ \A s \in Sinks : ~StartVideoSink(s) /\ ~StopVideoSink(s)
                            /\ ~VideoSinkQueueFlushed(s) /\ ~ResyncVideoSink(s)
    <2>1. "none" # "STARTED"
      OBVIOUS
    <2>2. \A e \in Elements : est[e] # "STARTED"
      BY <1>0, <2>1
    <2>3. ~Close /\ ~Play
      BY <1>0, <2>2, Distinct, Zenon DEF Close, Play
    <2>4. ASSUME NEW s \in Sinks
          PROVE  ~StartVideoSink(s) /\ ~StopVideoSink(s)
                 /\ ~VideoSinkQueueFlushed(s) /\ ~ResyncVideoSink(s)
      <3>1. ~StartVideoSink(s)
        BY <1>0, SMT DEF StartVideoSink
      <3>2. ~StopVideoSink(s)
        BY <1>0, Zenon DEF StopVideoSink
      <3>3. ~VideoSinkQueueFlushed(s)
        BY <1>1, SMT DEF VideoSinkQueueFlushed
      <3>4. ~ResyncVideoSink(s)
        BY <2>2, Distinct, Zenon DEF ResyncVideoSink
      <3>. QED
        BY <3>1, <3>2, <3>3, <3>4
    <2>. QED
      BY <2>3, <2>4
  <1>. QED
    BY <1>3, <1>4, <1>5, <1>6, <1>7, Zenon DEF Next, LoopStep, AppEvent

\* What a loud step tells the application.
LEMMA LoudTells ==
  ASSUME TypeOK, LoudStep
  PROVE  \/ /\ UNCHANGED <<mState, told>>
            /\ \/ UNCHANGED idle
               \/ \E n \in IdleType : /\ n.cb # "closeResponse" /\ idle' = Append(idle, n)
                                      /\ n.cb \in {"ready", "notReady"} => mReadyToPlay
         \/ OnElementStopped \/ ListenerIdle
  <1> DEFINE Told == /\ UNCHANGED <<mState, told>>
                     /\ \/ UNCHANGED idle
                        \/ \E n \in IdleType :
                              /\ n.cb # "closeResponse" /\ idle' = Append(idle, n)
                              /\ n.cb \in {"ready", "notReady"} => mReadyToPlay
  <1>1. ASSUME NEW c \in SinkElements, RemoveInputMedia(c) \/ DeleteChannel(c)
        PROVE  Told
    BY <1>1, Zenon DEF RemoveInputMedia, DeleteChannel, otherThanChannels, sessionVars, appVars
  <1>2. /\ Idle("notReady", None) \in IdleType /\ Idle("notReady", None).cb # "closeResponse"
        /\ \A e \in {D, V} : /\ Idle("mediaRemoved", e) \in IdleType
                             /\ Idle("mediaRemoved", e).cb # "closeResponse"
                             /\ Idle("mediaRemoved", e).cb \notin {"ready", "notReady"}
    <2>1. "notReady" \in Answers /\ "mediaRemoved" \in {"mediaAdded", "mediaRemoved"}
      BY SMT DEF Answers
    <2>2. /\ Idle("notReady", None).cb # "closeResponse"
          /\ \A e \in {D, V} : /\ Idle("mediaRemoved", e).cb # "closeResponse"
                               /\ Idle("mediaRemoved", e).cb \notin {"ready", "notReady"}
      BY SMT DEF Idle
    <2>. QED
      BY <2>1, <2>2, NoticeTypes, Zenon
  <1>3. ASSUME DmxStop
        PROVE  Told
    <2>1. UNCHANGED <<mState, told>>
      BY <1>3, Zenon DEF DmxStop, otherThanDmx, appVars
    <2>2. idle' = idle \/ (mReadyToPlay /\ idle' = Append(idle, Idle("notReady", None)))
      BY <1>3, Zenon DEF DmxStop
    <2>. QED
      BY <1>2, <2>1, <2>2, Zenon
  <1>4. ASSUME DmxOnChannelUnlink
        PROVE  Told
    <2>1. UNCHANGED <<mState, told>>
      BY <1>4, Zenon DEF DmxOnChannelUnlink, otherThanDmx, appVars
    <2>2. idle' = idle \/ idle' = Append(idle, Idle("mediaRemoved", D))
      BY <1>4, Zenon DEF DmxOnChannelUnlink, IdleAdd
    <2>. QED
      BY <1>2, <2>1, <2>2, Zenon
  <1>5. ASSUME DecCompleteStop
        PROVE  Told
    <2>1. UNCHANGED <<mState, told>>
      BY <1>5, Zenon DEF DecCompleteStop, otherThanDec, sessionVars, appVars
    <2>2. idle' = idle \/ idle' = Append(idle, Idle("mediaRemoved", V))
      BY <1>5, Zenon DEF DecCompleteStop, IdleAdd
    <2>. QED
      BY <1>2, <2>1, <2>2, Zenon
  <1>6. ASSUME DecStop \/ DecAfterFlush \/ DecTeardownOutputs \/ VdecStop \/ DecOnChannelUnlink
        PROVE  Told
    BY <1>6, Zenon DEF DecStop, DecAfterFlush, DecTeardownOutputs, VdecStop,
       DecOnChannelUnlink, otherThanDec, sessionVars, appVars
  <1>7. ASSUME StopCb \/ StopCbCount \/ StopCbStore
        PROVE  Told
    BY <1>7, Zenon DEF StopCb, StopCbCount, StopCbStore, otherThanVdec, otherThanDec,
       sessionVars, appVars
  <1>8. ASSUME NEW s \in Sinks,
               SinkStop(s) \/ SinkTeardown(s) \/ SinkInputRemoved(s) \/ SinkCompleteStop(s)
        PROVE  Told
    BY <1>8, Zenon DEF SinkStop, SinkTeardown, SinkInputRemoved, SinkCompleteStop,
       otherThanSinks, sessionVars, appVars
  <1>9. ASSUME NEW s \in Sinks, StartVideoSink(s) \/ StopVideoSink(s)
        PROVE  Told
    BY <1>9, Zenon DEF StartVideoSink, StopVideoSink, sessionVars, appVars
  <1>10. ASSUME DeleteMessage \/ StopMessage
         PROVE  Told
    <2>1. MboxMessage
      BY <1>10, Zenon DEF DeleteMessage, StopMessage
    <2>. QED
      BY <2>1, Zenon DEF MboxMessage, ElementDelete, sessionVars, appVars
  <1>. QED
    BY <1>1, <1>3, <1>4, <1>5, <1>6, <1>7, <1>8, <1>9, <1>10, Zenon DEF LoudStep

LEMMA AnswerParts ==
  ASSUME AnswerInv
  PROVE  /\ told.open \/ Init
         /\ mState \in {"OPENED", "CLOSING"} \/ (mState = "CREATED" /\ ~told.closing) =>
                told.closed = 0 /\ \A i \in DOMAIN idle : idle[i].cb # "closeResponse"
         /\ mState \in {"CLOSING", "CLOSED"} => told.closing
         /\ told.closed > 0 =>
                told.closed = 1 /\ \A i \in DOMAIN idle : idle[i].cb # "closeResponse"
         /\ \A i, j \in DOMAIN idle :
                idle[i].cb = "closeResponse" /\ idle[j].cb = "closeResponse" => i = j
  BY Zenon DEF AnswerInv

\* A notice that does not answer close().
LEMMA AnswerOther ==
  ASSUME idle \in Seq(IdleType), NEW n \in IdleType, n.cb # "closeResponse",
         idle' = Append(idle, n)
  PROVE  /\ (\A i \in DOMAIN idle : idle[i].cb # "closeResponse") =>
                \A i \in DOMAIN idle' : idle'[i].cb # "closeResponse"
         /\ (\A i, j \in DOMAIN idle :
                idle[i].cb = "closeResponse" /\ idle[j].cb = "closeResponse" => i = j) =>
                \A i, j \in DOMAIN idle' :
                   idle'[i].cb = "closeResponse" /\ idle'[j].cb = "closeResponse" => i = j
  <1>1. /\ \A i \in DOMAIN idle : i \in DOMAIN idle' /\ idle'[i] = idle[i]
        /\ \A i \in DOMAIN idle' : i \in DOMAIN idle \/ i = Len(idle) + 1
        /\ idle'[Len(idle) + 1] = n
    BY AppendContains
  <1>2. \A i \in DOMAIN idle' : idle'[i].cb = "closeResponse" =>
           i \in DOMAIN idle /\ idle[i].cb = "closeResponse"
    <2> SUFFICES ASSUME NEW i \in DOMAIN idle', idle'[i].cb = "closeResponse"
                 PROVE  i \in DOMAIN idle /\ idle[i].cb = "closeResponse"
      OBVIOUS
    <2>1. CASE i \in DOMAIN idle
      BY <1>1, <2>1
    <2>2. CASE i \notin DOMAIN idle
      BY <1>1, <2>2
    <2>. QED
      BY <2>1, <2>2
  <1>. QED
    BY <1>2, Zenon

LEMMA AnswerPosted ==
  ASSUME idle \in Seq(IdleType), NEW n \in IdleType, n.cb # "closeResponse",
         idle' = Append(idle, n), UNCHANGED <<mState, told>>, told.open, AnswerInv
  PROVE  AnswerInv'
  <1>1. /\ (\A i \in DOMAIN idle : idle[i].cb # "closeResponse") =>
               \A i \in DOMAIN idle' : idle'[i].cb # "closeResponse"
        /\ (\A i, j \in DOMAIN idle :
               idle[i].cb = "closeResponse" /\ idle[j].cb = "closeResponse" => i = j) =>
               \A i, j \in DOMAIN idle' :
                  idle'[i].cb = "closeResponse" /\ idle'[j].cb = "closeResponse" => i = j
    BY AnswerOther
  <1>. QED
    BY <1>1, AnswerParts, Zenon DEF AnswerInv

\* The answer, when there was none.
LEMMA AnswerGiven ==
  ASSUME idle \in Seq(IdleType), IdleAdd("closeResponse", None),
         \A i \in DOMAIN idle : idle[i].cb # "closeResponse"
  PROVE  \A i, j \in DOMAIN idle' :
            idle'[i].cb = "closeResponse" /\ idle'[j].cb = "closeResponse" => i = j
  <1> DEFINE n == Idle("closeResponse", None)
  <1>1. n \in IdleType
    <2>1. "closeResponse" \in Answers
      BY SMT DEF Answers
    <2>. QED
      BY <2>1, NoticeTypes
  <1>2. idle' = Append(idle, n)
    BY Zenon DEF IdleAdd
  <1> HIDE DEF n
  <1>3. /\ \A i \in DOMAIN idle : idle'[i] = idle[i]
        /\ \A i \in DOMAIN idle' : i \in DOMAIN idle \/ i = Len(idle) + 1
    BY <1>1, <1>2, AppendContains
  <1>4. \A i \in DOMAIN idle' : idle'[i].cb = "closeResponse" => i = Len(idle) + 1
    BY <1>3, Zenon
  <1>. QED
    BY <1>4

LEMMA OnElementStoppedAnswers ==
  ASSUME TypeOK, AnswerInv, told.open, OnElementStopped
  PROVE  AnswerInv'
  <1>0. idle \in Seq(IdleType) /\ told.closed \in Nat
    BY Zenon DEF TypeOK
  <1>1. UNCHANGED told
    BY Zenon DEF OnElementStopped, appVars
  <1>2. CASE UNCHANGED <<mState, idle>>
    <2>1. SameIdle /\ UNCHANGED <<mState, told>>
      BY <1>1, <1>2, Untouched
    <2>. QED
      BY <1>0, <2>1, AnswerFrame
  <1>3. CASE mState = "CLOSING" /\ mState' = "CLOSED" /\ IdleAdd("closeResponse", None)
    <2>1. /\ told.closed = 0 /\ told.closing
          /\ \A i \in DOMAIN idle : idle[i].cb # "closeResponse"
      BY <1>3, AnswerParts, SMT
    <2>2. \A i, j \in DOMAIN idle' :
             idle'[i].cb = "closeResponse" /\ idle'[j].cb = "closeResponse" => i = j
      BY <1>0, <1>3, <2>1, AnswerGiven
    <2>3. ~(told.closed > 0)
      BY <2>1, SMT
    <2>4. mState' \notin {"OPENED", "CLOSING"} /\ mState' # "CREATED"
      BY <1>3, SMT
    <2>5. told' = told
      BY <1>1
    <2>. QED
      BY <2>1, <2>2, <2>3, <2>4, <2>5, Zenon DEF AnswerInv
  <1>. QED
    BY <1>2, <1>3, Zenon DEF OnElementStopped

LEMMA ListenerIdleAnswers ==
  ASSUME TypeOK, AnswerInv, told.open, ListenerIdle
  PROVE  AnswerInv'
  <1>0. idle \in Seq(IdleType) /\ told.closed \in Nat
    BY Zenon DEF TypeOK
  <1>1. /\ idle # <<>> /\ idle' = Tail(idle)
        /\ told'.closed = IF Head(idle).cb = "closeResponse" THEN told.closed + 1 ELSE told.closed
        /\ told'.open = told.open /\ told'.closing = told.closing
        /\ UNCHANGED mState
    BY Heard, Zenon DEF sessionVars
  <1>2. /\ \A i \in DOMAIN idle' : i + 1 \in DOMAIN idle /\ idle'[i] = idle[i + 1] /\ i \in Nat /\ i > 0
        /\ 1 \in DOMAIN idle /\ Head(idle) = idle[1]
    BY <1>0, <1>1, TailOfSeq
  <1>3. (\A i \in DOMAIN idle : idle[i].cb # "closeResponse") =>
           /\ told'.closed = told.closed
           /\ \A i \in DOMAIN idle' : idle'[i].cb # "closeResponse"
    BY <1>1, <1>2
  <1>4. \A i, j \in DOMAIN idle :
           idle[i].cb = "closeResponse" /\ idle[j].cb = "closeResponse" => i = j
    BY AnswerParts
  <1>5. \A i, j \in DOMAIN idle' :
           idle'[i].cb = "closeResponse" /\ idle'[j].cb = "closeResponse" => i = j
    <2> SUFFICES ASSUME NEW i \in DOMAIN idle', NEW j \in DOMAIN idle',
                        idle'[i].cb = "closeResponse", idle'[j].cb = "closeResponse"
                 PROVE  i = j
      OBVIOUS
    <2>1. i + 1 \in DOMAIN idle /\ j + 1 \in DOMAIN idle
          /\ idle[i + 1].cb = "closeResponse" /\ idle[j + 1].cb = "closeResponse"
      BY <1>2
    <2>2. i + 1 = j + 1
      BY <1>4, <2>1
    <2>. QED
      BY <1>2, <2>2, SMT
  <1>6. mState' \in {"OPENED", "CLOSING"} \/ (mState' = "CREATED" /\ ~told'.closing) =>
           told'.closed = 0 /\ \A i \in DOMAIN idle' : idle'[i].cb # "closeResponse"
    <2>1. mState \in {"OPENED", "CLOSING"} \/ (mState = "CREATED" /\ ~told.closing) =>
             told.closed = 0 /\ \A i \in DOMAIN idle : idle[i].cb # "closeResponse"
      BY AnswerParts
    <2>. QED
      BY <1>1, <1>3, <2>1
  <1>7. told'.closed > 0 =>
           told'.closed = 1 /\ \A i \in DOMAIN idle' : idle'[i].cb # "closeResponse"
    <2> SUFFICES ASSUME told'.closed > 0
                 PROVE  told'.closed = 1 /\ \A i \in DOMAIN idle' : idle'[i].cb # "closeResponse"
      OBVIOUS
    <2>0. told.closed > 0 =>
             told.closed = 1 /\ \A i \in DOMAIN idle : idle[i].cb # "closeResponse"
      BY AnswerParts
    <2>1. CASE told.closed > 0
      BY <1>3, <2>0, <2>1
    <2>2. CASE ~(told.closed > 0)
      <3>1. told.closed = 0
        BY <1>0, <2>2, SMT
      <3>2. Head(idle).cb = "closeResponse" /\ told'.closed = 1
        BY <1>1, <3>1, SMT
      <3>3. ASSUME NEW i \in DOMAIN idle', idle'[i].cb = "closeResponse"
            PROVE  FALSE
        <4>1. i + 1 \in DOMAIN idle /\ idle[i + 1].cb = "closeResponse"
              /\ 1 \in DOMAIN idle /\ idle[1].cb = "closeResponse"
          BY <1>2, <3>2, <3>3
        <4>2. i + 1 = 1
          BY <1>4, <4>1
        <4>. QED
          BY <1>2, <4>2, SMT
      <3>. QED
        BY <3>2, <3>3
    <2>. QED
      BY <2>1, <2>2
  <1>8. told'.open /\ (mState' \in {"CLOSING", "CLOSED"} => told'.closing)
    BY <1>1, AnswerParts
  <1>. QED
    BY <1>5, <1>6, <1>7, <1>8, Zenon DEF AnswerInv

LEMMA CloseAnswers ==
  ASSUME TypeOK, AnswerInv, Close
  PROVE  AnswerInv'
  <1>0. /\ idle \in Seq(IdleType) /\ mState \in {"CREATED", "OPENED", "CLOSING", "CLOSED"}
        /\ told \in [open : BOOLEAN, closing : BOOLEAN, closed : Nat, ready : BOOLEAN]
    BY Zenon DEF TypeOK
  <1>1. /\ told.open /\ ~told.closing /\ told' = [told EXCEPT !.closing = TRUE]
        /\ IF mState # "OPENED"
           THEN IdleAdd("closeResponse", None) /\ UNCHANGED <<agenda, mState, mReadyToPlay>>
           ELSE /\ mState' = "CLOSING"
                /\ idle' = IF mReadyToPlay THEN Append(idle, Idle("notReady", None)) ELSE idle
    BY Zenon DEF Close
  <1>2. told'.open /\ told'.closing /\ told'.closed = told.closed
    BY <1>0, <1>1, Zenon
  <1>3. /\ mState \in {"CREATED", "OPENED"} /\ told.closed = 0
        /\ \A i \in DOMAIN idle : idle[i].cb # "closeResponse"
    BY <1>0, <1>1, AnswerParts, SMT
  <1>4. ~(told'.closed > 0) /\ told'.closed = 0
    BY <1>2, <1>3, SMT
  <1>5. CASE mState # "OPENED"
    <2>1. mState' = "CREATED" /\ IdleAdd("closeResponse", None)
      BY <1>1, <1>3, <1>5
    <2>2. \A i, j \in DOMAIN idle' :
             idle'[i].cb = "closeResponse" /\ idle'[j].cb = "closeResponse" => i = j
      BY <1>0, <1>3, <2>1, AnswerGiven
    <2>3. mState' \notin {"OPENED", "CLOSING"} /\ mState' \notin {"CLOSING", "CLOSED"}
      BY <2>1, SMT
    <2>. QED
      BY <1>2, <1>4, <2>2, <2>3, Zenon DEF AnswerInv
  <1>6. CASE mState = "OPENED"
    <2>1. \A i \in DOMAIN idle' : idle'[i].cb # "closeResponse"
      <3>1. CASE mReadyToPlay
        <4> DEFINE n == Idle("notReady", None)
        <4>1. n \in IdleType /\ n.cb # "closeResponse"
          <5>1. "notReady" \in Answers
            BY SMT DEF Answers
          <5>2. n.cb # "closeResponse"
            BY SMT DEF Idle
          <5>. QED
            BY <5>1, <5>2, NoticeTypes
        <4>2. idle' = Append(idle, n)
          BY <1>1, <1>6, <3>1
        <4> HIDE DEF n
        <4>. QED
          BY <1>0, <1>3, <4>1, <4>2, AnswerOther
      <3>2. CASE ~mReadyToPlay
        BY <1>1, <1>3, <1>6, <3>2
      <3>. QED
        BY <3>1, <3>2
    <2>. QED
      BY <1>2, <1>4, <2>1, Zenon DEF AnswerInv
  <1>. QED
    BY <1>5, <1>6

LEMMA OpenAnswers ==
  ASSUME Init, Open
  PROVE  AnswerInv'
  <1>1. told = [open |-> FALSE, closing |-> FALSE, closed |-> 0, ready |-> FALSE]
        /\ mState = "CREATED"
    BY Before
  <1>2. told' = [told EXCEPT !.open = TRUE]
    BY Zenon DEF Open, OpenOk, OpenWithoutDecoder, OpenFails
  <1>3. told'.open /\ told'.closing = FALSE /\ told'.closed = 0 /\ ~(told'.closed > 0)
    BY <1>1, <1>2, SMT
  <1>4. mState' \notin {"CLOSING", "CLOSED"}
    <2>1. mState' = "OPENED" \/ mState' = mState
      BY Zenon DEF Open, OpenOk, OpenWithoutDecoder, OpenFails
    <2>. QED
      BY <1>1, <2>1, SMT
  <1>5. \A i \in DOMAIN idle' : idle'[i].cb # "closeResponse"
    <2>1. CASE OpenOk \/ OpenWithoutDecoder
      <3>1. JustOpened'
        BY <2>1, OpenOkKeeps, OpenWithoutDecoderKeeps
      <3> DEFINE q == idle'
                 v == dec'.mOutputMedia
      <3>2. v \in BOOLEAN /\ Opened(q, v)
        BY <3>1, Zenon DEF JustOpened
      <3> HIDE DEF q, v
      <3>3. \A i \in DOMAIN q : q[i].cb # "closeResponse"
        BY <3>2, OpenedSays
      <3>. QED
        BY <3>3 DEF q
    <2>2. CASE OpenFails
      <3>1. idle' = <<Idle("mediaAdded", V), Idle("mediaAdded", D)>>
        BY <2>2, Zenon DEF OpenFails
      <3>2. Idle("mediaAdded", V).cb # "closeResponse" /\ Idle("mediaAdded", D).cb # "closeResponse"
        BY SMT DEF Idle
      <3>. QED
        BY <3>1, <3>2, SMT
    <2>. QED
      BY <2>1, <2>2, Zenon DEF Open
  <1>. QED
    BY <1>3, <1>4, <1>5, Zenon DEF AnswerInv

LEMMA AnswerKept ==
  ASSUME TypeOK, AnswerInv, [Next]_vars
  PROVE  AnswerInv'
  <1>0. idle \in Seq(IdleType)
    BY Zenon DEF TypeOK
  <1>1. CASE UNCHANGED vars
    <2>1. Init => Init'
      BY <1>1, Zenon DEF Init, vars, sessionVars, chanVars, dmxVars, appVars, counters
    <2>2. UNCHANGED <<told, mState, idle>>
      BY <1>1, Zenon DEF vars, sessionVars, appVars
    <2>. QED
      BY <2>1, <2>2, Zenon DEF AnswerInv
  <1>2. CASE Init /\ Open
    BY <1>2, OpenAnswers
  <1>3. CASE told.open /\ ~Open
    <2>1. PlainStep => AnswerInv'
      <3>1. PlainStep => SameIdle /\ UNCHANGED <<mState, told>>
        BY PlainSteps, Zenon DEF Plain, sameVars
      <3>. QED
        BY <1>0, <1>3, <3>1, AnswerFrame
    <2>2. LoudStep => AnswerInv'
      <3>1. SUFFICES ASSUME LoudStep PROVE AnswerInv'
        OBVIOUS
      <3>2. CASE UNCHANGED <<mState, told>> /\ UNCHANGED idle
        <4>1. SameIdle /\ UNCHANGED <<mState, told>>
          BY <3>2, Untouched
        <4>. QED
          BY <1>0, <1>3, <4>1, AnswerFrame
      <3>3. CASE /\ UNCHANGED <<mState, told>>
                 /\ \E n \in IdleType : n.cb # "closeResponse" /\ idle' = Append(idle, n)
        <4>1. PICK n \in IdleType : n.cb # "closeResponse" /\ idle' = Append(idle, n)
          BY <3>3
        <4>. QED
          BY <1>0, <1>3, <3>3, <4>1, AnswerPosted
      <3>4. CASE OnElementStopped
        BY <1>3, <3>4, OnElementStoppedAnswers
      <3>5. CASE ListenerIdle
        BY <1>3, <3>5, ListenerIdleAnswers
      <3>6. \/ /\ UNCHANGED <<mState, told>>
               /\ \/ UNCHANGED idle
                  \/ \E n \in IdleType : n.cb # "closeResponse" /\ idle' = Append(idle, n)
            \/ OnElementStopped \/ ListenerIdle
        BY <3>1, LoudTells, Zenon
      <3>. QED
        BY <3>2, <3>3, <3>4, <3>5, <3>6
    <2>3. Close => AnswerInv'
      BY CloseAnswers
    <2>. QED
      BY <1>3, <2>1, <2>2, <2>3, AllSteps
  <1>4. told.open => ~Open
    BY Zenon DEF Open
  <1>. QED
    BY <1>1, <1>2, <1>3, <1>4, AnswerParts, FromInit

-----------------------------------------------------------------------------
(* Types.                                                                  *)

LEMMA ThenNone ==
  ASSUME agenda \in Seq(CallType), agenda # <<>>, Return
  PROVE  agenda' \in Seq(CallType)
  BY Chains, ThenAfter, Zenon DEF Return

LEMMA ThenOne ==
  ASSUME agenda \in Seq(CallType), agenda # <<>>, NEW x \in CallType, Then(<<x>>)
  PROVE  agenda' \in Seq(CallType)
  <1>1. <<x>> \in Seq(CallType)
    BY Chains
  <1>. QED
    BY <1>1, ThenAfter

LEMMA ThenTwo ==
  ASSUME agenda \in Seq(CallType), agenda # <<>>, NEW x \in CallType, NEW y \in CallType,
         Then(<<x, y>>)
  PROVE  agenda' \in Seq(CallType)
  <1>1. <<x, y>> \in Seq(CallType)
    BY Chains
  <1>. QED
    BY <1>1, ThenAfter

\* One call, after another that not every step makes.
LEMMA ThenMaybe ==
  ASSUME agenda \in Seq(CallType), agenda # <<>>, NEW p \in BOOLEAN,
         NEW x, p => x \in CallType, NEW y \in CallType,
         Then((IF p THEN <<x>> ELSE <<>>) \o <<y>>)
  PROVE  agenda' \in Seq(CallType)
  <1>1. CASE p
    <2>1. <<x>> \o <<y>> = <<x, y>> /\ x \in CallType
      BY <1>1, JoinOne
    <2>. QED
      BY <1>1, <2>1, ThenTwo
  <1>2. CASE ~p
    <2>1. <<>> \o <<y>> = <<y>>
      <3>1. <<y>> \in Seq(CallType)
        BY Chains
      <3>. QED
        BY <3>1, JoinNone
    <2>. QED
      BY <1>2, <2>1, ThenOne
  <1>. QED
    BY <1>1, <1>2

\* The calls of the loud steps.
LEMMA LoudCallsTyped ==
  ASSUME TypeOK, LoudStep
  PROVE  agenda' \in Seq(CallType)
  <1>0. /\ agenda \in Seq(CallType) /\ dec \in DecType
        /\ link \in [SinkElements -> {D, V, None}] /\ sink \in [Sinks -> SinkType]
    BY Zenon DEF TypeOK
  <1>1. \A f, e : Runs(f, e) => agenda # <<>>
    BY Zenon DEF Runs
  <1>2. ASSUME NEW c \in SinkElements, RemoveInputMedia(c)
        PROVE  agenda' \in Seq(CallType)
    <2> DEFINE p == link[c] # None
               x == CallOn("onChannelUnlink", link[c], c)
               y == Call("deleteChannel", c)
    <2>1. Then((IF link[c] = None THEN <<>> ELSE <<x>>) \o <<y>>) /\ agenda # <<>>
      BY <1>1, <1>2, Zenon DEF RemoveInputMedia
    <2>2. y \in CallType
      BY TypedOfChannel
    <2>3. link[c] # None => x \in CallType
      <3>1. link[c] # None => link[c] \in {D, V}
        BY <1>0, Zenon
      <3>. QED
        BY <3>1, TypedUpstream
    <2> HIDE DEF x, y
    <2>4. CASE link[c] = None
      <3>1. Then(<<>> \o <<y>>)
        BY <2>1, <2>4
      <3>2. <<>> \o <<y>> = <<y>>
        <4>1. <<y>> \in Seq(CallType)
          BY <2>2, Chains
        <4>. QED
          BY <4>1, JoinNone
      <3>. QED
        BY <1>0, <2>1, <2>2, <3>1, <3>2, ThenOne
    <2>5. CASE link[c] # None
      <3>1. Then(<<x>> \o <<y>>) /\ x \in CallType
        BY <2>1, <2>3, <2>5
      <3>2. <<x>> \o <<y>> = <<x, y>>
        BY <2>2, <3>1, JoinOne
      <3>. QED
        BY <1>0, <2>1, <2>2, <3>1, <3>2, ThenTwo
    <2>. QED
      BY <2>4, <2>5
  <1>3. ASSUME NEW c \in SinkElements, DeleteChannel(c)
        PROVE  agenda' \in Seq(CallType)
    BY <1>0, <1>1, <1>3, ThenNone, Zenon DEF DeleteChannel
  <1>4. ASSUME DmxStop
        PROVE  agenda' \in Seq(CallType)
    <2>1. Then(<<Call("flush", D)>>) /\ agenda # <<>>
      BY <1>1, <1>4, Zenon DEF DmxStop
    <2>2. Call("flush", D) \in CallType
      BY TypedOfD
    <2>. QED
      BY <1>0, <2>1, <2>2, ThenOne
  <1>5. /\ CallOn("onElementStopped", None, D) \in CallType
        /\ CallOn("onElementStopped", None, V) \in CallType
        /\ \A s \in Sinks : CallOn("onElementStopped", None, s) \in CallType
    BY TypedOfSession, Distinct, Zenon
  <1>6. ASSUME DmxOnChannelUnlink
        PROVE  agenda' \in Seq(CallType)
    <2>1. (Return \/ Then(<<CallOn("onElementStopped", None, D)>>)) /\ agenda # <<>>
      BY <1>1, <1>6, Zenon DEF DmxOnChannelUnlink
    <2>. QED
      BY <1>0, <1>5, <2>1, ThenNone, ThenOne
  <1>7. ASSUME DecStop
        PROVE  agenda' \in Seq(CallType)
    <2>1. (Return \/ Then(<<Call("flush", V)>>)) /\ agenda # <<>>
      BY <1>1, <1>7, Zenon DEF DecStop
    <2>2. Call("flush", V) \in CallType
      BY TypedOfV
    <2>. QED
      BY <1>0, <2>1, <2>2, ThenNone, ThenOne
  <1>8. ASSUME DecAfterFlush
        PROVE  agenda' \in Seq(CallType)
    <2>1. /\ agenda # <<>>
          /\ \/ Return
             \/ Then((IF dec.mInputMedia THEN <<Call("removeInputMedia", V)>> ELSE <<>>)
                     \o <<Call("teardownOutputs", V)>>)
      BY <1>1, <1>8, Zenon DEF DecAfterFlush
    <2>2. /\ Call("removeInputMedia", V) \in CallType /\ Call("teardownOutputs", V) \in CallType
          /\ dec.mInputMedia \in BOOLEAN
      <3>1. Call("removeInputMedia", V) \in CallType
        BY TypedOfChannel, Distinct
      <3>2. Call("teardownOutputs", V) \in CallType
        BY TypedOfV
      <3>. QED
        BY <1>0, <3>1, <3>2, Zenon DEF DecType
    <2>. QED
      BY <1>0, <2>1, <2>2, ThenNone, ThenMaybe
  <1>9. ASSUME DecTeardownOutputs
        PROVE  agenda' \in Seq(CallType)
    <2> DEFINE y == Call("vdec_stop", V)
               calls == [i \in DOMAIN dec.out |-> Call("onChannelTeardown", Reverse(dec.out)[i])]
                        \o <<y>>
    <2>1. Then(calls) /\ agenda # <<>>
      BY <1>1, <1>9, Zenon DEF DecTeardownOutputs
    <2>2. calls \in Seq(CallType)
      BY <1>0, OutputsTornDown
    <2> HIDE DEF calls
    <2>. QED
      BY <1>0, <2>1, <2>2, ThenAfter
  <1>10. ASSUME VdecStop \/ DecOnChannelUnlink \/ OnElementStopped
         PROVE  agenda' \in Seq(CallType)
    <2>1. agenda # <<>> /\ Return
      BY <1>1, <1>10, Zenon DEF VdecStop, DecOnChannelUnlink, OnElementStopped
    <2>. QED
      BY <1>0, <2>1, ThenNone
  <1>11. ASSUME DecCompleteStop
         PROVE  agenda' \in Seq(CallType)
    <2>1. (Return \/ Then(<<CallOn("onElementStopped", None, V)>>)) /\ agenda # <<>>
      BY <1>1, <1>11, Zenon DEF DecCompleteStop
    <2>. QED
      BY <1>0, <1>5, <2>1, ThenNone, ThenOne
  <1>12. ASSUME StopCb \/ StopCbCount \/ StopCbStore
         PROVE  agenda' \in Seq(CallType)
    BY <1>0, <1>12, Zenon DEF StopCb, StopCbCount, StopCbStore, otherThanVdec
  <1>13. ASSUME NEW s \in Sinks, SinkStop(s) \/ SinkCompleteStop(s)
         PROVE  agenda' \in Seq(CallType)
    <2>1. /\ agenda # <<>>
          /\ \/ Return \/ Then(<<CallOn("onElementStopped", None, s)>>)
             \/ Then(<<Call("onChannelTeardown", s)>>)
      BY <1>1, <1>13, Zenon DEF SinkStop, SinkCompleteStop
    <2>2. Call("onChannelTeardown", s) \in CallType
      BY TypedOfChannel, Distinct
    <2>. QED
      BY <1>0, <1>5, <2>1, <2>2, ThenNone, ThenOne
  <1>14. ASSUME NEW s \in Sinks, SinkTeardown(s)
         PROVE  agenda' \in Seq(CallType)
    <2>1. /\ agenda # <<>>
          /\ Return \/ Then(<<Call("removeInputMedia", s), Call("inputRemoved", s)>>)
      BY <1>1, <1>14, Zenon DEF SinkTeardown
    <2>2. Call("removeInputMedia", s) \in CallType /\ Call("inputRemoved", s) \in CallType
      BY TypedOfChannel, TypedOfSink, Distinct
    <2>. QED
      BY <1>0, <2>1, <2>2, ThenNone, ThenTwo
  <1>15. ASSUME NEW s \in Sinks, SinkInputRemoved(s)
         PROVE  agenda' \in Seq(CallType)
    <2>1. agenda # <<>> /\ Then(<<Call("flush", s)>>)
      BY <1>1, <1>15, Zenon DEF SinkInputRemoved
    <2>2. Call("flush", s) \in CallType
      BY TypedOfSink
    <2>. QED
      BY <1>0, <2>1, <2>2, ThenOne
  <1>16. ASSUME NEW s \in Sinks, StartVideoSink(s)
         PROVE  agenda' \in Seq(CallType)
    BY <1>0, <1>16, Zenon DEF StartVideoSink
  <1>17. ASSUME NEW s \in Sinks, StopVideoSink(s)
         PROVE  agenda' \in Seq(CallType)
    <2>1. agenda' = <<Call("stop", s)>>
      BY <1>17, Zenon DEF StopVideoSink
    <2>2. Call("stop", s) \in CallType
      BY TypedOfSink
    <2>. QED
      BY <2>1, <2>2, Chains
  <1>18. ASSUME ListenerIdle
         PROVE  agenda' \in Seq(CallType)
    BY <1>0, <1>18, Heard
  <1>19. ASSUME DeleteMessage
         PROVE  agenda' \in Seq(CallType)
    <2>1. UNCHANGED agenda
      <3>1. Head(mMbox).cmd = "ELEMENT_DELETE" /\ "ELEMENT_DELETE" # "COMPLETE_FLUSH"
            /\ "ELEMENT_DELETE" # "COMPLETE_STOP" /\ "ELEMENT_DELETE" # "RESYNC"
        BY <1>19, SMT DEF DeleteMessage
      <3>. QED
        BY <1>19, <3>1, Zenon DEF DeleteMessage, MboxMessage, ElementDelete
    <2>. QED
      BY <1>0, <2>1
  <1>20. ASSUME StopMessage
         PROVE  agenda' \in Seq(CallType)
    <2>1. /\ Runs("mboxCb", None) /\ mMbox # <<>> /\ mMbox' = Tail(mMbox)
          /\ Head(mMbox).cmd = "COMPLETE_STOP"
      BY <1>20, Zenon DEF StopMessage, MboxMessage
    <2>2. Head(mMbox).e = V
      <3>1. mMbox \in Seq(MessageType)
        BY Zenon DEF TypeOK
      <3>2. Head(mMbox) \in MessageType
        BY <2>1, <3>1, ShorterMbox
      <3>. QED
        BY <2>1, <3>2, Messages
    <2> DEFINE x == Call("completeStop", V)
               a == <<x>>
    <2>3. agenda' = a \o agenda
      <3>1. "COMPLETE_STOP" # "ELEMENT_DELETE"
            /\ "COMPLETE_STOP" # "COMPLETE_FLUSH" /\ "COMPLETE_STOP" # "RESYNC"
        OBVIOUS
      <3>. QED
        BY <1>20, <2>1, <2>2, <3>1, Zenon DEF StopMessage, MboxMessage
    <2>4. x \in CallType
      BY TypedOfV
    <2>5. a \in Seq(CallType)
      BY <2>4, Chains
    <2> HIDE DEF a
    <2>. QED
      BY <1>0, <2>3, <2>5, Concat
  <1>. QED
    BY <1>2, <1>3, <1>4, <1>6, <1>7, <1>8, <1>9, <1>10, <1>11, <1>12, <1>13, <1>14, <1>15,
       <1>16, <1>17, <1>18, <1>19, <1>20, Zenon DEF LoudStep

\* What the plain steps may change, and the rest.
OtherTypes ==
    /\ mMbox \in Seq(MessageType) /\ mDemuxer \in BOOLEAN /\ mDemuxerReady \in BOOLEAN
    /\ mFlushPending \in [SinkElements -> BOOLEAN]
    /\ mChannelsFlushing \in Nat /\ mRunning \in BOOLEAN /\ mTimer \in BOOLEAN
    /\ dec \in DecType /\ vdec \in VdecType /\ sink \in [Sinks -> SinkType]
    /\ appFlush \subseteq Sinks
MainTypes ==
    /\ agenda \in Seq(CallType) /\ idle \in Seq(IdleType)
    /\ mState \in {"CREATED", "OPENED", "CLOSING", "CLOSED"} /\ mReadyToPlay \in BOOLEAN
    /\ mElements \subseteq Elements /\ est \in [Elements -> ElementStates]
    /\ link \in [SinkElements -> {D, V, None}] /\ port \in [SinkElements -> BOOLEAN]
    /\ dmxMedia \in BOOLEAN /\ dmxOut \in Seq(SinkElements)
    /\ appMedia \subseteq {D, V}
    /\ told \in [open : BOOLEAN, closing : BOOLEAN, closed : Nat, ready : BOOLEAN]

LEMMA TypeParts ==
  /\ TypeOK <=> OtherTypes /\ MainTypes
  /\ OtherTypes' /\ MainTypes' => TypeOK'
  BY Zenon DEF TypeOK, OtherTypes, MainTypes

LEMMA ChannelOther ==
  ASSUME OtherTypes, NEW c \in SinkElements,
         ChannelFlush(c) \/ ChannelFlushDone(c) \/ RemoveInputMedia(c) \/ DeleteChannel(c)
  PROVE  OtherTypes'
  <1>1. mFlushPending' \in [SinkElements -> BOOLEAN]
    <2>1. \/ UNCHANGED mFlushPending
          \/ \E b \in BOOLEAN : mFlushPending' = [mFlushPending EXCEPT ![c] = b]
      BY Zenon DEF ChannelFlush, ChannelFlushDone, RemoveInputMedia, DeleteChannel, chanVars
    <2>. QED
      BY <2>1, Zenon DEF OtherTypes
  <1>2. UNCHANGED <<sessionVars, mMbox, dmxVars, dec, vdec, sink, appVars>>
    BY Zenon DEF ChannelFlush, ChannelFlushDone, RemoveInputMedia, DeleteChannel,
       otherThanChannels
  <1>. QED
    BY <1>1, <1>2, Zenon DEF OtherTypes, sessionVars, dmxVars, appVars

LEMMA DmxOther ==
  ASSUME OtherTypes, DmxStep \/ Play \/ TimerNoBuffer
  PROVE  OtherTypes'
  <1>0. /\ mDemuxer \in BOOLEAN /\ mDemuxerReady \in BOOLEAN /\ mRunning \in BOOLEAN
        /\ mTimer \in BOOLEAN /\ mChannelsFlushing \in Nat
    BY Zenon DEF OtherTypes
  <1>1. UNCHANGED <<mDemuxer, mMbox, mFlushPending, vdec, appVars, dec, sink>>
    BY Zenon DEF DmxStep, DmxStop, DmxFlush, DmxFlushAt, DmxChannelCounted,
       DmxOnChannelFlushed, DmxChannelFlushed, DmxOnChannelUnlink, Play, TimerNoBuffer,
       otherThanDmx
  <1>2. mDemuxerReady' \in BOOLEAN /\ mRunning' \in BOOLEAN
    <2>1. /\ UNCHANGED mDemuxerReady \/ mDemuxerReady' = FALSE
          /\ UNCHANGED mRunning \/ mRunning' = FALSE \/ mRunning' = TRUE
      BY Zenon DEF DmxStep, DmxStop, DmxFlush, DmxFlushAt, DmxChannelCounted,
         DmxOnChannelFlushed, DmxChannelFlushed, DmxOnChannelUnlink, Play, TimerNoBuffer,
         otherThanDmx, dmxVars
    <2>. QED
      BY <1>0, <2>1
  <1>3. mTimer' \in BOOLEAN
    <2>1. UNCHANGED mTimer \/ mTimer' = FALSE \/ mTimer' = TRUE \/ mTimer' = TimerAfterFlush
      BY Zenon DEF DmxStep, DmxStop, DmxFlush, DmxFlushAt, DmxChannelCounted,
         DmxOnChannelFlushed, DmxChannelFlushed, DmxOnChannelUnlink, Play, TimerNoBuffer,
         dmxVars
    <2>2. TimerAfterFlush \in BOOLEAN
      BY Zenon DEF TimerAfterFlush
    <2>. QED
      BY <1>0, <2>1, <2>2
  <1>4. mChannelsFlushing' \in Nat
    <2>1. \/ UNCHANGED mChannelsFlushing \/ mChannelsFlushing' = mChannelsFlushing + 1
          \/ mChannelsFlushing' = IF mChannelsFlushing <= 1 THEN 0 ELSE mChannelsFlushing - 1
      BY Zenon DEF DmxStep, DmxStop, DmxFlush, DmxFlushAt, DmxChannelCounted,
         DmxOnChannelFlushed, DmxChannelFlushed, DmxOnChannelUnlink, Play, TimerNoBuffer,
         dmxVars
    <2>. QED
      BY <1>0, <2>1, SMT
  <1>. QED
    BY <1>1, <1>2, <1>3, <1>4, Zenon DEF OtherTypes, appVars

LEMMA TimerFrameOther ==
  ASSUME OtherTypes, TimerFrame
  PROVE  OtherTypes'
  <1>0. dec \in DecType /\ vdec \in VdecType /\ sink \in [Sinks -> SinkType]
    BY Zenon DEF OtherTypes
  <1>1. sink' \in [Sinks -> SinkType]
    <2>1. sink' = Queued(dmxOut)
      BY Zenon DEF TimerFrame
    <2>. QED
      BY <1>0, <2>1, QueuedSinks
  <1>2. dec' \in DecType /\ vdec' \in VdecType
    <2>1. CASE Contains(dmxOut, V) /\ DecAccepts
      <3>1. PICK isSync \in BOOLEAN :
               /\ dec' = [dec EXCEPT !.mIsFlushed = FALSE, !.mIsSync = isSync]
               /\ vdec' = [vdec EXCEPT !.busy = TRUE]
        BY <2>1, Zenon DEF TimerFrame
      <3>. QED
        BY <1>0, <3>1, Zenon DEF DecType, VdecType
    <2>2. CASE ~(Contains(dmxOut, V) /\ DecAccepts)
      BY <1>0, <2>2, Zenon DEF TimerFrame
    <2>. QED
      BY <2>1, <2>2
  <1>3. UNCHANGED <<sessionVars, mMbox, chanVars, dmxVars, appVars>>
    BY ZenonT(60) DEF TimerFrame
  <1>. QED
    BY <1>1, <1>2, <1>3, Zenon DEF OtherTypes, sessionVars, chanVars, dmxVars, appVars

\* The flags of the decoder.
LEMMA DecFields ==
  ASSUME dec \in DecType
  PROVE  /\ \A b \in BOOLEAN :
               /\ [dec EXCEPT !.mInputMedia = b] \in DecType
               /\ [dec EXCEPT !.mVdecStopPending = b] \in DecType
               /\ [dec EXCEPT !.mVdecFlushPending = b] \in DecType
               /\ [dec EXCEPT !.mInputChannelFlushPending = b] \in DecType
               /\ [dec EXCEPT !.mResyncPending = b] \in DecType
               /\ \A a \in BOOLEAN :
                     /\ [dec EXCEPT !.mIsFlushed = a, !.mInputChannelFlushPending = b] \in DecType
                     /\ [dec EXCEPT !.mResyncPending = a, !.mIsSync = b] \in DecType
                     /\ [dec EXCEPT !.mInputMedia = a, !.mOutputMedia = b] \in DecType
         /\ \A k \in Int : /\ [dec EXCEPT !.mCompleteStopPendingCount = k] \in DecType
                           /\ \A b \in BOOLEAN : [dec EXCEPT !.mCompleteStopPendingCount = k,
                                                             !.mOutputMedia = b] \in DecType
                           /\ \A out \in Seq(Sinks) :
                                 [dec EXCEPT !.out = out, !.mCompleteStopPendingCount = k]
                                    \in DecType
         /\ \A out \in Seq(Sinks) : [dec EXCEPT !.out = out] \in DecType
         /\ dec.mCompleteStopPendingCount \in Int /\ dec.out \in Seq(Sinks)
         /\ dec.mOutputMedia \in BOOLEAN /\ dec.mInputMedia \in BOOLEAN
         /\ dec.mVdecStopPending \in BOOLEAN
         /\ dec.mCompleteStopPendingCount + 1 \in Int /\ dec.mCompleteStopPendingCount - 1 \in Int
  <1>1. dec.mCompleteStopPendingCount \in Int
    BY Zenon DEF DecType
  <1>2. dec.mCompleteStopPendingCount + 1 \in Int /\ dec.mCompleteStopPendingCount - 1 \in Int
    BY <1>1, SMT
  <1>3. \A b \in BOOLEAN :
               /\ [dec EXCEPT !.mInputMedia = b] \in DecType
               /\ [dec EXCEPT !.mVdecStopPending = b] \in DecType
               /\ [dec EXCEPT !.mVdecFlushPending = b] \in DecType
               /\ [dec EXCEPT !.mInputChannelFlushPending = b] \in DecType
               /\ [dec EXCEPT !.mResyncPending = b] \in DecType
    BY Zenon DEF DecType
  <1>4. \A b \in BOOLEAN : \A a \in BOOLEAN :
                     /\ [dec EXCEPT !.mIsFlushed = a, !.mInputChannelFlushPending = b] \in DecType
                     /\ [dec EXCEPT !.mResyncPending = a, !.mIsSync = b] \in DecType
                     /\ [dec EXCEPT !.mInputMedia = a, !.mOutputMedia = b] \in DecType
    BY ZenonT(60) DEF DecType
  <1>5. \A k \in Int : /\ [dec EXCEPT !.mCompleteStopPendingCount = k] \in DecType
                       /\ \A b \in BOOLEAN : [dec EXCEPT !.mCompleteStopPendingCount = k,
                                                         !.mOutputMedia = b] \in DecType
                       /\ \A out \in Seq(Sinks) :
                             [dec EXCEPT !.out = out, !.mCompleteStopPendingCount = k]
                                \in DecType
    BY Zenon DEF DecType
  <1>6. /\ \A out \in Seq(Sinks) : [dec EXCEPT !.out = out] \in DecType
        /\ dec.out \in Seq(Sinks)
        /\ dec.mOutputMedia \in BOOLEAN /\ dec.mInputMedia \in BOOLEAN
        /\ dec.mVdecStopPending \in BOOLEAN
    BY Zenon DEF DecType
  <1>. QED
    BY <1>1, <1>2, <1>3, <1>4, <1>5, <1>6

LEMMA DecOther ==
  ASSUME OtherTypes, DecStep
  PROVE  OtherTypes'
  <1>0. dec \in DecType /\ vdec \in VdecType /\ mMbox \in Seq(MessageType)
    BY Zenon DEF OtherTypes
  <1> DEFINE Goal == dec' \in DecType /\ vdec' \in VdecType /\ mMbox' \in Seq(MessageType)
  <1>1. UNCHANGED otherThanDec
    BY Zenon DEF DecStep, DecStop, DecOnChannelFlush, DecFlush, VdecFlush, DecCompleteFlush,
       DecAfterFlush, DecTeardownOutputs, VdecStop, DecCompleteStop, DecOnChannelFlushed,
       DecOnChannelUnlink, DecResync
  <1>2. ASSUME DecStop PROVE Goal
    <2>1. /\ dec' = dec \/ dec' = [dec EXCEPT !.mVdecStopPending = TRUE]
          /\ vdec' = vdec /\ mMbox' = mMbox
      BY <1>2, Zenon DEF DecStop
    <2>. QED
      BY <1>0, <2>1, DecFields, Zenon
  <1>3. ASSUME DecOnChannelFlush \/ DecFlush \/ DecTeardownOutputs PROVE Goal
    <2>1. /\ \/ dec' = dec \/ dec' = [dec EXCEPT !.mInputChannelFlushPending = TRUE]
             \/ dec' = [dec EXCEPT !.mVdecFlushPending = TRUE]
             \/ dec' = [dec EXCEPT !.mInputMedia = FALSE]
          /\ vdec' = vdec /\ mMbox' = mMbox
      BY <1>3, Zenon DEF DecOnChannelFlush, DecFlush, DecTeardownOutputs
    <2>. QED
      BY <1>0, <2>1, DecFields, Zenon
  <1>4. ASSUME DecCompleteFlush PROVE Goal
    <2>1. /\ \/ dec' = dec
             \/ dec' = [dec EXCEPT !.mIsFlushed = TRUE, !.mInputChannelFlushPending = FALSE]
          /\ vdec' = vdec /\ mMbox' = mMbox
      BY <1>4, Zenon DEF DecCompleteFlush
    <2>. QED
      BY <1>0, <2>1, DecFields, Zenon
  <1>5. ASSUME DecAfterFlush PROVE Goal
    <2>1. /\ \/ dec' = dec
             \/ dec' = [dec EXCEPT !.mResyncPending = FALSE, !.mIsSync = TRUE]
          /\ vdec' = vdec /\ mMbox' = mMbox
      BY <1>5, Zenon DEF DecAfterFlush
    <2>. QED
      BY <1>0, <2>1, DecFields, Zenon
  <1>6. ASSUME VdecFlush \/ VdecStop PROVE Goal
    <2>1. /\ \/ vdec' = [vdec EXCEPT !.flushing = TRUE]
             \/ vdec' = [vdec EXCEPT !.stopping = dec.mVdecStopPending]
          /\ dec' = dec /\ mMbox' = mMbox
      BY <1>6, ZenonT(60) DEF VdecFlush, VdecStop
    <2>2. dec.mVdecStopPending \in BOOLEAN
      BY <1>0, DecFields
    <2>3. vdec' \in VdecType
      BY <1>0, <2>1, <2>2, Zenon DEF VdecType
    <2>. QED
      BY <1>0, <2>1, <2>3
  <1>7. ASSUME DecCompleteStop PROVE Goal
    <2> DEFINE k == dec.mCompleteStopPendingCount - 1
               b == (dec.mOutputMedia /\ dec.out # <<>>)
    <2>1. /\ dec' = [dec EXCEPT !.mCompleteStopPendingCount = k, !.mOutputMedia = b]
          /\ vdec' = vdec /\ mMbox' = mMbox
      BY <1>7, ZenonT(60) DEF DecCompleteStop
    <2>2. k \in Int /\ b \in BOOLEAN
      BY <1>0, DecFields
    <2> HIDE DEF k, b
    <2>. QED
      BY <1>0, <2>1, <2>2, DecFields, Zenon
  <1>8. ASSUME DecOnChannelFlushed PROVE Goal
    <2>1. /\ Post("COMPLETE_FLUSH", V) /\ dec' = dec /\ vdec' = vdec
      BY <1>8, Zenon DEF DecOnChannelFlushed
    <2>2. [cmd |-> "COMPLETE_FLUSH", e |-> V] \in MessageType
      BY Messages
    <2>. QED
      BY <1>0, <2>1, <2>2, PostedMail
  <1>9. ASSUME DecOnChannelUnlink PROVE Goal
    <2> DEFINE k == IF est[V] = "STOPPING" THEN dec.mCompleteStopPendingCount + 1
                    ELSE dec.mCompleteStopPendingCount
               out == Without(dec.out, Subject)
    <2>1. /\ dec' = [dec EXCEPT !.out = out, !.mCompleteStopPendingCount = k]
          /\ vdec' = vdec /\ (Post("COMPLETE_STOP", V) \/ mMbox' = mMbox)
      BY <1>9, ZenonT(60) DEF DecOnChannelUnlink
    <2>2. k \in Int
      BY <1>0, DecFields
    <2>3. out \in Seq(Sinks)
      <3>1. dec.out \in Seq(Sinks)
        BY <1>0, DecFields
      <3>. QED
        BY <3>1, WithoutKeeps, SMTT(60)
    <2> HIDE DEF k, out
    <2>4. [cmd |-> "COMPLETE_STOP", e |-> V] \in MessageType
      BY Messages
    <2>5. mMbox' \in Seq(MessageType)
      BY <1>0, <2>1, <2>4, PostedMail
    <2>6. dec' \in DecType
      BY <1>0, <2>1, <2>2, <2>3, DecFields, Zenon
    <2>. QED
      BY <1>0, <2>1, <2>5, <2>6
  <1>10. ASSUME DecResync PROVE Goal
    <2>1. /\ dec' = dec \/ dec' = [dec EXCEPT !.mResyncPending = TRUE]
          /\ vdec' = vdec \/ vdec' = [vdec EXCEPT !.flushing = TRUE]
          /\ mMbox' = mMbox
      BY <1>10, Zenon DEF DecResync
    <2>2. vdec' \in VdecType
      BY <1>0, <2>1, Zenon DEF VdecType
    <2>. QED
      BY <1>0, <2>1, <2>2, DecFields, Zenon
  <1>11. Goal
    BY <1>2, <1>3, <1>4, <1>5, <1>6, <1>7, <1>8, <1>9, <1>10, Zenon DEF DecStep
  <1>. QED
    BY <1>1, <1>11, Zenon DEF OtherTypes, otherThanDec, sessionVars, dmxVars, appVars

LEMMA VdecOther ==
  ASSUME OtherTypes, VdecCallback \/ OutputError
  PROVE  OtherTypes'
  <1>0. /\ dec \in DecType /\ vdec \in VdecType /\ mMbox \in Seq(MessageType)
        /\ sink \in [Sinks -> SinkType]
    BY Zenon DEF OtherTypes
  <1> DEFINE Goal == /\ dec' \in DecType /\ vdec' \in VdecType /\ mMbox' \in Seq(MessageType)
                     /\ sink' \in [Sinks -> SinkType]
  <1>1. UNCHANGED <<mDemuxer, mDemuxerReady, mFlushPending, mChannelsFlushing, mRunning,
                    mTimer, appFlush>>
    BY Zenon DEF VdecCallback, OutputError, FlushCb, FlushCbPost, StopCb, StopCbCount,
       StopCbLoad, StopCbStore, OutputCb, OutputCbQueue, otherThanVdec, otherThanDec,
       sessionVars, chanVars, dmxVars, appVars
  <1>2. /\ OutputCbQueue \/ UNCHANGED sink
    BY Zenon DEF VdecCallback, OutputError, FlushCb, FlushCbPost, StopCb, StopCbCount,
       StopCbLoad, StopCbStore, OutputCb, otherThanVdec, otherThanDec
  <1>3. /\ [cmd |-> "COMPLETE_FLUSH", e |-> V] \in MessageType
        /\ [cmd |-> "COMPLETE_STOP", e |-> V] \in MessageType
        /\ [cmd |-> "RESYNC", e |-> V] \in MessageType
    BY Messages
  <1>4. \A cmd \in {"COMPLETE_FLUSH", "COMPLETE_STOP", "RESYNC"} :
           Post(cmd, V) => mMbox' \in Seq(MessageType)
    BY <1>0, <1>3, PostedMail
  <1>5. /\ vdec.count \in Int /\ vdec.count + 1 \in Int
        /\ dec.mCompleteStopPendingCount \in Int /\ 0 \in Int
    <2>1. vdec.count \in Int
      BY <1>0, Zenon DEF VdecType
    <2>2. vdec.count + 1 \in Int /\ 0 \in Int
      BY <2>1, SMT
    <2>. QED
      BY <1>0, <2>1, <2>2, DecFields, Zenon
  <1>6. ASSUME FlushCb \/ StopCb PROVE Goal
    <2>1. /\ \/ dec' = [dec EXCEPT !.mVdecFlushPending = FALSE]
             \/ dec' = [dec EXCEPT !.mVdecStopPending = FALSE]
          /\ \/ vdec' = [vdec EXCEPT !.flushing = FALSE, !.busy = FALSE, !.cb = "flush"]
             \/ vdec' = [vdec EXCEPT !.stopping = FALSE, !.busy = FALSE, !.cb = "stop"]
          /\ mMbox' = mMbox /\ sink' = sink
      BY <1>6, Zenon DEF FlushCb, StopCb, otherThanVdec, otherThanDec
    <2>2. vdec' \in VdecType
      BY <1>0, <2>1, Zenon DEF VdecType
    <2>3. dec' \in DecType
      BY <1>0, <2>1, DecFields, Zenon
    <2>. QED
      BY <1>0, <2>1, <2>2, <2>3
  <1>7. ASSUME FlushCbPost \/ StopCbCount PROVE Goal
    <2>1. /\ \/ dec' = dec
             \/ dec' = [dec EXCEPT !.mCompleteStopPendingCount = @ + 1]
          /\ vdec' = [vdec EXCEPT !.cb = "none"]
          /\ Post("COMPLETE_FLUSH", V) \/ Post("COMPLETE_STOP", V)
          /\ sink' = sink
      BY <1>7, Zenon DEF FlushCbPost, StopCbCount, otherThanVdec, otherThanDec
    <2>2. vdec' \in VdecType
      BY <1>0, <2>1, ZenonT(60) DEF VdecType
    <2>3. dec' \in DecType
      <3> DEFINE k == dec.mCompleteStopPendingCount + 1
      <3>1. dec' = dec \/ dec' = [dec EXCEPT !.mCompleteStopPendingCount = k]
        BY <2>1, SMTT(60)
      <3>2. k \in Int
        BY <1>0, DecFields
      <3> HIDE DEF k
      <3>. QED
        BY <1>0, <3>1, <3>2, DecFields
    <2>. QED
      BY <1>0, <1>4, <2>1, <2>2, <2>3
  <1>8. ASSUME StopCbLoad \/ OutputCb PROVE Goal
    <2>1. /\ dec' = dec /\ mMbox' = mMbox /\ sink' = sink
          /\ \/ vdec' = [vdec EXCEPT !.cb = "stopLoaded",
                                     !.count = dec.mCompleteStopPendingCount]
             \/ vdec' = [vdec EXCEPT !.cb = "output"]
      BY <1>8, Zenon DEF StopCbLoad, OutputCb, otherThanVdec, otherThanDec
    <2>2. vdec' \in VdecType
      BY <1>0, <1>5, <2>1, Zenon DEF VdecType
    <2>. QED
      BY <1>0, <2>1, <2>2
  <1>9. ASSUME StopCbStore PROVE Goal
    <2> DEFINE k == vdec.count + 1
    <2>1. /\ dec' = [dec EXCEPT !.mCompleteStopPendingCount = k]
          /\ vdec' = [vdec EXCEPT !.cb = "none", !.count = 0]
          /\ Post("COMPLETE_STOP", V) /\ sink' = sink
      BY <1>9, Zenon DEF StopCbStore, otherThanVdec, otherThanDec
    <2>2. vdec' \in VdecType
      BY <1>0, <1>5, <2>1, Zenon DEF VdecType
    <2>3. k \in Int
      BY <1>5
    <2> HIDE DEF k
    <2>4. dec' \in DecType
      BY <1>0, <2>1, <2>3, DecFields, Zenon
    <2>. QED
      BY <1>0, <1>4, <2>1, <2>2, <2>4
  <1>10. ASSUME OutputError PROVE Goal
    <2>1. dec' = dec /\ vdec' = vdec /\ sink' = sink /\ Post("RESYNC", V)
      BY <1>10, Zenon DEF OutputError
    <2>. QED
      BY <1>0, <1>4, <2>1
  <1>11. ASSUME OutputCbQueue PROVE Goal
    <2>1. /\ dec' = dec /\ mMbox' = mMbox
          /\ sink' = sink \/ sink' = Queued(dec.out)
          /\ \E busy \in BOOLEAN : vdec' = [vdec EXCEPT !.cb = "none", !.busy = busy]
      BY <1>11, Zenon DEF OutputCbQueue
    <2>2. vdec' \in VdecType
      BY <1>0, <2>1, Zenon DEF VdecType
    <2>3. sink' \in [Sinks -> SinkType]
      BY <1>0, <2>1, QueuedSinks
    <2>. QED
      BY <1>0, <2>1, <2>2, <2>3
  <1>12. Goal
    BY <1>6, <1>7, <1>8, <1>9, <1>10, <1>11, Zenon DEF VdecCallback
  <1>. QED
    BY <1>1, <1>12, Zenon DEF OtherTypes

LEMMA SinksOther ==
  ASSUME OtherTypes, SinkStep
  PROVE  OtherTypes'
  <1>0. sink \in [Sinks -> SinkType]
    BY Zenon DEF OtherTypes
  <1>1. UNCHANGED otherThanSinks
    BY Zenon DEF SinkStep, SinkStop, SinkTeardown, SinkInputRemoved, SinkOnChannelFlush,
       SinkFlush, SinkFlushDone, SinkCompleteStop
  <1>2. \/ sink' = sink
        \/ \E s \in Sinks :
              \/ sink' = [sink EXCEPT ![s].mVideoSinkListener = FALSE]
              \/ sink' = [sink EXCEPT ![s].mInputMedia = FALSE]
              \/ sink' = [sink EXCEPT ![s].mInputChannelFlushPending = TRUE]
              \/ sink' = [sink EXCEPT ![s].mIsFlushed = TRUE,
                                      ![s].mInputChannelFlushPending = FALSE]
    BY Zenon DEF SinkStep, SinkStop, SinkTeardown, SinkInputRemoved, SinkOnChannelFlush,
       SinkFlush, SinkFlushDone, SinkCompleteStop
  <1>3. ASSUME NEW s \in Sinks,
               \/ sink' = [sink EXCEPT ![s].mVideoSinkListener = FALSE]
               \/ sink' = [sink EXCEPT ![s].mInputMedia = FALSE]
               \/ sink' = [sink EXCEPT ![s].mInputChannelFlushPending = TRUE]
        PROVE  sink' \in [Sinks -> SinkType]
    BY <1>0, <1>3, ZenonT(60) DEF SinkType
  <1>4. ASSUME NEW s \in Sinks,
               sink' = [sink EXCEPT ![s].mIsFlushed = TRUE,
                                    ![s].mInputChannelFlushPending = FALSE]
        PROVE  sink' \in [Sinks -> SinkType]
    BY <1>0, <1>4, Zenon DEF SinkType
  <1>5. sink' \in [Sinks -> SinkType]
    BY <1>0, <1>2, <1>3, <1>4, Zenon
  <1>. QED
    BY <1>1, <1>5, Zenon DEF OtherTypes, otherThanSinks, sessionVars, chanVars, dmxVars, appVars

\* A message is taken out of the queue.
LEMMA MessageOther ==
  ASSUME TypeOK, OtherTypes, MboxMessage
  PROVE  OtherTypes'
  <1>0. mDemuxer \in BOOLEAN /\ mDemuxerReady \in BOOLEAN /\ mMbox \in Seq(MessageType)
    BY Zenon DEF OtherTypes
  <1>1. mMbox' \in Seq(MessageType)
    BY <1>0, ShorterMbox, Zenon DEF MboxMessage
  <1>2. mDemuxer' \in BOOLEAN /\ mDemuxerReady' \in BOOLEAN
    <2>1. \/ DeleteMessage
          \/ UNCHANGED sessionVars
      BY Zenon DEF MboxMessage, DeleteMessage
    <2>2. CASE DeleteMessage
      BY <2>2, DeletedTypes
    <2>3. CASE UNCHANGED sessionVars
      BY <1>0, <2>3, Zenon DEF sessionVars
    <2>. QED
      BY <2>1, <2>2, <2>3
  <1>3. UNCHANGED <<chanVars, dmxVars, dec, vdec, sink, appVars>>
    BY Zenon DEF MboxMessage
  <1>. QED
    BY <1>1, <1>2, <1>3, Zenon DEF OtherTypes, chanVars, appVars, dmxVars

LEMMA SessionOther ==
  ASSUME TypeOK, OtherTypes, IdleFunction \/ EventDone \/ OnElementStopped
  PROVE  OtherTypes'
  <1>0. mMbox \in Seq(MessageType) /\ agenda \in Seq(CallType) /\ idle \in Seq(IdleType)
        /\ appFlush \subseteq Sinks
    BY Zenon DEF OtherTypes, TypeOK
  <1>1. UNCHANGED <<mDemuxer, mDemuxerReady, chanVars, dmxVars, dec, vdec, sink>>
    BY Zenon DEF IdleFunction, EventDone, OnElementStopped, sessionVars
  <1>2. mMbox' \in Seq(MessageType)
    <2>1. CASE IdleFunction \/ EventDone
      BY <1>0, <2>1, Zenon DEF IdleFunction, EventDone
    <2>2. CASE OnElementStopped
      <3>1. Post("ELEMENT_DELETE", Subject) /\ Runs("onElementStopped", None)
        BY <2>2, Zenon DEF OnElementStopped
      <3>2. Subject \in Elements
        BY <1>0, <3>1, Running, CallFields
      <3>. QED
        BY <1>0, <3>1, <3>2, Messages, PostedMail
    <2>. QED
      BY <2>1, <2>2
  <1>3. appFlush' \subseteq Sinks
    <2>1. CASE EventDone \/ OnElementStopped
      BY <1>0, <2>1, Zenon DEF EventDone, OnElementStopped, appVars
    <2>2. CASE IdleFunction
      <3>1. /\ idle # <<>>
            /\ \/ Head(idle).cb = "sinkFlush" /\ CallVideoSinkFlush(Head(idle).e)
               \/ UNCHANGED appFlush
        BY <2>2, Zenon DEF IdleFunction, CallListener
      <3>2. Head(idle).cb = "sinkFlush" => Head(idle).e \in Sinks
        <4>1. Head(idle) \in IdleType
          BY <1>0, <3>1, TailOfSeq
        <4>. QED
          BY <4>1, NoticeTypes
      <3>. QED
        BY <1>0, <3>1, <3>2, Zenon DEF CallVideoSinkFlush
    <2>. QED
      BY <2>1, <2>2
  <1>. QED
    BY <1>1, <1>2, <1>3, Zenon DEF OtherTypes, chanVars, dmxVars

\* The functions the application calls.
LEMMA AppOther ==
  ASSUME OtherTypes,
         \/ RunIdle \/ RunMbox \/ Open \/ Close
         \/ \E s \in Sinks : \/ StartVideoSink(s) \/ StopVideoSink(s)
                             \/ VideoSinkQueueFlushed(s) \/ ResyncVideoSink(s)
  PROVE  OtherTypes'
  <1>0. /\ dec \in DecType /\ sink \in [Sinks -> SinkType] /\ appFlush \subseteq Sinks
        /\ mDemuxer \in BOOLEAN /\ mDemuxerReady \in BOOLEAN
    BY Zenon DEF OtherTypes
  <1>1. UNCHANGED <<mMbox, mFlushPending, mChannelsFlushing, mRunning, mTimer, vdec>>
    BY Zenon DEF RunIdle, RunMbox, Open, OpenOk, OpenWithoutDecoder, OpenFails, Close,
       StartVideoSink, StopVideoSink, VideoSinkQueueFlushed, ResyncVideoSink, chanVars, dmxVars
  <1>2. mDemuxer' \in BOOLEAN /\ mDemuxerReady' \in BOOLEAN
    <2>1. /\ UNCHANGED mDemuxer \/ mDemuxer' = TRUE
          /\ UNCHANGED mDemuxerReady \/ mDemuxerReady' = TRUE
      BY Zenon DEF RunIdle, RunMbox, Open, OpenOk, OpenWithoutDecoder, OpenFails, Close,
         StartVideoSink, StopVideoSink, VideoSinkQueueFlushed, ResyncVideoSink, sessionVars
    <2>. QED
      BY <1>0, <2>1
  <1>3. appFlush' \subseteq Sinks
    <2>1. UNCHANGED appFlush \/ \E s \in Sinks : appFlush' = appFlush \ {s}
      BY Zenon DEF RunIdle, RunMbox, Open, OpenOk, OpenWithoutDecoder, OpenFails, Close,
         StartVideoSink, StopVideoSink, VideoSinkQueueFlushed, ResyncVideoSink, appVars
    <2>. QED
      BY <1>0, <2>1, Zenon
  <1>4. sink' \in [Sinks -> SinkType]
    <2>1. \/ sink' = sink
          \/ \E s \in Sinks : sink' = [sink EXCEPT ![s].mInputMedia = TRUE,
                                                   ![s].mVideoSinkListener = TRUE]
      BY Zenon DEF RunIdle, RunMbox, Open, OpenOk, OpenWithoutDecoder, OpenFails, Close,
         StartVideoSink, StopVideoSink, VideoSinkQueueFlushed, ResyncVideoSink
    <2>. QED
      BY <1>0, <2>1, ZenonT(60) DEF SinkType
  <1>5. dec' \in DecType
    <2>1. \/ dec' = dec
          \/ dec' = [dec EXCEPT !.mInputMedia = DecodeAll, !.mOutputMedia = DecodeAll]
          \/ dec' = [dec EXCEPT !.mInputMedia = TRUE]
          \/ dec' = [dec EXCEPT !.mInputMedia = TRUE, !.mOutputMedia = TRUE]
          \/ \E s \in Sinks : dec' = [dec EXCEPT !.out = Append(@, s)]
      BY Zenon DEF RunIdle, RunMbox, Open, OpenOk, OpenWithoutDecoder, OpenFails, Close,
         StartVideoSink, StopVideoSink, VideoSinkQueueFlushed, ResyncVideoSink
    <2>2. DecodeAll \in BOOLEAN
      BY EventsOK
    <2>3. \A s \in Sinks : Append(dec.out, s) \in Seq(Sinks)
      <3>1. dec.out \in Seq(Sinks)
        BY <1>0, DecFields
      <3>. QED
        BY <3>1, AppendContains
    <2>4. ASSUME NEW s \in Sinks, dec' = [dec EXCEPT !.out = Append(@, s)]
          PROVE  dec' \in DecType
      BY <1>0, <2>3, <2>4, Zenon DEF DecType
    <2>5. CASE \/ dec' = dec
               \/ dec' = [dec EXCEPT !.mInputMedia = DecodeAll, !.mOutputMedia = DecodeAll]
               \/ dec' = [dec EXCEPT !.mInputMedia = TRUE]
               \/ dec' = [dec EXCEPT !.mInputMedia = TRUE, !.mOutputMedia = TRUE]
      BY <1>0, <2>2, <2>5, DecFields, Zenon
    <2>. QED
      BY <2>1, <2>4, <2>5, Zenon
  <1>. QED
    BY <1>1, <1>2, <1>3, <1>4, <1>5, Zenon DEF OtherTypes

\* These types are kept by every step.
LEMMA OtherKept ==
  ASSUME TypeOK, [Next]_vars
  PROVE  OtherTypes'
  <1>0. OtherTypes
    BY TypeParts
  <1>1. CASE UNCHANGED vars
    BY <1>0, <1>1, Zenon DEF OtherTypes, vars, sessionVars, chanVars, dmxVars, appVars
  <1>2. CASE ChannelStep
    BY <1>0, <1>2, ChannelOther, Zenon DEF ChannelStep
  <1>3. CASE DmxStep \/ Play \/ TimerNoBuffer
    BY <1>0, <1>3, DmxOther, Zenon
  <1>4. CASE DecStep
    BY <1>0, <1>4, DecOther
  <1>5. CASE VdecCallback \/ OutputError
    BY <1>0, <1>5, VdecOther
  <1>6. CASE SinkStep
    BY <1>0, <1>6, SinksOther
  <1>7. CASE SessionStep
    BY <1>0, <1>7, MessageOther, SessionOther, Zenon DEF SessionStep
  <1>8. CASE TimerFrame
    BY <1>0, <1>8, TimerFrameOther
  <1>9. CASE RunIdle \/ RunMbox \/ Open \/ Close
    BY <1>0, <1>9, AppOther, Zenon
  <1>10. ASSUME NEW s \in Sinks,
                \/ StartVideoSink(s) \/ StopVideoSink(s)
                \/ VideoSinkQueueFlushed(s) \/ ResyncVideoSink(s)
         PROVE  OtherTypes'
    BY <1>0, <1>10, AppOther, Zenon
  <1>. QED
    BY <1>1, <1>2, <1>3, <1>4, <1>5, <1>6, <1>7, <1>8, <1>9, <1>10, Zenon
       DEF Next, LoopStep, CallStep, AppEvent

LEMMA SameIdleTyped ==
  ASSUME idle \in Seq(IdleType), SameIdle
  PROVE  idle' \in Seq(IdleType)
  <1>1. ASSUME NEW s \in Sinks, idle' = Append(idle, Idle("sinkFlush", s))
        PROVE  idle' \in Seq(IdleType)
    BY <1>1, NoticeTypes, AppendContains
  <1>2. ASSUME idle # <<>>, idle' = Tail(idle)
        PROVE  idle' \in Seq(IdleType)
    BY <1>2, TailOfSeq
  <1>. QED
    BY <1>1, <1>2, Zenon DEF SameIdle

LEMMA PlainMain ==
  ASSUME TypeOK, PlainStep
  PROVE  MainTypes'
  <1>0. MainTypes
    BY TypeParts
  <1>1. Plain /\ agenda \in Seq(CallType) /\ idle \in Seq(IdleType)
    BY <1>0, PlainSteps, Zenon DEF MainTypes
  <1>2. QuietStep /\ SameIdle /\ UNCHANGED sameVars
    BY <1>1, Zenon DEF Plain
  <1>3. agenda' \in Seq(CallType) /\ idle' \in Seq(IdleType)
    BY <1>1, <1>2, QuietTyped, SameIdleTyped
  <1>. QED
    BY <1>0, <1>2, <1>3, Zenon DEF MainTypes, sameVars

LEMMA LoudIdle ==
  ASSUME TypeOK, LoudStep
  PROVE  idle' \in Seq(IdleType)
  <1>0. idle \in Seq(IdleType)
    BY Zenon DEF TypeOK
  <1>1. CASE UNCHANGED idle
    BY <1>0, <1>1
  <1>2. ASSUME NEW n \in IdleType, idle' = Append(idle, n)
        PROVE  idle' \in Seq(IdleType)
    BY <1>0, <1>2, AppendContains
  <1>3. CASE OnElementStopped
    <2>1. UNCHANGED idle \/ idle' = Append(idle, Idle("closeResponse", None))
      BY <1>3, Zenon DEF OnElementStopped, IdleAdd
    <2>2. Idle("closeResponse", None) \in IdleType
      <3>1. "closeResponse" \in Answers
        BY SMT DEF Answers
      <3>. QED
        BY <3>1, NoticeTypes
    <2>. QED
      BY <1>1, <1>2, <2>1, <2>2
  <1>4. CASE ListenerIdle
    <2>1. idle # <<>> /\ idle' = Tail(idle)
      BY <1>4, Heard
    <2>. QED
      BY <1>0, <2>1, TailOfSeq
  <1>. QED
    BY <1>1, <1>2, <1>3, <1>4, LoudTells, Zenon

\* The steps that change the state of an element.
LEMMA LoudElements ==
  ASSUME TypeOK, LoudStep
  PROVE  /\ est' \in [Elements -> ElementStates] /\ mElements' \subseteq Elements
         /\ mState' \in {"CREATED", "OPENED", "CLOSING", "CLOSED"}
         /\ mReadyToPlay' \in BOOLEAN
  <1> DEFINE Goal == /\ est' \in [Elements -> ElementStates] /\ mElements' \subseteq Elements
                     /\ mState' \in {"CREATED", "OPENED", "CLOSING", "CLOSED"}
                     /\ mReadyToPlay' \in BOOLEAN
  <1>0. /\ est \in [Elements -> ElementStates] /\ mElements \subseteq Elements
        /\ mState \in {"CREATED", "OPENED", "CLOSING", "CLOSED"}
        /\ mReadyToPlay \in BOOLEAN
    BY Zenon DEF TypeOK
  <1>1. /\ "STOPPING" \in ElementStates /\ "STOPPED" \in ElementStates
        /\ "STARTED" \in ElementStates
        /\ D \in Elements /\ V \in Elements /\ Sinks \subseteq Elements
    BY SMT DEF ElementStates, Elements
  <1>2. ASSUME NEW e \in Elements, NEW st \in ElementStates,
               est' = est \/ est' = [est EXCEPT ![e] = st],
               UNCHANGED <<mState, mElements>>, UNCHANGED mReadyToPlay \/ mReadyToPlay' = FALSE
        PROVE  Goal
    BY <1>0, <1>2, Zenon
  <1>3. ASSUME \/ \E c \in SinkElements : RemoveInputMedia(c) \/ DeleteChannel(c)
               \/ DecAfterFlush \/ DecTeardownOutputs \/ VdecStop \/ DecOnChannelUnlink
               \/ StopCb \/ StopCbCount \/ StopCbStore
               \/ \E s \in Sinks : SinkTeardown(s) \/ SinkInputRemoved(s) \/ StopVideoSink(s)
               \/ StopMessage \/ ListenerIdle
        PROVE  Goal
    <2>1. UNCHANGED <<est, mState, mElements>> /\ UNCHANGED mReadyToPlay
      <3>1. ASSUME StopMessage PROVE UNCHANGED <<est, sessionVars>>
        <4>1. "COMPLETE_STOP" # "ELEMENT_DELETE"
          OBVIOUS
        <4>. QED
          BY <3>1, <4>1, Zenon DEF StopMessage, MboxMessage
      <3>. QED
        BY <1>3, <3>1, Heard, Zenon DEF RemoveInputMedia, DeleteChannel, DecAfterFlush,
           DecTeardownOutputs, VdecStop, DecOnChannelUnlink, StopCb, StopCbCount, StopCbStore,
           SinkTeardown, SinkInputRemoved, StopVideoSink, otherThanChannels, otherThanDec,
           otherThanVdec, otherThanSinks, sessionVars
    <2>. QED
      BY <1>0, <2>1, Zenon
  <1>4. ASSUME DmxStop \/ DmxOnChannelUnlink
        PROVE  Goal
    <2>1. \E st \in {"STOPPING", "STOPPED"} : est' = est \/ est' = [est EXCEPT ![D] = st]
      BY <1>4, Zenon DEF DmxStop, DmxOnChannelUnlink
    <2>2. UNCHANGED <<mState, mElements>>
      BY <1>4, Zenon DEF DmxStop, DmxOnChannelUnlink, otherThanDmx
    <2>3. UNCHANGED mReadyToPlay \/ mReadyToPlay' = FALSE
      BY <1>4, Zenon DEF DmxStop, DmxOnChannelUnlink
    <2>4. PICK st \in ElementStates : est' = est \/ est' = [est EXCEPT ![D] = st]
      BY <1>1, <2>1
    <2>. QED
      BY <1>1, <1>2, <2>2, <2>3, <2>4
  <1>5. ASSUME DecStop \/ DecCompleteStop
        PROVE  Goal
    <2>1. /\ \E st \in {"STOPPING", "STOPPED"} : est' = est \/ est' = [est EXCEPT ![V] = st]
          /\ UNCHANGED <<mState, mElements>> /\ UNCHANGED mReadyToPlay
      BY <1>5, Zenon DEF DecStop, DecCompleteStop, otherThanDec, sessionVars
    <2>. QED
      BY <1>1, <1>2, <2>1, Zenon
  <1>6. ASSUME NEW s \in Sinks, SinkStop(s) \/ SinkCompleteStop(s)
        PROVE  Goal
    <2>1. /\ \E st \in {"STOPPING", "STOPPED"} : est' = est \/ est' = [est EXCEPT ![s] = st]
          /\ UNCHANGED <<mState, mElements>> /\ UNCHANGED mReadyToPlay
      BY <1>6, Zenon DEF SinkStop, SinkCompleteStop, otherThanSinks, sessionVars
    <2>. QED
      <3>1. s \in Elements
        BY <1>1
      <3>. QED
        BY <1>1, <1>2, <2>1, <3>1, Zenon
  <1>7. ASSUME NEW s \in Sinks, StartVideoSink(s)
        PROVE  Goal
    <2>1. /\ est' = [est EXCEPT ![s] = "STARTED"] /\ mElements' = mElements \cup {s}
          /\ UNCHANGED <<mState, mReadyToPlay>>
      BY <1>7, Zenon DEF StartVideoSink
    <2>. QED
      BY <1>0, <1>1, <2>1, Zenon
  <1>8. ASSUME OnElementStopped
        PROVE  Goal
    <2>1. /\ UNCHANGED mState \/ mState' = "CLOSED"
          /\ UNCHANGED <<est, mElements, mReadyToPlay>>
      BY <1>8, Zenon DEF OnElementStopped
    <2>. QED
      BY <1>0, <2>1, Zenon
  <1>9. ASSUME DeleteMessage
        PROVE  Goal
    BY <1>0, <1>9, DeletedTypes, Zenon
  <1>. QED
    BY <1>3, <1>4, <1>5, <1>6, <1>7, <1>8, <1>9, Zenon DEF LoudStep

\* The steps that change a link, a port, a media or what the application knows.
LEMMA LoudLinks ==
  ASSUME TypeOK, LoudStep
  PROVE  /\ link' \in [SinkElements -> {D, V, None}] /\ port' \in [SinkElements -> BOOLEAN]
         /\ dmxMedia' \in BOOLEAN /\ dmxOut' \in Seq(SinkElements)
         /\ appMedia' \subseteq {D, V}
         /\ told' \in [open : BOOLEAN, closing : BOOLEAN, closed : Nat, ready : BOOLEAN]
  <1> DEFINE Goal ==
         /\ link' \in [SinkElements -> {D, V, None}] /\ port' \in [SinkElements -> BOOLEAN]
         /\ dmxMedia' \in BOOLEAN /\ dmxOut' \in Seq(SinkElements)
         /\ appMedia' \subseteq {D, V}
         /\ told' \in [open : BOOLEAN, closing : BOOLEAN, closed : Nat, ready : BOOLEAN]
  <1>0. /\ link \in [SinkElements -> {D, V, None}] /\ port \in [SinkElements -> BOOLEAN]
        /\ dmxMedia \in BOOLEAN /\ dmxOut \in Seq(SinkElements)
        /\ appMedia \subseteq {D, V} /\ agenda \in Seq(CallType)
        /\ told \in [open : BOOLEAN, closing : BOOLEAN, closed : Nat, ready : BOOLEAN]
    BY Zenon DEF TypeOK
  <1>1. ASSUME UNCHANGED <<link, port, dmxMedia, dmxOut, appMedia, told>>
        PROVE  Goal
    BY <1>0, <1>1
  <1>2. ASSUME \/ \E c \in SinkElements : RemoveInputMedia(c)
               \/ DmxStop \/ DecStop
               \/ DecAfterFlush \/ DecTeardownOutputs \/ VdecStop \/ DecCompleteStop
               \/ StopCb \/ StopCbCount \/ StopCbStore
               \/ \E s \in Sinks : \/ SinkStop(s) \/ SinkTeardown(s) \/ SinkInputRemoved(s)
                                   \/ SinkCompleteStop(s) \/ StopVideoSink(s)
               \/ OnElementStopped \/ MboxMessage
        PROVE  Goal
    <2>1. UNCHANGED <<link, port, dmxMedia, dmxOut, appMedia, told>>
      BY <1>2, Zenon DEF RemoveInputMedia, DmxStop, DecStop, DecAfterFlush,
         DecTeardownOutputs, VdecStop, DecCompleteStop, StopCb, StopCbCount, StopCbStore,
         SinkStop, SinkTeardown, SinkInputRemoved, SinkCompleteStop, StopVideoSink,
         OnElementStopped, MboxMessage, otherThanChannels, otherThanDmx, otherThanDec,
         otherThanVdec, otherThanSinks, chanVars, dmxVars, appVars
    <2>. QED
      BY <1>1, <2>1
  <1>3. ASSUME NEW c \in SinkElements, DeleteChannel(c)
        PROVE  Goal
    <2>1. /\ port' = [port EXCEPT ![c] = FALSE]
          /\ UNCHANGED <<link, dmxMedia, dmxOut, appMedia, told>>
      BY <1>3, Zenon DEF DeleteChannel, otherThanChannels, dmxVars, appVars
    <2>. QED
      BY <1>0, <2>1, Zenon
  <1>4. ASSUME DmxOnChannelUnlink
        PROVE  Goal
    <2>1. /\ link' = [link EXCEPT ![Subject] = None] /\ dmxOut' = Without(dmxOut, Subject)
          /\ UNCHANGED dmxMedia \/ dmxMedia' = FALSE
          /\ UNCHANGED <<port, appMedia, told>>
      BY <1>4, Zenon DEF DmxOnChannelUnlink, otherThanDmx, appVars
    <2>2. dmxOut' \in Seq(SinkElements)
      BY <1>0, <2>1, WithoutKeeps
    <2>. QED
      BY <1>0, <2>1, <2>2, Zenon
  <1>5. ASSUME DecOnChannelUnlink
        PROVE  Goal
    <2>1. /\ link' = [link EXCEPT ![Subject] = None]
          /\ UNCHANGED <<port, dmxMedia, dmxOut, appMedia, told>>
      BY <1>5, Zenon DEF DecOnChannelUnlink, otherThanDec, dmxVars, appVars
    <2>. QED
      BY <1>0, <2>1, Zenon
  <1>6. ASSUME NEW s \in Sinks, StartVideoSink(s)
        PROVE  Goal
    <2>1. /\ link' = [link EXCEPT ![s] = SourceOf(s)] /\ port' = [port EXCEPT ![s] = TRUE]
          /\ dmxOut' = dmxOut \/ dmxOut' = Append(dmxOut, s)
          /\ UNCHANGED <<dmxMedia, appMedia, told>>
      BY <1>6, Zenon DEF StartVideoSink, appVars
    <2>2. SourceOf(s) \in {D, V} /\ s \in SinkElements
      BY Distinct, Zenon DEF SourceOf
    <2>3. dmxOut' \in Seq(SinkElements)
      <3>1. Append(dmxOut, s) \in Seq(SinkElements)
        BY <1>0, <2>2, AppendContains
      <3>. QED
        BY <1>0, <2>1, <3>1
    <2>4. link' \in [SinkElements -> {D, V, None}] /\ port' \in [SinkElements -> BOOLEAN]
      BY <1>0, <2>1, <2>2, Zenon
    <2>. QED
      BY <1>0, <2>1, <2>3, <2>4
  <1>7. ASSUME ListenerIdle
        PROVE  Goal
    <2>1. /\ appMedia' \subseteq {D, V}
          /\ told' \in [open : BOOLEAN, closing : BOOLEAN, closed : Nat, ready : BOOLEAN]
          /\ UNCHANGED <<chanVars, dmxVars>>
      BY <1>7, Heard
    <2>. QED
      BY <1>0, <2>1, Zenon DEF chanVars, dmxVars
  <1>. QED
    BY <1>2, <1>3, <1>4, <1>5, <1>6, <1>7, Zenon
       DEF LoudStep, DeleteMessage, StopMessage

LEMMA CloseMain ==
  ASSUME TypeOK, Close
  PROVE  MainTypes'
  <1>0. MainTypes
    BY TypeParts
  <1>1. /\ agenda \in Seq(CallType) /\ idle \in Seq(IdleType)
        /\ told \in [open : BOOLEAN, closing : BOOLEAN, closed : Nat, ready : BOOLEAN]
    BY <1>0, Zenon DEF MainTypes
  <1>2. /\ told' = [told EXCEPT !.closing = TRUE]
        /\ agenda' = agenda \/ agenda' = <<Call("stop", D)>>
        /\ \/ idle' = idle \/ idle' = Append(idle, Idle("notReady", None))
           \/ idle' = Append(idle, Idle("closeResponse", None))
        /\ mState' = mState \/ mState' = "CLOSING"
        /\ mReadyToPlay' = mReadyToPlay \/ mReadyToPlay' = FALSE
        /\ UNCHANGED <<mElements, est, chanVars, dmxVars, appMedia>>
    BY Zenon DEF Close, IdleAdd
  <1>3. agenda' \in Seq(CallType)
    <2>1. Call("stop", D) \in CallType
      BY TypedOfD
    <2>2. <<Call("stop", D)>> \in Seq(CallType)
      BY <2>1, Chains
    <2>. QED
      BY <1>1, <1>2, <2>2
  <1>4. idle' \in Seq(IdleType)
    <2>1. Idle("notReady", None) \in IdleType /\ Idle("closeResponse", None) \in IdleType
      <3>1. "notReady" \in Answers /\ "closeResponse" \in Answers
        BY SMT DEF Answers
      <3>. QED
        BY <3>1, NoticeTypes
    <2>2. /\ Append(idle, Idle("notReady", None)) \in Seq(IdleType)
          /\ Append(idle, Idle("closeResponse", None)) \in Seq(IdleType)
      BY <1>1, <2>1, AppendContains
    <2>. QED
      BY <1>1, <1>2, <2>2
  <1>5. told' \in [open : BOOLEAN, closing : BOOLEAN, closed : Nat, ready : BOOLEAN]
    BY <1>1, <1>2, Zenon
  <1>. QED
    BY <1>0, <1>2, <1>3, <1>4, <1>5, Zenon DEF MainTypes, chanVars, dmxVars

\* What open() puts in the queue of idle functions.
LEMMA OpenIdle ==
  ASSUME Open
  PROVE  idle' \in Seq(IdleType)
  <1> DEFINE q == <<Idle("mediaAdded", D), Idle("openResponse", None), Idle("ready", None)>>
             p == <<Idle("mediaAdded", V)>>
  <1>1. q \in Seq(IdleType) /\ p \o q \in Seq(IdleType) /\ <<>> \o q = q
    <2>1. q \in Seq(IdleType) /\ p \o q \in Seq(IdleType)
      BY OpenedThree, OpenedFour, Zenon DEF Opened
    <2>. QED
      BY <2>1, JoinNone
  <1>2. <<Idle("mediaAdded", V), Idle("mediaAdded", D)>> \in Seq(IdleType)
    BY OpenNotices, Chains
  <1>3. \/ idle' = (IF DecodeAll THEN p ELSE <<>>) \o q \/ idle' = q
        \/ idle' = <<Idle("mediaAdded", V), Idle("mediaAdded", D)>>
    BY Zenon DEF Open, OpenOk, OpenWithoutDecoder, OpenFails
  <1> HIDE DEF p, q
  <1>. QED
    BY <1>1, <1>2, <1>3

LEMMA OpenMain ==
  ASSUME TypeOK, Init, Open
  PROVE  MainTypes'
  <1>0. MainTypes
    BY TypeParts
  <1>1. /\ agenda \in Seq(CallType) /\ port \in [SinkElements -> BOOLEAN]
        /\ link \in [SinkElements -> {D, V, None}] /\ est \in [Elements -> ElementStates]
        /\ dmxOut \in Seq(SinkElements) /\ mElements \subseteq Elements
        /\ told \in [open : BOOLEAN, closing : BOOLEAN, closed : Nat, ready : BOOLEAN]
        /\ mState \in {"CREATED", "OPENED", "CLOSING", "CLOSED"} /\ mReadyToPlay \in BOOLEAN
    BY <1>0, Zenon DEF MainTypes
  <1>2. /\ "STARTED" \in ElementStates /\ "none" \in ElementStates
        /\ "STARTING" \in ElementStates /\ "deleted" \in ElementStates
        /\ D \in Elements /\ V \in Elements /\ V \in SinkElements
        /\ DecodeAll \in BOOLEAN
    BY EventsOK, SMT DEF ElementStates, Elements, SinkElements
  <1>3. /\ UNCHANGED <<agenda, appMedia>> /\ dmxMedia' = TRUE
        /\ told' = [told EXCEPT !.open = TRUE]
        /\ mState' = mState \/ mState' = "OPENED"
        /\ mReadyToPlay' = mReadyToPlay \/ mReadyToPlay' = TRUE
    BY Zenon DEF Open, OpenOk, OpenWithoutDecoder, OpenFails
  <1>4. mElements' \subseteq Elements
    BY <1>2, Zenon DEF Open, OpenOk, OpenWithoutDecoder, OpenFails
  <1>5. est' \in [Elements -> ElementStates]
    <2>1. CASE OpenOk
      BY <1>2, <2>1, Zenon DEF OpenOk
    <2>2. CASE OpenWithoutDecoder
      BY <1>1, <1>2, <2>2, Zenon DEF OpenWithoutDecoder
    <2>3. CASE OpenFails
      BY <1>1, <1>2, <2>3, Zenon DEF OpenFails
    <2>. QED
      BY <2>1, <2>2, <2>3, Zenon DEF Open
  <1>6. port' \in [SinkElements -> BOOLEAN]
    <2>1. port' = [port EXCEPT ![V] = DecodeAll] \/ port' = [port EXCEPT ![V] = TRUE]
      BY Zenon DEF Open, OpenOk, OpenWithoutDecoder, OpenFails
    <2>. QED
      BY <1>1, <1>2, <2>1, Zenon
  <1>7. link' \in [SinkElements -> {D, V, None}]
    <2>1. \E x \in {D, V, None} : link' = link \/ link' = [link EXCEPT ![V] = x]
      BY Zenon DEF Open, OpenOk, OpenWithoutDecoder, OpenFails
    <2>. QED
      BY <1>1, <1>2, <2>1, Zenon
  <1>8. dmxOut' \in Seq(SinkElements)
    <2>1. dmxOut' = dmxOut \/ dmxOut' = <<V>> \/ dmxOut' = <<>>
      BY Zenon DEF Open, OpenOk, OpenWithoutDecoder, OpenFails
    <2>2. <<V>> \in Seq(SinkElements) /\ <<>> \in Seq(SinkElements)
      BY <1>2, Chains
    <2>. QED
      BY <1>1, <2>1, <2>2
  <1>9. told' \in [open : BOOLEAN, closing : BOOLEAN, closed : Nat, ready : BOOLEAN]
    BY <1>1, <1>3, Zenon
  <1>. QED
    BY <1>0, <1>1, <1>3, <1>4, <1>5, <1>6, <1>7, <1>8, <1>9, OpenIdle, Zenon DEF MainTypes

\* The types are kept.
LEMMA TypeKept ==
  ASSUME TypeOK, AnswerInv, [Next]_vars
  PROVE  TypeOK'
  <1>1. OtherTypes'
    BY OtherKept
  <1>2. MainTypes'
    <2>1. CASE PlainStep
      BY <2>1, PlainMain
    <2>2. CASE LoudStep
      BY <2>2, LoudCallsTyped, LoudIdle, LoudElements, LoudLinks, Zenon DEF MainTypes
    <2>3. CASE Open
      <3>1. Init
        BY <2>3, Zenon DEF Open, AnswerInv
      <3>. QED
        BY <2>3, <3>1, OpenMain
    <2>4. CASE Close
      BY <2>4, CloseMain
    <2>. QED
      BY <2>1, <2>2, <2>3, <2>4, AllSteps
  <1>. QED
    BY <1>1, <1>2, TypeParts

\* No step of a session that could not open makes it ready.
LEMMA LoudReady ==
  ASSUME TypeOK, LoudStep, ~mReadyToPlay
  PROVE  ~mReadyToPlay'
  <1>1. ASSUME StopMessage \/ DeleteMessage
        PROVE  ~mReadyToPlay'
    <2>1. MboxMessage
      BY <1>1, Zenon DEF StopMessage, DeleteMessage
    <2>. QED
      BY <2>1, Zenon DEF MboxMessage, ElementDelete, sessionVars
  <1>2. ASSUME ListenerIdle
        PROVE  ~mReadyToPlay'
    BY <1>2, Heard, Zenon DEF sessionVars
  <1>. QED
    BY <1>1, <1>2, Zenon
       DEF LoudStep, RemoveInputMedia, DeleteChannel, DmxStop, DmxOnChannelUnlink, DecStop,
           DecAfterFlush, DecTeardownOutputs, VdecStop, DecCompleteStop, DecOnChannelUnlink,
           StopCb, StopCbCount, StopCbStore, SinkStop, SinkTeardown, SinkInputRemoved,
           SinkCompleteStop, StartVideoSink, StopVideoSink, OnElementStopped,
           otherThanChannels, otherThanDec, otherThanVdec, otherThanSinks, sessionVars

\* A notice that says nothing about playing.
LEMMA SilentPosted ==
  ASSUME idle \in Seq(IdleType), NEW n \in IdleType, n.cb \notin {"ready", "notReady"},
         idle' = Append(idle, n),
         \A i \in DOMAIN idle : idle[i].cb \notin {"ready", "notReady"}
  PROVE  \A i \in DOMAIN idle' : idle'[i].cb \notin {"ready", "notReady"}
  <1>1. /\ \A i \in DOMAIN idle : i \in DOMAIN idle' /\ idle'[i] = idle[i]
        /\ \A i \in DOMAIN idle' : i \in DOMAIN idle \/ i = Len(idle) + 1
        /\ idle'[Len(idle) + 1] = n
    BY AppendContains
  <1>. QED
    BY <1>1, Zenon

LEMMA SilentKept ==
  ASSUME TypeOK, AnswerInv, SilentInv, [Next]_vars
  PROVE  SilentInv'
  <1> SUFFICES ASSUME mState' = "CREATED"
               PROVE  /\ ~mReadyToPlay' /\ ~told'.ready
                      /\ \A i \in DOMAIN idle' : idle'[i].cb \notin {"ready", "notReady"}
    BY Zenon DEF SilentInv
  <1> DEFINE Goal == /\ ~mReadyToPlay' /\ ~told'.ready
                     /\ \A i \in DOMAIN idle' : idle'[i].cb \notin {"ready", "notReady"}
  <1>0. idle \in Seq(IdleType)
    BY Zenon DEF TypeOK
  <1>1. mState = "CREATED" => /\ ~mReadyToPlay /\ ~told.ready
                              /\ \A i \in DOMAIN idle : idle[i].cb \notin {"ready", "notReady"}
    BY Zenon DEF SilentInv
  <1>2. ASSUME PlainStep
        PROVE  Goal
    <2>1. SameIdle /\ UNCHANGED <<mState, mReadyToPlay, told>>
      BY <1>2, PlainSteps, Zenon DEF Plain, sameVars
    <2>2. \A i \in DOMAIN idle' : \/ idle'[i].cb = "sinkFlush"
                                  \/ \E k \in DOMAIN idle : idle[k] = idle'[i]
      BY <1>0, <2>1, AnswersFrame
    <2>3. /\ ~mReadyToPlay /\ ~told.ready
          /\ \A i \in DOMAIN idle : idle[i].cb \notin {"ready", "notReady"}
      BY <1>1, <2>1
    <2>4. "sinkFlush" \notin {"ready", "notReady"}
      OBVIOUS
    <2>5. \A i \in DOMAIN idle' : idle'[i].cb \notin {"ready", "notReady"}
      BY <2>2, <2>3, <2>4, Zenon
    <2>. QED
      BY <2>1, <2>3, <2>5
  <1>3. ASSUME LoudStep
        PROVE  Goal
    <2>1. mState = "CREATED"
      <3>1. CASE UNCHANGED mState
        BY <3>1
      <3>2. CASE OnElementStopped
        <4>1. UNCHANGED mState \/ mState' = "CLOSED"
          BY <3>2, Zenon DEF OnElementStopped
        <4>. QED
          BY <4>1
      <3>3. CASE ListenerIdle
        BY <3>3, Heard, Zenon DEF sessionVars
      <3>. QED
        BY <1>3, <3>1, <3>2, <3>3, LoudTells, Zenon
    <2>2. /\ ~mReadyToPlay /\ ~told.ready
          /\ \A i \in DOMAIN idle : idle[i].cb \notin {"ready", "notReady"}
      BY <1>1, <2>1
    <2>3. ~mReadyToPlay'
      BY <1>3, <2>2, LoudReady
    <2>4. ASSUME UNCHANGED told, UNCHANGED idle
          PROVE  Goal
      BY <2>2, <2>3, <2>4
    <2>5. ASSUME UNCHANGED told, NEW n \in IdleType, n.cb \notin {"ready", "notReady"},
                 idle' = Append(idle, n)
          PROVE  Goal
      <3>1. \A i \in DOMAIN idle' : idle'[i].cb \notin {"ready", "notReady"}
        BY <1>0, <2>2, <2>5, SilentPosted
      <3>. QED
        BY <2>2, <2>3, <2>5, <3>1
    <2>6. ASSUME OnElementStopped
          PROVE  Goal
      <3>1. UNCHANGED told
        BY <2>6, Zenon DEF OnElementStopped, appVars
      <3>2. UNCHANGED idle
        BY <2>1, <2>6, SMT DEF OnElementStopped
      <3>. QED
        BY <2>4, <3>1, <3>2
    <2>7. ASSUME ListenerIdle
          PROVE  Goal
      <3>1. /\ idle # <<>> /\ idle' = Tail(idle)
            /\ told'.ready <=> \/ Head(idle).cb = "ready"
                               \/ (told.ready /\ Head(idle).cb # "notReady")
        BY <2>7, Heard
      <3>2. /\ \A i \in DOMAIN Tail(idle) : i + 1 \in DOMAIN idle /\ Tail(idle)[i] = idle[i + 1]
            /\ 1 \in DOMAIN idle /\ Head(idle) = idle[1]
        BY <1>0, <3>1, TailOfSeq
      <3>3. Head(idle).cb # "ready"
        BY <2>2, <3>2
      <3>4. \A i \in DOMAIN idle' : idle'[i].cb \notin {"ready", "notReady"}
        BY <2>2, <3>1, <3>2, Zenon
      <3>. QED
        BY <2>2, <2>3, <3>1, <3>3, <3>4
    <2>8. \/ /\ UNCHANGED told
             /\ \/ UNCHANGED idle
                \/ \E n \in IdleType : /\ idle' = Append(idle, n)
                                       /\ n.cb \in {"ready", "notReady"} => mReadyToPlay
          \/ OnElementStopped \/ ListenerIdle
      BY <1>3, LoudTells, Zenon
    <2>9. ASSUME UNCHANGED told,
                 NEW n \in IdleType, idle' = Append(idle, n),
                 n.cb \in {"ready", "notReady"} => mReadyToPlay
          PROVE  Goal
      <3>1. n.cb \notin {"ready", "notReady"}
        BY <2>2, <2>9
      <3>. QED
        BY <2>5, <2>9, <3>1
    <2>10. ASSUME UNCHANGED told,
                  \E n \in IdleType : /\ idle' = Append(idle, n)
                                      /\ n.cb \in {"ready", "notReady"} => mReadyToPlay
           PROVE  Goal
      <3>1. PICK n \in IdleType : /\ idle' = Append(idle, n)
                                  /\ n.cb \in {"ready", "notReady"} => mReadyToPlay
        BY <2>10, Zenon
      <3>. QED
        BY <2>9, <2>10, <3>1
    <2> HIDE DEF Goal
    <2>. QED
      BY <2>4, <2>6, <2>7, <2>8, <2>10
  <1>4. ASSUME Open
        PROVE  Goal
    <2>1. Init
      BY <1>4, Zenon DEF Open, AnswerInv
    <2>2. OpenFails
      <3>1. "OPENED" # "CREATED"
        OBVIOUS
      <3>. QED
        BY <1>4, <3>1, Zenon DEF Open, OpenOk, OpenWithoutDecoder
    <2>3. /\ idle' = <<Idle("mediaAdded", V), Idle("mediaAdded", D)>>
          /\ told' = [told EXCEPT !.open = TRUE] /\ mReadyToPlay' = mReadyToPlay
      BY <2>2, Zenon DEF OpenFails
    <2>4. told = [open |-> FALSE, closing |-> FALSE, closed |-> 0, ready |-> FALSE]
          /\ mReadyToPlay = FALSE
      BY <2>1, Zenon DEF Init
    <2>5. ~told'.ready
      BY <2>3, <2>4, SMT
    <2>6. /\ Idle("mediaAdded", V).cb \notin {"ready", "notReady"}
          /\ Idle("mediaAdded", D).cb \notin {"ready", "notReady"}
      BY SMT DEF Idle
    <2>7. \A i \in DOMAIN idle' : idle'[i].cb \notin {"ready", "notReady"}
      BY <2>3, <2>6, SMT
    <2>. QED
      BY <2>3, <2>4, <2>5, <2>7
  <1>5. ASSUME Close
        PROVE  Goal
    <2>1. "CLOSING" # "CREATED"
      OBVIOUS
    <2>2. /\ told' = [told EXCEPT !.closing = TRUE]
          /\ UNCHANGED <<mState, mReadyToPlay>> /\ IdleAdd("closeResponse", None)
      BY <1>5, <2>1, Zenon DEF Close
    <2>3. /\ ~mReadyToPlay /\ ~told.ready
          /\ \A i \in DOMAIN idle : idle[i].cb \notin {"ready", "notReady"}
      BY <1>1, <2>2
    <2>4. ~told'.ready
      <3>1. told \in [open : BOOLEAN, closing : BOOLEAN, closed : Nat, ready : BOOLEAN]
        BY Zenon DEF TypeOK
      <3>. QED
        BY <2>2, <2>3, <3>1, SMT
    <2>5. /\ Idle("closeResponse", None) \in IdleType
          /\ Idle("closeResponse", None).cb \notin {"ready", "notReady"}
      <3>1. "closeResponse" \in Answers
        BY SMT DEF Answers
      <3>2. Idle("closeResponse", None).cb \notin {"ready", "notReady"}
        BY SMT DEF Idle
      <3>. QED
        BY <3>1, <3>2, NoticeTypes
    <2>6. idle' = Append(idle, Idle("closeResponse", None))
      BY <2>2, Zenon DEF IdleAdd
    <2>7. \A i \in DOMAIN idle' : idle'[i].cb \notin {"ready", "notReady"}
      BY <1>0, <2>3, <2>5, <2>6, SilentPosted
    <2>. QED
      BY <2>2, <2>3, <2>4, <2>7
  <1>. QED
    BY <1>2, <1>3, <1>4, <1>5, AllSteps

LEMMA InitTypes ==
  ASSUME Init
  PROVE  TypeOK
  <1>0. /\ DecodeAll \in BOOLEAN /\ "none" \in ElementStates
        /\ \A S : <<>> \in Seq(S)
    BY EventsOK, SMT DEF ElementStates
  <1>1. NewDecoder \in DecType /\ NewSink \in SinkType /\ 0 \in Nat /\ 0 \in Int
    <2>1. 0 \in Nat /\ 0 \in Int
      BY SMT
    <2>. QED
      BY <1>0, <2>1, Zenon DEF NewDecoder, DecType, NewSink, SinkType
  <1>2. vdec \in VdecType
    BY <1>1, Zenon DEF Init, VdecType
  <1>3. told \in [open : BOOLEAN, closing : BOOLEAN, closed : Nat, ready : BOOLEAN]
    BY <1>1, Zenon DEF Init
  <1>4. /\ est \in [Elements -> ElementStates] /\ link \in [SinkElements -> {D, V, None}]
        /\ port \in [SinkElements -> BOOLEAN] /\ mFlushPending \in [SinkElements -> BOOLEAN]
        /\ sink \in [Sinks -> SinkType] /\ dec \in DecType
    BY <1>0, <1>1, Zenon DEF Init
  <1>5. /\ agenda \in Seq(CallType) /\ mMbox \in Seq(MessageType) /\ idle \in Seq(IdleType)
        /\ dmxOut \in Seq(SinkElements) /\ mChannelsFlushing \in Nat
    BY <1>0, <1>1, Zenon DEF Init
  <1>6. /\ mState \in {"CREATED", "OPENED", "CLOSING", "CLOSED"}
        /\ mDemuxer \in BOOLEAN /\ mDemuxerReady \in BOOLEAN /\ mReadyToPlay \in BOOLEAN
        /\ mElements \subseteq Elements /\ dmxMedia \in BOOLEAN
        /\ mRunning \in BOOLEAN /\ mTimer \in BOOLEAN
        /\ appFlush \subseteq Sinks /\ appMedia \subseteq {D, V}
    BY Zenon DEF Init
  <1>. QED
    BY <1>2, <1>3, <1>4, <1>5, <1>6, Zenon DEF TypeOK

LEMMA InitPipeline ==
  ASSUME Init
  PROVE  PipelineInv
  <1>1. TypeOK
    BY InitTypes
  <1>2. /\ mState = "CREATED" /\ idle = <<>> /\ mReadyToPlay = FALSE
        /\ told = [open |-> FALSE, closing |-> FALSE, closed |-> 0, ready |-> FALSE]
    BY Zenon DEF Init
  <1>3. /\ told.closing = FALSE /\ told.closed = 0 /\ told.ready = FALSE /\ ~(told.closed > 0)
        /\ DOMAIN idle = {}
        /\ "CREATED" \notin {"CLOSING", "CLOSED"}
    BY <1>2, SMT
  <1>4. AnswerInv
    BY <1>2, <1>3, Zenon DEF AnswerInv
  <1>5. SilentInv
    BY <1>2, <1>3, Zenon DEF SilentInv
  <1>. QED
    BY <1>1, <1>2, <1>4, <1>5, Zenon DEF PipelineInv

LEMMA PipelineKept ==
  ASSUME PipelineInv, [Next]_vars
  PROVE  PipelineInv'
  <1>0. TypeOK /\ AnswerInv /\ SilentInv /\ (mState # "CREATED" => OpenedInv)
    BY Zenon DEF PipelineInv
  <1>1. TypeOK' /\ AnswerInv' /\ SilentInv'
    BY <1>0, TypeKept, AnswerKept, SilentKept
  <1>2. ASSUME mState' # "CREATED"
        PROVE  OpenedInv'
    <2>1. CASE mState # "CREATED"
      BY <1>0, <2>1, OpenedKept
    <2>2. CASE mState = "CREATED"
      <3>1. CASE PlainStep
        <4>1. UNCHANGED mState
          BY <1>0, <3>1, PlainSteps, Zenon DEF Plain, sameVars
        <4>. QED
          BY <1>2, <2>2, <4>1
      <3>2. CASE LoudStep
        <4>1. CASE UNCHANGED mState
          BY <1>2, <2>2, <4>1
        <4>2. CASE OnElementStopped
          <5>1. UNCHANGED mState
            BY <2>2, <4>2, SMT DEF OnElementStopped
          <5>. QED
            BY <1>2, <2>2, <5>1
        <4>3. CASE ListenerIdle
          <5>1. UNCHANGED mState
            BY <1>0, <4>3, Heard, Zenon DEF sessionVars
          <5>. QED
            BY <1>2, <2>2, <5>1
        <4>. QED
          BY <1>0, <3>2, <4>1, <4>2, <4>3, LoudTells, Zenon
      <3>3. CASE Open
        <4>1. Init
          BY <1>0, <3>3, Zenon DEF Open, AnswerInv
        <4>. QED
          BY <1>2, <3>3, <4>1, OpenKeeps
      <3>4. CASE Close
        <4>1. UNCHANGED mState
          <5>1. mState # "OPENED"
            BY <2>2
          <5>. QED
            BY <3>4, <5>1, Zenon DEF Close
        <4>. QED
          BY <1>2, <2>2, <4>1
      <3>. QED
        BY <1>0, <3>1, <3>2, <3>3, <3>4, AllSteps
    <2>. QED
      BY <2>1, <2>2
  <1>. QED
    BY <1>1, <1>2, Zenon DEF PipelineInv

\* Whatever the application, the decoder and its thread do and in whatever
\* order, the session, its elements, their channels and what the application
\* is told of them fit together as PipelineInv says.
THEOREM PipelineInvariance == Spec => []PipelineInv
  <1>1. Init => PipelineInv
    BY InitPipeline
  <1>2. PipelineInv /\ [Next]_vars => PipelineInv'
    BY PipelineKept
  <1>. QED
    BY <1>1, <1>2, PTL DEF Spec

\* Every variable keeps its type: mChannelsFlushing never goes below zero, and a
\* call, a message or a notice is always one that its receiver has a function for.
THEOREM PipelineTypes == Spec => []TypeOK
  <1>1. PipelineInv => TypeOK
    BY Zenon DEF PipelineInv
  <1>. QED
    BY <1>1, PipelineInvariance, PTL

\* The session says it is ready to play only while its demuxer can play, and
\* the last notice of readyToPlay() says the same as the session.
THEOREM ReadyToPlayIsTrue == Spec => []ReadyToPlayTruth
  <1>1. ASSUME PipelineInv
        PROVE  ReadyToPlayTruth
    <2>0. TypeOK /\ AnswerInv /\ SilentInv /\ (mState # "CREATED" => OpenedInv)
      BY <1>1, Zenon DEF PipelineInv
    <2>1. CASE mState = "CREATED"
      <3>1. /\ ~mReadyToPlay /\ ~told.ready
            /\ \A i \in DOMAIN idle : idle[i].cb \notin {"ready", "notReady"}
        BY <2>0, <2>1, Zenon DEF SilentInv
      <3>2. LastSays(idle, "ready", "notReady", None, told.ready, mReadyToPlay)
        BY <3>1, LastSaysNone
      <3>. QED
        BY <3>1, <3>2, Zenon DEF ReadyToPlayTruth
    <2>2. CASE mState # "CREATED"
      <3>1. LifeInv /\ NoticeInv
        BY <2>0, <2>2, Zenon DEF OpenedInv
      <3>. QED
        BY <3>1, Zenon DEF ReadyToPlayTruth, LifeInv, NoticeInv
    <2>. QED
      BY <2>1, <2>2
  <1>. QED
    BY <1>1, PipelineInvariance, PTL

\* In a session that was opened the source a channel is linked to exists and
\* knows the channel, through every flush, teardown and deletion.
THEOREM LinkedSourceIsAlive == Spec => []LinkedSourceAlive
  <1>1. ASSUME PipelineInv
        PROVE  LinkedSourceAlive
    <2> SUFFICES ASSUME mState # "CREATED", NEW c \in SinkElements, link[c] # None
                 PROVE  /\ Exists(link[c])
                        /\ Contains(IF link[c] = D THEN dmxOut ELSE dec.out, c)
      BY Zenon DEF LinkedSourceAlive
    <2>0. /\ TypeOK /\ MediaInv
      BY <1>1, Zenon DEF PipelineInv, OpenedInv
    <2>1. link[c] \in {D, V} /\ D # V
      <3>1. link \in [SinkElements -> {D, V, None}]
        BY <2>0, Zenon DEF TypeOK
      <3>. QED
        BY <3>1, Distinct, Zenon
    <2>2. ~Contains(<<>>, c)
      BY SMT DEF Contains
    <2>3. "deleted" \in Gone
      BY SMT DEF Gone
    <2>4. CASE link[c] = D
      <3>1. Contains(dmxOut, c)
        BY <2>0, <2>4, Zenon DEF MediaInv
      <3>2. est[D] # "deleted"
        BY <2>0, <2>2, <2>3, <3>1, Zenon DEF MediaInv
      <3>. QED
        BY <2>4, <3>1, <3>2, Zenon DEF Exists
    <2>5. CASE link[c] = V
      <3>1. Contains(dec.out, c)
        BY <2>0, <2>5, Zenon DEF MediaInv
      <3>2. est[V] # "deleted"
        BY <2>0, <2>2, <2>3, <3>1, Zenon DEF MediaInv
      <3>. QED
        BY <2>1, <2>5, <3>1, <3>2, Zenon DEF Exists
    <2>. QED
      BY <2>1, <2>4, <2>5, Zenon
  <1>. QED
    BY <1>1, PipelineInvariance, PTL

\* When the session is closed every element has stopped and no channel is
\* left, and the application is told so once, and last: it was told before of
\* all the medias that were removed and that it cannot play any more.
THEOREM ClosedIsTheEnd == Spec => []ClosedIsFinal
  <1>1. ASSUME PipelineInv
        PROVE  ClosedIsFinal
    <2>0. /\ TypeOK /\ AnswerInv /\ (mState # "CREATED" => OpenedInv)
      BY <1>1, Zenon DEF PipelineInv
    <2>1. ASSUME mState = "CLOSED"
          PROVE  /\ \A e \in Elements : est[e] \in {"none", "STOPPED", "deleted"}
                 /\ \A c \in SinkElements : ~port[c]
      <3>1. LifeInv /\ PortInv /\ DecoderInv
        <4>1. "CLOSED" # "CREATED"
          OBVIOUS
        <4>. QED
          BY <2>0, <2>1, <4>1, Zenon DEF OpenedInv
      <3>2. \A e \in Elements : est[e] \in Gone
        BY <2>1, <3>1, Zenon DEF LifeInv
      <3>3. \A s \in Sinks : ~port[s]
        BY <3>1, <3>2, Distinct, Zenon DEF PortInv
      <3>4. ~port[V]
        <4>1. est[V] \in {"none", "STOPPED", "deleted"}
          BY <3>2, Distinct, Zenon DEF Gone
        <4>2. est[V] \in {"STOPPED", "deleted"} => ~dec.mInputMedia
          BY <3>1, Zenon DEF DecoderInv
        <4>3. port[V] => dec.mInputMedia /\ est[V] # "none"
          BY <3>1, Zenon DEF PortInv
        <4>. QED
          BY <4>1, <4>2, <4>3
      <3>. QED
        BY <3>2, <3>3, <3>4, Distinct, Zenon DEF Gone
    <2>2. ASSUME told.closed > 0, mState # "CREATED"
          PROVE  appMedia = {} /\ ~told.ready
      <3>1. LifeInv /\ MediaInv /\ NoticeInv
        BY <2>0, <2>2, Zenon DEF OpenedInv
      <3>2. mState = "CLOSED" /\ \A i \in DOMAIN idle : idle[i].cb = "sinkFlush"
        BY <2>2, <3>1, Zenon DEF NoticeInv
      <3>3. est[D] \in Gone /\ est[V] \in Gone
        BY <3>1, <3>2, Distinct, Zenon DEF LifeInv
      <3>4. ~dmxMedia /\ ~dec.mOutputMedia /\ ~mReadyToPlay
        <4>1. "CLOSED" # "OPENED"
          OBVIOUS
        <4>. QED
          BY <3>1, <3>2, <3>3, <4>1, Zenon DEF MediaInv, LifeInv
      <3>5. "sinkFlush" \notin {"ready", "notReady", "mediaAdded", "mediaRemoved"}
        OBVIOUS
      <3>6. /\ \A e : Notices(idle, "ready", "notReady", e) = {}
            /\ \A e : Notices(idle, "mediaAdded", "mediaRemoved", e) = {}
        BY <3>2, <3>5, SMT DEF Notices
      <3>7. ~told.ready /\ D \notin appMedia /\ V \notin appMedia
        BY <3>1, <3>4, <3>6, Zenon DEF NoticeInv, LastSays
      <3>. QED
        BY <2>0, <3>7, Zenon DEF TypeOK
    <2>3. told.closed <= 1
      <3>1. told.closed \in Nat
        BY <2>0, Zenon DEF TypeOK
      <3>2. told.closed > 0 => told.closed = 1
        BY <2>0, AnswerParts, Zenon
      <3>. QED
        BY <3>1, <3>2, SMT
    <2>. QED
      BY <2>1, <2>2, <2>3, Zenon DEF ClosedIsFinal
  <1>. QED
    BY <1>1, PipelineInvariance, PTL
=============================================================================
