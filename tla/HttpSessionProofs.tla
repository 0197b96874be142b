------------------------- MODULE HttpSessionProofs -------------------------
(***************************************************************************)
(* Proofs about HttpSession: whatever requests a peer sends, in whatever   *)
(* pieces they arrive, and whatever their handlers do, the parser loses no *)
(* byte, a handler is given the request that was sent in its place, and    *)
(* each request is answered once and honestly.                             *)
(***************************************************************************)
EXTENDS HttpSession, TLAPS

LOCAL INSTANCE WellFoundedInduction

-----------------------------------------------------------------------------
(* Induction over the natural numbers, for sets *)

\* Every set of natural numbers that is not empty has a least element.
LEMMA LeastNat ==
    ASSUME NEW T \in SUBSET Nat, T # {}
    PROVE  \E x \in T : \A y \in T : x <= y
  <1>1. IsWellFoundedOn(OpToRel(<,Nat), Nat)
    BY NatLessThanWellFounded, Zenon
  <1>2. PICK x \in T : \A y \in T : <<y, x>> \notin OpToRel(<,Nat)
    BY <1>1, WFMin, Zenon
  <1>3. ASSUME NEW y \in T PROVE x <= y
    <2>1. <<y, x>> \notin OpToRel(<,Nat)
      BY <1>2, Zenon
    <2>2. ~(y < x)
      BY <2>1 DEF OpToRel
    <2> QED BY <2>2
  <1> QED BY <1>3

\* A set that holds 0, and n + 1 with every n, holds every natural number.
LEMMA NatSetInduction ==
    ASSUME NEW S, 0 \in S, \A n \in Nat : n \in S => n + 1 \in S
    PROVE  Nat \subseteq S
  <1> SUFFICES ASSUME Nat \ S # {} PROVE FALSE
    OBVIOUS
  <1>1. PICK x \in Nat \ S : \A y \in Nat \ S : x <= y
    BY LeastNat, Zenon
  <1>2. x - 1 \in Nat /\ x - 1 \in S
    BY <1>1
  <1> QED BY <1>1, <1>2

-----------------------------------------------------------------------------
(* Joined, which Upto is made of *)

\* The recursive function of Joined.
OnInterval(f, n) == f = [i \in 0 .. n |-> f[i]]
Flat(f, r, n) ==
    /\ OnInterval(f, n)
    /\ \A i \in 0 .. n : f[i] = IF i = 0 THEN <<>> ELSE f[i - 1] \o r[i]

\* It exists, ...
LEMMA FlatExists ==
    ASSUME NEW r, NEW n \in Nat
    PROVE  \E f : Flat(f, r, n)
  <1> DEFINE S == {k \in Nat : \E f : Flat(f, r, k)}
  <1>1. 0 \in S
    <2>1. Flat([i \in 0 .. 0 |-> <<>>], r, 0)
      BY DEF Flat, OnInterval
    <2> QED BY <2>1
  <1>2. ASSUME NEW k \in Nat, k \in S PROVE k + 1 \in S
    <2>1. PICK f : Flat(f, r, k)
      BY <1>2
    <2> DEFINE g == [i \in 0 .. k + 1 |-> IF i = 0 THEN <<>> ELSE f[i - 1] \o r[i]]
    <2>2. ASSUME NEW i \in 0 .. k PROVE g[i] = f[i]
      BY <2>1 DEF Flat
    <2>3. ASSUME NEW i \in 0 .. k + 1 PROVE g[i] = IF i = 0 THEN <<>> ELSE g[i - 1] \o r[i]
      <3>1. CASE i = 0
        BY <3>1, Zenon
      <3>2. CASE i # 0
        <4>1. i - 1 \in 0 .. k
          BY <3>2
        <4>2. g[i - 1] = f[i - 1]
          BY <4>1, <2>2
        <4> QED BY <3>2, <4>2, Zenon
      <3> QED BY <3>1, <3>2
    <2> HIDE DEF g
    <2>4. g = [i \in 0 .. k + 1 |-> g[i]]
      BY DEF g
    <2>5. Flat(g, r, k + 1)
      BY <2>3, <2>4 DEF Flat, OnInterval
    <2> QED BY <2>5
  <1> HIDE DEF S
  <1>3. Nat \subseteq S
    BY <1>1, <1>2, NatSetInduction
  <1> QED BY <1>3 DEF S

StepsOf(f, r, n) == \A j \in 1 .. n : f[j] = f[j - 1] \o r[j]

LEMMA FlatStep ==
    ASSUME NEW f, NEW r, NEW n \in Nat, Flat(f, r, n)
    PROVE  StepsOf(f, r, n)
  <1>0. \A i \in 0 .. n : f[i] = IF i = 0 THEN <<>> ELSE f[i - 1] \o r[i]
    BY DEF Flat
  <1>2. ASSUME NEW j \in 1 .. n PROVE f[j] = f[j - 1] \o r[j]
    <2>1. j \in 0 .. n /\ j # 0
      OBVIOUS
    <2> QED BY <1>0, <2>1, Zenon
  <1> QED BY <1>2, Zenon DEF StepsOf

\* ... is a sequence at every place, and does not depend on what follows.
LEMMA FlatAgrees ==
    ASSUME NEW S, NEW m \in Nat, NEW r \in [1 .. m -> Seq(S)],
           NEW n \in 0 .. m, NEW f, Flat(f, r, n),
           NEW k \in 0 .. n, NEW g, Flat(g, r, k)
    PROVE  \A i \in 0 .. k : f[i] = g[i] /\ f[i] \in Seq(S)
  <1> DEFINE T == {j \in Nat : j \in 0 .. k => f[j] = g[j] /\ f[j] \in Seq(S)}
  <1>1. 0 \in T
    <2>1. f[0] = <<>> /\ g[0] = <<>>
      BY DEF Flat
    <2>2. <<>> \in Seq(S)
      OBVIOUS
    <2>3. f[0] = g[0] /\ f[0] \in Seq(S)
      BY <2>1, <2>2, Zenon
    <2> QED BY <2>3
  <1>2. ASSUME NEW j \in Nat, j \in T PROVE j + 1 \in T
    <2> SUFFICES ASSUME j + 1 \in 0 .. k PROVE f[j + 1] = g[j + 1] /\ f[j + 1] \in Seq(S)
      OBVIOUS
    <2>0. r[j + 1] \in Seq(S)
      OBVIOUS
    <2>4. n \in Nat /\ k \in Nat /\ j + 1 \in 1 .. n /\ j + 1 \in 1 .. k /\ (j + 1) - 1 = j
      OBVIOUS
    <2>5. StepsOf(f, r, n) /\ StepsOf(g, r, k)
      BY <2>4, FlatStep
    <2>1. f[j + 1] = f[j] \o r[j + 1]
      BY <2>4, <2>5, Zenon DEF StepsOf
    <2>2. g[j + 1] = g[j] \o r[j + 1]
      BY <2>4, <2>5, Zenon DEF StepsOf
    <2>3. f[j] = g[j] /\ f[j] \in Seq(S)
      BY <1>2
    <2> QED BY <2>0, <2>1, <2>2, <2>3
  <1> HIDE DEF T
  <1>3. Nat \subseteq T
    BY <1>1, <1>2, NatSetInduction, Zenon
  <1> QED BY <1>3 DEF T

\* Joined is what that function has at k.
LEMMA JoinedIsFlat ==
    ASSUME NEW r, NEW k \in Nat
    PROVE  \E f : Flat(f, r, k) /\ Joined(r, k) = f[k]
  <1>2. PICK f : Flat(f, r, k)
    BY FlatExists
  <1>3. f = [i \in 0 .. k |-> IF i = 0 THEN <<>> ELSE f[i - 1] \o r[i]]
    BY <1>2 DEF Flat, OnInterval
  <1> DEFINE g == CHOOSE joined : joined = [i \in 0 .. k |-> IF i = 0 THEN <<>> ELSE joined[i - 1] \o r[i]]
  <1>4. g = [i \in 0 .. k |-> IF i = 0 THEN <<>> ELSE g[i - 1] \o r[i]]
    BY <1>3, Zenon
  <1>5. Joined(r, k) = g[k]
    BY Zenon DEF Joined
  <1> HIDE DEF g
  <1>6. Flat(g, r, k)
    BY <1>4 DEF Flat, OnInterval
  <1> QED BY <1>5, <1>6

\* One more sequence is appended at the end, and Joined does not depend on
\* what follows either.
AgreeUpto(q, r, k) == \A i \in 1 .. k : q[i] = r[i]

LEMMA JoinedPrefix ==
    ASSUME NEW S, NEW m \in Nat, NEW r \in [1 .. m -> Seq(S)], NEW k \in 0 .. m,
           NEW q \in [1 .. k -> Seq(S)], AgreeUpto(q, r, k)
    PROVE  Joined(q, k) = Joined(r, k)
  <1>0. k \in Nat /\ k \in 0 .. k
    OBVIOUS
  <1>1. PICK f : Flat(f, q, k) /\ Joined(q, k) = f[k]
    BY <1>0, JoinedIsFlat, Zenon
  <1>2. PICK g : Flat(g, r, k) /\ Joined(r, k) = g[k]
    BY <1>0, JoinedIsFlat
  <1>3. Flat(g, q, k)
    BY <1>2 DEF Flat, AgreeUpto
  <1>4. f[k] = g[k]
    <2>1. \A i \in 0 .. k : f[i] = g[i] /\ f[i] \in Seq(S)
      BY <1>0, <1>1, <1>3, FlatAgrees, Zenon
    <2> QED BY <1>0, <2>1
  <1> QED BY <1>1, <1>2, <1>4

LEMMA JoinedStep ==
    ASSUME NEW S, NEW m \in Nat, NEW r \in [1 .. m -> Seq(S)], NEW k \in 0 .. m
    PROVE  /\ Joined(r, 0) = <<>>
           /\ Joined(r, k) \in Seq(S)
           /\ k < m => Joined(r, k + 1) = Joined(r, k) \o r[k + 1]
  <1>1. Joined(r, 0) = <<>>
    <2>1. PICK f : Flat(f, r, 0) /\ Joined(r, 0) = f[0]
      BY JoinedIsFlat
    <2> QED BY <2>1 DEF Flat
  <1>4. PICK g : Flat(g, r, k) /\ Joined(r, k) = g[k]
    BY JoinedIsFlat
  <1>2. Joined(r, k) \in Seq(S)
    BY <1>4, FlatAgrees
  <1>3. ASSUME k < m
        PROVE  Joined(r, k + 1) = Joined(r, k) \o r[k + 1]
    <2>1. PICK f : Flat(f, r, k + 1) /\ Joined(r, k + 1) = f[k + 1]
      BY JoinedIsFlat
    <2>4. k + 1 \in Nat /\ k + 1 \in 1 .. k + 1 /\ (k + 1) - 1 = k
      OBVIOUS
    <2>5. StepsOf(f, r, k + 1)
      BY <2>1, <2>4, FlatStep
    <2>2. f[k + 1] = f[k] \o r[k + 1]
      BY <2>4, <2>5, Zenon DEF StepsOf
    <2>3. f[k] = g[k]
      BY <1>3, <1>4, <2>1, FlatAgrees
    <2> QED BY <1>4, <2>1, <2>2, <2>3, Zenon
  <1> QED BY <1>1, <1>2, <1>3

-----------------------------------------------------------------------------
(* The bytes on the wire *)

\* The elements of two sequences, one after the other.
LEMMA Concatenated ==
    ASSUME NEW S, NEW a \in Seq(S), NEW b \in Seq(S)
    PROVE  /\ a \o b \in Seq(S)
           /\ Len(a \o b) = Len(a) + Len(b)
           /\ \A i \in 1 .. Len(a) : (a \o b)[i] = a[i]
           /\ \A i \in 1 .. Len(b) : (a \o b)[Len(a) + i] = b[i]
  OBVIOUS

\* A request is its head, of three bytes, and its body.
LEMMA RequestShape ==
    ASSUME NEW s \in Seq(Requests), NEW n \in 1 .. Len(s)
    PROVE  /\ HeadOf(s, n) \in Seq(Bytes) /\ Len(HeadOf(s, n)) = 3
           /\ HeadOf(s, n)[1] = [n |-> n, i |-> 1, c |-> IF s[n].bad_head THEN "bad" ELSE "text"]
           /\ HeadOf(s, n)[2] = [n |-> n, i |-> 2, c |-> "lf"]
           /\ HeadOf(s, n)[3] = [n |-> n, i |-> 3, c |-> "lf"]
           /\ Len(s[n].body) \in Nat
           /\ BodyOf(s, n) \in Seq(Bytes) /\ Len(BodyOf(s, n)) = Len(s[n].body)
           /\ RequestOf(s, n) \in Seq(Bytes)
           /\ Len(RequestOf(s, n)) = 3 + Len(s[n].body)
           /\ \A i \in 1 .. 3 : RequestOf(s, n)[i] = HeadOf(s, n)[i]
           /\ \A i \in 1 .. Len(s[n].body) : RequestOf(s, n)[3 + i] = BodyOf(s, n)[i]
  <1>0. s[n] \in Requests
    OBVIOUS
  <1>1. s[n].body \in Seq({"text", "lf", "bad"})
    BY <1>0 DEF Requests
  <1>2. /\ HeadOf(s, n) \in Seq(Bytes) /\ Len(HeadOf(s, n)) = 3
        /\ HeadOf(s, n)[1] = [n |-> n, i |-> 1, c |-> IF s[n].bad_head THEN "bad" ELSE "text"]
        /\ HeadOf(s, n)[2] = [n |-> n, i |-> 2, c |-> "lf"]
        /\ HeadOf(s, n)[3] = [n |-> n, i |-> 3, c |-> "lf"]
    BY DEF HeadOf, Bytes
  <1>3. BodyOf(s, n) \in Seq(Bytes) /\ Len(BodyOf(s, n)) = Len(s[n].body)
    <2>1. Len(s[n].body) \in Nat /\ DOMAIN s[n].body = 1 .. Len(s[n].body)
      BY <1>1
    <2>2. ASSUME NEW j \in 1 .. Len(s[n].body)
          PROVE  [n |-> n, i |-> 3 + j, c |-> s[n].body[j]] \in Bytes
      BY <1>1, <2>1 DEF Bytes
    <2> QED BY <2>1, <2>2 DEF BodyOf
  <1>4. Len(s[n].body) \in Nat
    BY <1>1
  <1>5. /\ RequestOf(s, n) \in Seq(Bytes)
        /\ Len(RequestOf(s, n)) = Len(HeadOf(s, n)) + Len(BodyOf(s, n))
        /\ \A i \in 1 .. Len(HeadOf(s, n)) : RequestOf(s, n)[i] = HeadOf(s, n)[i]
        /\ \A i \in 1 .. Len(BodyOf(s, n)) : RequestOf(s, n)[Len(HeadOf(s, n)) + i] = BodyOf(s, n)[i]
    <2> DEFINE h == HeadOf(s, n)
               b == BodyOf(s, n)
    <2>1. h \in Seq(Bytes) /\ b \in Seq(Bytes)
      BY <1>2, <1>3
    <2>2. RequestOf(s, n) = h \o b
      BY DEF RequestOf
    <2> HIDE DEF h, b
    <2>3. /\ RequestOf(s, n) \in Seq(Bytes)
          /\ Len(RequestOf(s, n)) = Len(h) + Len(b)
          /\ \A i \in 1 .. Len(h) : RequestOf(s, n)[i] = h[i]
          /\ \A i \in 1 .. Len(b) : RequestOf(s, n)[Len(h) + i] = b[i]
      BY <2>1, <2>2
    <2> QED BY <2>3 DEF h, b
  <1> QED BY <1>2, <1>3, <1>4, <1>5, Zenon

\* What Upto is, request by request.
LEMMA UptoStep ==
    ASSUME script \in Seq(Requests)
    PROVE  /\ Upto(0) = <<>>
           /\ \A k \in 0 .. Len(script) :
                 /\ Upto(k) \in Seq(Bytes)
                 /\ k < Len(script) => Upto(k + 1) = Upto(k) \o RequestOf(script, k + 1)
  <1> DEFINE m == Len(script)
             r == [n \in 1 .. m |-> RequestOf(script, n)]
  <1>1. m \in Nat
    OBVIOUS
  <1>2. r \in [1 .. m -> Seq(Bytes)]
    BY RequestShape, Zenon
  <1>3. ASSUME NEW k \in 0 .. m PROVE Upto(k) = Joined(r, k)
    <2> DEFINE q == [n \in 1 .. k |-> RequestOf(script, n)]
    <2>1. q \in [1 .. k -> Seq(Bytes)] /\ AgreeUpto(q, r, k)
      BY <1>1, <1>2, RequestShape DEF AgreeUpto
    <2>2. Upto(k) = Joined(q, k)
      BY DEF Upto
    <2> HIDE DEF q, r, m
    <2>3. Joined(q, k) = Joined(r, k)
      <3>1. k \in 0 .. m
        OBVIOUS
      <3>2. q \in [1 .. k -> Seq(Bytes)]
        BY <2>1
      <3>3. AgreeUpto(q, r, k)
        BY <2>1
      <3> QED BY ONLY <1>1, <1>2, <3>1, <3>2, <3>3, JoinedPrefix, ZenonT(40)
    <2> QED BY <2>2, <2>3
  <1>4. ASSUME NEW k \in 0 .. m, k < m PROVE r[k + 1] = RequestOf(script, k + 1) /\ k + 1 \in 0 .. m
    BY <1>1, <1>4
  <1> HIDE DEF m, r
  <1>5. Upto(0) = <<>>
    BY <1>1, <1>2, <1>3, JoinedStep
  <1>6. ASSUME NEW k \in 0 .. m PROVE Upto(k) \in Seq(Bytes)
    <2>1. k \in 0 .. m
      OBVIOUS
    <2>2. Joined(r, k) \in Seq(Bytes)
      BY ONLY <1>1, <1>2, <2>1, JoinedStep
    <2> QED BY <1>3, <2>2, Zenon
  <1>7. ASSUME NEW k \in 0 .. m, k < m PROVE Upto(k + 1) = Upto(k) \o RequestOf(script, k + 1)
    <2>1. Joined(r, k + 1) = Joined(r, k) \o r[k + 1]
      BY <1>1, <1>2, <1>7, JoinedStep, Zenon
    <2> QED BY <1>3, <1>4, <1>7, <2>1, Zenon
  <1> QED BY <1>5, <1>6, <1>7 DEF m

\* The bytes of fewer requests are the first ones of the bytes of more.
LEMMA UptoPrefix ==
    ASSUME script \in Seq(Requests), NEW k \in 0 .. Len(script), NEW m \in k .. Len(script)
    PROVE  /\ Len(Upto(k)) <= Len(Upto(m))
           /\ \A i \in 1 .. Len(Upto(k)) : Upto(m)[i] = Upto(k)[i]
  <1> DEFINE P(j) == /\ Len(Upto(k)) <= Len(Upto(j))
                     /\ \A i \in 1 .. Len(Upto(k)) : Upto(j)[i] = Upto(k)[i]
             S == {d \in Nat : k + d <= Len(script) => P(k + d)}
  <1>0. Len(script) \in Nat
    OBVIOUS
  <1>1. 0 \in S
    <2>1. Len(Upto(k)) \in Nat
      BY UptoStep
    <2>2. k + 0 = k
      OBVIOUS
    <2> QED BY <2>1, <2>2
  <1>2. ASSUME NEW d \in Nat, d \in S PROVE d + 1 \in S
    <2> SUFFICES ASSUME k + (d + 1) <= Len(script) PROVE P(k + (d + 1))
      OBVIOUS
    <2>1. k + d \in 0 .. Len(script) /\ k + d < Len(script) /\ k + (d + 1) = (k + d) + 1
      BY <1>0
    <2> DEFINE j == k + d
    <2>2. P(j)
      BY <1>2, <2>1
    <2>3. /\ Upto(j) \in Seq(Bytes) /\ Upto(k) \in Seq(Bytes)
          /\ Upto(j + 1) = Upto(j) \o RequestOf(script, j + 1)
      BY <2>1, UptoStep, Zenon
    <2>4. RequestOf(script, j + 1) \in Seq(Bytes)
      <3>1. j + 1 \in 1 .. Len(script)
        BY <2>1
      <3> QED BY <3>1, RequestShape, Zenon
    <2> HIDE DEF j
    <2>5. P(j + 1)
      BY <2>2, <2>3, <2>4
    <2> QED BY <2>1, <2>5 DEF j
  <1> HIDE DEF S
  <1>3. Nat \subseteq S
    BY <1>1, <1>2, NatSetInduction, Zenon
  <1>4. m - k \in Nat /\ k + (m - k) = m /\ m <= Len(script)
    BY <1>0
  <1>5. m - k \in S
    BY <1>3, <1>4
  <1>6. k + (m - k) <= Len(script) => P(k + (m - k))
    BY <1>5 DEF S
  <1> HIDE DEF P
  <1>7. P(m)
    BY <1>4, <1>6
  <1> QED BY <1>7 DEF P

\* So each request is at its place on the wire.
LEMMA WireShape ==
    ASSUME script \in Seq(Requests), NEW k \in 0 .. Len(script)
    PROVE  /\ Wire \in Seq(Bytes) /\ Upto(k) \in Seq(Bytes) /\ Len(Upto(0)) = 0
           /\ Len(Upto(k)) <= Len(Wire)
           /\ Upto(k) = SubSeq(Wire, 1, Len(Upto(k)))
           /\ k < Len(script) =>
                 /\ Len(Upto(k + 1)) = Len(Upto(k)) + 3 + Len(script[k + 1].body)
                 /\ Len(Upto(k + 1)) <= Len(Wire)
                 /\ \A i \in 1 .. 3 : Wire[Len(Upto(k)) + i] = HeadOf(script, k + 1)[i]
                 /\ \A i \in 1 .. Len(script[k + 1].body) :
                       Wire[Len(Upto(k)) + 3 + i] = BodyOf(script, k + 1)[i]
  <1>0. Len(script) \in Nat
    OBVIOUS
  <1>1. Wire \in Seq(Bytes) /\ Upto(k) \in Seq(Bytes) /\ Upto(0) = <<>>
    BY <1>0, UptoStep DEF Wire
  <1>2. /\ Len(Upto(k)) <= Len(Wire)
        /\ \A i \in 1 .. Len(Upto(k)) : Wire[i] = Upto(k)[i]
    BY <1>0, UptoPrefix DEF Wire
  <1>3. Upto(k) = SubSeq(Wire, 1, Len(Upto(k)))
    BY <1>1, <1>2
  <1>4. ASSUME k < Len(script)
        PROVE  /\ Len(Upto(k + 1)) = Len(Upto(k)) + 3 + Len(script[k + 1].body)
               /\ Len(Upto(k + 1)) <= Len(Wire)
               /\ \A i \in 1 .. 3 : Wire[Len(Upto(k)) + i] = HeadOf(script, k + 1)[i]
               /\ \A i \in 1 .. Len(script[k + 1].body) :
                     Wire[Len(Upto(k)) + 3 + i] = BodyOf(script, k + 1)[i]
    <2> DEFINE r == RequestOf(script, k + 1)
    <2>0. k + 1 \in 1 .. Len(script) /\ k + 1 \in 0 .. Len(script)
      BY <1>0, <1>4
    <2>1. Upto(k + 1) = Upto(k) \o r
      BY <1>4, UptoStep
    <2>2. /\ r \in Seq(Bytes) /\ Len(r) = 3 + Len(script[k + 1].body) /\ Len(script[k + 1].body) \in Nat
          /\ \A i \in 1 .. 3 : r[i] = HeadOf(script, k + 1)[i]
          /\ \A i \in 1 .. Len(script[k + 1].body) : r[3 + i] = BodyOf(script, k + 1)[i]
      BY <2>0, RequestShape, Zenon
    <2>3. /\ Len(Upto(k + 1)) <= Len(Wire)
          /\ \A i \in 1 .. Len(Upto(k + 1)) : Wire[i] = Upto(k + 1)[i]
      BY <1>0, <2>0, UptoPrefix DEF Wire
    <2> HIDE DEF r
    <2> DEFINE u == Upto(k)
               v == Upto(k + 1)
               b == Len(script[k + 1].body)
    <2>4. /\ u \in Seq(Bytes) /\ r \in Seq(Bytes) /\ v = u \o r
          /\ \A i \in 1 .. Len(v) : Wire[i] = v[i]
          /\ b \in Nat /\ Len(r) = 3 + b
      BY <1>1, <2>1, <2>2, <2>3, Zenon
    <2> HIDE DEF u, v, b
    <2>5. Len(v) = Len(u) + Len(r) /\ Len(u) \in Nat
      <3>1. u \in Seq(Bytes) /\ r \in Seq(Bytes) /\ v = u \o r
        BY <2>4
      <3> QED BY <3>1
    <2>6. ASSUME NEW i \in 1 .. Len(r) PROVE Wire[Len(u) + i] = r[i]
      <3>1. Len(u) + i \in 1 .. Len(v) /\ v[Len(u) + i] = r[i]
        BY <2>4, <2>5
      <3> QED BY <2>4, <3>1
    <2>7. Len(v) = Len(u) + 3 + b
      BY <2>4, <2>5
    <2>8. ASSUME NEW i \in 1 .. 3 PROVE Wire[Len(u) + i] = r[i]
      <3>1. i \in 1 .. Len(r)
        BY <2>4
      <3> QED BY <2>6, <3>1
    <2>9. ASSUME NEW i \in 1 .. b PROVE Wire[Len(u) + 3 + i] = r[3 + i]
      <3>1. 3 + i \in 1 .. Len(r) /\ Len(u) + 3 + i = Len(u) + (3 + i)
        BY <2>4, <2>5
      <3> QED BY <2>6, <3>1
    <2> QED BY <2>2, <2>3, <2>7, <2>8, <2>9, Zenon DEF u, v, b
  <1> QED BY <1>1, <1>2, <1>3, <1>4, Zenon

-----------------------------------------------------------------------------
(* The parser *)

\* The smallest and the greatest of a set.
LEMMA MinIs ==
    ASSUME NEW S \in SUBSET Int, NEW x \in S, \A y \in S : x <= y
    PROVE  Min(S) = x
  <1> DEFINE m == Min(S)
  <1>1. \E z \in S : \A y \in S : z <= y
    OBVIOUS
  <1>2. m \in S /\ \A y \in S : m <= y
    BY <1>1, Zenon DEF Min
  <1> HIDE DEF m
  <1>3. m = x
    BY <1>2
  <1> QED BY <1>3 DEF m

LEMMA MaxIs ==
    ASSUME NEW S \in SUBSET Int, NEW x \in S, \A y \in S : y <= x
    PROVE  Max(S) = x
  <1> DEFINE m == Max(S)
  <1>1. \E z \in S : \A y \in S : y <= z
    OBVIOUS
  <1>2. m \in S /\ \A y \in S : y <= m
    BY <1>1, Zenon DEF Max
  <1> HIDE DEF m
  <1>3. m = x
    BY <1>2
  <1> QED BY <1>3 DEF m

\* A piece of a sequence, its elements, and its own pieces.
LEMMA PieceShape ==
    ASSUME NEW S, NEW w \in Seq(S), NEW a \in Nat, NEW b \in Nat, a <= b, b <= Len(w),
           NEW d, d = SubSeq(w, a + 1, b)
    PROVE  /\ d \in Seq(S) /\ Len(d) = b - a
           /\ \A i \in 1 .. b - a : d[i] = w[a + i]
  OBVIOUS

LEMMA PieceSplit ==
    ASSUME NEW S, NEW w \in Seq(S), NEW a \in Nat, NEW b \in Nat, a <= b, b <= Len(w),
           NEW d, d = SubSeq(w, a + 1, b), NEW u \in 0 .. b - a
    PROVE  /\ SubSeq(d, u + 1, Len(d)) = SubSeq(w, a + u + 1, b)
           /\ SubSeq(d, 1, u) = SubSeq(w, a + 1, a + u)
           /\ SubSeq(d, 1, u) \in Seq(S) /\ Len(SubSeq(d, 1, u)) = u
  <1>1. d \in Seq(S) /\ Len(d) = b - a /\ \A i \in 1 .. b - a : d[i] = w[a + i]
    BY PieceShape
  <1>2. a + u \in Nat /\ a + u <= b
    OBVIOUS
  <1>3. SubSeq(d, u + 1, Len(d)) = SubSeq(w, a + u + 1, b)
    BY <1>1, <1>2
  <1>4. SubSeq(d, 1, u) = SubSeq(w, a + 1, a + u)
    BY <1>1, <1>2
  <1>5. SubSeq(d, 1, u) \in Seq(S) /\ Len(SubSeq(d, 1, u)) = u
    BY <1>1
  <1> QED BY <1>3, <1>4, <1>5

LEMMA SameSeq ==
    ASSUME NEW S, NEW d \in Seq(S), NEW e \in Seq(S), Len(d) = Len(e), \A i \in 1 .. Len(e) : d[i] = e[i]
    PROVE  d = e
  OBVIOUS

LEMMA PieceJoin ==
    ASSUME NEW S, NEW w \in Seq(S), NEW a \in Nat, NEW b \in Nat, NEW c \in Nat, a <= b, b <= c, c <= Len(w)
    PROVE  SubSeq(w, a + 1, b) \o SubSeq(w, b + 1, c) = SubSeq(w, a + 1, c)
  <1>1. a + 1 \in 1 .. Len(w) + 1 /\ b \in (a + 1) - 1 .. Len(w) /\ c \in b .. Len(w)
    OBVIOUS
  <1> DEFINE l == SubSeq(w, a + 1, b)
             r == SubSeq(w, b + 1, c)
             x == SubSeq(w, a + 1, c)
  <1>2. l \in Seq(S) /\ Len(l) = b - a /\ \A i \in 1 .. b - a : l[i] = w[a + i]
    BY PieceShape
  <1>3. r \in Seq(S) /\ Len(r) = c - b /\ \A i \in 1 .. c - b : r[i] = w[b + i]
    BY PieceShape
  <1>4. x \in Seq(S) /\ Len(x) = c - a /\ \A i \in 1 .. c - a : x[i] = w[a + i]
    BY PieceShape
  <1> HIDE DEF l, r, x
  <1>5. l \o r \in Seq(S) /\ Len(l \o r) = c - a
    BY SMTT(40), Z3T(40), <1>2, <1>3
  <1>6. ASSUME NEW i \in 1 .. c - a PROVE (l \o r)[i] = x[i]
    <2>0. /\ b - a \in Nat /\ c - b \in Nat /\ c - a = (b - a) + (c - b) /\ i \in Nat
          /\ (l \o r)[i] = IF i <= Len(l) THEN l[i] ELSE r[i - Len(l)]
      BY SMTT(40), Z3T(40), <1>2, <1>3
    <2>1. CASE i <= b - a
      BY <1>2, <1>3, <1>4, <2>0, <2>1
    <2>2. CASE ~(i <= b - a)
      <3>1. i - (b - a) \in 1 .. c - b /\ b + (i - (b - a)) = a + i
        BY <2>0, <2>2
      <3>2. (l \o r)[i] = r[i - (b - a)]
        BY <1>2, <2>0, <2>2
      <3> QED BY <1>3, <1>4, <3>1, <3>2, Zenon
    <2> QED BY <2>1, <2>2, Zenon
  <1>7. l \o r = x
    BY <1>4, <1>5, <1>6, SameSeq, Zenon
  <1> QED BY <1>7 DEF l, r, x

\* ParseHead consumes a whole head, ...
LEMMA ParseWhole ==
    ASSUME NEW data \in Seq(Bytes), Len(data) >= 3,
           data[1].c # "lf", data[2].c = "lf", data[3].c = "lf",
           NEW p, p = ParseHead(data, "request_line")
    PROVE  p.used = 3 /\ p.head = "done" /\ p.fails = (data[1].c = "bad")
  <1> DEFINE lines == {e \in DOMAIN data : data[e].c = "lf"}
             begun(e) == "request_line" = "headers" \/ \E k \in 1 .. e : data[k].c # "lf"
             ends == {e \in lines : (e = 1 \/ e - 1 \in lines) /\ begun(e)}
  <1>0. Len(data) \in Nat /\ DOMAIN data = 1 .. Len(data)
    OBVIOUS
  <1>1. 3 \in ends /\ ends \in SUBSET Int
    BY <1>0
  <1>2. ASSUME NEW y \in ends PROVE 3 <= y
    BY <1>0
  <1>3. Min(ends) = 3
    <2> HIDE DEF ends
    <2> QED BY <1>1, <1>2, MinIs
  <1>4. (\E k \in 1 .. 3 : IsBad(data[k])) <=> data[1].c = "bad"
    BY DEF IsBad
  <1>5. ends # {}
    BY <1>1, Zenon
  <1>6. ParseHead(data, "request_line") = [used |-> 3, head |-> "done", fails |-> data[1].c = "bad"]
    BY <1>3, <1>4, <1>5, Zenon DEF ParseHead
  <1> QED BY <1>6

\* ... the request line without the empty line, no part of the request line, ...
LEMMA ParseLine ==
    ASSUME NEW data \in Seq(Bytes), Len(data) = 2, data[1].c # "lf", data[2].c = "lf",
           NEW p, p = ParseHead(data, "request_line")
    PROVE  p.used = 2 /\ p.head = "headers" /\ p.fails = (data[1].c = "bad")
  <1> DEFINE lines == {e \in DOMAIN data : data[e].c = "lf"}
             begun(e) == "request_line" = "headers" \/ \E k \in 1 .. e : data[k].c # "lf"
             ends == {e \in lines : (e = 1 \/ e - 1 \in lines) /\ begun(e)}
  <1>0. DOMAIN data = 1 .. 2
    OBVIOUS
  <1>1. ends = {}
    BY <1>0
  <1>2. lines \cup {0} \in SUBSET Int /\ 2 \in lines \cup {0} /\ \A y \in lines \cup {0} : y <= 2
    BY <1>0
  <1>3. Max(lines \cup {0}) = 2
    <2> HIDE DEF lines
    <2> QED BY <1>2, MaxIs, Zenon
  <1>4. (\E k \in 1 .. 2 : IsBad(data[k])) <=> data[1].c = "bad"
    BY DEF IsBad
  <1>5. begun(2)
    OBVIOUS
  <1>6. ParseHead(data, "request_line") = [used |-> 2, head |-> "headers", fails |-> data[1].c = "bad"]
    BY <1>1, <1>3, <1>4, <1>5, Zenon DEF ParseHead
  <1> QED BY <1>6

LEMMA ParsePart ==
    ASSUME NEW data \in Seq(Bytes), Len(data) = 1, data[1].c # "lf",
           NEW p, p = ParseHead(data, "request_line")
    PROVE  p.used = 0 /\ p.head = "request_line" /\ ~p.fails
  <1> DEFINE lines == {e \in DOMAIN data : data[e].c = "lf"}
             begun(e) == "request_line" = "headers" \/ \E k \in 1 .. e : data[k].c # "lf"
             ends == {e \in lines : (e = 1 \/ e - 1 \in lines) /\ begun(e)}
  <1>0. DOMAIN data = 1 .. 1
    OBVIOUS
  <1>1. ends = {} /\ lines = {}
    BY <1>0
  <1>2. Max(lines \cup {0}) = 0
    <2>1. {0} \in SUBSET Int /\ 0 \in {0} /\ \A y \in {0} : y <= 0
      OBVIOUS
    <2>2. lines \cup {0} = {0}
      BY <1>1
    <2> HIDE DEF lines
    <2> QED BY <2>1, <2>2, MaxIs, Zenon
  <1>3. ~\E k \in 1 .. 0 : IsBad(data[k])
    OBVIOUS
  <1>4. ~begun(0)
    OBVIOUS
  <1>6. ParseHead(data, "request_line") = [used |-> 0, head |-> "request_line", fails |-> FALSE]
    BY <1>1, <1>2, <1>3, <1>4, Zenon DEF ParseHead
  <1> QED BY <1>6

\* ... and the empty line when the request line was consumed before.
LEMMA ParseEnd ==
    ASSUME NEW data \in Seq(Bytes), Len(data) >= 1, data[1].c = "lf",
           NEW p, p = ParseHead(data, "headers")
    PROVE  p.used = 1 /\ p.head = "done" /\ ~p.fails
  <1> DEFINE lines == {e \in DOMAIN data : data[e].c = "lf"}
             begun(e) == "headers" = "headers" \/ \E k \in 1 .. e : data[k].c # "lf"
             ends == {e \in lines : (e = 1 \/ e - 1 \in lines) /\ begun(e)}
  <1>0. Len(data) \in Nat /\ DOMAIN data = 1 .. Len(data)
    OBVIOUS
  <1>1. 1 \in ends /\ ends \in SUBSET Int
    BY <1>0
  <1>2. ASSUME NEW y \in ends PROVE 1 <= y
    BY <1>0
  <1>3. Min(ends) = 1
    <2> HIDE DEF ends
    <2> QED BY <1>1, <1>2, MinIs
  <1>4. ~\E k \in 1 .. 1 : IsBad(data[k])
    BY DEF IsBad
  <1>5. ends # {}
    BY <1>1, Zenon
  <1>6. ParseHead(data, "headers") = [used |-> 1, head |-> "done", fails |-> FALSE]
    BY <1>3, <1>4, <1>5, Zenon DEF ParseHead
  <1> QED BY <1>6

\* h is a head, of which the part t is consumed and the parser is at start; ...
IsHead(h) == Len(h) = 3 /\ h[1].c # "lf" /\ h[2].c = "lf" /\ h[3].c = "lf"
PartOf(t, start, h) ==
    \/ t = <<>> /\ start = "request_line"
    \/ t = SubSeq(h, 1, 2) /\ start = "headers" /\ h[1].c # "bad"

\* ... and what p consumes of d is the next part of h.
Consumes(p, d, t, h) ==
    /\ p.used \in 0 .. Len(d)
    /\ ~p.fails =>
          \/ p.head = "done" /\ t \o SubSeq(d, 1, p.used) = h
          \/ p.head = "headers" /\ h[1].c # "bad" /\ t \o SubSeq(d, 1, p.used) = SubSeq(h, 1, 2)
          \/ p.head = "request_line" /\ t \o SubSeq(d, 1, p.used) = <<>>

\* ParseHead does so when d follows t in w, where h begins after u.
LEMMA HeadBytes ==
    ASSUME NEW w, NEW h \in Seq(Bytes), IsHead(h),
           NEW u \in Nat, \A i \in 1 .. 3 : w[u + i] = h[i],
           NEW t, NEW start, PartOf(t, start, h),
           NEW d \in Seq(Bytes), Len(d) > 0, \A i \in 1 .. Len(d) : d[i] = w[u + Len(t) + i],
           NEW p, p = ParseHead(d, start)
    PROVE  Consumes(p, d, t, h)
  <1> USE DEF IsHead, Consumes
  <1> DEFINE l == Len(d)
  <1>0. l \in Nat /\ l > 0
    OBVIOUS
  <1>9. \A i \in 1 .. l : d[i] = w[u + Len(t) + i]
    OBVIOUS
  <1> HIDE DEF l
  <1>1. CASE t = <<>> /\ start = "request_line"
    <2>1. ASSUME NEW i \in 1 .. l PROVE d[i] = w[u + i]
      <3>1. Len(t) = 0
        BY <1>1
      <3>2. u + Len(t) + i = u + i
        BY <1>0, <3>1
      <3> QED BY <1>9, <3>2
    <2>2. d[1] = h[1] /\ (l >= 2 => d[2] = h[2]) /\ (l >= 3 => d[3] = h[3])
      <3>1. /\ 1 \in 1 .. l /\ (l >= 2 => 2 \in 1 .. l) /\ (l >= 3 => 3 \in 1 .. l)
            /\ 1 \in 1 .. 3 /\ 2 \in 1 .. 3 /\ 3 \in 1 .. 3
        BY <1>0
      <3> QED BY <2>1, <3>1, Zenon
    <2>3. CASE l = 1
      <3>1. p.used = 0 /\ p.head = "request_line" /\ ~p.fails
        BY <1>1, <2>2, <2>3, ParsePart, Zenon DEF l
      <3>2. <<>> \o SubSeq(d, 1, 0) = <<>>
        OBVIOUS
      <3> QED BY <1>1, <2>3, <3>1, <3>2 DEF l
    <2>4. CASE l = 2
      <3>1. p.used = 2 /\ p.head = "headers" /\ p.fails = (d[1].c = "bad")
        BY <1>1, <2>2, <2>4, ParseLine DEF l
      <3>2. <<>> \o SubSeq(d, 1, 2) = SubSeq(h, 1, 2)
        BY <2>2, <2>4 DEF l
      <3>3. ~p.fails => h[1].c # "bad"
        BY <2>2, <3>1, Zenon
      <3>4. p.used \in 0 .. l
        BY <2>4, <3>1
      <3> QED BY <1>1, <3>1, <3>2, <3>3, <3>4, Zenon DEF l
    <2>5. CASE l >= 3
      <3>1. p.used = 3 /\ p.head = "done" /\ p.fails = (d[1].c = "bad")
        BY <1>1, <2>2, <2>5, ParseWhole DEF l
      <3>2. <<>> \o SubSeq(d, 1, 3) = h
        BY <1>0, <2>2, <2>5 DEF l
      <3>3. p.used \in 0 .. l
        BY <1>0, <2>5, <3>1
      <3> QED BY <1>1, <3>1, <3>2, <3>3, Zenon DEF l
    <2>6. l = 1 \/ l = 2 \/ l >= 3
      BY <1>0
    <2> QED BY <2>3, <2>4, <2>5, <2>6, Zenon
  <1>2. CASE t = SubSeq(h, 1, 2) /\ start = "headers" /\ h[1].c # "bad"
    <2>1. Len(t) = 2
      BY <1>2
    <2>2. d[1] = h[3]
      <3>1. 1 \in 1 .. l /\ u + Len(t) + 1 = u + 3 /\ 3 \in 1 .. 3
        BY <1>0, <2>1
      <3> QED BY <1>9, <3>1, Zenon
    <2>3. p.used = 1 /\ p.head = "done" /\ ~p.fails
      BY <1>0, <1>2, <2>2, ParseEnd DEF l
    <2>4. SubSeq(h, 1, 2) \o SubSeq(d, 1, 1) = h
      BY <1>0, <2>2 DEF l
    <2>5. p.used \in 0 .. l
      BY <1>0, <2>3
    <2> QED BY <1>2, <2>3, <2>4, <2>5, Zenon DEF l
  <1> QED BY <1>1, <1>2, Zenon DEF PartOf

LEMMA FirstTwo ==
    ASSUME NEW S, NEW h \in Seq(S), Len(h) = 3
    PROVE  SubSeq(h, 1, 2) \in Seq(S) /\ Len(SubSeq(h, 1, 2)) = 2
  OBVIOUS

\* What the invariant says of the place of the parser on the wire.
LEMMA PlaceOnWire ==
    ASSUME TypeInv
    PROVE  /\ script \in Seq(Requests) /\ Len(script) \in Nat /\ served \in 0 .. Len(script)
           /\ Wire \in Seq(Bytes) /\ Len(Wire) \in Nat
           /\ Upto(served) \in Seq(Bytes) /\ Len(Upto(served)) \in Nat /\ Len(Upto(served)) <= Len(Wire)
           /\ served = Len(script) => Len(Upto(served)) = Len(Wire)
  <1>1. script \in Seq(Requests) /\ Len(script) \in Nat /\ served \in 0 .. Len(script)
    BY HttpSessionAssumption DEF TypeInv
  <1>2. Wire \in Seq(Bytes) /\ Upto(served) \in Seq(Bytes) /\ Len(Upto(served)) <= Len(Wire)
    BY <1>1, WireShape, Zenon
  <1>3. served = Len(script) => Upto(served) = Wire
    BY DEF Wire
  <1>4. Len(Wire) \in Nat /\ Len(Upto(served)) \in Nat
    BY <1>2
  <1> QED BY <1>1, <1>2, <1>3, <1>4

\* The current request, when there is one.
LEMMA CurrentOnWire ==
    ASSUME TypeInv, current <= Len(script)
    PROVE  /\ current \in 1 .. Len(script) /\ script[current] \in Requests
           /\ HeadOf(script, current) \in Seq(Bytes) /\ Len(HeadOf(script, current)) = 3
           /\ HeadOf(script, current)[1].c = IF script[current].bad_head THEN "bad" ELSE "text"
           /\ HeadOf(script, current)[2].c = "lf" /\ HeadOf(script, current)[3].c = "lf"
           /\ HeadOf(script, current)[3].n = current
           /\ BodyOf(script, current) \in Seq(Bytes)
           /\ Len(BodyOf(script, current)) = Len(script[current].body) /\ Len(script[current].body) \in Nat
           /\ Len(Upto(current)) = Len(Upto(served)) + 3 + Len(script[current].body)
           /\ Len(Upto(current)) <= Len(Wire)
           /\ \A i \in 1 .. 3 : Wire[Len(Upto(served)) + i] = HeadOf(script, current)[i]
           /\ \A i \in 1 .. Len(script[current].body) :
                 Wire[Len(Upto(served)) + 3 + i] = BodyOf(script, current)[i]
  <1>1. /\ current \in 1 .. Len(script) /\ served \in 0 .. Len(script) /\ served < Len(script)
        /\ served + 1 = current /\ script \in Seq(Requests) /\ script[current] \in Requests
    BY PlaceOnWire DEF current
  <1> DEFINE h == HeadOf(script, current)
  <1>2. /\ h \in Seq(Bytes) /\ Len(h) = 3
        /\ h[1] = [n |-> current, i |-> 1, c |-> IF script[current].bad_head THEN "bad" ELSE "text"]
        /\ h[2] = [n |-> current, i |-> 2, c |-> "lf"]
        /\ h[3] = [n |-> current, i |-> 3, c |-> "lf"]
        /\ BodyOf(script, current) \in Seq(Bytes)
        /\ Len(BodyOf(script, current)) = Len(script[current].body) /\ Len(script[current].body) \in Nat
    BY <1>1, RequestShape, Zenon
  <1> HIDE DEF h
  <1>3. /\ h[1].c = IF script[current].bad_head THEN "bad" ELSE "text"
        /\ h[2].c = "lf" /\ h[3].c = "lf" /\ h[3].n = current
    BY <1>2
  <1>4. /\ Len(Upto(served + 1)) = Len(Upto(served)) + 3 + Len(script[served + 1].body)
        /\ Len(Upto(served + 1)) <= Len(Wire)
        /\ \A i \in 1 .. 3 : Wire[Len(Upto(served)) + i] = HeadOf(script, served + 1)[i]
        /\ \A i \in 1 .. Len(script[served + 1].body) :
                 Wire[Len(Upto(served)) + 3 + i] = BodyOf(script, served + 1)[i]
    BY <1>1, WireShape, Zenon
  <1> QED BY <1>1, <1>2, <1>3, <1>4, Zenon DEF h

\* What ParseHead makes of the bytes after the consumed ones.
FirstState == IF req.state = "uninitialized" THEN "request_line" ELSE m_head

LEMMA HeadOnWire ==
    ASSUME TypeInv, HeadInv, ReadsHead,
           NEW d \in Seq(Bytes), Len(d) > 0, Consumed + Len(d) <= Len(Wire),
           \A i \in 1 .. Len(d) : d[i] = Wire[Consumed + i],
           NEW p, p = ParseHead(d, FirstState)
    PROVE  /\ Consumed \in Nat /\ current <= Len(script)
           /\ req.head \in Seq(Bytes) /\ Consumed = Len(Upto(served)) + Len(req.head)
           /\ Consumes(p, d, req.head, HeadOf(script, current))
  <1> DEFINE u == Len(Upto(served))
             h == HeadOf(script, current)
             w == Wire
             t == req.head
             l == Len(d)
             s == FirstState
  <1>0. l \in Nat /\ l > 0
    OBVIOUS
  <1>1. u \in Nat /\ u <= Len(w) /\ (served = Len(script) => u = Len(w)) /\ Len(w) \in Nat
    BY PlaceOnWire, Zenon
  <1>2. Len(req.body) = 0
    BY DEF HeadInv
  <1>3. \/ t = <<>> /\ s = "request_line"
        \/ current <= Len(script) /\ ~script[current].bad_head /\ t = SubSeq(h, 1, 2) /\ s = "headers"
    BY Zenon DEF HeadInv, FirstState
  <1>4. current <= Len(script) =>
           /\ h \in Seq(Bytes) /\ Len(h) = 3
           /\ h[1].c = IF script[current].bad_head THEN "bad" ELSE "text"
           /\ h[2].c = "lf" /\ h[3].c = "lf"
           /\ \A i \in 1 .. 3 : w[u + i] = h[i]
    BY CurrentOnWire, Zenon
  <1>5. t \in Seq(Bytes) /\ Len(t) \in Nat
    <2> HIDE DEF h, t, s
    <2>1. CASE t = <<>>
      <3>1. <<>> \in Seq(Bytes) /\ Len(<<>>) \in Nat
        OBVIOUS
      <3> QED BY <2>1, <3>1, Zenon
    <2>2. CASE current <= Len(script) /\ t = SubSeq(h, 1, 2)
      <3>1. h \in Seq(Bytes) /\ Len(h) = 3
        BY <1>4, <2>2
      <3>2. SubSeq(h, 1, 2) \in Seq(Bytes) /\ Len(SubSeq(h, 1, 2)) = 2
        BY <3>1, FirstTwo, Zenon
      <3> QED BY <2>2, <3>2
    <2> QED BY <1>3, <2>1, <2>2
  <1>6. Consumed = u + Len(t) /\ Consumed \in Nat
    BY <1>1, <1>2, <1>5 DEF Consumed
  <1>7. current <= Len(script)
    <2>1. u # Len(w)
      BY <1>0, <1>1, <1>5, <1>6
    <2> QED BY <1>1, <2>1, PlaceOnWire DEF current
  <1>8. \A i \in 1 .. l : d[i] = w[u + Len(t) + i]
    BY <1>6, Zenon
  <1> HIDE DEF u, h, w, t, s, l
  <1>9. h \in Seq(Bytes) /\ IsHead(h) /\ \A i \in 1 .. 3 : w[u + i] = h[i]
    BY <1>4, <1>7, Zenon DEF IsHead
  <1>10. PartOf(t, s, h)
    <2>1. CASE t = <<>> /\ s = "request_line"
      BY <2>1, Zenon DEF PartOf
    <2>2. CASE current <= Len(script) /\ ~script[current].bad_head /\ t = SubSeq(h, 1, 2) /\ s = "headers"
      <3>1. h[1].c # "bad"
        BY <1>4, <2>2, Zenon
      <3> QED BY <2>2, <3>1, Zenon DEF PartOf
    <2> QED BY <1>3, <2>1, <2>2, Zenon
  <1>11. p = ParseHead(d, s)
    BY Zenon DEF s
  <1>12. Consumes(p, d, t, h)
    <2>1. u \in Nat /\ Len(d) > 0 /\ \A i \in 1 .. Len(d) : d[i] = w[u + Len(t) + i]
      BY <1>1, <1>8, Zenon DEF l
    <2> QED BY <1>9, <1>10, <1>11, <2>1, HeadBytes
  <1> QED BY <1>5, <1>6, <1>7, <1>12, Zenon DEF u, h, t

-----------------------------------------------------------------------------
(* The steps that leave the bytes alone *)

\* The wire is the same as long as the script is, and so is what is consumed
\* of it when no byte is read or parsed.
LEMMA SameWire ==
    ASSUME script' = script, served' = served
    PROVE  /\ Wire' = Wire /\ Upto(served)' = Upto(served) /\ current' = current
           /\ HeadOf(script, current)' = HeadOf(script, current)
           /\ BodyOf(script, current)' = BodyOf(script, current)
           /\ script[current]' = script[current]
  <1>1. Wire' = Wire /\ Upto(served)' = Upto(served) /\ current' = current
    BY Zenon DEF Wire, Upto, current
  <1> QED BY <1>1

LEMMA SameBytes ==
    ASSUME UNCHANGED <<script, served, taken, m_pending, req>>
    PROVE  InStep' <=> InStep
  <1>1. Wire' = Wire /\ Upto(served)' = Upto(served)
    BY SameWire
  <1>2. Consumed' = Consumed
    BY <1>1 DEF Consumed
  <1> QED BY <1>1, <1>2, Zenon DEF InStep

Quiet == UNCHANGED <<script, taken, m_pending, m_head, m_remaining, req, served>>

\* Of these steps the type invariant and the parser's invariants depend on
\* where the coroutine goes, and on hasRead, only.
LEMMA QuietBytes ==
    ASSUME Inv, Quiet,
           ReadsHead' => ReadsHead,
           HasRequest' => HasRequest /\ (pc' = "route" <=> pc = "route"),
           HasRequest' /\ ~InStep => hasRead' \in {"failed", "caught"},
           Place' \in {"body", "read_body"} => m_remaining > 0 /\ hasRead' = "no",
           HasRequest' /\ hasRead' = "no" => hasRead = "no",
           HasRequest' /\ pc' # "route" /\ hasRead' = "done" => m_remaining = 0
    PROVE  HeadInv' /\ RequestInv'
  <1>1. /\ Wire' = Wire /\ current' = current /\ script' = script
        /\ HeadOf(script, current)' = HeadOf(script, current)
        /\ BodyOf(script, current)' = BodyOf(script, current)
    BY SameWire, Zenon DEF Quiet
  <1>2. InStep' <=> InStep
    BY SameBytes, Zenon DEF Quiet
  <1>3. HeadInv'
    BY <1>1, <1>2, Zenon DEF Inv, HeadInv, Quiet
  <1>4. RequestInv'
    BY <1>1, <1>2, Zenon DEF Inv, RequestInv, Quiet
  <1> QED BY <1>3, <1>4, Zenon

\* Where an exception goes.
LEMMA Thrown ==
    ASSUME NEW where \in {"headers", "handler", "body", "break", "shutdown"}, NEW e, ThrowFrom(where, e)
    PROVE  /\ error' = e
           /\ where \in {"handler", "body"} => pc' = "unwind"
           /\ where \in {"headers", "break"} => pc' = "catch"
           /\ where = "shutdown" => pc' = "gone"
  BY DEF ThrowFrom

QuietStep ==
    \/ ReadFails \/ WriteSome \/ WriteFails \/ Catch \/ Shutdown
    \/ Handler \/ Loop \/ Peer

\* The socket, the handler and the loop leave the bytes to the parser.
LEMMA QuietStepIsQuiet == ASSUME QuietStep PROVE Quiet
  BY Zenon DEF QuietStep, Quiet, Handler, Loop, Peer, socketVars, parserVars,
         ReadFails, WriteSome, WriteFails, Catch, Shutdown, HandlerReads, HandlerWrites, HandlerYields, HandlerThrows, HandlerCatches, HandlerUnwinds, HandlerReturns, Start, Resume, WakeUp, ResumeWithError, PeerSends, PeerReads, PeerHangsUp

LEMMA QuietType ==
    ASSUME Inv, QuietStep
    PROVE  TypeInv'
  <1>1. Wire' = Wire
    BY QuietStepIsQuiet, SameWire, Zenon DEF Quiet
  <1>0. TypeInv /\ (Writing => piece \in Pieces)
    BY Zenon DEF Inv, TypeInv, ControlInv, current
  <1> USE <1>0, <1>1 DEF TypeInv, Writing
  <1>2. CASE ReadFails
    <2>1. pc' \in {"catch", "unwind"} /\ error' = "io_error"
      BY <1>2, Thrown, Zenon DEF ReadFails
    <2>2. hung' \in BOOLEAN /\ m_keep_alive' \in BOOLEAN
      BY <1>2, Zenon DEF ReadFails, GiveUp, socketVars
    <2> QED BY <1>2, <2>1, <2>2 DEF ReadFails, ThrowFrom, GiveUp, socketVars, parserVars, handlerVars
  <1>3. CASE WriteSome
    <2>1. out' \in Seq(Pieces)
      <3>1. out' = Append(out, piece) \/ out' = out
        BY <1>3, Zenon DEF WriteSome
      <3>2. piece \in Pieces
        BY <1>3, Zenon DEF WriteSome
      <3>3. out \in Seq(Pieces)
        OBVIOUS
      <3> QED BY ONLY <3>1, <3>2, <3>3
    <2>2. /\ room' \in BOOLEAN /\ m_can_write_errror' \in BOOLEAN /\ wrote' \in {"no", "head", "all"}
          /\ pc' \in {back, "yield_write"}
      BY <1>3, Zenon DEF WriteSome, Goto
    <2> QED BY <1>3, <2>1, <2>2 DEF WriteSome, socketVars, parserVars, handlerVars
  <1>4. CASE WriteFails
    <2>1. pc' \in {"catch", "unwind", "gone"} /\ error' = "io_error"
      BY <1>4, Thrown, Zenon DEF WriteFails
    <2>2. hung' \in BOOLEAN /\ room' \in BOOLEAN
      BY <1>4, Zenon DEF WriteFails
    <2> QED BY <1>4, <2>1, <2>2 DEF WriteFails, ThrowFrom, socketVars, parserVars, handlerVars
  <1>5. CASE Catch
    BY <1>5 DEF Catch, Write, Goto, socketVars, parserVars, handlerVars
  <1>6. CASE Shutdown
    BY <1>6 DEF Shutdown, Goto, socketVars, parserVars, handlerVars
  <1>7. CASE HandlerReads
    BY <1>7 DEF HandlerReads, Write, Goto, ThrowFrom, Answer, socketVars, parserVars, handlerVars
  <1>8. CASE HandlerWrites
    BY <1>8 DEF HandlerWrites, Write, Answer, socketVars, parserVars, handlerVars
  <1>9. CASE HandlerYields
    <2>1. yields' \in 0 .. MaxYields
      BY <1>9, HttpSessionAssumption DEF HandlerYields
    <2> QED BY <1>9, <2>1 DEF HandlerYields, YieldAt, socketVars, parserVars, handlerVars
  <1>10. CASE HandlerThrows
    BY <1>10 DEF HandlerThrows, ThrowFrom, socketVars, parserVars, handlerVars
  <1>11. CASE HandlerCatches
    BY <1>11 DEF HandlerCatches, Goto, socketVars, parserVars, handlerVars
  <1>12. CASE HandlerUnwinds
    BY SMTT(40), Z3T(40), <1>12 DEF HandlerUnwinds, Goto, socketVars, parserVars, handlerVars
  <1>13. CASE HandlerReturns
    BY SMTT(40), Z3T(40), <1>13 DEF HandlerReturns, Goto, socketVars, parserVars, handlerVars
  <1>14. CASE Start
    <2>1. given' \in {"ok", "timed_out", "io_error"} /\ edge' \in BOOLEAN
      BY <1>14, Zenon DEF Start, Errors
    <2> QED BY <1>14, <2>1 DEF Start, Goto, socketVars, parserVars, handlerVars
  <1>15. CASE Resume
    <2>1. pc' \in {"headers", "handler", "body", "write"} /\ (pc' = "write" => pc = "yield_write")
      BY <1>15, Zenon DEF Resume, Goto
    <2>2. edge' \in BOOLEAN
      BY <1>15, Zenon DEF Resume
    <2> QED BY <1>15, <2>1, <2>2 DEF Resume, Goto, socketVars, parserVars, handlerVars
  <1>16. CASE WakeUp
    BY SMTT(40), Z3T(40), <1>16 DEF WakeUp, Goto, socketVars, parserVars, handlerVars
  <1>17. CASE ResumeWithError
    <2>1. given' \in {"timed_out", "io_error"}
      BY <1>17, Zenon DEF ResumeWithError, Errors
    <2>2. pc' \in {"catch", "unwind", "gone", "handler"} /\ error' \in {error, given'}
      BY <1>17, Thrown, Zenon DEF ResumeWithError, Goto
    <2>3. m_keep_alive' \in BOOLEAN /\ hasRead' \in {"no", "done", "failed", "caught"}
      BY <1>17, Zenon DEF ResumeWithError, GiveUp
    <2> QED BY SMTT(40), Z3T(40), <1>17, <2>1, <2>2, <2>3 DEF ResumeWithError, socketVars, parserVars, handlerVars
  <1>18. CASE PeerSends
    BY SMTT(40), Z3T(40), <1>18 DEF PeerSends, Alive, socketVars, parserVars, handlerVars
  <1>19. CASE PeerReads
    BY SMTT(40), Z3T(40), <1>19 DEF PeerReads, Alive, socketVars, parserVars, handlerVars
  <1>20. CASE PeerHangsUp
    BY <1>20 DEF PeerHangsUp, Alive, socketVars, parserVars, handlerVars
  <1> QED BY <1>2, <1>3, <1>4, <1>5, <1>6, <1>7, <1>8, <1>9, <1>10, <1>11, <1>12, <1>13, <1>14, <1>15, <1>16, <1>17, <1>18, <1>19, <1>20, Zenon DEF QuietStep, Handler, Loop, Peer

\* The invariants of the parser are kept by the steps of the others.
LEMMA QuietParser ==
    ASSUME Inv, QuietStep
    PROVE  HeadInv' /\ RequestInv'
  <1> DEFINE Steady ==
               /\ ReadsHead' => ReadsHead
               /\ HasRequest' => HasRequest /\ (pc' = "route" <=> pc = "route")
               /\ HasRequest' /\ ~InStep => hasRead' \in {"failed", "caught"}
               /\ Place' \in {"body", "read_body"} => m_remaining > 0 /\ hasRead' = "no"
               /\ HasRequest' /\ hasRead' = "no" => hasRead = "no"
               /\ HasRequest' /\ pc' # "route" /\ hasRead' = "done" => m_remaining = 0
  <1>0. /\ HasRequest =>
             /\ ~InStep => pc # "route" /\ hasRead \in {"failed", "caught"}
             /\ Place \in {"body", "read_body"} => m_remaining > 0 /\ hasRead = "no"
             /\ pc # "route" /\ hasRead = "done" => m_remaining = 0
             /\ (req.state = "completed" <=> m_remaining = 0) /\ m_remaining \in Nat
        /\ pc = "yield" => back \in {"headers", "handler", "body"}
        /\ Writing => back \in {"handler", "body", "break", "shutdown"}
        /\ (Writing /\ back = "handler" /\ piece.kind = "continue" => hasRead = "done")
    BY Zenon DEF Inv, RequestInv, TypeInv, ControlInv
  <1> USE <1>0 DEF Place, ReadsHead, HasRequest, Suspended, Writing
  <1>1. ASSUME ReadFails PROVE Steady
    BY <1>1 DEF ReadFails, ThrowFrom, GiveUp, Goto, socketVars, parserVars, handlerVars
  <1>2. ASSUME WriteSome PROVE Steady
    BY <1>2, Zenon DEF WriteSome, Goto, socketVars, parserVars, handlerVars
  <1>3. ASSUME WriteFails PROVE Steady
    BY <1>3, Zenon DEF WriteFails, ThrowFrom, socketVars, parserVars, handlerVars
  <1>4. ASSUME Catch PROVE Steady
    BY <1>4, Zenon DEF Catch, Write, Goto, socketVars, parserVars, handlerVars
  <1>5. ASSUME Shutdown PROVE Steady
    BY <1>5, Zenon DEF Shutdown, Goto, socketVars, parserVars, handlerVars
  <1>6. ASSUME HandlerReads PROVE Steady
    <2>1. pc = "handler" /\ hasRead = "no"
      BY <1>6 DEF HandlerReads
    <2>2. \/ pc' = "unwind" /\ hasRead' = "no"
          \/ pc' = "write" /\ back' = "handler" /\ hasRead' = "done" /\ req.state = "completed"
          \/ pc' = "handler" /\ hasRead' = "done" /\ req.state = "completed"
          \/ pc' = "write" /\ back' = "body" /\ hasRead' = "no" /\ req.state # "completed"
          \/ pc' = "body" /\ hasRead' = "no" /\ req.state # "completed"
      BY <1>6, Zenon DEF HandlerReads, Write, Goto, ThrowFrom
    <2> QED BY SMTT(40), Z3T(40), <2>1, <2>2
  <1>7. ASSUME HandlerWrites PROVE Steady
    BY <1>7, Zenon DEF HandlerWrites, Write, socketVars, parserVars, handlerVars
  <1>8. ASSUME HandlerYields PROVE Steady
    BY <1>8 DEF HandlerYields, YieldAt, socketVars, parserVars, handlerVars
  <1>9. ASSUME HandlerThrows PROVE Steady
    BY <1>9, Zenon DEF HandlerThrows, ThrowFrom, socketVars, parserVars, handlerVars
  <1>10. ASSUME HandlerCatches PROVE Steady
    BY <1>10, Zenon DEF HandlerCatches, Goto, socketVars, parserVars, handlerVars
  <1>11. ASSUME HandlerUnwinds PROVE Steady
    BY <1>11, Zenon DEF HandlerUnwinds, Goto, socketVars, parserVars, handlerVars
  <1>12. ASSUME HandlerReturns PROVE Steady
    BY <1>12, Zenon DEF HandlerReturns, Goto, socketVars, parserVars, handlerVars
  <1>13. ASSUME Start PROVE Steady
    BY <1>13, Zenon DEF Start, Goto, Errors, socketVars, parserVars, handlerVars
  <1>14. ASSUME Resume PROVE Steady
    BY <1>14, Zenon DEF Resume, Goto, socketVars, parserVars, handlerVars
  <1>15. ASSUME WakeUp PROVE Steady
    BY <1>15, Zenon DEF WakeUp, Goto, socketVars, parserVars, handlerVars
  <1>16. ASSUME ResumeWithError PROVE Steady
    BY <1>16, Zenon DEF ResumeWithError, ThrowFrom, Goto, GiveUp, Errors, socketVars, parserVars, handlerVars
  <1>17. ASSUME PeerSends PROVE Steady
    <2>1. pc' = pc /\ back' = back /\ hasRead' = hasRead
      BY <1>17, Zenon DEF PeerSends, handlerVars
    <2> QED BY <2>1, Zenon
  <1>18. ASSUME PeerReads PROVE Steady
    <2>1. pc' = pc /\ back' = back /\ hasRead' = hasRead
      BY <1>18, Zenon DEF PeerReads, handlerVars
    <2> QED BY <2>1
  <1>19. ASSUME PeerHangsUp PROVE Steady
    <2>1. pc' = pc /\ back' = back /\ hasRead' = hasRead
      BY <1>19 DEF PeerHangsUp, handlerVars
    <2> QED BY <2>1
  <1>30. Steady
    BY <1>1, <1>2, <1>3, <1>4, <1>5, <1>6, <1>7, <1>8, <1>9, <1>10, <1>11, <1>12, <1>13, <1>14, <1>15, <1>16, <1>17, <1>18, <1>19, Zenon DEF QuietStep, Handler, Loop, Peer
  <1>31. Quiet
    BY QuietStepIsQuiet
  <1> QED BY <1>30, <1>31, QuietBytes, Zenon

-----------------------------------------------------------------------------
(* The steps of the parser *)

LEMMA ConsumedIsNat == ASSUME TypeInv PROVE Consumed \in Nat
  <1> DEFINE u == Len(Upto(served))
             h == Len(req.head)
             b == Len(req.body)
  <1>1. u \in Nat
    BY PlaceOnWire, Zenon
  <1>2. req.head \in Seq(Bytes) /\ req.body \in Seq(Bytes)
    BY DEF TypeInv, Parsed
  <1>3. h \in Nat /\ b \in Nat
    BY <1>2
  <1>4. Consumed = u + h + b
    BY Zenon DEF Consumed
  <1> HIDE DEF u, h, b
  <1> QED BY <1>1, <1>3, <1>4

LEMMA ParsedIs ==
    ASSUME NEW hd \in Seq(Bytes), NEW bd \in Seq(Bytes),
           NEW st \in {"uninitialized", "processing_head", "headers_completed", "processing_body", "completed"}
    PROVE  [head |-> hd, body |-> bd, state |-> st] \in Parsed
  BY DEF Parsed

\* After read_headers has parsed the bytes up to b.
LEMMA HeadParsedBytes ==
    ASSUME TypeInv, HeadInv, pc \in {"headers", "read_head"}, UNCHANGED <<script, served>>,
           NEW b \in Nat, Consumed < b, b <= Len(Wire),
           NEW d, d = SubSeq(Wire, Consumed + 1, b),
           NEW p, p = ParseHead(d, FirstState), ~p.fails,
           NEW x \in {"headers", "read_head"}, HeadParsed(p, d, x),
           m_pending' = SubSeq(d, p.used + 1, Len(d)), taken' = b
    PROVE  /\ HeadInv' /\ RequestInv'
           /\ pc' \in {"route", x}
           /\ m_head' \in {"request_line", "headers", "done"} /\ m_remaining' \in Nat
           /\ req' \in Parsed /\ m_pending' \in Seq(Bytes)
  <1> DEFINE c == Consumed
             h == HeadOf(script, current)
             t == req.head
             y == SubSeq(d, 1, p.used)
             u == Len(Upto(served))
  <1>0. ReadsHead
    BY Zenon DEF ReadsHead, Place, Suspended
  <1>1. Wire \in Seq(Bytes) /\ Len(Wire) \in Nat
    BY PlaceOnWire, Zenon
  <1>2. c \in Nat
    BY ConsumedIsNat, Zenon
  <1>3. d \in Seq(Bytes) /\ Len(d) = b - c /\ \A i \in 1 .. b - c : d[i] = Wire[c + i]
    <2> DEFINE w == Wire
    <2>1. w \in Seq(Bytes) /\ c <= b /\ b <= Len(w) /\ d = SubSeq(w, c + 1, b)
      BY <1>1, <1>2
    <2> HIDE DEF w, c
    <2>2. d \in Seq(Bytes) /\ Len(d) = b - c /\ \A i \in 1 .. b - c : d[i] = w[c + i]
      BY ONLY b \in Nat, <1>2, <2>1, PieceShape
    <2> QED BY <2>2, Zenon DEF w
  <1>4. /\ current <= Len(script) /\ t \in Seq(Bytes) /\ c = u + Len(t)
        /\ Consumes(p, d, t, h)
    <2>1. Len(d) > 0 /\ Consumed + Len(d) <= Len(Wire)
      BY SMTT(40), Z3T(40), <1>2, <1>3
    <2>2. \A i \in 1 .. Len(d) : d[i] = Wire[Consumed + i]
      BY <1>3
    <2> QED BY <1>0, <1>3, <2>1, <2>2, HeadOnWire, Zenon
  <1>5. /\ p.used \in 0 .. b - c /\ y \in Seq(Bytes) /\ Len(y) = p.used
        /\ m_pending' = SubSeq(Wire, c + p.used + 1, b) /\ m_pending' \in Seq(Bytes)
    <2> DEFINE w == Wire
               v == p.used
    <2>1. w \in Seq(Bytes) /\ c <= b /\ b <= Len(w) /\ d = SubSeq(w, c + 1, b) /\ c \in Nat
      BY <1>1, <1>2
    <2>2. v \in 0 .. b - c /\ m_pending' = SubSeq(d, v + 1, Len(d))
      BY <1>3, <1>4, Zenon DEF Consumes
    <2> HIDE DEF w, c, v
    <2>3. /\ SubSeq(d, v + 1, Len(d)) = SubSeq(w, c + v + 1, b)
          /\ SubSeq(d, 1, v) \in Seq(Bytes) /\ Len(SubSeq(d, 1, v)) = v
      BY ONLY b \in Nat, <2>1, <2>2, PieceSplit
    <2>4. SubSeq(w, (c + v) + 1, b) \in Seq(Bytes)
      BY ONLY b \in Nat, <2>1, <2>2, PieceShape
    <2> QED BY <2>2, <2>3, <2>4, Zenon DEF w, v
  <1>6. Wire' = Wire /\ Upto(served)' = Upto(served) /\ current' = current /\ script' = script
    BY SameWire
  <1> DEFINE hd == t \o y
             bd == Announced(hd)
             st == IF p.head # "done" THEN "processing_head" ELSE IF bd = 0 THEN "completed" ELSE "headers_completed"
  <1>7. /\ m_head' = p.head /\ m_remaining' = (IF p.head = "done" THEN bd ELSE 0)
        /\ req'.head = hd /\ req'.body = req.body /\ req'.state = st
        /\ req' = [head |-> hd, body |-> req.body, state |-> st]
        /\ pc' = IF p.head = "done" THEN "route" ELSE x
    BY Zenon DEF HeadParsed, Goto, TypeInv, Parsed
  <1>8. hd \in Seq(Bytes) /\ Len(hd) = Len(t) + p.used /\ req.body = <<>>
    <2>1. t \in Seq(Bytes) /\ y \in Seq(Bytes) /\ Len(y) = p.used
      BY <1>4, <1>5, Zenon
    <2> HIDE DEF t, y
    <2>2. hd \in Seq(Bytes) /\ Len(hd) = Len(t) + p.used
      BY ONLY <2>1, Concatenated
    <2> QED BY <1>0, <2>2 DEF HeadInv
  <1>9. InStep'
    <2>1. Consumed' = c + p.used
      <3>1. Len(req'.body) = 0 /\ Len(req'.head) = Len(t) + p.used
        BY <1>7, <1>8, Zenon
      <3>2. Consumed' = u + Len(req'.head) + Len(req'.body)
        BY <1>6, Zenon DEF Consumed
      <3>3. u \in Nat /\ Len(t) \in Nat /\ p.used \in Nat /\ c = u + Len(t)
        BY SMTT(40), Z3T(40), <1>4, <1>5, PlaceOnWire
      <3> HIDE DEF u, t, c
      <3> QED BY ONLY <3>1, <3>2, <3>3
    <2>2. c + p.used <= b
      BY SMTT(40), Z3T(40), <1>2, <1>5
    <2> QED BY <1>5, <1>6, <2>1, <2>2, Zenon DEF InStep
  <1>14. hd \in Seq(Bytes) /\ req.body \in Seq(Bytes) /\ req' = [head |-> hd, body |-> req.body, state |-> req'.state]
    BY <1>7, <1>8, Zenon DEF TypeInv, Parsed
  <1>10. CASE p.head = "done" /\ hd = h
    <2>1. bd = Len(script[current].body) /\ bd \in Nat
      <3>1. Len(h) = 3 /\ h[3].n = current /\ Len(script[current].body) \in Nat
        BY <1>4, CurrentOnWire, Zenon
      <3> QED BY <1>10, <3>1, Zenon DEF Announced
    <2>2. SubSeq(BodyOf(script, current), 1, Len(script[current].body) - bd) = <<>>
      BY <2>1
    <2>3. /\ Place' = "route" /\ pc' = "route" /\ HasRequest' /\ ~ReadsHead'
      BY <1>7, <1>10, Zenon DEF Place, Suspended, HasRequest, ReadsHead
    <2>4. m_remaining' = bd /\ req'.state = (IF bd = 0 THEN "completed" ELSE "headers_completed") /\ m_head' = "done"
      BY <1>7, <1>10, Zenon
    <2>5. req'.head = h /\ req'.body = <<>>
      BY <1>7, <1>8, <1>10, Zenon
    <2>6. RequestInv'
      <3>1. /\ current' <= Len(script') /\ req'.head = HeadOf(script, current)'
            /\ m_remaining' <= Len(script[current].body)'
            /\ req'.state = "completed" <=> m_remaining' = 0
            /\ req'.state # "uninitialized" /\ req'.state # "processing_head"
        <4>1. current' <= Len(script') /\ req'.head = HeadOf(script, current)'
          BY <1>4, <1>6, <2>5, SameWire, Zenon
        <4>2. m_remaining' <= Len(script[current].body)'
          <5>1. Len(script[current].body)' = Len(script[current].body)
            BY <1>6, Zenon
          <5> QED BY <2>1, <2>4, <5>1
        <4> HIDE DEF bd
        <4>3. req'.state = "completed" <=> m_remaining' = 0
          BY <2>4, Zenon
        <4>4. req'.state # "uninitialized" /\ req'.state # "processing_head"
          BY <2>4
        <4> QED BY <4>1, <4>2, <4>3, <4>4, Zenon
      <3>2. req'.body = SubSeq(BodyOf(script, current)', 1, Len(script[current].body)' - m_remaining')
        BY <1>6, <2>2, <2>4, <2>5, SameWire, Zenon
      <3> QED BY <1>9, <2>3, <2>5, <3>1, <3>2, Zenon DEF RequestInv
    <2>7. req' \in Parsed
      <3> HIDE DEF hd, bd
      <3>1. req'.state \in {"uninitialized", "processing_head", "headers_completed", "processing_body", "completed"}
        BY ONLY <2>4
      <3>2. [head |-> hd, body |-> req.body, state |-> req'.state] \in Parsed
        BY ONLY <1>14, <3>1, ParsedIs, Zenon
      <3> QED BY ONLY <1>14, <3>2, Zenon
    <2> QED BY <1>5, <2>1, <2>3, <2>4, <2>6, <2>7, Zenon DEF HeadInv
  <1>11. CASE /\ p.head = "headers" /\ ~script[current].bad_head /\ hd = SubSeq(h, 1, 2)
    <2>1. pc' = x /\ m_head' = "headers" /\ m_remaining' = 0 /\ req'.state = "processing_head"
      BY <1>7, <1>11, Zenon
    <2>2. ReadsHead' /\ ~HasRequest'
      BY <2>1 DEF Place, Suspended, HasRequest, ReadsHead
    <2>3. HeadInv'
      BY <1>4, <1>6, <1>7, <1>8, <1>9, <1>11, <2>1, Zenon DEF HeadInv
    <2>4. req' \in Parsed
      BY <1>14, <2>1, ParsedIs, Zenon
    <2> QED BY <1>5, <2>1, <2>2, <2>3, <2>4, Zenon DEF RequestInv
  <1>12. CASE p.head = "request_line" /\ hd = <<>>
    <2>1. pc' = x /\ m_head' = "request_line" /\ m_remaining' = 0 /\ req'.state = "processing_head"
      BY <1>7, <1>12, Zenon
    <2>2. ReadsHead' /\ ~HasRequest'
      BY <2>1 DEF Place, Suspended, HasRequest, ReadsHead
    <2>3. HeadInv'
      BY <1>6, <1>7, <1>8, <1>9, <1>12, <2>1, Zenon DEF HeadInv
    <2>4. req' \in Parsed
      BY <1>14, <2>1, ParsedIs, Zenon
    <2> QED BY <1>5, <2>1, <2>2, <2>3, <2>4, Zenon DEF RequestInv
  <1>13. \/ p.head = "done" /\ hd = h
         \/ p.head = "headers" /\ ~script[current].bad_head /\ hd = SubSeq(h, 1, 2)
         \/ p.head = "request_line" /\ hd = <<>>
    <2>1. h[1].c = IF script[current].bad_head THEN "bad" ELSE "text"
      BY <1>4, CurrentOnWire, Zenon
    <2> QED BY <1>4, <2>1, Zenon DEF Consumes
  <1> QED BY <1>10, <1>11, <1>12, <1>13, Zenon


\* The bytes that read_some returns are the next ones.
LEMMA ReceivedBytes ==
    ASSUME TypeInv, taken # arrived
    PROVE  \E b \in Nat : /\ taken < b /\ b <= arrived /\ b <= Len(Wire)
                          /\ Received = SubSeq(Wire, taken + 1, b)
                          /\ Len(Received) = b - taken /\ Received \in Seq(Bytes)
  <1> DEFINE w == Wire
             S == {arrived, taken + BufferSize}
             b == Min(S)
  <1>1. /\ w \in Seq(Bytes) /\ Len(w) \in Nat /\ arrived \in Nat /\ taken \in Nat
        /\ taken < arrived /\ arrived <= Len(w)
    BY PlaceOnWire DEF TypeInv
  <1>2. b \in Nat /\ taken < b /\ b <= arrived
    <2>1. BufferSize \in Nat /\ BufferSize > 0
      BY HttpSessionAssumption
    <2>2. S \in SUBSET Int
      BY <1>1, <2>1
    <2>3. CASE arrived <= taken + BufferSize
      <3>1. arrived \in S /\ \A z \in S : arrived <= z
        BY <1>1, <2>1, <2>3
      <3> HIDE DEF S
      <3>2. Min(S) = arrived
        BY <2>2, <3>1, MinIs, Zenon
      <3> QED BY <1>1, <3>2
    <2>4. CASE taken + BufferSize < arrived
      <3>1. taken + BufferSize \in S /\ \A z \in S : taken + BufferSize <= z
        BY <1>1, <2>1, <2>4
      <3> HIDE DEF S
      <3>2. Min(S) = taken + BufferSize
        BY <2>2, <3>1, MinIs, Zenon
      <3> QED BY <1>1, <2>1, <2>4, <3>2
    <2> QED BY <1>1, <2>1, <2>3, <2>4
  <1>3. Received = SubSeq(w, taken + 1, b)
    BY Zenon DEF Received
  <1> HIDE DEF w, b
  <1>4. Len(Received) = b - taken /\ Received \in Seq(Bytes)
    BY <1>1, <1>2, <1>3, PieceShape
  <1> QED BY <1>1, <1>2, <1>3, <1>4 DEF w

LEMMA PendingBytes ==
    ASSUME TypeInv, InStep
    PROVE  /\ m_pending # <<>> => Consumed < taken
           /\ m_pending = <<>> => Consumed = taken
           /\ taken \in Nat /\ taken <= Len(Wire)
  <1> DEFINE w == Wire
             c == Consumed
  <1>1. /\ w \in Seq(Bytes) /\ c \in Nat /\ taken \in Nat /\ taken <= Len(w)
        /\ c <= taken /\ m_pending = SubSeq(w, c + 1, taken)
    <2>1. arrived \in 0 .. Len(Wire) /\ taken \in 0 .. arrived
      BY DEF TypeInv
    <2>2. Wire \in Seq(Bytes) /\ Len(Wire) \in Nat /\ Consumed \in Nat
      BY PlaceOnWire, ConsumedIsNat, Zenon
    <2>3. Consumed <= taken /\ m_pending = SubSeq(Wire, Consumed + 1, taken)
      BY Zenon DEF InStep
    <2> QED BY <2>1, <2>2, <2>3
  <1> HIDE DEF w, c
  <1>2. Len(m_pending) = taken - c /\ m_pending \in Seq(Bytes)
    BY <1>1, PieceShape
  <1>3. /\ m_pending # <<>> => c < taken
        /\ m_pending = <<>> => c = taken
    BY <1>1, <1>2
  <1> QED BY <1>1, <1>3, Zenon DEF w, c

\* m_pending.append(data)
LEMMA KeptBytes ==
    ASSUME TypeInv, InStep, taken # arrived, UNCHANGED <<script, served, req>>,
           m_pending' = Kept(Received), taken' = taken + Len(Received)
    PROVE  InStep' /\ m_pending' \in Seq(Bytes)
  <1>1. PICK b \in Nat : /\ taken < b /\ b <= arrived /\ b <= Len(Wire)
                         /\ Received = SubSeq(Wire, taken + 1, b)
                         /\ Len(Received) = b - taken /\ Received \in Seq(Bytes)
    BY ReceivedBytes, Zenon
  <1> DEFINE w == Wire
             c == Consumed
  <1>2. /\ w \in Seq(Bytes) /\ c \in Nat /\ taken \in Nat /\ c <= taken
        /\ m_pending = SubSeq(w, c + 1, taken) /\ m_pending \in Seq(Bytes)
    <2>1. w \in Seq(Bytes)
      BY PlaceOnWire, Zenon
    <2>2. c \in Nat
      BY ConsumedIsNat, Zenon
    <2>3. taken \in Nat /\ m_pending \in Seq(Bytes)
      BY PendingBytes, Zenon DEF TypeInv
    <2> QED BY <2>1, <2>2, <2>3, Zenon DEF InStep
  <1>3. m_pending' = SubSeq(w, c + 1, taken) \o SubSeq(w, taken + 1, b)
    BY <1>1, <1>2, Zenon DEF Kept
  <1>4. taken' = b
    BY <1>1, <1>2
  <1>5. Wire' = w /\ Consumed' = c
    BY SameWire, Zenon DEF Consumed
  <1>6. m_pending' \in Seq(Bytes)
    BY <1>1, <1>2, Concatenated, Zenon DEF Kept
  <1> HIDE DEF w, c
  <1>7. m_pending' = SubSeq(w, c + 1, b)
    <2>1. c <= taken /\ taken <= b /\ b <= Len(w)
      BY <1>1, <1>2 DEF w
    <2> QED BY ONLY <1>2, <1>3, <2>1, b \in Nat, PieceJoin, Zenon
  <1> QED BY SMTT(40), Z3T(40), <1>1, <1>2, <1>4, <1>5, <1>6, <1>7 DEF InStep


LEMMA HeadPendingParser ==
    ASSUME Inv, HeadPending
    PROVE  TypeInv' /\ HeadInv' /\ RequestInv'
  <1>0. TypeInv /\ HeadInv /\ InStep
    BY Zenon DEF Inv, HeadInv, ReadsHead, Place, Suspended, HeadPending
  <1>1. /\ pc = "headers" /\ UNCHANGED <<script, served, taken>> /\ Wire' = Wire
        /\ UNCHANGED <<socketVars, back, given, m_keep_alive, m_can_write_errror, handlerVars, piece, served, out>>
    BY SameWire, Zenon DEF HeadPending, socketVars
  <1> DEFINE p == ParseHead(m_pending, FirstState)
  <1>2. CASE m_pending = <<>>
    <2>1. pc' = "read_head" /\ UNCHANGED parserVars /\ UNCHANGED error
      BY <1>2, Zenon DEF HeadPending, Goto
    <2>2. TypeInv'
      BY <1>0, <1>1, <2>1 DEF TypeInv, Writing, socketVars, handlerVars, parserVars
    <2>3. InStep' <=> InStep
      BY <1>1, <2>1, SameBytes, Zenon DEF parserVars
    <2>4. HeadInv'
      BY <1>0, <1>1, <2>1, <2>3, SameWire, Zenon DEF HeadInv, ReadsHead, Place, Suspended, parserVars
    <2>5. RequestInv'
      BY <2>1, Zenon DEF RequestInv, HasRequest, Place, Suspended
    <2> QED BY <2>2, <2>4, <2>5, Zenon
  <1>3. CASE m_pending # <<>> /\ p.fails
    <2>1. pc' = "catch" /\ UNCHANGED parserVars /\ error' = "malformed"
      BY <1>3, Thrown, Zenon DEF HeadPending, FirstState
    <2>2. TypeInv'
      BY <1>0, <1>1, <2>1 DEF TypeInv, Writing, socketVars, handlerVars, parserVars
    <2> QED BY <2>1, <2>2, Zenon DEF RequestInv, HasRequest, HeadInv, ReadsHead, Place, Suspended
  <1>4. CASE m_pending # <<>> /\ ~p.fails
    <2>1. /\ HeadParsed(p, m_pending, "read_head") /\ UNCHANGED error
          /\ m_pending' = SubSeq(m_pending, p.used + 1, Len(m_pending))
      BY <1>4, Zenon DEF HeadPending, FirstState
    <2>2. /\ taken \in Nat /\ Consumed < taken /\ taken <= Len(Wire)
          /\ m_pending = SubSeq(Wire, Consumed + 1, taken)
      BY <1>0, <1>4, PendingBytes, Zenon DEF InStep
    <2> HIDE DEF p
    <2>3. p = ParseHead(m_pending, FirstState)
      BY DEF p
    <2>4. /\ HeadInv' /\ RequestInv' /\ pc' \in {"route", "read_head"}
          /\ m_head' \in {"request_line", "headers", "done"} /\ m_remaining' \in Nat
          /\ req' \in Parsed /\ m_pending' \in Seq(Bytes)
      BY <1>0, <1>1, <1>4, <2>1, <2>2, <2>3, HeadParsedBytes, Zenon
    <2>5. TypeInv'
      BY SMTT(40), Z3T(40), <1>0, <1>1, <2>1, <2>4 DEF TypeInv, Writing, socketVars, handlerVars
    <2> QED BY <2>4, <2>5, Zenon
  <1> QED BY <1>2, <1>3, <1>4, Zenon

LEMMA ReadHeadParser ==
    ASSUME Inv, ReadHead
    PROVE  TypeInv' /\ HeadInv' /\ RequestInv'
  <1>0. TypeInv /\ HeadInv /\ InStep
    BY Zenon DEF Inv, HeadInv, ReadsHead, Place, Suspended, ReadHead
  <1>1. /\ pc = "read_head" /\ UNCHANGED <<script, served>> /\ Wire' = Wire
        /\ UNCHANGED <<script, arrived, edge, room, hung, given, m_keep_alive, handlerVars, piece, served, out>>
    BY SameWire, Zenon DEF ReadHead
  <1> DEFINE p == ParseHead(Received, FirstState)
  <1>2. CASE taken = arrived
    <2>1. /\ pc' = "yield" /\ back' = "headers"
          /\ UNCHANGED <<taken, m_can_write_errror, parserVars, error>>
      BY <1>2, Zenon DEF ReadHead, YieldAt
    <2>2. TypeInv'
      BY SMTT(40), Z3T(40), <1>0, <1>1, <2>1 DEF TypeInv, Writing, handlerVars, parserVars
    <2>3. InStep' <=> InStep
      BY <1>1, <2>1, SameBytes, Zenon DEF parserVars
    <2>4. HeadInv'
      BY <1>0, <1>1, <2>1, <2>3, SameWire, Zenon DEF HeadInv, ReadsHead, Place, Suspended, parserVars
    <2>5. RequestInv'
      BY <2>1, Zenon DEF RequestInv, HasRequest, Place, Suspended
    <2> QED BY SMTT(40), Z3T(40), <2>2, <2>4, <2>5
  <1>5. ASSUME taken # arrived
        PROVE  /\ taken' = taken + Len(Received) /\ m_can_write_errror' = TRUE /\ UNCHANGED back
               /\ taken' \in 0 .. arrived'
    <2>1. taken' = taken + Len(Received) /\ m_can_write_errror' = TRUE /\ UNCHANGED back
      BY <1>5, Zenon DEF ReadHead
    <2>2. PICK b \in Nat : taken < b /\ b <= arrived /\ Len(Received) = b - taken
      BY <1>0, <1>5, ReceivedBytes, Zenon
    <2>3. taken \in Nat /\ arrived \in Nat
      BY SMTT(40), Z3T(40), <1>0 DEF TypeInv
    <2> QED BY SMTT(40), Z3T(40), <1>1, <2>1, <2>2, <2>3
  <1>6. CASE taken # arrived /\ m_pending # <<>>
    <2>1. /\ m_pending' = Kept(Received) /\ pc' = "headers"
          /\ UNCHANGED <<m_head, m_remaining, req, error>>
      BY <1>6, Zenon DEF ReadHead, Goto
    <2>2. InStep' /\ m_pending' \in Seq(Bytes)
      BY <1>0, <1>1, <1>5, <1>6, <2>1, KeptBytes, Zenon
    <2>3. TypeInv'
      BY SMTT(40), Z3T(40), <1>0, <1>1, <1>5, <1>6, <2>1, <2>2 DEF TypeInv, Writing, handlerVars
    <2>4. HeadInv'
      BY <1>0, <1>1, <2>1, <2>2, SameWire, Zenon DEF HeadInv, ReadsHead, Place, Suspended
    <2>5. RequestInv'
      BY <2>1, Zenon DEF RequestInv, HasRequest, Place, Suspended
    <2> QED BY <2>3, <2>4, <2>5
  <1>3. CASE taken # arrived /\ m_pending = <<>> /\ p.fails
    <2>1. pc' = "catch" /\ UNCHANGED parserVars /\ error' = "malformed"
      BY <1>3, Thrown, Zenon DEF ReadHead, FirstState
    <2>2. TypeInv'
      BY SMTT(40), Z3T(40), <1>0, <1>1, <1>3, <1>5, <2>1 DEF TypeInv, Writing, handlerVars, parserVars
    <2> QED BY <2>1, <2>2 DEF RequestInv, HasRequest, HeadInv, ReadsHead, Place, Suspended
  <1>4. CASE taken # arrived /\ m_pending = <<>> /\ ~p.fails
    <2>1. /\ HeadParsed(p, Received, "headers") /\ UNCHANGED error
          /\ m_pending' = SubSeq(Received, p.used + 1, Len(Received))
      BY <1>4, Zenon DEF ReadHead, FirstState
    <2>2. PICK b \in Nat : /\ taken < b /\ b <= arrived /\ b <= Len(Wire)
                           /\ Received = SubSeq(Wire, taken + 1, b)
                           /\ Len(Received) = b - taken /\ Received \in Seq(Bytes)
      BY <1>0, <1>4, ReceivedBytes, Zenon
    <2>3. Consumed = taken /\ taken \in Nat
      BY <1>0, <1>4, PendingBytes, Zenon
    <2>4. taken' = b
      BY SMTT(40), Z3T(40), <1>4, <1>5, <2>2, <2>3
    <2> HIDE DEF p
    <2>5. p = ParseHead(Received, FirstState)
      BY DEF p
    <2>6. /\ Consumed < b /\ b <= Len(Wire) /\ Received = SubSeq(Wire, Consumed + 1, b)
      BY <2>2, <2>3, Zenon
    <2>7. /\ HeadInv' /\ RequestInv' /\ pc' \in {"route", "headers"}
          /\ m_head' \in {"request_line", "headers", "done"} /\ m_remaining' \in Nat
          /\ req' \in Parsed /\ m_pending' \in Seq(Bytes)
      BY <1>0, <1>1, <1>4, <2>1, <2>4, <2>5, <2>6, HeadParsedBytes, Zenon
    <2>8. TypeInv'
      BY SMTT(40), Z3T(40), <1>0, <1>1, <1>4, <1>5, <2>1, <2>7 DEF TypeInv, Writing, handlerVars
    <2> QED BY <2>7, <2>8, Zenon
  <1> QED BY <1>2, <1>3, <1>4, <1>6, Zenon


LEMMA MinOfTwo ==
    ASSUME NEW r \in Nat, NEW l \in Nat
    PROVE  Min({r, l}) \in Nat /\ Min({r, l}) <= r /\ Min({r, l}) <= l /\ Min({r, l}) \in {r, l}
  <1>1. CASE r <= l
    <2>1. {r, l} \in SUBSET Int /\ r \in {r, l} /\ \A z \in {r, l} : r <= z
      BY <1>1
    <2>2. Min({r, l}) = r
      BY <2>1, MinIs, Zenon
    <2> QED BY <1>1, <2>2
  <1>2. CASE l < r
    <2>1. {r, l} \in SUBSET Int /\ l \in {r, l} /\ \A z \in {r, l} : l <= z
      BY <1>2
    <2>2. Min({r, l}) = l
      BY <2>1, MinIs, Zenon
    <2> QED BY <1>2, <2>2
  <1> QED BY <1>1, <1>2

\* The next v bytes of the body B after the first k, which begin at q in w.
IsAt(w, q, B) == \A i \in 1 .. Len(B) : B[i] = w[q + i]
Prolongs(d, v, B, k) ==
    /\ SubSeq(B, 1, k) \o SubSeq(d, 1, v) = SubSeq(B, 1, k + v)
    /\ SubSeq(B, 1, k + v) \in Seq(Bytes) /\ Len(SubSeq(B, 1, k + v)) = k + v

LEMMA BodyBytes ==
    ASSUME NEW w, NEW B \in Seq(Bytes), NEW q \in Nat, IsAt(w, q, B),
           NEW k \in Nat, NEW v \in Nat, k + v <= Len(B),
           NEW d \in Seq(Bytes), v <= Len(d), NEW e, e = q + k, IsAt(w, e, d)
    PROVE  Prolongs(d, v, B, k)
  <1>1. SubSeq(d, 1, v) = SubSeq(B, k + 1, k + v)
    <2>1. ASSUME NEW i \in 1 .. v PROVE d[i] = B[k + i]
      <3>1. i \in 1 .. Len(d) /\ k + i \in 1 .. Len(B) /\ q + k + i = q + (k + i)
        OBVIOUS
      <3> QED BY <3>1, Zenon DEF IsAt
    <2> QED BY ONLY SMTT(40), Z3T(40), <2>1, B \in Seq(Bytes), d \in Seq(Bytes), k \in Nat, v \in Nat, k + v <= Len(B), v <= Len(d)
  <1>2. SubSeq(B, 0 + 1, k) \o SubSeq(B, k + 1, k + v) = SubSeq(B, 0 + 1, k + v)
    <2>1. k + v \in Nat /\ 0 \in Nat /\ 0 <= k /\ k <= k + v
      OBVIOUS
    <2> QED BY ONLY SMTT(40), Z3T(40), <2>1, PieceJoin, B \in Seq(Bytes), k \in Nat, k + v <= Len(B)
  <1>3. 0 + 1 = 1
    OBVIOUS
  <1>4. SubSeq(B, 1, k + v) \in Seq(Bytes) /\ Len(SubSeq(B, 1, k + v)) = k + v
    BY ONLY B \in Seq(Bytes), k \in Nat, v \in Nat, k + v <= Len(B)
  <1>5. SubSeq(B, 1, k) \o SubSeq(d, 1, v) = SubSeq(B, 1, k + v)
    BY ONLY <1>1, <1>2, <1>3
  <1> QED BY <1>4, <1>5, Zenon DEF Prolongs

\* After read() has parsed the bytes up to b.
LEMMA BodyParsedBytes ==
    ASSUME TypeInv, RequestInv, pc \in {"body", "read_body"}, UNCHANGED <<script, served>>,
           NEW b \in Nat, Consumed < b, b <= Len(Wire),
           NEW d, d = SubSeq(Wire, Consumed + 1, b),
           NEW p, p = ParseBody(d),
           NEW x \in {"body", "read_body"}, BodyParsed(p, d, x),
           m_pending' = SubSeq(d, p.used + 1, Len(d)), taken' = b
    PROVE  /\ RequestInv' /\ pc' \in {"handler", x}
           /\ m_remaining' \in Nat /\ req' \in Parsed /\ m_pending' \in Seq(Bytes)
           /\ pc' = "handler" => hasRead' = "done"
           /\ pc' # "handler" => hasRead' = "no"
  <1> DEFINE c == Consumed
             B == BodyOf(script, current)
             L == Len(script[current].body)
             r == m_remaining
             u == Len(Upto(served))
             v == p.used
  <1>0. /\ HasRequest /\ Place \in {"body", "read_body"} /\ InStep /\ m_remaining > 0 /\ hasRead = "no"
        /\ current <= Len(script) /\ req.head = HeadOf(script, current) /\ r \in Nat /\ r <= L
        /\ req.body = SubSeq(B, 1, L - r)
    BY Zenon DEF RequestInv, HasRequest, Place, Suspended, TypeInv
  <1>1. /\ Wire \in Seq(Bytes) /\ Len(Wire) \in Nat /\ u \in Nat
        /\ L \in Nat /\ B \in Seq(Bytes) /\ Len(B) = L /\ Len(HeadOf(script, current)) = 3
        /\ \A i \in 1 .. L : Wire[u + 3 + i] = B[i]
    BY <1>0, PlaceOnWire, CurrentOnWire, Zenon
  <1>2. c \in Nat /\ c = u + 3 + (L - r)
    <2>1. L - r \in Nat /\ L - r <= Len(B)
      BY SMTT(40), Z3T(40), <1>0, <1>1
    <2> HIDE DEF L, r, B
    <2>2. Len(SubSeq(B, 1, L - r)) = L - r
      BY SMTT(40), Z3T(40), <1>1, <2>1
    <2>3. c = u + Len(req.head) + Len(req.body)
      BY Zenon DEF Consumed
    <2>4. Len(req.head) = 3 /\ Len(req.body) = L - r
      BY <1>0, <1>1, <2>2, Zenon
    <2> HIDE DEF c, u
    <2> QED BY SMTT(40), Z3T(40), <1>1, <2>1, <2>3, <2>4
  <1>3. d \in Seq(Bytes) /\ Len(d) = b - c /\ \A i \in 1 .. b - c : d[i] = Wire[c + i]
    <2> DEFINE w == Wire
    <2>1. w \in Seq(Bytes) /\ c <= b /\ b <= Len(w) /\ d = SubSeq(w, c + 1, b)
      BY SMTT(40), Z3T(40), <1>1, <1>2
    <2> HIDE DEF w, c
    <2>2. d \in Seq(Bytes) /\ Len(d) = b - c /\ \A i \in 1 .. b - c : d[i] = w[c + i]
      BY ONLY SMTT(40), Z3T(40), b \in Nat, <1>2, <2>1, PieceShape
    <2> QED BY <2>2, Zenon DEF w
  <1>4. v \in Nat /\ v <= r /\ v <= Len(d)
    <2> DEFINE l == Len(d)
    <2>1. v = Min({r, l})
      BY Zenon DEF ParseBody
    <2>2. r \in Nat /\ l \in Nat
      BY <1>0, <1>3
    <2> HIDE DEF r, l, v
    <2>3. v \in Nat /\ v <= r /\ v <= l
      BY ONLY SMTT(40), Z3T(40), <2>1, <2>2, MinOfTwo
    <2> QED BY <2>3, Zenon DEF l
  <1> DEFINE k == L - r
             bd == SubSeq(B, 1, k + v)
  <1>21. d = SubSeq(Wire, c + 1, b) /\ c < b /\ m_pending' = SubSeq(d, v + 1, Len(d)) /\ v \in 0 .. b - c
    BY SMTT(40), Z3T(40), <1>2, <1>3, <1>4
  <1>20. /\ m_remaining' = m_remaining - v /\ r = m_remaining /\ u = Len(Upto(served))
         /\ req' = [req EXCEPT !.body = @ \o SubSeq(d, 1, v),
                                !.state = IF m_remaining' = 0 THEN "completed" ELSE "processing_body"]
    BY DEF BodyParsed
  <1> HIDE DEF c, L, r, u, v, B
  <1>5. /\ SubSeq(B, 1, k) \o SubSeq(d, 1, v) = bd
        /\ bd \in Seq(Bytes) /\ Len(bd) = k + v /\ k \in Nat
    <2> DEFINE q == u + 3
               w == Wire
    <2>1. k \in Nat /\ k + v <= Len(B) /\ q \in Nat /\ c = q + k
      BY SMTT(40), Z3T(40), <1>0, <1>1, <1>2, <1>4
    <2>2. IsAt(w, q, B) /\ IsAt(w, q + k, d)
      BY <1>1, <1>3, <2>1, Zenon DEF IsAt
    <2> HIDE DEF k, q, w
    <2>3. v \in Nat /\ v <= Len(d) /\ B \in Seq(Bytes) /\ d \in Seq(Bytes)
      BY <1>1, <1>3, <1>4, Zenon
    <2>4. k \in Nat /\ q \in Nat /\ k + v <= Len(B) /\ c = q + k /\ IsAt(w, q, B) /\ IsAt(w, c, d)
      BY <2>1, <2>2, Zenon
    <2>5. Prolongs(d, v, B, k)
      BY ONLY SMTT(40), Z3T(40), <2>3, <2>4, BodyBytes
    <2> QED BY <2>4, <2>5, Zenon DEF Prolongs
  <1>6. m_pending' = SubSeq(Wire, c + v + 1, b) /\ m_pending' \in Seq(Bytes) /\ c + v <= b
    <2> DEFINE w == Wire
    <2>1. w \in Seq(Bytes) /\ c <= b /\ b <= Len(w) /\ d = SubSeq(w, c + 1, b) /\ c \in Nat
      BY ONLY SMTT(40), Z3T(40), <1>1, <1>2, <1>21, b \in Nat, b <= Len(Wire)
    <2>2. v \in 0 .. b - c /\ m_pending' = SubSeq(d, v + 1, Len(d))
      BY ONLY <1>21
    <2> HIDE DEF w
    <2>3. SubSeq(d, v + 1, Len(d)) = SubSeq(w, c + v + 1, b)
      BY ONLY SMTT(40), Z3T(40), b \in Nat, <2>1, <2>2, PieceSplit
    <2>4. SubSeq(w, (c + v) + 1, b) \in Seq(Bytes)
      BY ONLY SMTT(40), Z3T(40), b \in Nat, <2>1, <2>2, PieceShape
    <2>5. c + v <= b
      BY ONLY SMTT(40), Z3T(40), <1>2, <2>2, b \in Nat
    <2> QED BY ONLY <2>2, <2>3, <2>4, <2>5, Zenon DEF w
  <1>7. /\ m_remaining' = r - v /\ m_remaining' \in Nat
        /\ req' = [head |-> req.head, body |-> bd, state |-> IF m_remaining' = 0 THEN "completed" ELSE "processing_body"]
        /\ pc' = (IF m_remaining' = 0 THEN "handler" ELSE x)
        /\ hasRead' = (IF m_remaining' = 0 THEN "done" ELSE "no")
    <2>1. m_remaining' = r - v /\ r - v \in Nat
      BY SMTT(40), Z3T(40), <1>0, <1>4, <1>20
    <2>2. req.body \o SubSeq(d, 1, v) = bd
      BY <1>0, <1>5, Zenon
    <2>3. req' = [req EXCEPT !.body = bd, !.state = IF m_remaining' = 0 THEN "completed" ELSE "processing_body"]
      BY <1>20, <2>2, Zenon
    <2> HIDE DEF bd
    <2>4. req' = [head |-> req.head, body |-> bd, state |-> IF m_remaining' = 0 THEN "completed" ELSE "processing_body"]
      BY <2>3, Zenon DEF TypeInv, Parsed
    <2> QED BY <1>0, <2>1, <2>4, Zenon DEF BodyParsed, Goto
  <1>8. req' \in Parsed
    <2> HIDE DEF bd
    <2>1. req.head \in Seq(Bytes)
      BY Zenon DEF TypeInv, Parsed
    <2> QED BY <1>5, <1>7, <2>1, ParsedIs, Zenon
  <1>9. Wire' = Wire /\ Upto(served)' = Upto(served) /\ current' = current /\ script' = script /\ B' = B /\ L' = L
    BY SameWire DEF B, L
  <1>10. req'.head = req.head /\ req'.body = bd
    BY <1>7, Zenon
  <1>11. InStep'
    <2>1. Consumed' = c + v
      <3>1. Len(req'.body) = k + v /\ Len(req'.head) = 3
        BY <1>0, <1>1, <1>5, <1>10, Zenon
      <3>2. Consumed' = u + Len(req'.head) + Len(req'.body)
        BY <1>9, <1>20, Zenon DEF Consumed
      <3> QED BY ONLY SMTT(40), Z3T(40), <1>0, <1>1, <1>2, <1>4, <3>1, <3>2
    <2> QED BY <1>6, <1>9, <2>1, Zenon DEF InStep
  <1>12. RequestInv'
    <2>1. bd = SubSeq(B, 1, L - m_remaining')
      <3>1. k + v = L - m_remaining'
        BY SMTT(40), Z3T(40), <1>0, <1>1, <1>4, <1>7
      <3> QED BY <3>1, Zenon
    <2>2. m_remaining' <= L
      BY <1>0, <1>1, <1>4, <1>7
    <2>3. /\ Place' = pc' /\ pc' # "route"
      BY <1>7, Zenon DEF Place, Suspended
    <2>4. /\ req'.state = "completed" <=> m_remaining' = 0
          /\ req'.state # "uninitialized" /\ req'.state # "processing_head"
      BY <1>7, Zenon
    <2>5. /\ Place' \in {"body", "read_body"} => m_remaining' > 0 /\ hasRead' = "no"
          /\ hasRead' = "no" => m_remaining' # 0
          /\ hasRead' = "done" => m_remaining' = 0
      BY <1>7, <2>3
    <2> HIDE DEF bd
    <2> QED BY <1>0, <1>9, <1>10, <1>11, <2>1, <2>2, <2>3, <2>4, <2>5, Zenon DEF RequestInv, B, L
  <1> QED BY <1>6, <1>7, <1>8, <1>12, Zenon


\* What RequestInv says while read() runs.
LEMMA WhileReading ==
    ASSUME Inv, pc \in {"body", "read_body"}
    PROVE  TypeInv /\ RequestInv /\ HasRequest /\ InStep /\ m_remaining > 0 /\ hasRead = "no"
  BY Zenon DEF Inv, TypeInv, RequestInv, HasRequest, Place, Suspended

LEMMA BodyPendingParser ==
    ASSUME Inv, BodyPending
    PROVE  TypeInv' /\ HeadInv' /\ RequestInv'
  <1>0. TypeInv /\ RequestInv /\ HasRequest /\ InStep /\ m_remaining > 0 /\ hasRead = "no"
    BY WhileReading, Zenon DEF BodyPending
  <1>1. /\ pc = "body" /\ UNCHANGED <<script, served, taken>> /\ Wire' = Wire /\ m_can_write_errror' = TRUE
        /\ UNCHANGED <<socketVars, back, given, wrote, accepts, yields, piece, served, out>>
    BY SameWire, Zenon DEF BodyPending, socketVars
  <1> DEFINE p == ParseBody(m_pending)
  <1>2. CASE m_pending = <<>>
    <2>1. pc' = "read_body" /\ UNCHANGED <<parserVars, hasRead, m_keep_alive, error>>
      BY <1>2, Zenon DEF BodyPending, Goto
    <2>2. TypeInv'
      BY <1>0, <1>1, <2>1 DEF TypeInv, Writing, socketVars, parserVars
    <2>3. InStep' <=> InStep
      BY <1>1, <2>1, SameBytes, Zenon DEF parserVars
    <2>4. RequestInv'
      BY <1>0, <1>1, <2>1, <2>3, SameWire, Zenon DEF RequestInv, HasRequest, Place, Suspended, parserVars
    <2>5. HeadInv'
      BY <2>1, Zenon DEF HeadInv, ReadsHead, Place, Suspended
    <2> QED BY <2>2, <2>4, <2>5, Zenon
  <1>3. CASE m_pending # <<>> /\ p.fails
    <2>1. pc' = "unwind" /\ UNCHANGED parserVars /\ error' = "malformed" /\ hasRead' = "failed" /\ m_keep_alive' = FALSE
      BY <1>3, Thrown, Zenon DEF BodyPending, GiveUp
    <2>2. TypeInv'
      BY <1>0, <1>1, <2>1, Zenon DEF TypeInv, Writing, socketVars, parserVars
    <2>3. InStep' <=> InStep
      BY <1>1, <2>1, SameBytes DEF parserVars
    <2>4. RequestInv'
      BY <1>0, <1>1, <2>1, <2>3, SameWire, Zenon DEF RequestInv, HasRequest, Place, Suspended, parserVars
    <2>5. HeadInv'
      BY <2>1, Zenon DEF HeadInv, ReadsHead, Place, Suspended
    <2> QED BY <2>2, <2>4, <2>5
  <1>4. CASE m_pending # <<>> /\ ~p.fails
    <2>1. /\ BodyParsed(p, m_pending, "read_body") /\ UNCHANGED <<m_head, m_keep_alive, error>>
          /\ m_pending' = SubSeq(m_pending, p.used + 1, Len(m_pending))
      BY <1>4, Zenon DEF BodyPending
    <2>2. /\ taken \in Nat /\ Consumed < taken /\ taken <= Len(Wire)
          /\ m_pending = SubSeq(Wire, Consumed + 1, taken)
      BY <1>0, <1>4, PendingBytes, Zenon DEF InStep
    <2> HIDE DEF p
    <2>3. p = ParseBody(m_pending)
      BY DEF p
    <2>4. /\ RequestInv' /\ pc' \in {"handler", "read_body"}
          /\ m_remaining' \in Nat /\ req' \in Parsed /\ m_pending' \in Seq(Bytes)
          /\ hasRead' \in {"no", "done"}
      BY <1>0, <1>1, <2>1, <2>2, <2>3, BodyParsedBytes, Zenon
    <2>5. TypeInv'
      BY SMTT(40), Z3T(40), <1>0, <1>1, <2>1, <2>4 DEF TypeInv, Writing, socketVars
    <2>6. HeadInv'
      BY <2>4, Zenon DEF HeadInv, ReadsHead, Place, Suspended
    <2> QED BY <2>4, <2>5, <2>6, Zenon
  <1> QED BY <1>2, <1>3, <1>4, Zenon

LEMMA ReadBodyParser ==
    ASSUME Inv, ReadBody
    PROVE  TypeInv' /\ HeadInv' /\ RequestInv'
  <1>0. TypeInv /\ RequestInv /\ HasRequest /\ InStep /\ m_remaining > 0 /\ hasRead = "no"
    BY WhileReading, Zenon DEF ReadBody
  <1>1. /\ pc = "read_body" /\ UNCHANGED <<script, served>> /\ Wire' = Wire
        /\ UNCHANGED <<script, arrived, edge, room, hung, given, m_can_write_errror, wrote, accepts, yields,
                       piece, served, out>>
    BY SameWire, Zenon DEF ReadBody
  <1> DEFINE p == ParseBody(Received)
  <1>2. CASE taken = arrived
    <2>1. /\ pc' = "yield" /\ back' = "body"
          /\ UNCHANGED <<taken, parserVars, hasRead, m_keep_alive, error>>
      BY <1>2, Zenon DEF ReadBody, YieldAt
    <2>2. TypeInv'
      BY <1>0, <1>1, <2>1 DEF TypeInv, Writing, parserVars
    <2>3. InStep' <=> InStep
      BY <1>1, <2>1, SameBytes, Zenon DEF parserVars
    <2>4. RequestInv'
      BY <1>0, <1>1, <2>1, <2>3, SameWire, Zenon DEF RequestInv, HasRequest, Place, Suspended, parserVars
    <2>5. HeadInv'
      BY <2>1, Zenon DEF HeadInv, ReadsHead, Place, Suspended
    <2> QED BY <2>2, <2>4, <2>5
  <1>5. ASSUME taken # arrived
        PROVE  taken' = taken + Len(Received) /\ UNCHANGED back /\ taken' \in 0 .. arrived'
    <2>1. taken' = taken + Len(Received) /\ UNCHANGED back
      BY <1>5, Zenon DEF ReadBody
    <2>2. PICK b \in Nat : taken < b /\ b <= arrived /\ Len(Received) = b - taken
      BY <1>0, <1>5, ReceivedBytes, Zenon
    <2>3. taken \in Nat /\ arrived \in Nat
      BY <1>0 DEF TypeInv
    <2> QED BY <1>1, <2>1, <2>2, <2>3
  <1>6. CASE taken # arrived /\ m_pending # <<>>
    <2>1. /\ m_pending' = Kept(Received) /\ pc' = "body"
          /\ UNCHANGED <<m_head, m_remaining, req, hasRead, m_keep_alive, error>>
      BY <1>6, Zenon DEF ReadBody, Goto
    <2>2. InStep' /\ m_pending' \in Seq(Bytes)
      BY <1>0, <1>1, <1>5, <1>6, <2>1, KeptBytes, Zenon
    <2>3. TypeInv'
      BY SMTT(40), Z3T(40), <1>0, <1>1, <1>5, <1>6, <2>1, <2>2 DEF TypeInv, Writing
    <2>4. RequestInv'
      BY <1>0, <1>1, <2>1, <2>2, SameWire, Zenon DEF RequestInv, HasRequest, Place, Suspended
    <2>5. HeadInv'
      BY <2>1, Zenon DEF HeadInv, ReadsHead, Place, Suspended
    <2> QED BY <2>3, <2>4, <2>5
  <1>3. CASE taken # arrived /\ m_pending = <<>> /\ p.fails
    <2>1. pc' = "unwind" /\ UNCHANGED parserVars /\ error' = "malformed" /\ hasRead' = "failed" /\ m_keep_alive' = FALSE
      BY <1>3, Thrown, Zenon DEF ReadBody, GiveUp
    <2>3. req' \in Parsed /\ m_pending' \in Seq(Bytes) /\ m_keep_alive' \in BOOLEAN
      BY <1>0, <2>1, Zenon DEF TypeInv, parserVars
    <2>2. TypeInv'
      <3> HIDE DEF Parsed
      <3> QED BY SMTT(40), Z3T(40), <1>0, <1>1, <1>3, <1>5, <2>1, <2>3 DEF TypeInv, Writing, parserVars
    <2>4. RequestInv'
      BY <1>0, <1>1, <2>1, SameWire, Zenon DEF RequestInv, HasRequest, Place, Suspended, parserVars
    <2>5. HeadInv'
      BY <2>1 DEF HeadInv, ReadsHead, Place, Suspended
    <2> QED BY <2>2, <2>4, <2>5
  <1>4. CASE taken # arrived /\ m_pending = <<>> /\ ~p.fails
    <2>1. /\ BodyParsed(p, Received, "body") /\ UNCHANGED <<m_head, m_keep_alive, error>>
          /\ m_pending' = SubSeq(Received, p.used + 1, Len(Received))
      BY <1>4, Zenon DEF ReadBody
    <2>2. PICK b \in Nat : /\ taken < b /\ b <= arrived /\ b <= Len(Wire)
                           /\ Received = SubSeq(Wire, taken + 1, b)
                           /\ Len(Received) = b - taken /\ Received \in Seq(Bytes)
      BY <1>0, <1>4, ReceivedBytes, Zenon
    <2>3. Consumed = taken /\ taken \in Nat
      BY <1>0, <1>4, PendingBytes, Zenon
    <2>4. taken' = b
      BY <1>4, <1>5, <2>2, <2>3
    <2> HIDE DEF p
    <2>5. p = ParseBody(Received)
      BY Zenon DEF p
    <2>6. /\ Consumed < b /\ b <= Len(Wire) /\ Received = SubSeq(Wire, Consumed + 1, b)
      BY <2>2, <2>3
    <2>7. /\ RequestInv' /\ pc' \in {"handler", "body"}
          /\ m_remaining' \in Nat /\ req' \in Parsed /\ m_pending' \in Seq(Bytes)
          /\ hasRead' \in {"no", "done"}
      BY <1>0, <1>1, <2>1, <2>4, <2>5, <2>6, BodyParsedBytes, Zenon
    <2>8. TypeInv'
      BY SMTT(40), Z3T(40), <1>0, <1>1, <1>4, <1>5, <2>1, <2>7 DEF TypeInv, Writing
    <2>9. HeadInv'
      BY <2>7, Zenon DEF HeadInv, ReadsHead, Place, Suspended
    <2> QED BY <2>7, <2>8, <2>9, Zenon
  <1> QED BY <1>2, <1>3, <1>4, <1>6, Zenon

LEMMA RouteParser ==
    ASSUME Inv, Route
    PROVE  TypeInv' /\ HeadInv' /\ RequestInv'
  <1>0. TypeInv /\ RequestInv /\ HasRequest /\ InStep /\ current <= Len(script)
    BY Zenon DEF Inv, RequestInv, HasRequest, Place, Suspended, Route
  <1>1. Quiet /\ pc = "route"
    BY Zenon DEF Route, Quiet, socketVars, parserVars
  <1>2. Wire' = Wire /\ (InStep' <=> InStep)
    BY <1>1, SameWire, SameBytes, Zenon DEF Quiet
  <1>3. /\ hasRead' = "no" /\ wrote' = "no" /\ accepts' = FALSE /\ yields' = 0
        /\ UNCHANGED <<socketVars, given, m_can_write_errror, parserVars, error, served, out>>
        /\ m_keep_alive' = script[current].keep_alive
        /\ (pc' = "handler" /\ back' = back) \/ (pc' = "write" /\ back' = "break")
    <2>1. /\ hasRead' = "no" /\ wrote' = "no" /\ accepts' = FALSE /\ yields' = 0
          /\ UNCHANGED <<socketVars, given, m_can_write_errror, parserVars, error, served, out>>
          /\ m_keep_alive' = script[current].keep_alive
      BY Zenon DEF Route
    <2>2. (pc' = "handler" /\ back' = back) \/ (pc' = "write" /\ back' = "break")
      BY Zenon DEF Route, Goto, Write
    <2> QED BY <2>1, <2>2, Zenon
  <1>4. script[current].keep_alive \in BOOLEAN
    BY <1>0, CurrentOnWire, Zenon DEF Requests
  <1>5. TypeInv'
    <2>1. m_keep_alive' \in BOOLEAN
      BY <1>3, <1>4, Zenon
    <2>2. accepts' \in BOOLEAN
      BY <1>3, Zenon
    <2>3. yields' \in 0 .. MaxYields
      BY <1>3, HttpSessionAssumption
    <2>4. edge' \in BOOLEAN /\ room' \in BOOLEAN /\ hung' \in BOOLEAN /\ m_can_write_errror' \in BOOLEAN
      BY <1>0, <1>3, Zenon DEF TypeInv, socketVars
    <2>5. /\ pc' \in {"handler", "write"} /\ (pc' = "write" => back' = "break")
          /\ UNCHANGED <<script, arrived, taken, given, m_head, m_remaining, m_pending, req, error, served, out>>
          /\ wrote' = "no" /\ hasRead' = "no"
      BY <1>3, Zenon DEF socketVars, parserVars
    <2> QED BY <1>0, <1>2, <2>1, <2>2, <2>3, <2>4, <2>5, Zenon DEF TypeInv, Writing
  <1>6. m_remaining = 0 => script[current].body = <<>>
    <2> DEFINE B == BodyOf(script, current)
               s == script[current].body
               L == Len(s)
    <2>1. SubSeq(B, 1, L - m_remaining) = <<>>
      BY <1>0, <1>1, Zenon DEF RequestInv
    <2>2. B \in Seq(Bytes) /\ Len(B) = L /\ L \in Nat
      BY <1>0, CurrentOnWire, Zenon
    <2>3. \E S : s \in Seq(S)
      BY <1>0, CurrentOnWire, Zenon DEF Requests
    <2> HIDE DEF B, s
    <2> SUFFICES ASSUME m_remaining = 0 PROVE s = <<>>
      BY DEF s
    <2>4. Len(SubSeq(B, 1, L)) = L
      BY ONLY <2>2
    <2>5. SubSeq(B, 1, L) = <<>>
      BY <2>1, <2>2
    <2>6. L = 0
      BY <2>4, <2>5, Zenon
    <2> QED BY <2>3, <2>6
  <1>7. RequestInv'
    BY <1>0, <1>1, <1>2, <1>3, <1>6, SameWire, Zenon DEF RequestInv, HasRequest, Place, Suspended, Quiet
  <1>8. HeadInv'
    BY <1>3, Zenon DEF HeadInv, ReadsHead, Place, Suspended
  <1> QED BY <1>5, <1>7, <1>8

LEMMA AfterParser ==
    ASSUME Inv, After
    PROVE  TypeInv' /\ HeadInv' /\ RequestInv'
  <1>0. TypeInv /\ RequestInv /\ HasRequest /\ current <= Len(script)
    BY Zenon DEF Inv, RequestInv, HasRequest, Place, Suspended, After
  <1>1. /\ pc = "after" /\ pc' \in {"headers", "shutdown"} /\ served' = served + 1 /\ req' = NoRequest
        /\ pc' = "headers" => req.state = "completed"
        /\ m_keep_alive' \in BOOLEAN
        /\ UNCHANGED <<socketVars, back, given, m_can_write_errror, m_pending, m_head, m_remaining,
                       handlerVars, error, piece, out>>
    BY <1>0, Zenon DEF After, Goto, Reusable, TypeInv
  <1>2. Wire' = Wire /\ script' = script
    BY <1>1 DEF Wire, Upto, socketVars
  <1>3. req' \in Parsed /\ req'.head = <<>> /\ req'.body = <<>> /\ req'.state = "uninitialized"
    <2>1. <<>> \in Seq(Bytes)
      OBVIOUS
    <2> QED BY <1>1, <2>1, ParsedIs, Zenon DEF NoRequest
  <1>4. served' \in 0 .. Len(script')
    BY SMTT(40), Z3T(40), <1>0, <1>1, <1>2, PlaceOnWire DEF current
  <1>5. TypeInv'
    BY SMTT(40), Z3T(40), <1>0, <1>1, <1>2, <1>3, <1>4 DEF TypeInv, Writing, socketVars, handlerVars
  <1>6. RequestInv'
    BY <1>1, Zenon DEF RequestInv, HasRequest, Place, Suspended
  <1>7. ASSUME pc' = "headers" PROVE InStep'
    <2>1. m_remaining = 0 /\ InStep
      BY <1>0, <1>1, <1>7 DEF RequestInv
    <2> DEFINE L == Len(script[current].body)
               u == Len(Upto(served))
               B == BodyOf(script, current)
    <2>2. /\ Len(HeadOf(script, current)) = 3 /\ u \in Nat /\ L \in Nat
          /\ B \in Seq(Bytes) /\ Len(B) = L /\ Len(Upto(current)) = u + 3 + L
      BY <1>0, PlaceOnWire, CurrentOnWire, Zenon
    <2>3. req.head = HeadOf(script, current) /\ req.body = SubSeq(B, 1, L - 0)
      BY <1>0, <2>1, Zenon DEF RequestInv
    <2>4. Consumed = u + Len(req.head) + Len(req.body)
      BY DEF Consumed
    <2>5. Consumed' = Len(Upto(served)') + Len(req'.head) + Len(req'.body)
      BY Zenon DEF Consumed
    <2>6. Upto(served)' = Upto(current)
      BY <1>1, <1>2, Zenon DEF Upto, current
    <2> HIDE DEF L, u, B
    <2>7. Len(req.body) = L
      BY <2>2, <2>3
    <2>8. Consumed' = Consumed
      <3>1. Len(req'.head) = 0 /\ Len(req'.body) = 0 /\ Len(req.head) = 3
        BY <1>3, <2>2, <2>3, Zenon
      <3> QED BY <2>2, <2>4, <2>5, <2>6, <2>7, <3>1
    <2> QED BY <1>1, <1>2, <2>1, <2>8, Zenon DEF InStep, socketVars
  <1>8. HeadInv'
    BY <1>1, <1>3, <1>7, Zenon DEF HeadInv, ReadsHead, Place, Suspended
  <1> QED BY <1>5, <1>6, <1>8


\* The parser's invariants are inductive.
LEMMA ParserStep ==
    ASSUME Inv, [Next]_vars
    PROVE  TypeInv' /\ HeadInv' /\ RequestInv'
  <1>1. CASE QuietStep
    BY <1>1, QuietType, QuietParser, Zenon
  <1>2. CASE HeadPending \/ ReadHead \/ BodyPending \/ ReadBody \/ Route \/ After
    BY <1>2, HeadPendingParser, ReadHeadParser, BodyPendingParser, ReadBodyParser, RouteParser, AfterParser, Zenon
  <1>3. CASE UNCHANGED vars
    <2>1. Quiet /\ pc' = pc /\ back' = back /\ hasRead' = hasRead
      BY <1>3, Zenon DEF vars, Quiet, socketVars, parserVars, handlerVars
    <2>2. HeadInv' /\ RequestInv'
      <3>1. /\ HasRequest /\ ~InStep => hasRead \in {"failed", "caught"}
            /\ Place \in {"body", "read_body"} => m_remaining > 0 /\ hasRead = "no"
            /\ HasRequest /\ pc # "route" /\ hasRead = "done" => m_remaining = 0
        BY Zenon DEF Inv, RequestInv, HasRequest
      <3>2. Place' = Place /\ (ReadsHead' <=> ReadsHead) /\ (HasRequest' <=> HasRequest)
        BY <2>1, Zenon DEF Place, Suspended, ReadsHead, HasRequest
      <3> QED BY <2>1, <3>1, <3>2, QuietBytes, Zenon
    <2>3. Wire' = Wire
      BY <2>1, SameWire, Zenon DEF Quiet
    <2>4. TypeInv'
      BY SMTT(40), Z3T(40), <1>3, <2>3 DEF Inv, TypeInv, Writing, vars, socketVars, parserVars, handlerVars
    <2> QED BY <2>2, <2>4, Zenon
  <1> QED BY <1>1, <1>2, <1>3, Zenon DEF Next, Coroutine, QuietStep, Ended

-----------------------------------------------------------------------------
(* What is written, and the exceptions *)

LEMMA PieceIs ==
    ASSUME NEW n \in Nat, NEW k \in {"continue", "head", "body", "error"}, NEW b \in BOOLEAN, NEW c \in Causes
    PROVE  [n |-> n, kind |-> k, keep |-> b, cause |-> c] \in Pieces
  BY DEF Pieces

\* What read_headers does apart from parsing.
LEMMA HeadEffect ==
    ASSUME HeadPending \/ ReadHead
    PROVE  /\ pc \in {"headers", "read_head"}
           /\ pc' \in {"headers", "read_head", "route", "yield", "catch"}
           /\ pc' = "catch" => error' = "malformed"
           /\ pc' # "catch" => error' = error
           /\ pc' = "yield" => back' = "headers"
           /\ m_can_write_errror' = m_can_write_errror \/ m_can_write_errror' = TRUE
           /\ taken' = taken \/ m_can_write_errror' = TRUE
           /\ pc' = "catch" => m_can_write_errror' = TRUE \/ m_pending # <<>>
           /\ UNCHANGED <<script, arrived, edge, room, hung, given, m_keep_alive, handlerVars, piece, served, out>>
  <1>0. ASSUME NEW p, NEW d, NEW x, HeadParsed(p, d, x) PROVE pc' \in {"route", x}
    BY <1>0, Zenon DEF HeadParsed, Goto
  <1>1. CASE HeadPending
    <2>1. \/ pc' = "read_head" /\ error' = error
          \/ pc' = "catch" /\ error' = "malformed" /\ m_pending # <<>>
          \/ pc' = "route" /\ error' = error
      BY <1>0, <1>1, Thrown, Zenon DEF HeadPending, Goto
    <2>2. UNCHANGED <<socketVars, back, given, m_keep_alive, m_can_write_errror, handlerVars, piece, served, out>>
      BY <1>1, Zenon DEF HeadPending
    <2> QED BY <1>1, <2>1, <2>2, Zenon DEF HeadPending, socketVars
  <1>2. CASE ReadHead
    <2>1. \/ pc' = "yield" /\ error' = error /\ back' = "headers" /\ UNCHANGED <<taken, m_can_write_errror>>
          \/ pc' \in {"headers", "route"} /\ error' = error /\ m_can_write_errror' = TRUE
          \/ pc' = "catch" /\ error' = "malformed" /\ m_can_write_errror' = TRUE
      BY <1>0, <1>2, Thrown, Zenon DEF ReadHead, Goto, YieldAt
    <2>2. UNCHANGED <<script, arrived, edge, room, hung, given, m_keep_alive, handlerVars, piece, served, out>>
      BY <1>2, Zenon DEF ReadHead
    <2> QED BY <1>2, <2>1, <2>2, Zenon DEF ReadHead
  <1> QED BY <1>1, <1>2, Zenon

\* What read() does apart from parsing.
LEMMA BodyEffect ==
    ASSUME BodyPending \/ ReadBody
    PROVE  /\ pc \in {"body", "read_body"}
           /\ pc' \in {"body", "read_body", "handler", "yield", "unwind"}
           /\ pc' = "unwind" => error' = "malformed" /\ hasRead' = "failed" /\ m_keep_alive' = FALSE
           /\ pc' # "unwind" => error' = error /\ m_keep_alive' = m_keep_alive
           /\ pc' = "handler" => hasRead' = "done"
           /\ pc' \in {"body", "read_body", "yield"} => hasRead' = hasRead
           /\ pc' = "yield" => back' = "body"
           /\ pc = "body" => m_can_write_errror' = TRUE
           /\ pc = "read_body" => m_can_write_errror' = m_can_write_errror
           /\ UNCHANGED <<script, arrived, edge, room, hung, given, wrote, accepts, yields, piece, served, out>>
  <1>0. ASSUME NEW p, NEW d, NEW x \in {"body", "read_body"}, BodyParsed(p, d, x)
        PROVE  \/ pc' = "handler" /\ hasRead' = "done"
               \/ pc' = x /\ hasRead' = hasRead
    BY <1>0, Zenon DEF BodyParsed, Goto
  <1>1. CASE BodyPending
    <2>1. \/ pc' = "read_body" /\ UNCHANGED <<hasRead, m_keep_alive, error>>
          \/ pc' = "unwind" /\ error' = "malformed" /\ hasRead' = "failed" /\ m_keep_alive' = FALSE
          \/ pc' = "handler" /\ hasRead' = "done" /\ UNCHANGED <<m_keep_alive, error>>
      BY <1>0, <1>1, Thrown, Zenon DEF BodyPending, Goto, GiveUp
    <2>2. m_can_write_errror' = TRUE /\ UNCHANGED <<socketVars, back, given, wrote, accepts, yields, piece, served, out>>
      BY <1>1, Zenon DEF BodyPending
    <2> QED BY <1>1, <2>1, <2>2, Zenon DEF BodyPending, socketVars
  <1>2. CASE ReadBody
    <2>1. \/ pc' = "yield" /\ back' = "body" /\ UNCHANGED <<hasRead, m_keep_alive, error>>
          \/ pc' = "body" /\ UNCHANGED <<hasRead, m_keep_alive, error>>
          \/ pc' = "unwind" /\ error' = "malformed" /\ hasRead' = "failed" /\ m_keep_alive' = FALSE
          \/ pc' = "handler" /\ hasRead' = "done" /\ UNCHANGED <<m_keep_alive, error>>
      BY <1>0, <1>2, Thrown, Zenon DEF ReadBody, Goto, GiveUp, YieldAt
    <2>2. UNCHANGED <<script, arrived, edge, room, hung, given, m_can_write_errror, wrote, accepts, yields,
                      piece, served, out>>
      BY <1>2, Zenon DEF ReadBody
    <2> QED BY <1>2, <2>1, <2>2, Zenon DEF ReadBody
  <1> QED BY <1>1, <1>2, Zenon

=============================================================================
