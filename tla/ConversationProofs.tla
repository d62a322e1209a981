-------------------------- MODULE ConversationProofs -------------------------
(***************************************************************************)
(* Proofs about Conversation, whatever clients send and in whatever pieces *)
(* it arrives: a message that is being put together stays within the       *)
(* limit, a client understands all that is written, and it is answered;    *)
(* and every variable keeps its type.                                      *)
(*                                                                         *)
(* The functions that decode, encode and read are recursive.  What they    *)
(* compute for data of every length is proved by induction on the length,  *)
(* as the least length for which it fails: SetInduction and Recursion.     *)
(***************************************************************************)
EXTENDS Conversation, SequenceTheorems, WellFoundedInduction, TLAPS

(* A set of natural numbers has a least member.                            *)
LEMMA Least ==
  ASSUME NEW T, T \subseteq Nat, T # {}
  PROVE  \E x \in T : \A y \in T : x <= y
<1> DEFINE R == OpToRel(<, Nat)
<1>1. IsWellFoundedOn(R, Nat)
  BY NatLessThanWellFounded
<1>2. PICK x \in T : \A y \in T : ~(<<y, x>> \in R)
  <2> HIDE DEF R
  <2> QED
    BY <1>1, WFMin
<1>3. \A y \in T : y < x => <<y, x>> \in R
  BY DEF OpToRel
<1> HIDE DEF R
<1>4. \A y \in T : ~(y < x)
  BY <1>2, <1>3
<1> QED
  BY <1>4

(* Induction, for a set: the library states it for a predicate.            *)
LEMMA SetInduction ==
  ASSUME NEW S, 0 \in S, \A n \in Nat : n \in S => n + 1 \in S
  PROVE  Nat \subseteq S
<1> SUFFICES ASSUME Nat \ S # {} PROVE FALSE
  OBVIOUS
<1>1. PICK x \in Nat \ S : \A y \in Nat \ S : x <= y
  BY Least
<1>2. x # 0 /\ x - 1 \in Nat
  BY <1>1
<1> QED
  BY <1>1, <1>2
-----------------------------------------------------------------------------
(* g is the fold of t from s, on all subsets of 1 .. n.                    *)
Folds(g, n, s, t) ==
  g = [x \in SUBSET (1 .. n) |-> IF x = {} THEN s ELSE Utf8(g[x \ {Max(x)}], t[Max(x)])]

(* The fold behind Decode, written out.                                    *)
LEMMA DecodeIsFold ==
  ASSUME NEW s, NEW t \in Seq(STRING)
  PROVE  Decode(s, t) = (CHOOSE g : Folds(g, Len(t), s, t))[1 .. Len(t)]
<1>1. DOMAIN t = 1 .. Len(t)
  OBVIOUS
<1>2. Decode(s, t) = (CHOOSE g : g = [x \in SUBSET DOMAIN t |->
                         IF x = {} THEN s ELSE Utf8(g[x \ {Max(x)}], t[Max(x)])])[DOMAIN t]
  BY Zenon DEF Decode, FoldLeft, MapThenFoldSet
<1> QED
  BY <1>1, <1>2, Zenon DEF Folds

(* The greatest of the numbers that are left is the last.                  *)
LEMMA MaxIs ==
  ASSUME NEW n \in Int, NEW x, n \in x, x \subseteq Int, \A y \in x : y <= n
  PROVE  Max(x) = n
<1>1. n \in x /\ \A y \in x : n >= y
  OBVIOUS
<1>2. Max(x) \in x /\ \A y \in x : Max(x) >= y
  BY <1>1 DEF Max
<1>3. Max(x) \in Int /\ Max(x) >= n /\ Max(x) <= n
  BY <1>2
<1> QED
  BY <1>3

(* That fold exists, for every length: by induction on the length.         *)
LEMMA FoldExists ==
  ASSUME NEW s, NEW t
  PROVE  \A n \in Nat : \E g : Folds(g, n, s, t)
<1> DEFINE S == {n \in Nat : \E g : Folds(g, n, s, t)}
<1>1. 0 \in S
  <2>1. SUBSET (1 .. 0) = {{}}
    OBVIOUS
  <2>2. Folds([x \in SUBSET (1 .. 0) |-> s], 0, s, t)
    BY <2>1 DEF Folds
  <2> QED
    BY <2>2
<1>2. ASSUME NEW n \in Nat, n \in S
      PROVE  n + 1 \in S
  <2>1. PICK g : Folds(g, n, s, t)
    BY <1>2
  <2>2. \A x \in SUBSET (1 .. n) : g[x] = IF x = {} THEN s ELSE Utf8(g[x \ {Max(x)}], t[Max(x)])
    BY <2>1 DEF Folds
  <2> DEFINE h == [x \in SUBSET (1 .. n + 1) |->
                     IF n + 1 \in x THEN Utf8(g[x \ {n + 1}], t[n + 1]) ELSE g[x]]
  <2>3. ASSUME NEW x \in SUBSET (1 .. n + 1)
        PROVE  h[x] = IF x = {} THEN s ELSE Utf8(h[x \ {Max(x)}], t[Max(x)])
    <3>1. CASE n + 1 \in x
      <4>1. Max(x) = n + 1
        <5>1. \A y \in x : y <= n + 1 /\ y \in Int
          OBVIOUS
        <5> QED
          BY <3>1, <5>1, MaxIs
      <4>2. x \ {n + 1} \in SUBSET (1 .. n + 1) /\ n + 1 \notin x \ {n + 1}
        OBVIOUS
      <4>3. h[x \ {n + 1}] = g[x \ {n + 1}]
        BY <4>2
      <4> QED
        BY <3>1, <4>1, <4>3
    <3>2. CASE n + 1 \notin x
      <4>1. x \in SUBSET (1 .. n) /\ x \ {Max(x)} \in SUBSET (1 .. n + 1) /\ n + 1 \notin x \ {Max(x)}
        <5>1. \A y \in x : y \in 1 .. n + 1 /\ y # n + 1
          BY <3>2
        <5>2. \A y \in 1 .. n + 1 : y # n + 1 => y \in 1 .. n
          OBVIOUS
        <5> QED
          BY <3>2, <5>1, <5>2
      <4>2. h[x] = g[x] /\ h[x \ {Max(x)}] = g[x \ {Max(x)}]
        BY <3>2, <4>1
      <4> QED
        BY <2>2, <4>1, <4>2
    <3> QED
      BY <3>1, <3>2
  <2>4. Folds(h, n + 1, s, t)
    <3>1. h = [x \in SUBSET (1 .. n + 1) |-> h[x]]
      OBVIOUS
    <3> HIDE DEF h
    <3> QED
      BY <2>3, <3>1 DEF Folds
  <2> HIDE DEF h
  <2> QED
    BY <2>4
<1> HIDE DEF S
<1>3. Nat \subseteq S
  BY <1>1, <1>2, SetInduction
<1> QED
  BY <1>3 DEF S

(* Decode goes from state to state, a character at a time.                 *)
LEMMA DecodeRun ==
  ASSUME NEW s, NEW t \in Seq(STRING)
  PROVE  \E d : d[0] = s /\ d[Len(t)] = Decode(s, t) /\ \A i \in 1 .. Len(t) : d[i] = Utf8(d[i - 1], t[i])
<1>1. Len(t) \in Nat
  OBVIOUS
<1> DEFINE g == CHOOSE g : Folds(g, Len(t), s, t)
<1>2. Folds(g, Len(t), s, t)
  BY <1>1, FoldExists
<1>3. Decode(s, t) = g[1 .. Len(t)]
  BY DecodeIsFold
<1> HIDE DEF g
<1>4. \A x \in SUBSET (1 .. Len(t)) : g[x] = IF x = {} THEN s ELSE Utf8(g[x \ {Max(x)}], t[Max(x)])
  BY <1>2 DEF Folds
<1>5. ASSUME NEW i \in 1 .. Len(t)
      PROVE  g[1 .. i] = Utf8(g[1 .. i - 1], t[i])
  <2>1. i \in 1 .. i /\ 1 .. i \subseteq Int /\ \A y \in 1 .. i : y <= i
    OBVIOUS
  <2>2. Max(1 .. i) = i
    BY <2>1, MaxIs
  <2>3. (1 .. i) \ {i} = 1 .. i - 1
    OBVIOUS
  <2>4. 1 .. i \in SUBSET (1 .. Len(t)) /\ 1 .. i # {}
    <3>1. \A y \in 1 .. i : y \in 1 .. Len(t)
      BY <1>1
    <3> QED
      BY <2>1, <3>1
  <2>5. g[1 .. i] = Utf8(g[(1 .. i) \ {Max(1 .. i)}], t[Max(1 .. i)])
    BY ONLY <1>4, <2>4
  <2> QED
    BY ONLY <2>2, <2>3, <2>5
<1>6. g[1 .. 0] = s
  <2>1. 1 .. 0 \in SUBSET (1 .. Len(t)) /\ 1 .. 0 = {}
    OBVIOUS
  <2> QED
    BY ONLY <1>4, <2>1
<1> DEFINE d == [i \in 0 .. Len(t) |-> g[1 .. i]]
<1>7. d[0] = s /\ d[Len(t)] = Decode(s, t)
  BY <1>1, <1>3, <1>6
<1>8. \A i \in 1 .. Len(t) : d[i] = Utf8(d[i - 1], t[i])
  BY <1>1, <1>5
<1> HIDE DEF d
<1> QED
  BY <1>7, <1>8

(* The states of the decoder.                                              *)
States == {"accept", "rest", "reject"}

(* It ends in one of the decoder's states.                                 *)
LEMMA DecodeType ==
  ASSUME NEW s \in States, NEW t \in Seq(STRING)
  PROVE  Decode(s, t) \in States
<1>1. PICK d : d[0] = s /\ d[Len(t)] = Decode(s, t) /\ \A i \in 1 .. Len(t) : d[i] = Utf8(d[i - 1], t[i])
  BY DecodeRun
<1> DEFINE S == {i \in Nat : i <= Len(t) => d[i] \in States}
<1>2. 0 \in S
  BY <1>1
<1>3. ASSUME NEW i \in Nat, i \in S
      PROVE  i + 1 \in S
  <2>1. CASE i + 1 <= Len(t)
    <3>1. d[i + 1] = Utf8(d[i], t[i + 1])
      BY <1>1, <2>1
    <3>2. \A a, b : Utf8(a, b) \in States
      BY DEF Utf8, States
    <3> QED
      BY <3>1, <3>2
  <2>2. CASE ~(i + 1 <= Len(t))
    BY <2>2
  <2> QED
    BY <2>1, <2>2
<1> HIDE DEF S
<1>4. Nat \subseteq S
  BY <1>2, <1>3, SetInduction
<1>5. Len(t) \in Nat
  OBVIOUS
<1> QED
  BY <1>1, <1>4, <1>5 DEF S

(* The decoder and the reference agree.                                    *)
LEMMA Utf8IsWellFormed ==
  ASSUME NEW t \in Seq(STRING), IsUtf8(t)
  PROVE  WellFormed(t) /\ (t # <<>> => Last(t) # "lead")
<1>1. PICK d : d[0] = "accept" /\ d[Len(t)] = "accept" /\ \A i \in 1 .. Len(t) : d[i] = Utf8(d[i - 1], t[i])
  BY DecodeRun DEF IsUtf8
<1>2. Len(t) \in Nat /\ DOMAIN t = 1 .. Len(t)
  OBVIOUS

(* From a rejected character on, everything is.                            *)
<1> DEFINE S == {k \in Nat : k <= Len(t) => d[Len(t) - k] # "reject"}
<1>3. 0 \in S
  BY <1>1, <1>2
<1>4. ASSUME NEW k \in Nat, k \in S
      PROVE  k + 1 \in S
  <2> SUFFICES ASSUME k + 1 <= Len(t)
               PROVE  d[Len(t) - (k + 1)] # "reject"
    OBVIOUS
  <2>1. Len(t) - k \in 1 .. Len(t) /\ Len(t) - k - 1 = Len(t) - (k + 1)
    BY <1>2
  <2>2. d[Len(t) - k] = Utf8(d[Len(t) - (k + 1)], t[Len(t) - k]) /\ d[Len(t) - k] # "reject"
    BY <1>1, <1>4, <2>1
  <2> QED
    BY <2>2 DEF Utf8
<1> HIDE DEF S
<1>5. Nat \subseteq S
  BY <1>3, <1>4, SetInduction
<1>6. ASSUME NEW i \in 0 .. Len(t)
      PROVE  d[i] # "reject"
  <2>1. Len(t) - i \in S /\ Len(t) - (Len(t) - i) = i
    BY <1>2, <1>5
  <2> QED
    BY <1>2, <2>1 DEF S
<1>7. ASSUME NEW i \in 1 .. Len(t)
      PROVE  \/ t[i] = "a" /\ d[i - 1] = "accept" /\ d[i] = "accept"
             \/ t[i] = "lead" /\ d[i - 1] = "accept" /\ d[i] = "rest"
             \/ t[i] = "cont" /\ d[i - 1] = "rest" /\ d[i] = "accept"
  <2>1. d[i] = Utf8(d[i - 1], t[i]) /\ d[i] # "reject"
    BY <1>1, <1>2, <1>6
  <2> QED
    BY <2>1 DEF Utf8
<1>8. ASSUME NEW i \in 1 .. Len(t), t[i] = "lead"
      PROVE  i # Len(t) /\ t[i + 1] = "cont"
  <2>1. d[i] = "rest"
    BY <1>7, <1>8
  <2>2. i # Len(t)
    BY <1>1, <2>1
  <2>3. i + 1 \in 1 .. Len(t) /\ i + 1 - 1 = i
    <3>1. \A n \in Nat : \A j \in 1 .. n : j # n => j + 1 \in 1 .. n /\ j + 1 - 1 = j
      OBVIOUS
    <3> QED
      BY ONLY <1>2, <2>2, <3>1, <1>8
  <2> QED
    BY <1>7, <2>1, <2>2, <2>3
<1>9. ASSUME NEW i \in 1 .. Len(t), t[i] = "cont"
      PROVE  i > 1 /\ t[i - 1] = "lead"
  <2>1. d[i - 1] = "rest"
    BY <1>7, <1>9
  <2>2. i - 1 # 0
    BY <1>1, <2>1
  <2>3. i > 1 /\ i - 1 \in 1 .. Len(t)
    BY <1>2, <2>2
  <2> QED
    BY <1>7, <2>1, <2>3
<1>10. \A i \in 1 .. Len(t) : t[i] \in {"a", "lead", "cont"}
  BY <1>7
<1>11. WellFormed(t)
  BY <1>2, <1>8, <1>9, <1>10 DEF WellFormed
<1>12. t # <<>> => Last(t) # "lead"
  <2>1. t # <<>> => Len(t) \in 1 .. Len(t)
    BY <1>2, EmptySeq
  <2> QED
    BY <1>8, <2>1 DEF Last
<1> QED
  BY <1>11, <1>12
-----------------------------------------------------------------------------
(* Flattening joins one sequence after the other.                          *)
LEMMA FlattenRun ==
  ASSUME NEW seqs, Len(seqs) \in Nat, Len(seqs) > 0
  PROVE  \E e : /\ e[1] = seqs[1]
                /\ \A i \in 2 .. Len(seqs) : e[i] = e[i - 1] \o seqs[i]
                /\ FlattenSeq(seqs) = e[Len(seqs)]
<1> DEFINE Is(g, n) == g = [i \in 1 .. n |-> IF i = 1 THEN seqs[i] ELSE g[i - 1] \o seqs[i]]
           S == {n \in Nat : \E g : Is(g, n)}
<1>1. 0 \in S
  <2>1. Is([i \in 1 .. 0 |-> seqs[i]], 0)
    OBVIOUS
  <2> QED
    BY <2>1
<1>2. ASSUME NEW n \in Nat, n \in S
      PROVE  n + 1 \in S
  <2>1. PICK g : Is(g, n)
    BY <1>2
  <2> DEFINE h == [i \in 1 .. n + 1 |-> IF i = 1 THEN seqs[i] ELSE g[i - 1] \o seqs[i]]
  <2>2. \A i \in 1 .. n : h[i] = g[i]
    <3>1. \A i \in 1 .. n : g[i] = IF i = 1 THEN seqs[i] ELSE g[i - 1] \o seqs[i]
      BY <2>1
    <3>2. \A i \in 1 .. n : i \in 1 .. n + 1
      OBVIOUS
    <3> QED
      BY <3>1, <3>2
  <2>3. \A i \in 1 .. n + 1 : i # 1 => i - 1 \in 1 .. n
    OBVIOUS
  <2>4. h = [i \in 1 .. n + 1 |-> IF i = 1 THEN seqs[i] ELSE h[i - 1] \o seqs[i]]
    BY <2>2, <2>3
  <2> HIDE DEF h
  <2>5. Is(h, n + 1)
    BY <2>4
  <2> HIDE DEF Is
  <2> QED
    BY <2>5
<1>3. Len(seqs) \in S
  <2> HIDE DEF S
  <2> QED
    BY <1>1, <1>2, SetInduction
<1> DEFINE e == CHOOSE g : Is(g, Len(seqs))
<1>4. Is(e, Len(seqs))
  BY <1>3
<1>5. FlattenSeq(seqs) = e[Len(seqs)]
  <2>1. Len(seqs) # 0
    OBVIOUS
  <2> QED
    BY <2>1, Zenon DEF FlattenSeq
<1> HIDE DEF e
<1>6. \A i \in 1 .. Len(seqs) : e[i] = IF i = 1 THEN seqs[i] ELSE e[i - 1] \o seqs[i]
  BY <1>4
<1>7. 1 \in 1 .. Len(seqs) /\ \A i \in 2 .. Len(seqs) : i \in 1 .. Len(seqs) /\ i # 1
  OBVIOUS
<1> QED
  BY <1>5, <1>6, <1>7

(* What it makes is of what they were made of.                             *)
LEMMA FlattenType ==
  ASSUME NEW T, NEW seqs \in Seq(Seq(T))
  PROVE  FlattenSeq(seqs) \in Seq(T)
<1>1. Len(seqs) \in Nat /\ \A i \in 1 .. Len(seqs) : seqs[i] \in Seq(T)
  OBVIOUS
<1>2. CASE Len(seqs) = 0
  <2>1. seqs = <<>>
    BY <1>2, EmptySeq
  <2> QED
    BY <2>1, <1>2, EmptySeq DEF FlattenSeq
<1>3. CASE Len(seqs) > 0
  <2>1. PICK e : /\ e[1] = seqs[1]
                 /\ \A i \in 2 .. Len(seqs) : e[i] = e[i - 1] \o seqs[i]
                 /\ FlattenSeq(seqs) = e[Len(seqs)]
    BY <1>1, <1>3, FlattenRun
  <2> DEFINE S == {n \in Nat : n \in 1 .. Len(seqs) => e[n] \in Seq(T)}
  <2>2. 0 \in S
    OBVIOUS
  <2>3. ASSUME NEW n \in Nat, n \in S
        PROVE  n + 1 \in S
    <3> SUFFICES ASSUME n + 1 \in 1 .. Len(seqs)
                 PROVE  e[n + 1] \in Seq(T)
      OBVIOUS
    <3>1. CASE n = 0
      BY <1>1, <1>3, <2>1, <3>1
    <3>2. CASE n # 0
      <4>1. n + 1 \in 2 .. Len(seqs) /\ (n + 1) - 1 = n /\ n \in 1 .. Len(seqs)
        BY <1>1, <3>2
      <4>2. e[n + 1] = e[(n + 1) - 1] \o seqs[n + 1]
        BY <2>1, <4>1
      <4>3. e[n] \in Seq(T) /\ seqs[n + 1] \in Seq(T)
        BY <1>1, <2>3, <4>1
      <4> QED
        BY <4>1, <4>2, <4>3, ConcatProperties
    <3> QED
      BY <3>1, <3>2
  <2>4. Nat \subseteq S
    <3> HIDE DEF S
    <3> QED
      BY <2>2, <2>3, SetInduction
  <2> QED
    BY <1>1, <1>3, <2>1, <2>4
<1> QED
  BY <1>1, <1>2, <1>3
-----------------------------------------------------------------------------
(* A function defined by recursion on smaller and smaller data: on x it is  *)
(* base[x], or what it is on rest[x], with msg[x] in front if x is in cons.*)
Recurs(f, D, more, rest, cons, msg, base) ==
  /\ f = [x \in D |-> f[x]]
  /\ \A x \in D : f[x] = IF x \in more
                         THEN IF x \in cons THEN <<msg[x]>> \o f[rest[x]] ELSE f[rest[x]]
                         ELSE base[x]

(* Such a function exists: where it is not defined, take what is smallest. *)
LEMMA Recursion ==
  ASSUME NEW D, NEW size \in [D -> Nat], NEW more, NEW rest, NEW cons, NEW msg, NEW base,
         \A x \in D : x \in more => rest[x] \in D /\ size[rest[x]] < size[x]
  PROVE  \E f : Recurs(f, D, more, rest, cons, msg, base)
<1> DEFINE On(f, x) == IF x \in more THEN IF x \in cons THEN <<msg[x]>> \o f[rest[x]] ELSE f[rest[x]]
                                     ELSE base[x]
           Upto(f, n) == \A x \in D : size[x] < n => f[x] = On(f, x)
           S == {n \in Nat : \E f : Upto(f, n)}
<1>1. \A f, g, x : f[rest[x]] = g[rest[x]] => On(f, x) = On(g, x)
  OBVIOUS
<1>2. \A f, x : x \in D /\ x \notin more => On(f, x) = base[x]
  OBVIOUS
<1>q. \A f, g, x : x \notin more => On(f, x) = On(g, x)
  OBVIOUS
<1> HIDE DEF On
<1>3. Nat \subseteq S
  <2>1. 0 \in S
    BY DEF Upto
  <2>2. ASSUME NEW n \in Nat, n \in S
        PROVE  n + 1 \in S
    <3>1. PICK f : Upto(f, n)
      BY <2>2
    <3> DEFINE g == [x \in D |-> IF size[x] < n THEN f[x] ELSE On(f, x)]
    <3>2. ASSUME NEW x \in D, size[x] < n + 1
          PROVE  g[x] = On(g, x)
      <4>1. g[x] = On(f, x)
        BY <3>1
      <4>2. x \in more => g[rest[x]] = f[rest[x]]
        BY <3>2
      <4> QED
        BY <1>1, <1>q, <4>1, <4>2
    <3> HIDE DEF g
    <3> QED
      BY <3>2
  <2> HIDE DEF S
  <2> QED
    BY <2>1, <2>2, SetInduction
<1>4. ASSUME NEW f, NEW g, NEW m \in Nat, NEW n \in Nat, Upto(f, m), Upto(g, n)
      PROVE  \A x \in D : size[x] < m /\ size[x] < n => f[x] = g[x]
  <2> DEFINE T == {k \in Nat : \A x \in D : size[x] < k /\ size[x] < m /\ size[x] < n => f[x] = g[x]}
  <2>1. 0 \in T
    OBVIOUS
  <2>2. ASSUME NEW k \in Nat, k \in T
        PROVE  k + 1 \in T
    <3> SUFFICES ASSUME NEW x \in D, size[x] < k + 1, size[x] < m, size[x] < n
                 PROVE  f[x] = g[x]
      OBVIOUS
    <3>1. f[x] = On(f, x) /\ g[x] = On(g, x)
      BY <1>4
    <3>2. x \in more => f[rest[x]] = g[rest[x]]
      <4> SUFFICES ASSUME x \in more PROVE f[rest[x]] = g[rest[x]]
        OBVIOUS
      <4>1. rest[x] \in D /\ size[rest[x]] \in Nat /\ size[x] \in Nat /\ size[rest[x]] < size[x]
        OBVIOUS
      <4> QED
        BY <2>2, <4>1
    <3> QED
      BY <1>1, <1>q, <3>1, <3>2
  <2> HIDE DEF T
  <2>3. Nat \subseteq T
    BY <2>1, <2>2, SetInduction
  <2> QED
    BY <2>3 DEF T
<1> DEFINE F(n) == CHOOSE f : Upto(f, n)
<1>5. \A n \in Nat : Upto(F(n), n)
  BY <1>3
<1> HIDE DEF F
<1> DEFINE f == [x \in D |-> F(size[x] + 1)[x]]
<1>6. ASSUME NEW x \in D
      PROVE  f[x] = On(f, x)
  <2>1. size[x] \in Nat /\ Upto(F(size[x] + 1), size[x] + 1)
    BY <1>5
  <2>2. f[x] = On(F(size[x] + 1), x)
    BY <2>1
  <2>3. x \in more => f[rest[x]] = F(size[x] + 1)[rest[x]]
    <3> SUFFICES ASSUME x \in more PROVE f[rest[x]] = F(size[x] + 1)[rest[x]]
      OBVIOUS
    <3>1. rest[x] \in D /\ size[rest[x]] \in Nat /\ size[rest[x]] < size[x]
      OBVIOUS
    <3>2. Upto(F(size[rest[x]] + 1), size[rest[x]] + 1)
      BY <1>5, <3>1
    <3>3. f[rest[x]] = F(size[rest[x]] + 1)[rest[x]]
      BY <3>1
    <3>4. size[rest[x]] + 1 \in Nat /\ size[x] + 1 \in Nat
          /\ size[rest[x]] < size[rest[x]] + 1 /\ size[rest[x]] < size[x] + 1
      BY <2>1, <3>1
    <3> HIDE DEF f, Upto
    <3> QED
      BY <1>4, <2>1, <3>1, <3>2, <3>3, <3>4
  <2> HIDE DEF f
  <2> QED
    BY <1>1, <1>q, <2>2, <2>3
<1>7. f = [x \in D |-> f[x]]
  OBVIOUS
<1> HIDE DEF f
<1> QED
  BY <1>6, <1>7 DEF On, Recurs

(* Bytes.                                                                  *)
Bytes0 == Seq(ByteType)

(* What follows a whole frame is shorter than the bytes it was the start   *)
(* of.                                                                     *)
LEMMA Shorter ==
  ASSUME NEW b \in Bytes0, IsFrame(b)
  PROVE  /\ SizeOf(b) \in Nat /\ StartOf(b) \in {3, 4}
         /\ After(b) \in Bytes0 /\ Len(After(b)) < Len(b)
<1>1. Len(b) \in Nat /\ Len(b) > 1 /\ \A i \in 1 .. Len(b) : b[i] \in ByteType
  BY DEF Bytes0, IsFrame
<1>2. \A c \in ByteType : c.n \in Nat
  BY DEF ByteType
<1>3. SizeOf(b) \in Nat /\ StartOf(b) \in {3, 4}
  BY <1>1, <1>2 DEF SizeOf, StartOf, IsLong
<1>4. StartOf(b) + SizeOf(b) \in Int /\ StartOf(b) + SizeOf(b) > 1 /\ StartOf(b) + SizeOf(b) <= Len(b) + 1
  BY <1>1, <1>3 DEF IsFrame
<1>5. /\ SubSeq(b, StartOf(b) + SizeOf(b), Len(b)) \in Seq(ByteType)
      /\ Len(SubSeq(b, StartOf(b) + SizeOf(b), Len(b))) =
           IF StartOf(b) + SizeOf(b) <= Len(b) THEN Len(b) - (StartOf(b) + SizeOf(b)) + 1 ELSE 0
  <2>1. \A i \in StartOf(b) + SizeOf(b) .. Len(b) : b[i] \in ByteType
    BY <1>1, <1>4
  <2> QED
    BY <1>1, <1>4, <2>1, SubSeqProperties
<1> QED
  BY <1>1, <1>3, <1>4, <1>5 DEF After, Bytes0
-----------------------------------------------------------------------------
(* So the client's function of Conversation is what its equation says.     *)
LEMMA ClientReadsIs ==
  ASSUME NEW b \in Bytes0
  PROVE  /\ ClientReads[<<>>] = <<>>
         /\ b # <<>> /\ IsFrame(b) => ClientReads[b] = <<MsgOf(b)>> \o ClientReads[After(b)]
<1> DEFINE size == [x \in Bytes0 |-> Len(x)]
           more == {x \in Bytes0 : x # <<>> /\ IsFrame(x)}
           rest == [x \in Bytes0 |-> After(x)]
           msg == [x \in Bytes0 |-> MsgOf(x)]
           base == [x \in Bytes0 |-> IF x = <<>> THEN <<>> ELSE <<[op |-> "illegal"]>>]
           Is(f) == f = [x \in Bytes0 |-> IF x = <<>> THEN <<>>
                                       ELSE IF ~IsFrame(x) THEN <<[op |-> "illegal"]>>
                                       ELSE <<MsgOf(x)>> \o f[After(x)]]
<1>1. size \in [Bytes0 -> Nat]
  BY LenProperties DEF Bytes0
<1>2. \A x \in Bytes0 : x \in more => rest[x] \in Bytes0 /\ size[rest[x]] < size[x]
  BY Shorter
<1>3. PICK f : Recurs(f, Bytes0, more, rest, Bytes0, msg, base)
  <2> HIDE DEF size, more, rest, msg, base
  <2> QED
    BY <1>1, <1>2, Recursion
<1>4. Is(f)
  <2>1. \A x \in Bytes0 : f[x] = IF x = <<>> THEN <<>>
                               ELSE IF ~IsFrame(x) THEN <<[op |-> "illegal"]>>
                               ELSE <<MsgOf(x)>> \o f[After(x)]
    BY <1>3 DEF Recurs
  <2>2. f = [x \in Bytes0 |-> f[x]]
    BY <1>3 DEF Recurs
  <2> QED
    BY <2>1, <2>2
<1>5. Is(ClientReads)
  <2>1. ClientReads = CHOOSE g : Is(g)
    BY DEF ClientReads, Bytes0
  <2> HIDE DEF Is
  <2> QED
    BY <1>4, <2>1
<1>6. <<>> \in Bytes0
  BY EmptySeq DEF Bytes0
<1> QED
  BY <1>5, <1>6
-----------------------------------------------------------------------------
(* What a client may read: a close frame of hybi00 does not say why.       *)
Seen == Sent \cup {[op |-> "CLOSE"]}

(* In bytes that begin with a, a client reads m first.                     *)
Appends(reads, a, m) ==
  \A b \in Bytes0, r \in Seq(Seen) : reads[b] = r => reads[a \o b] = m \o r

(* The header, and the frame, of an unfragmented message.                  *)
HeaderOf(op, n) == PrepareHeader(BasicHeader(op, n, TRUE, FALSE), ExtendedHeader(n))

FrameOf(op, text) == HeaderOf(op, Len(text)) \o Payload(text)

(* The bytes a frame is made of.                                           *)
First(op) == Byte("b0", op, 0, TRUE)

Second(n) == Byte("b1", "none", n, FALSE)

Third(n) == Byte("size", "none", n, FALSE)

Character(c) == Byte("data", c, 0, FALSE)
-----------------------------------------------------------------------------
(* The bytes of a frame, by their fields.                                  *)
LEMMA ByteFields ==
  ASSUME NEW s \in STRING, NEW n \in Nat
  PROVE  /\ First(s) \in ByteType /\ Second(n) \in ByteType /\ Third(n) \in ByteType
         /\ Character(s) \in ByteType /\ Mark(s) \in ByteType
         /\ First(s).k = "b0" /\ First(s).s = s /\ First(s).f /\ First(s).n = 0
         /\ Second(n).k = "b1" /\ Second(n).n = n /\ ~Second(n).f
         /\ Third(n).k = "size" /\ Third(n).n = n
         /\ Character(s).k = "data" /\ Character(s).s = s
         /\ Mark(s).k = "mark" /\ Mark(s).s = s
<1>1. First(s) \in ByteType /\ First(s).k = "b0" /\ First(s).s = s /\ First(s).f /\ First(s).n = 0
  <2>1. First(s) = [k |-> "b0", s |-> s, n |-> 0, f |-> TRUE, key |-> 0]
    BY DEF First, Byte
  <2>2. First(s) \in ByteType
    BY <2>1, StringsAssumption DEF ByteType
  <2>3. First(s).k = "b0" /\ First(s).s = s
    BY <2>1
  <2>4. First(s).f /\ First(s).n = 0
    BY <2>1
  <2> QED
    BY <2>2, <2>3, <2>4
<1>2. Second(n) \in ByteType /\ Second(n).k = "b1" /\ Second(n).n = n /\ ~Second(n).f
  <2>1. Second(n) = [k |-> "b1", s |-> "none", n |-> n, f |-> FALSE, key |-> 0]
    BY DEF Second, Byte
  <2>2. Second(n) \in ByteType
    BY <2>1, StringsAssumption DEF ByteType
  <2>3. Second(n).k = "b1" /\ Second(n).n = n
    BY <2>1
  <2>4. ~Second(n).f
    BY <2>1
  <2> QED
    BY <2>2, <2>3, <2>4
<1>3. Third(n) \in ByteType /\ Third(n).k = "size" /\ Third(n).n = n
  BY StringsAssumption DEF Third, Byte, ByteType
<1>4. Character(s) \in ByteType /\ Character(s).k = "data" /\ Character(s).s = s
  BY StringsAssumption DEF Character, Byte, ByteType
<1>5. Mark(s) \in ByteType /\ Mark(s).k = "mark" /\ Mark(s).s = s
  BY StringsAssumption DEF Mark, Byte, ByteType
<1> QED
  BY <1>1, <1>2, <1>3, <1>4, <1>5

(* What the second byte of a header says of the size.                      *)
SizeByte(n) == IF n <= MaxBasic THEN n ELSE SizeCode

(* prepare_header: the opcode, the size, and the long size where it is     *)
(* needed.                                                                 *)
LEMMA Header ==
  ASSUME NEW op \in STRING, NEW n \in Nat
  PROVE  /\ HeaderOf(op, n) \in Bytes0
         /\ HeaderOf(op, n)[1] = First(op)
         /\ HeaderOf(op, n)[2] = Second(SizeByte(n))
         /\ SizeByte(n) \in Nat
         /\ n <= MaxBasic => Len(HeaderOf(op, n)) = 2
         /\ n > MaxBasic => Len(HeaderOf(op, n)) = 3 /\ HeaderOf(op, n)[3] = Third(n)
<1>1. MaxBasic \in Nat /\ SizeByte(n) \in Nat
  BY FramesAssumption DEF SizeByte, SizeCode
<1>2. \A a, b \in ByteType : /\ <<a, b>> \in Seq(ByteType) /\ Len(<<a, b>>) = 2
                            /\ <<a, b>>[1] = a /\ <<a, b>>[2] = b
                            /\ <<a>> \in Seq(ByteType) /\ Len(<<a>>) = 1 /\ <<a>>[1] = a
  OBVIOUS
<1>3. PICK h : h = BasicHeader(op, n, TRUE, FALSE)
  OBVIOUS
<1>4. PICK e : e = ExtendedHeader(n)
  OBVIOUS
<1>5. /\ h \in Seq(ByteType) /\ Len(h) = 2 /\ h[1] = First(op)
      /\ h[2] = Second(SizeByte(n))
  <2>1. h = <<First(op), Second(SizeByte(n))>>
    BY <1>3 DEF BasicHeader, SizeByte, First, Second
  <2>2. First(op) \in ByteType /\ Second(SizeByte(n)) \in ByteType
    BY <1>1, ByteFields
  <2> QED
    BY <1>2, <2>1, <2>2
<1>6. /\ e \in Seq(ByteType) /\ Len(e) = 1
      /\ e[1] = Third(IF n <= MaxBasic THEN 0 ELSE n)
  <2>1. e = <<Third(IF n <= MaxBasic THEN 0 ELSE n)>>
    BY <1>4 DEF ExtendedHeader, Third
  <2>2. (IF n <= MaxBasic THEN 0 ELSE n) \in Nat
    OBVIOUS
  <2>3. Third(IF n <= MaxBasic THEN 0 ELSE n) \in ByteType
    BY <2>2, ByteFields
  <2> QED
    BY <1>2, <2>1, <2>3
<1>7. GetHeaderLen(h) = IF n <= MaxBasic THEN 0 ELSE 1
  <2>1. h[2].n = SizeByte(n) /\ h[2].f = FALSE
    BY <1>1, <1>5, ByteFields
  <2>2. SizeByte(n) = SizeCode <=> n > MaxBasic
    BY <1>1 DEF SizeByte, SizeCode
  <2> QED
    BY <1>1, <2>1, <2>2 DEF GetHeaderLen, GetBasicSize, GetMasked
<1>8. HeaderOf(op, n) = h \o SubSeq(e, 1, GetHeaderLen(h))
  BY <1>3, <1>4 DEF HeaderOf, PrepareHeader
<1>9. CASE n <= MaxBasic
  <2>1. SubSeq(e, 1, GetHeaderLen(h)) = <<>>
    BY <1>7, <1>9, SubSeqEmpty
  <2>2. HeaderOf(op, n) = h
    BY <1>5, <1>8, <2>1, ConcatEmptySeq
  <2>3. ~(n > MaxBasic)
    BY <1>1, <1>9
  <2> QED
    BY <1>1, <1>5, <2>2, <2>3, Zenon DEF Bytes0
<1>10. CASE n > MaxBasic
  <2>1. SubSeq(e, 1, GetHeaderLen(h)) = e
    BY <1>1, <1>6, <1>7, <1>10, SubSeqFull
  <2>2. /\ h \o e \in Seq(ByteType) /\ Len(h \o e) = 3
        /\ \A i \in 1 .. 3 : (h \o e)[i] = IF i <= 2 THEN h[i] ELSE e[i - 2]
    <3>1. /\ h \o e \in Seq(ByteType) /\ Len(h \o e) = Len(h) + Len(e)
          /\ \A i \in 1 .. Len(h) + Len(e) : (h \o e)[i] = IF i <= Len(h) THEN h[i] ELSE e[i - Len(h)]
      BY <1>5, <1>6, ConcatProperties
    <3> QED
      BY <1>5, <1>6, <3>1
  <2>3. (h \o e)[1] = h[1] /\ (h \o e)[2] = h[2] /\ (h \o e)[3] = e[1]
    BY <2>2
  <2>4. ~(n <= MaxBasic)
    BY <1>1, <1>10
  <2>5. e[1] = Third(n)
    BY <1>6, <2>4
  <2> QED
    BY <1>1, <1>5, <1>8, <2>1, <2>2, <2>3, <2>4, <2>5, Zenon DEF Bytes0
<1>11. n <= MaxBasic \/ n > MaxBasic
  BY <1>1
<1> QED
  BY <1>1, <1>9, <1>10, <1>11, Zenon

(* A payload's bytes are its characters.                                   *)
LEMMA PayloadType ==
  ASSUME NEW t \in Seq(STRING)
  PROVE  /\ Payload(t) \in Bytes0 /\ Len(Payload(t)) = Len(t) /\ Len(t) \in Nat
         /\ \A i \in 1 .. Len(t) : Payload(t)[i] = Character(t[i]) /\ t[i] \in STRING
<1>1. Len(t) \in Nat /\ DOMAIN t = 1 .. Len(t) /\ \A i \in 1 .. Len(t) : t[i] \in STRING
  OBVIOUS
<1>2. \A i \in 1 .. Len(t) : Character(t[i]) \in ByteType
  BY <1>1, ByteFields
<1>3. Payload(t) = [i \in 1 .. Len(t) |-> Character(t[i])]
  BY <1>1 DEF Payload, Character
<1> QED
  BY <1>1, <1>2, <1>3 DEF Bytes0

(* A frame, with what comes after it.                                      *)
Parts(x, op, t, b) ==
  /\ x \in Bytes0 /\ x # <<>> /\ Len(x) > 1
  /\ x[1] = First(op) /\ x[2] = Second(SizeByte(Len(t)))
  /\ Len(t) > MaxBasic => x[3] = Third(Len(t))
  /\ IsLong(x) <=> Len(t) > MaxBasic
  /\ SizeOf(x) = Len(t)
  /\ StartOf(x) = IF Len(t) > MaxBasic THEN 4 ELSE 3
  /\ Len(x) = StartOf(x) + Len(t) + Len(b) - 1
  /\ \A i \in 1 .. Len(t) : x[StartOf(x) + i - 1] = Character(t[i])
  /\ TextOf(x) = t
  /\ After(x) = b

(* A client finds in the bytes of a frame the parts it was made of.        *)
LEMMA FrameParts ==
  ASSUME NEW op \in STRING, NEW t \in Seq(STRING), NEW b \in Bytes0, NEW x, x = FrameOf(op, t) \o b
  PROVE  FrameOf(op, t) \in Bytes0 /\ FrameOf(op, t) # <<>> /\ Parts(x, op, t, b)
<1>1. PICK k : k = IF Len(t) > MaxBasic THEN 3 ELSE 2
  OBVIOUS
<1>2. PICK n : n = Len(t)
  OBVIOUS
<1>3. /\ MaxBasic \in Nat /\ n \in Nat /\ Len(b) \in Nat /\ k \in {2, 3} /\ b \in Seq(ByteType)
      /\ k = 3 <=> n > MaxBasic
  BY <1>1, <1>2, FramesAssumption, LenProperties DEF Bytes0
<1>4. PICK h : h = HeaderOf(op, n)
  OBVIOUS
<1>5. PICK p : p = Payload(t)
  OBVIOUS
<1>6. /\ h \in Seq(ByteType) /\ Len(h) = k /\ SizeByte(n) \in Nat
      /\ h[1] = First(op) /\ h[2] = Second(SizeByte(n))
      /\ n > MaxBasic => h[3] = Third(n)
  <2>1. n > MaxBasic \/ n <= MaxBasic
    BY <1>3
  <2> QED
    BY <1>1, <1>2, <1>3, <1>4, <2>1, Header DEF Bytes0
<1>7. /\ p \in Seq(ByteType) /\ Len(p) = n
      /\ \A i \in 1 .. n : p[i] = Character(t[i]) /\ t[i] \in STRING
  BY <1>2, <1>5, PayloadType DEF Bytes0
<1>8. PICK w : w = FrameOf(op, t)
  OBVIOUS
<1>9. /\ w \in Seq(ByteType) /\ Len(w) = k + n
      /\ \A i \in 1 .. k + n : w[i] = IF i <= k THEN h[i] ELSE p[i - k]
  <2>1. w = h \o p
    BY <1>2, <1>4, <1>5, <1>8 DEF FrameOf
  <2> QED
    BY <1>6, <1>7, <2>1, ConcatProperties
<1>10. /\ x \in Seq(ByteType) /\ Len(x) = k + n + Len(b)
       /\ \A i \in 1 .. k + n + Len(b) : x[i] = IF i <= k + n THEN w[i] ELSE b[i - (k + n)]
  <2>1. x = w \o b
    BY <1>8
  <2>2. /\ w \o b \in Seq(ByteType) /\ Len(w \o b) = Len(w) + Len(b)
        /\ \A i \in 1 .. Len(w) + Len(b) : (w \o b)[i] = IF i <= Len(w) THEN w[i] ELSE b[i - Len(w)]
    BY ONLY <1>3, <1>9, ConcatProperties
  <2> QED
    BY ONLY <1>9, <2>1, <2>2
<1>11. ASSUME NEW i \in 1 .. k
       PROVE  x[i] = h[i]
  <2>1. i <= k /\ i <= k + n /\ i \in 1 .. k + n /\ i \in 1 .. k + n + Len(b)
    BY ONLY <1>3
  <2>2. x[i] = w[i] /\ w[i] = h[i]
    BY ONLY <1>9, <1>10, <2>1
  <2> QED
    BY ONLY <2>2
<1>12. ASSUME NEW i \in 1 .. n
       PROVE  x[k + i] = Character(t[i])
  <2>1. /\ k + i \in 1 .. k + n /\ k + i \in 1 .. k + n + Len(b) /\ ~(k + i <= k) /\ (k + i) - k = i
        /\ k + i <= k + n
    BY <1>3
  <2>2. x[k + i] = w[k + i] /\ w[k + i] = p[i]
    BY <1>9, <1>10, <2>1
  <2> QED
    BY <1>7, <2>2
<1>13. x[1] = First(op) /\ x[2] = Second(SizeByte(n)) /\ (n > MaxBasic => x[3] = Third(n))
  <2>1. 1 \in 1 .. k /\ 2 \in 1 .. k /\ (n > MaxBasic => 3 \in 1 .. k)
    BY <1>3
  <2> QED
    BY <1>6, <1>11, <2>1
<1>14. Len(x) \in Nat /\ Len(x) > 1 /\ x # <<>> /\ w # <<>>
  <2>1. Len(x) \in Nat /\ Len(x) > 1 /\ Len(w) > 0
    BY ONLY <1>3, <1>9, <1>10
  <2> QED
    BY ONLY <2>1, EmptySeq
<1>15. x[2].n = SizeByte(n) /\ (n > MaxBasic => x[3].n = n)
  <2>1. \A m \in Nat : Second(m).n = m /\ Third(m).n = m
    BY ByteFields, StringsAssumption
  <2> QED
    BY ONLY <1>3, <1>6, <1>13, <2>1
<1>16. IsLong(x) <=> n > MaxBasic
  <2>1. n > MaxBasic => Len(x) > 2
    BY ONLY <1>3, <1>10
  <2> QED
    BY ONLY <1>3, <1>15, <2>1 DEF IsLong, SizeCode, SizeByte
<1>17. SizeOf(x) = n /\ StartOf(x) = k + 1
  BY ONLY <1>3, <1>15, <1>16 DEF SizeOf, StartOf, SizeByte
<1>18. ASSUME NEW i \in 1 .. n
       PROVE  x[StartOf(x) + i - 1] = Character(t[i])
  <2>1. StartOf(x) + i - 1 = k + i
    BY <1>3, <1>17
  <2> QED
    BY <1>12, <2>1
<1>19. TextOf(x) = t
  <2>1. \A i \in 1 .. n : x[StartOf(x) + i - 1].s = t[i]
    <3>1. \A c \in STRING : Character(c).s = c
      BY ByteFields
    <3> QED
      BY ONLY <1>7, <1>18, <3>1
  <2>2. t = [i \in 1 .. n |-> t[i]]
    BY <1>2, LenProperties
  <2> QED
    BY <1>17, <2>1, <2>2 DEF TextOf
<1>20. After(x) = b
  <2>1. PICK m : m = k + n + 1
    OBVIOUS
  <2>2. m \in Int /\ Len(x) \in Int /\ \A i \in m .. Len(x) : x[i] \in ByteType
    BY ONLY <1>3, <1>10, <1>14, <2>1
  <2>3. PICK y : y = SubSeq(x, m, Len(x))
    OBVIOUS
  <2>4. /\ y \in Seq(ByteType) /\ Len(y) = (IF m <= Len(x) THEN Len(x) - m + 1 ELSE 0)
        /\ \A i \in 1 .. Len(x) - m + 1 : y[i] = x[m + i - 1]
    BY ONLY <2>2, <2>3, SubSeqProperties
  <2>5. Len(y) = Len(b)
    BY <1>3, <1>10, <2>1, <2>4
  <2>6. ASSUME NEW i \in 1 .. Len(b)
        PROVE  y[i] = b[i]
    <3>1. i \in 1 .. Len(x) - m + 1 /\ m + i - 1 = k + n + i
      BY <1>3, <1>10, <2>1
    <3>2. k + n + i \in 1 .. k + n + Len(b) /\ ~(k + n + i <= k + n) /\ (k + n + i) - (k + n) = i
      BY <1>3
    <3>3. y[i] = x[k + n + i]
      BY <2>4, <3>1
    <3> QED
      BY <1>10, <3>2, <3>3
  <2>7. y = b
    BY <1>3, <2>4, <2>5, <2>6, SeqEqual
  <2>8. StartOf(x) + SizeOf(x) = m
    BY <1>3, <1>17, <2>1
  <2> QED
    BY <2>3, <2>7, <2>8 DEF After
<1>21. Len(x) = StartOf(x) + n + Len(b) - 1 /\ StartOf(x) = IF n > MaxBasic THEN 4 ELSE 3
  BY <1>3, <1>10, <1>17
<1> QED
  BY <1>2, <1>8, <1>9, <1>10, <1>13, <1>14, <1>16, <1>17, <1>18, <1>19, <1>20, <1>21 DEF Bytes0, Parts

(* The bytes of a frame that the server may send are a whole frame to a    *)
(* client.                                                                 *)
LEMMA IsAFrame ==
  ASSUME NEW op \in STRING, NEW t \in Seq(STRING), NEW b \in Bytes0, NEW x, x = FrameOf(op, t) \o b,
         op \in Data \/ Len(t) <= MaxBasic,
         op = "TEXT" => IsUtf8(t),
         op = "CLOSE" => Len(t) # 1
  PROVE  IsFrame(x)
<1>0. Parts(x, op, t, b)
  BY FrameParts
<1>1. /\ x[1] = First(op) /\ x[2] = Second(SizeByte(Len(t)))
      /\ Len(t) > MaxBasic => x[3] = Third(Len(t))
      /\ IsLong(x) <=> Len(t) > MaxBasic
      /\ SizeOf(x) = Len(t)
      /\ StartOf(x) = IF Len(t) > MaxBasic THEN 4 ELSE 3
      /\ Len(x) = StartOf(x) + Len(t) + Len(b) - 1
      /\ TextOf(x) = t
      /\ Len(x) > 1
  BY ONLY <1>0 DEF Parts
<1>2. \A i \in 1 .. Len(t) : x[StartOf(x) + i - 1] = Character(t[i])
  BY ONLY <1>0 DEF Parts
<1>3. /\ Len(t) \in Nat /\ Len(b) \in Nat /\ MaxBasic \in Nat /\ SizeByte(Len(t)) \in Nat
      /\ \A i \in 1 .. Len(t) : t[i] \in STRING
  <2>1. Len(t) \in Nat /\ \A i \in 1 .. Len(t) : t[i] \in STRING
    BY PayloadType, Zenon
  <2>2. b \in Seq(ByteType)
    BY DEF Bytes0
  <2>3. Len(b) \in Nat
    BY <2>2, LenProperties
  <2>4. MaxBasic \in Nat
    BY FramesAssumption
  <2> QED
    BY ONLY <2>1, <2>3, <2>4 DEF SizeByte, SizeCode
<1>4. /\ x[1].k = "b0" /\ x[1].f /\ x[1].n = 0 /\ x[1].s = op
      /\ x[2].k = "b1" /\ ~x[2].f
      /\ Len(t) > MaxBasic => x[3].k = "size"
  <2>1. First(op).k = "b0" /\ First(op).f /\ First(op).n = 0 /\ First(op).s = op
    BY ByteFields, StringsAssumption, Zenon
  <2>2. Second(SizeByte(Len(t))).k = "b1" /\ ~Second(SizeByte(Len(t))).f
    BY <1>3, ByteFields, StringsAssumption, Zenon
  <2>3. Third(Len(t)).k = "size"
    BY <1>3, ByteFields, StringsAssumption, Zenon
  <2> QED
    BY <1>1, <2>1, <2>2, <2>3, Zenon
<1>5. IsLong(x) => x[3].k = "size" /\ SizeOf(x) > MaxBasic /\ x[1].s \in Data
  BY <1>1, <1>3, <1>4
<1>6. Len(x) >= StartOf(x) + SizeOf(x) - 1
  <2>1. StartOf(x) \in Nat
    BY <1>1
  <2> QED
    BY ONLY <1>1, <1>3, <2>1
<1>7. ASSUME NEW i \in StartOf(x) .. StartOf(x) + SizeOf(x) - 1
      PROVE  x[i].k = "data"
  <2>1. StartOf(x) \in Nat
    BY <1>1
  <2>2. PICK j \in 1 .. Len(t) : i = StartOf(x) + j - 1
    <3>1. i - StartOf(x) + 1 \in 1 .. Len(t) /\ i = StartOf(x) + (i - StartOf(x) + 1) - 1
      BY ONLY <1>1, <1>3, <2>1
    <3> QED
      BY ONLY <3>1
  <2>3. x[i] = Character(t[j]) /\ t[j] \in STRING
    BY ONLY <1>2, <1>3, <2>2
  <2>4. \A c \in STRING : Character(c).k = "data"
    BY ByteFields
  <2> QED
    BY ONLY <2>3, <2>4
<1>8. op = "TEXT" => WellFormed(TextOf(x)) /\ (TextOf(x) # <<>> => Last(TextOf(x)) # "lead")
  BY <1>1, Utf8IsWellFormed
<1> QED
  BY <1>1, <1>4, <1>5, <1>6, <1>7, <1>8 DEF IsFrame

(* What makes up a message read by a client that has got its frame.        *)
LEMMA ReadsFrame ==
  ASSUME NEW op \in STRING, NEW t \in Seq(STRING), NEW m,
         op \in Data \/ Len(t) <= MaxBasic,
         op = "TEXT" => IsUtf8(t),
         op = "CLOSE" => Len(t) # 1,
         op # "CLOSE" => m = [op |-> op, payload |-> t],
         op = "CLOSE" => m = IF Len(t) = 0 THEN CloseMsg(NoStatus, <<>>)
                             ELSE CloseMsg(CodeOf(t), SubSeq(t, 3, Len(t)))
  PROVE  FrameOf(op, t) \in Bytes0 /\ FrameOf(op, t) # <<>> /\ Appends(ClientReads, FrameOf(op, t), <<m>>)
<1>1. <<>> \in Bytes0
  BY EmptySeq DEF Bytes0
<1>2. FrameOf(op, t) \in Bytes0 /\ FrameOf(op, t) # <<>>
  BY <1>1, FrameParts
<1>3. ASSUME NEW b \in Bytes0, NEW r \in Seq(Seen), ClientReads[b] = r
      PROVE  ClientReads[FrameOf(op, t) \o b] = <<m>> \o r
  <2>1. PICK x : x = FrameOf(op, t) \o b
    OBVIOUS
  <2>2. x \in Bytes0 /\ x # <<>> /\ After(x) = b /\ x[1] = First(op) /\ TextOf(x) = t /\ SizeOf(x) = Len(t)
    <3>1. Parts(x, op, t, b)
      BY <1>3, <2>1, FrameParts
    <3>2. x[2] = Second(SizeByte(Len(t))) /\ x \in Bytes0 /\ x # <<>> /\ After(x) = b /\ x[1] = First(op)
          /\ TextOf(x) = t /\ SizeOf(x) = Len(t)
      BY ONLY <3>1 DEF Parts
    <3> QED
      BY ONLY <3>2
  <2>3. IsFrame(x)
    BY <2>1, IsAFrame
  <2>4. x[1].s = op
    BY <2>2, ByteFields
  <2>5. MsgOf(x) = m
    BY <2>2, <2>4 DEF MsgOf
  <2>6. ClientReads[x] = <<MsgOf(x)>> \o ClientReads[After(x)]
    BY <2>2, <2>3, ClientReadsIs
  <2> QED
    BY <1>3, <2>1, <2>2, <2>5, <2>6
<1> QED
  BY <1>2, <1>3 DEF Appends

(* Sequences of two.                                                       *)
LEMMA Pair ==
  ASSUME NEW S, NEW u \in S, NEW v \in S
  PROVE  <<u, v>> \in Seq(S) /\ Len(<<u, v>>) = 2
OBVIOUS

(* The two bytes of a code tell which it is.                               *)
LEMMA CodeBytesType ==
  ASSUME NEW code \in Codes
  PROVE  /\ CodeBytes(code) \in Seq(STRING) /\ Len(CodeBytes(code)) = 2
         /\ \A d \in Codes : CodeBytes(d) = CodeBytes(code) => d = code
<1>1. CodeName(code) \in STRING
  BY NamesAssumption
<1>2. "code" \in STRING
  BY StringsAssumption
<1>3. CodeBytes(code) \in Seq(STRING) /\ Len(CodeBytes(code)) = 2
  BY <1>1, <1>2, Pair DEF CodeBytes
<1>4. ASSUME NEW d \in Codes, CodeBytes(d) = CodeBytes(code)
      PROVE  d = code
  <2>1. \A u, v, w : <<u, v>> = <<u, w>> => v = w
    OBVIOUS
  <2>2. CodeName(d) = CodeName(code)
    BY ONLY <1>4, <2>1 DEF CodeBytes
  <2> QED
    BY ONLY <2>2, code \in Codes, d \in Codes, NamesAssumption
<1> QED
  BY <1>3, <1>4

(* A client gets out of a close frame the code and the reason put into it. *)
LEMMA CodeBytesOf ==
  ASSUME NEW code \in Codes, NEW reason \in Seq(STRING), NEW t, t = CodeBytes(code) \o reason
  PROVE  /\ t \in Seq(STRING) /\ Len(t) = Len(reason) + 2 /\ Len(reason) \in Nat
         /\ SubSeq(t, 1, 2) = CodeBytes(code)
         /\ SubSeq(t, 3, Len(t)) = reason
         /\ CodeOf(t) = code
<1>1. PICK c : c = CodeBytes(code)
  OBVIOUS
<1>2. c \in Seq(STRING) /\ Len(c) = 2
  BY <1>1, CodeBytesType, Zenon
<1>3. /\ t \in Seq(STRING) /\ Len(t) = Len(c) + Len(reason)
      /\ \A i \in 1 .. Len(c) + Len(reason) : t[i] = IF i <= Len(c) THEN c[i] ELSE reason[i - Len(c)]
  BY <1>1, <1>2, ConcatProperties
<1>4. Len(reason) \in Nat /\ Len(t) = Len(reason) + 2
      /\ \A i \in 1 .. Len(t) : t[i] \in STRING /\ t[i] = IF i <= 2 THEN c[i] ELSE reason[i - 2]
  BY <1>2, <1>3
<1>5. SubSeq(t, 1, 2) = c
  <2>1. PICK y : y = SubSeq(t, 1, 2)
    OBVIOUS
  <2>2. \A i \in 1 .. 2 : t[i] \in STRING
    BY <1>4
  <2>3. y \in Seq(STRING) /\ Len(y) = (IF 1 <= 2 THEN 2 - 1 + 1 ELSE 0) /\ \A i \in 1 .. 2 - 1 + 1 : y[i] = t[1 + i - 1]
    BY ONLY <2>1, <2>2, SubSeqProperties
  <2>4. Len(y) = 2 /\ y[1] = t[1] /\ y[2] = t[2]
    BY ONLY <2>3
  <2>5. t[1] = c[1] /\ t[2] = c[2]
    BY ONLY <1>4
  <2>6. \A i \in 1 .. Len(y) : y[i] = c[i]
    BY ONLY <2>4, <2>5
  <2> QED
    BY ONLY <1>2, <2>1, <2>3, <2>4, <2>6, SeqEqual
<1>6. SubSeq(t, 3, Len(t)) = reason
  <2>1. PICK y : y = SubSeq(t, 3, Len(t))
    OBVIOUS
  <2>2. 3 \in Int /\ Len(t) \in Int /\ \A i \in 3 .. Len(t) : t[i] \in STRING
    BY <1>4
  <2>3. y \in Seq(STRING) /\ Len(y) = (IF 3 <= Len(t) THEN Len(t) - 3 + 1 ELSE 0)
        /\ \A i \in 1 .. Len(t) - 3 + 1 : y[i] = t[3 + i - 1]
    BY ONLY <2>1, <2>2, SubSeqProperties
  <2>4. Len(y) = Len(reason)
    BY ONLY <1>4, <2>3
  <2>5. ASSUME NEW i \in 1 .. Len(reason)
        PROVE  y[i] = reason[i]
    <3>1. i \in 1 .. Len(t) - 3 + 1 /\ 3 + i - 1 = i + 2 /\ i + 2 \in 1 .. Len(t) /\ ~(i + 2 <= 2) /\ (i + 2) - 2 = i
      BY ONLY <1>4
    <3>2. y[i] = t[i + 2]
      BY ONLY <2>3, <3>1
    <3> QED
      BY ONLY <1>4, <3>1, <3>2
  <2>6. reason \in Seq(STRING)
    OBVIOUS
  <2> QED
    BY ONLY <2>1, <2>3, <2>4, <2>5, <2>6, SeqEqual
<1>7. \A d \in Codes : CodeBytes(d) = CodeBytes(code) => d = code
  BY CodeBytesType, Zenon
<1>8. CodeOf(t) = code
  BY <1>1, <1>5, <1>7 DEF CodeOf
<1> QED
  BY <1>1, <1>3, <1>4, <1>5, <1>6, <1>8

(* What hybi13 makes of a message, a client reads as that message.         *)
LEMMA EncodeReads ==
  ASSUME NEW m \in Sent, GetWebsocketVersion # 0, Encode(m) # <<>>
  PROVE  Encode(m) \in Bytes0 /\ Appends(ClientReads, Encode(m), <<m>>)
<1>1. CASE m.op \in Data
  <2>1. m = [op |-> m.op, payload |-> m.payload] /\ m.payload \in Seq(STRING) /\ m.op \in STRING /\ m.op # "CLOSE"
    <3>1. m.op # "CLOSE" /\ m.op # "PONG"
      BY <1>1 DEF Data
    <3>2. m \in [op : Data \cup {"PONG"}, payload : Seq(STRING)]
      BY <3>1 DEF Sent
    <3>3. m = [op |-> m.op, payload |-> m.payload] /\ m.payload \in Seq(STRING)
      BY ONLY <3>2
    <3>4. m.op \in STRING
      BY <1>1, StringsAssumption, Zenon
    <3> QED
      BY <3>1, <3>3, <3>4
  <2>2. Encode(m) = PrepareDataFrame(m.op, m.payload)
    BY <1>1 DEF Encode, Data
  <2>3. PrepareDataFrame(m.op, m.payload) = FrameOf(m.op, m.payload) /\ (m.op = "TEXT" => IsUtf8(m.payload))
    BY <1>1, <2>2 DEF PrepareDataFrame, FrameOf, HeaderOf
  <2> QED
    BY <1>1, <2>1, <2>2, <2>3, ReadsFrame
<1>2. CASE m.op = "PONG"
  <2>1. m = [op |-> m.op, payload |-> m.payload] /\ m.payload \in Seq(STRING) /\ m.op \in STRING
    BY <1>2, StringsAssumption DEF Sent, Control
  <2>2. Encode(m) = PrepareControl(m.op, m.payload)
    BY <1>2 DEF Encode, Data
  <2>3. ~(Len(m.payload) > MaxBasic) /\ PrepareControl(m.op, m.payload) = FrameOf(m.op, m.payload)
    BY <2>2 DEF PrepareControl, FrameOf, HeaderOf
  <2>4. Len(m.payload) <= MaxBasic
    BY <2>1, <2>3, FramesAssumption
  <2> QED
    BY <1>2, <2>1, <2>2, <2>3, <2>4, ReadsFrame
<1>3. CASE m.op = "CLOSE"
  <2>1. m = CloseMsg(m.code, m.reason) /\ m.code \in Codes /\ m.reason \in Seq(STRING)
    BY <1>3 DEF Sent, Data, CloseMsg
  <2>2. Encode(m) = PrepareClose(m.code, m.reason) /\ "CLOSE" \in STRING
    BY <1>3, StringsAssumption DEF Encode, Data, Control
  <2>3. /\ ~(m.code = NoStatus /\ m.reason # <<>>) /\ ~(Len(m.reason) + 2 > MaxBasic)
        /\ PrepareClose(m.code, m.reason) =
             PrepareControl("CLOSE", IF m.code = NoStatus THEN <<>> ELSE CodeBytes(m.code) \o m.reason)
    BY <2>2 DEF PrepareClose
  <2>4. \A t : PrepareControl("CLOSE", t) # <<>> =>
                 ~(Len(t) > MaxBasic) /\ PrepareControl("CLOSE", t) = FrameOf("CLOSE", t)
    BY DEF PrepareControl, FrameOf, HeaderOf, Control
  <2>5. CASE m.code = NoStatus
    <3>1. Encode(m) = FrameOf("CLOSE", <<>>) /\ m = CloseMsg(NoStatus, <<>>)
      BY <2>1, <2>2, <2>3, <2>4, <2>5
    <3>2. PICK t : t = <<>>
      OBVIOUS
    <3>3. t \in Seq(STRING) /\ Len(t) = 0 /\ Len(t) # 1 /\ Len(t) <= MaxBasic
      BY <3>2, EmptySeq, FramesAssumption
    <3>4. m = IF Len(t) = 0 THEN CloseMsg(NoStatus, <<>>)
              ELSE CloseMsg(CodeOf(t), SubSeq(t, 3, Len(t)))
      BY <3>1, <3>3
    <3>5. FrameOf("CLOSE", t) \in Bytes0 /\ Appends(ClientReads, FrameOf("CLOSE", t), <<m>>)
      BY <2>2, <3>3, <3>4, ReadsFrame
    <3> QED
      BY <3>1, <3>2, <3>5, Zenon
  <2>6. CASE m.code # NoStatus
    <3>0. PICK code \in Codes, reason \in Seq(STRING) : code = m.code /\ reason = m.reason
      BY <2>1
    <3>1. PICK t : t = CodeBytes(code) \o reason
      OBVIOUS
    <3>2. Encode(m) = FrameOf("CLOSE", t) /\ ~(Len(t) > MaxBasic)
      BY <2>2, <2>3, <2>4, <2>6, <3>0, <3>1
    <3>3. /\ t \in Seq(STRING) /\ Len(t) = Len(reason) + 2 /\ Len(reason) \in Nat
          /\ SubSeq(t, 3, Len(t)) = reason
          /\ CodeOf(t) = code
      BY <3>1, CodeBytesOf
    <3>4. Len(t) # 0 /\ Len(t) # 1 /\ Len(t) <= MaxBasic
      BY <3>2, <3>3, FramesAssumption
    <3>5. m = IF Len(t) = 0 THEN CloseMsg(NoStatus, <<>>)
              ELSE CloseMsg(CodeOf(t), SubSeq(t, 3, Len(t)))
      BY <2>1, <3>0, <3>3, <3>4
    <3>6. FrameOf("CLOSE", t) \in Bytes0 /\ Appends(ClientReads, FrameOf("CLOSE", t), <<m>>)
      <4>1. "CLOSE" \in STRING /\ t \in Seq(STRING) /\ Len(t) # 1 /\ Len(t) <= MaxBasic
        BY <2>2, <3>3, <3>4
      <4> QED
        BY ONLY <3>5, <4>1, ReadsFrame
    <3> QED
      BY <3>2, <3>6
  <2> QED
    BY <2>5, <2>6
<1> QED
  BY <1>1, <1>2, <1>3 DEF Sent
-----------------------------------------------------------------------------
(* No bytes are read as no messages.                                       *)
LEMMA AppendsNothing ==
  ASSUME NEW reads, reads[<<>>] = <<>>
  PROVE  <<>> \in Bytes0 /\ Appends(reads, <<>>, <<>>)
<1>1. <<>> \in Bytes0
  BY EmptySeq DEF Bytes0
<1>2. ASSUME NEW b \in Bytes0, NEW r \in Seq(Seen), reads[b] = r
      PROVE  reads[<<>> \o b] = <<>> \o r
  <2>1. <<>> \o b = b
    BY ConcatEmptySeq DEF Bytes0
  <2>2. <<>> \o r = r
    BY ConcatEmptySeq
  <2> QED
    BY <1>2, <2>1, <2>2, Zenon
<1> QED
  BY <1>1, <1>2 DEF Appends

(* What is read of two pieces of bytes is read of them in a row.           *)
LEMMA AppendsBoth ==
  ASSUME NEW reads, NEW a1 \in Bytes0, NEW a2 \in Bytes0, NEW m1 \in Seq(Seen), NEW m2 \in Seq(Seen),
         Appends(reads, a1, m1), Appends(reads, a2, m2)
  PROVE  a1 \o a2 \in Bytes0 /\ m1 \o m2 \in Seq(Seen) /\ Appends(reads, a1 \o a2, m1 \o m2)
<1>1. \A T : \A x, y \in Seq(T) : x \o y \in Seq(T)
  BY ConcatProperties
<1>2. \A T : \A x, y, z \in Seq(T) : (x \o y) \o z = x \o (y \o z)
  BY ConcatAssociative
<1>3. ASSUME NEW b \in Bytes0, NEW r \in Seq(Seen), reads[b] = r
      PROVE  reads[(a1 \o a2) \o b] = (m1 \o m2) \o r
  <2>1. a2 \o b \in Bytes0 /\ m2 \o r \in Seq(Seen)
    BY <1>1 DEF Bytes0
  <2>2. reads[a2 \o b] = m2 \o r
    BY <1>3 DEF Appends
  <2>3. reads[a1 \o (a2 \o b)] = m1 \o (m2 \o r)
    <3>1. PICK y \in Bytes0, w \in Seq(Seen) : y = a2 \o b /\ w = m2 \o r
      BY <2>1
    <3>2. reads[y] = w
      BY <2>2, <3>1
    <3>3. reads[a1 \o y] = m1 \o w
      BY ONLY Appends(reads, a1, m1), <3>2, y \in Bytes0, w \in Seq(Seen) DEF Appends
    <3> QED
      BY ONLY <3>1, <3>3
  <2>4. (a1 \o a2) \o b = a1 \o (a2 \o b)
    <3>1. a1 \in Seq(ByteType) /\ a2 \in Seq(ByteType) /\ b \in Seq(ByteType)
      BY DEF Bytes0
    <3> QED
      BY ONLY <3>1, ConcatAssociative
  <2>5. (m1 \o m2) \o r = m1 \o (m2 \o r)
    BY ConcatAssociative
  <2> QED
    BY <2>3, <2>4, <2>5, Zenon
<1>4. a1 \o a2 \in Bytes0 /\ m1 \o m2 \in Seq(Seen)
  BY <1>1 DEF Bytes0
<1> QED
  BY <1>3, <1>4 DEF Appends

(* A sequence grows from nothing, one element at a time.                   *)
LEMMA PrefixSteps ==
  ASSUME NEW T, NEW s \in Seq(T)
  PROVE  /\ SubSeq(s, 1, Len(s)) = s
         /\ Len(s) > 0 => SubSeq(s, 1, 1) = <<s[1]>>
         /\ \A n \in 1 .. Len(s) - 1 : /\ SubSeq(s, 1, n) \in Seq(T) /\ <<s[n + 1]>> \in Seq(T)
                                       /\ SubSeq(s, 1, n + 1) = SubSeq(s, 1, n) \o <<s[n + 1]>>
<1>1. SubSeq(s, 1, Len(s)) = s
  BY SubSeqFull
<1>2. ASSUME Len(s) > 0
      PROVE  SubSeq(s, 1, 1) = <<s[1]>>
  <2>1. 1 \in 1 .. Len(s) /\ 1 \in 1 .. Len(s)
    BY <1>2
  <2>2. SubSeq(s, 1, 1) = SubSeq(s, 1, 1 - 1) \o <<s[1]>>
    BY <2>1, SubSeqRecursiveSecond
  <2>3. SubSeq(s, 1, 0) = <<>>
    BY SubSeqEmpty
  <2>4. <<s[1]>> \in Seq(T)
    BY <2>1
  <2>5. <<>> \o <<s[1]>> = <<s[1]>>
    BY <2>4, ConcatEmptySeq, Zenon
  <2>6. 1 - 1 = 0
    OBVIOUS
  <2> QED
    BY ONLY <2>2, <2>3, <2>5, <2>6
<1>3. ASSUME NEW n \in 1 .. Len(s) - 1
      PROVE  /\ SubSeq(s, 1, n) \in Seq(T) /\ <<s[n + 1]>> \in Seq(T)
             /\ SubSeq(s, 1, n + 1) = SubSeq(s, 1, n) \o <<s[n + 1]>>
  <2>1. /\ 1 \in 1 .. Len(s) /\ n + 1 \in 1 .. Len(s) /\ (n + 1) - 1 = n /\ n \in Int
        /\ \A i \in 1 .. n : s[i] \in T
    OBVIOUS
  <2>2. SubSeq(s, 1, n + 1) = SubSeq(s, 1, (n + 1) - 1) \o <<s[n + 1]>>
    BY <2>1, SubSeqRecursiveSecond
  <2>3. SubSeq(s, 1, n) \in Seq(T)
    BY <2>1, SubSeqProperties
  <2>4. <<s[n + 1]>> \in Seq(T)
    BY <2>1
  <2> QED
    BY <2>1, <2>2, <2>3, <2>4
<1> QED
  BY <1>1, <1>2, <1>3

(* And what is read of many pieces is read of all of them: by induction on *)
(* how many there are.                                                     *)
LEMMA AppendsAll ==
  ASSUME NEW reads, reads[<<>>] = <<>>, NEW msgs \in Seq(Seen), NEW seqs \in Seq(Bytes0),
         Len(seqs) = Len(msgs), \A i \in 1 .. Len(msgs) : Appends(reads, seqs[i], <<msgs[i]>>)
  PROVE  FlattenSeq(seqs) \in Bytes0 /\ Appends(reads, FlattenSeq(seqs), msgs)
<1>1. Len(msgs) \in Nat /\ \A i \in 1 .. Len(msgs) : msgs[i] \in Seen /\ seqs[i] \in Bytes0
  OBVIOUS
<1>2. CASE Len(msgs) = 0
  <2>1. seqs = <<>> /\ msgs = <<>>
    BY <1>2, EmptySeq
  <2>2. FlattenSeq(<<>>) = <<>>
    BY EmptySeq DEF FlattenSeq
  <2> QED
    BY <2>1, <2>2, AppendsNothing
<1>3. CASE Len(msgs) > 0
  <2>1. PICK e : /\ e[1] = seqs[1]
                 /\ \A i \in 2 .. Len(seqs) : e[i] = e[i - 1] \o seqs[i]
                 /\ FlattenSeq(seqs) = e[Len(seqs)]
    BY <1>1, <1>3, FlattenRun
  <2> DEFINE S == {n \in Nat : n \in 1 .. Len(msgs) =>
                                 e[n] \in Bytes0 /\ Appends(reads, e[n], SubSeq(msgs, 1, n))}
  <2>2. 0 \in S
    OBVIOUS
  <2>3. ASSUME NEW n \in Nat, n \in S
        PROVE  n + 1 \in S
    <3> SUFFICES ASSUME n + 1 \in 1 .. Len(msgs)
                 PROVE  e[n + 1] \in Bytes0 /\ Appends(reads, e[n + 1], SubSeq(msgs, 1, n + 1))
      OBVIOUS
    <3>1. CASE n = 0
      <4>1. SubSeq(msgs, 1, 1) = <<msgs[1]>>
        BY <1>3, PrefixSteps
      <4>2. 1 \in 1 .. Len(msgs) /\ n + 1 = 1
        BY <1>1, <1>3, <3>1
      <4>3. seqs[1] \in Bytes0 /\ Appends(reads, seqs[1], <<msgs[1]>>)
        BY <1>1, <4>2
      <4> QED
        BY <2>1, <4>1, <4>2, <4>3, Zenon
    <3>2. CASE n # 0
      <4>1. n + 1 \in 2 .. Len(seqs) /\ (n + 1) - 1 = n /\ n \in 1 .. Len(msgs)
        BY <1>1, <3>2
      <4>2. e[n + 1] = e[n] \o seqs[n + 1]
        BY <2>1, <4>1
      <4>3. e[n] \in Bytes0 /\ Appends(reads, e[n], SubSeq(msgs, 1, n))
        BY <2>3, <4>1
      <4>4. /\ SubSeq(msgs, 1, n) \in Seq(Seen) /\ <<msgs[n + 1]>> \in Seq(Seen)
            /\ SubSeq(msgs, 1, n + 1) = SubSeq(msgs, 1, n) \o <<msgs[n + 1]>>
        <5>1. n \in 1 .. Len(msgs) - 1
          BY ONLY <1>1, <4>1, n + 1 \in 1 .. Len(msgs)
        <5> QED
          BY <5>1, PrefixSteps, Zenon
      <4>5. seqs[n + 1] \in Bytes0 /\ Appends(reads, seqs[n + 1], <<msgs[n + 1]>>)
        BY <1>1
      <4> QED
        <5>1. e[n] \o seqs[n + 1] \in Bytes0 /\ Appends(reads, e[n] \o seqs[n + 1], SubSeq(msgs, 1, n) \o <<msgs[n + 1]>>)
          BY <4>3, <4>4, <4>5, AppendsBoth, Zenon
        <5> QED
          BY <4>2, <4>4, <5>1, Zenon
    <3> QED
      BY <3>1, <3>2
  <2>4. Nat \subseteq S
    <3> HIDE DEF S
    <3> QED
      BY <2>2, <2>3, SetInduction
  <2>5. SubSeq(msgs, 1, Len(msgs)) = msgs
    BY SubSeqFull
  <2>6. Len(msgs) \in Nat /\ Len(msgs) \in 1 .. Len(msgs)
    BY <1>1, <1>3
  <2>7. e[Len(msgs)] \in Bytes0 /\ Appends(reads, e[Len(msgs)], SubSeq(msgs, 1, Len(msgs)))
    BY <2>4, <2>6, Zenon
  <2> QED
    BY <2>1, <2>5, <2>7, Zenon
<1> QED
  BY <1>1, <1>2, <1>3
-----------------------------------------------------------------------------
(* The least of a set of numbers is what no member is below.               *)
LEMMA MinIs ==
  ASSUME NEW n \in Int, NEW T, n \in T, T \subseteq Int, \A y \in T : n <= y
  PROVE  Min(T) = n
<1>1. Min(T) \in T /\ \A y \in T : Min(T) <= y
  BY DEF Min
<1>2. PICK m : m = Min(T)
  OBVIOUS
<1>3. m \in Int /\ n <= m /\ m <= n
  BY ONLY <1>1, <1>2, n \in T, T \subseteq Int, \A y \in T : n <= y
<1> QED
  BY ONLY n \in Int, <1>2, <1>3

(* A set of natural numbers that is not empty has one.                     *)
LEMMA MinExists ==
  ASSUME NEW T, T \subseteq Nat, T # {}
  PROVE  Min(T) \in T /\ Min(T) \in Nat /\ \A y \in T : Min(T) <= y
<1>1. \E x \in T : \A y \in T : x <= y
  BY Least
<1>2. Min(T) \in T /\ \A y \in T : Min(T) <= y
  BY <1>1 DEF Min
<1> QED
  BY <1>2

(* Taking something off bytes makes them shorter.                          *)
LEMMA Dropped ==
  ASSUME NEW b \in Bytes0, NEW k \in 1 .. Len(b)
  PROVE  /\ SubSeq(b, k + 1, Len(b)) \in Bytes0
         /\ Len(SubSeq(b, k + 1, Len(b))) < Len(b)
<1>1. Len(b) \in Nat /\ \A i \in k + 1 .. Len(b) : b[i] \in ByteType
  BY DEF Bytes0
<1>2. PICK y : y = SubSeq(b, k + 1, Len(b))
  OBVIOUS
<1>3. y \in Seq(ByteType) /\ Len(y) = (IF k + 1 <= Len(b) THEN Len(b) - (k + 1) + 1 ELSE 0)
  BY <1>1, <1>2, SubSeqProperties
<1>4. Len(y) < Len(b)
  BY ONLY <1>1, <1>3, k \in 1 .. Len(b)
<1> QED
  BY <1>2, <1>3, <1>4 DEF Bytes0

(* Taking off what was put in front.                                       *)
LEMMA DropPrefix ==
  ASSUME NEW a \in Bytes0, NEW b \in Bytes0
  PROVE  SubSeq(a \o b, Len(a) + 1, Len(a \o b)) = b
<1>1. a \in Seq(ByteType) /\ b \in Seq(ByteType) /\ Len(a) \in Nat /\ Len(b) \in Nat
  BY DEF Bytes0
<1>2. PICK x : x = a \o b
  OBVIOUS
<1>3. /\ x \in Seq(ByteType) /\ Len(x) = Len(a) + Len(b)
      /\ \A i \in 1 .. Len(a) + Len(b) : x[i] = IF i <= Len(a) THEN a[i] ELSE b[i - Len(a)]
  BY ONLY <1>1, <1>2, ConcatProperties
<1>4. PICK y : y = SubSeq(x, Len(a) + 1, Len(x))
  OBVIOUS
<1>5. \A i \in Len(a) + 1 .. Len(x) : x[i] \in ByteType
  BY ONLY <1>1, <1>3
<1>6. /\ y \in Seq(ByteType) /\ Len(y) = (IF Len(a) + 1 <= Len(x) THEN Len(x) - (Len(a) + 1) + 1 ELSE 0)
      /\ \A i \in 1 .. Len(x) - (Len(a) + 1) + 1 : y[i] = x[Len(a) + 1 + i - 1]
  BY ONLY <1>1, <1>3, <1>4, <1>5, SubSeqProperties
<1>7. Len(y) = Len(b)
  BY ONLY <1>1, <1>3, <1>6
<1>8. ASSUME NEW i \in 1 .. Len(b)
      PROVE  y[i] = b[i]
  <2>1. /\ i \in 1 .. Len(x) - (Len(a) + 1) + 1 /\ Len(a) + 1 + i - 1 = Len(a) + i
        /\ Len(a) + i \in 1 .. Len(a) + Len(b) /\ ~(Len(a) + i <= Len(a)) /\ (Len(a) + i) - Len(a) = i
    BY ONLY <1>1, <1>3, i \in 1 .. Len(b)
  <2>2. y[i] = x[Len(a) + i]
    BY ONLY <1>6, <2>1
  <2> QED
    BY ONLY <1>3, <2>1, <2>2
<1>9. y = b
  BY ONLY <1>1, <1>6, <1>7, <1>8, SeqEqual
<1> QED
  BY <1>2, <1>4, <1>9

(* The end of a frame of hybi00 is in it.                                  *)
LEMMA EndsAre ==
  ASSUME NEW b \in Bytes0, Ends00(b) # {}
  PROVE  Min(Ends00(b)) \in 1 .. Len(b)
<1>1. Ends00(b) \subseteq Nat /\ Ends00(b) \subseteq 1 .. Len(b)
  BY DEF Ends00, Bytes0
<1> QED
  BY <1>1, MinExists

(* The client of hybi00, as its equation says.                             *)
LEMMA ClientReads00Is ==
  ASSUME NEW b \in Bytes0
  PROVE  /\ ClientReads00[<<>>] = <<>>
         /\ b # <<>> /\ IsText00(b) =>
              ClientReads00[b] = <<Text(TextOf00(b))>> \o ClientReads00[SubSeq(b, Min(Ends00(b)) + 1, Len(b))]
         /\ b # <<>> /\ ~IsText00(b) /\ IsClose00(b) =>
              ClientReads00[b] = <<[op |-> "CLOSE"]>> \o ClientReads00[SubSeq(b, 3, Len(b))]
<1> DEFINE size == [x \in Bytes0 |-> Len(x)]
           more == {x \in Bytes0 : x # <<>> /\ (IsText00(x) \/ IsClose00(x))}
           rest == [x \in Bytes0 |-> IF IsText00(x) THEN SubSeq(x, Min(Ends00(x)) + 1, Len(x))
                                                    ELSE SubSeq(x, 3, Len(x))]
           msg == [x \in Bytes0 |-> IF IsText00(x) THEN Text(TextOf00(x)) ELSE [op |-> "CLOSE"]]
           base == [x \in Bytes0 |-> IF x = <<>> THEN <<>> ELSE <<[op |-> "illegal"]>>]
           Is(f) == f = [x \in Bytes0 |->
                           IF x = <<>> THEN <<>>
                           ELSE IF IsText00(x)
                             THEN <<Text(TextOf00(x))>> \o f[SubSeq(x, Min(Ends00(x)) + 1, Len(x))]
                           ELSE IF IsClose00(x) THEN <<[op |-> "CLOSE"]>> \o f[SubSeq(x, 3, Len(x))]
                           ELSE <<[op |-> "illegal"]>>]
<1>1. size \in [Bytes0 -> Nat]
  BY LenProperties DEF Bytes0
<1>2. ASSUME NEW x \in Bytes0, x \in more
      PROVE  rest[x] \in Bytes0 /\ size[rest[x]] < size[x]
  <2>1. CASE IsText00(x)
    <3>1. Min(Ends00(x)) \in 1 .. Len(x)
      BY <2>1, EndsAre DEF IsText00
    <3>2. /\ SubSeq(x, Min(Ends00(x)) + 1, Len(x)) \in Bytes0
          /\ Len(SubSeq(x, Min(Ends00(x)) + 1, Len(x))) < Len(x)
      BY <3>1, Dropped
    <3> QED
      BY <2>1, <3>2
  <2>2. CASE ~IsText00(x)
    <3>1. 2 \in 1 .. Len(x) /\ 2 + 1 = 3
      BY <1>2, <2>2 DEF IsClose00, Bytes0
    <3>2. SubSeq(x, 3, Len(x)) \in Bytes0 /\ Len(SubSeq(x, 3, Len(x))) < Len(x)
      BY <3>1, Dropped
    <3> QED
      BY <2>2, <3>2
  <2> QED
    BY <2>1, <2>2
<1>3. PICK f : Recurs(f, Bytes0, more, rest, Bytes0, msg, base)
  <2> HIDE DEF size, more, rest, msg, base
  <2> QED
    BY <1>1, <1>2, Recursion
<1>4. Is(f)
  <2>1. \A x \in Bytes0 : f[x] = IF x \in more THEN <<msg[x]>> \o f[rest[x]] ELSE base[x]
    <3> HIDE DEF size, more, rest, msg, base
    <3> QED
      BY <1>3 DEF Recurs
  <2>2. ASSUME NEW x \in Bytes0
        PROVE  f[x] = IF x = <<>> THEN <<>>
                      ELSE IF IsText00(x)
                        THEN <<Text(TextOf00(x))>> \o f[SubSeq(x, Min(Ends00(x)) + 1, Len(x))]
                      ELSE IF IsClose00(x) THEN <<[op |-> "CLOSE"]>> \o f[SubSeq(x, 3, Len(x))]
                      ELSE <<[op |-> "illegal"]>>
    <3>1. x \in more <=> x # <<>> /\ (IsText00(x) \/ IsClose00(x))
      OBVIOUS
    <3>2. IsText00(x) => msg[x] = Text(TextOf00(x)) /\ rest[x] = SubSeq(x, Min(Ends00(x)) + 1, Len(x))
      OBVIOUS
    <3>3. ~IsText00(x) => msg[x] = [op |-> "CLOSE"] /\ rest[x] = SubSeq(x, 3, Len(x))
      OBVIOUS
    <3>4. base[x] = IF x = <<>> THEN <<>> ELSE <<[op |-> "illegal"]>>
      OBVIOUS
    <3> HIDE DEF size, more, rest, msg, base
    <3> QED
      BY <2>1, <3>1, <3>2, <3>3, <3>4
  <2>3. f = [x \in Bytes0 |-> f[x]]
    BY <1>3 DEF Recurs
  <2> HIDE DEF size, more, rest, msg, base
  <2> QED
    BY <2>2, <2>3
<1>5. Is(ClientReads00)
  <2>1. ClientReads00 = CHOOSE g : Is(g)
    BY DEF ClientReads00, Bytes0
  <2> HIDE DEF Is
  <2> QED
    BY <1>4, <2>1
<1>6. <<>> \in Bytes0
  BY EmptySeq DEF Bytes0
<1> HIDE DEF size, more, rest, msg, base
<1>7. ClientReads00[<<>>] = <<>>
  BY <1>5, <1>6
<1> QED
  BY <1>5, <1>7

(* The marks around a text of hybi00 are no characters of it.              *)
LEMMA Marks ==
  /\ Mark("00") \in ByteType /\ Mark("ff") \in ByteType /\ Mark("00") # Mark("ff")
  /\ \A c \in STRING : Character(c) # Mark("ff")
<1>1. "00" \in STRING /\ "ff" \in STRING
  BY StringsAssumption
<1>2. Mark("00") \in ByteType /\ Mark("ff") \in ByteType
  BY <1>1, ByteFields, Zenon
<1>3. Mark("00").s = "00" /\ Mark("ff").s = "ff" /\ Mark("ff").k = "mark"
  BY DEF Mark, Byte
<1>4. \A c \in STRING : Character(c).k = "data"
  BY DEF Character, Byte
<1>5. "00" # "ff" /\ "data" # "mark"
  OBVIOUS
<1>6. \A c \in STRING : Character(c) # Mark("ff")
  BY ONLY <1>3, <1>4, <1>5
<1> QED
  BY ONLY <1>2, <1>3, <1>5, <1>6

(* A text in hybi00.                                                       *)
Text00(t) == <<Mark("00")>> \o Payload(t) \o <<Mark("ff")>>

(* A client finds the end of the text, and the text, where the server put  *)
(* them.                                                                   *)
LEMMA Text00Parts ==
  ASSUME NEW t \in Seq(STRING), NEW b \in Bytes0, NEW x, x = Text00(t) \o b
  PROVE  /\ Text00(t) \in Bytes0 /\ Text00(t) # <<>> /\ x \in Bytes0 /\ x # <<>>
         /\ x[1] = Mark("00") /\ Ends00(x) # {} /\ Min(Ends00(x)) = Len(t) + 2
         /\ TextOf00(x) = t
         /\ SubSeq(x, Min(Ends00(x)) + 1, Len(x)) = b
<1>1. PICK n : n = Len(t)
  OBVIOUS
<1>2. PICK p : p = Payload(t)
  OBVIOUS
<1>3. PICK u, v : u = Mark("00") /\ v = Mark("ff")
  OBVIOUS
<1>4. /\ n \in Nat /\ p \in Seq(ByteType) /\ Len(p) = n /\ u \in ByteType /\ v \in ByteType /\ u # v
      /\ b \in Seq(ByteType) /\ Len(b) \in Nat
  BY <1>1, <1>2, <1>3, Marks, PayloadType DEF Bytes0
<1>5. \A i \in 1 .. n : p[i] = Character(t[i]) /\ t[i] \in STRING
  BY <1>1, <1>2, PayloadType
<1>6. PICK a : a = <<u>>
  OBVIOUS
<1>7. PICK z : z = <<v>>
  OBVIOUS
<1>8. a \in Seq(ByteType) /\ Len(a) = 1 /\ a[1] = u /\ z \in Seq(ByteType) /\ Len(z) = 1 /\ z[1] = v
  BY ONLY <1>4, <1>6, <1>7
<1>9. PICK q : q = a \o p
  OBVIOUS
<1>10. /\ q \in Seq(ByteType) /\ Len(q) = n + 1
       /\ \A i \in 1 .. n + 1 : q[i] = IF i <= 1 THEN a[i] ELSE p[i - 1]
  <2>1. /\ q \in Seq(ByteType) /\ Len(q) = Len(a) + Len(p)
        /\ \A i \in 1 .. Len(a) + Len(p) : q[i] = IF i <= Len(a) THEN a[i] ELSE p[i - Len(a)]
    BY ONLY <1>4, <1>8, <1>9, ConcatProperties
  <2> QED
    BY ONLY <1>4, <1>8, <2>1
<1>11. PICK w : w = q \o z
  OBVIOUS
<1>12. /\ w \in Seq(ByteType) /\ Len(w) = n + 2
       /\ \A i \in 1 .. n + 2 : w[i] = IF i <= n + 1 THEN q[i] ELSE z[i - (n + 1)]
  <2>1. /\ w \in Seq(ByteType) /\ Len(w) = Len(q) + Len(z)
        /\ \A i \in 1 .. Len(q) + Len(z) : w[i] = IF i <= Len(q) THEN q[i] ELSE z[i - Len(q)]
    BY ONLY <1>8, <1>10, <1>11, ConcatProperties
  <2> QED
    BY ONLY <1>4, <1>8, <1>10, <2>1
<1>13. w = Text00(t)
  BY <1>2, <1>3, <1>6, <1>7, <1>9, <1>11 DEF Text00
<1>14. /\ x \in Seq(ByteType) /\ Len(x) = n + 2 + Len(b)
       /\ \A i \in 1 .. n + 2 : x[i] = w[i]
  <2>1. x = w \o b
    BY <1>13
  <2>2. /\ x \in Seq(ByteType) /\ Len(x) = Len(w) + Len(b)
        /\ \A i \in 1 .. Len(w) + Len(b) : x[i] = IF i <= Len(w) THEN w[i] ELSE b[i - Len(w)]
    BY ONLY <1>4, <1>12, <2>1, ConcatProperties
  <2> QED
    BY ONLY <1>4, <1>12, <2>2
<1>15. x[1] = u
  BY ONLY <1>4, <1>8, <1>10, <1>12, <1>14
<1>16. ASSUME NEW i \in 1 .. n
       PROVE  x[i + 1] = Character(t[i])
  <2>1. i + 1 \in 1 .. n + 1 /\ i + 1 \in 1 .. n + 2 /\ ~(i + 1 <= 1) /\ (i + 1) - 1 = i /\ i + 1 <= n + 1
    BY ONLY <1>4, i \in 1 .. n
  <2>2. x[i + 1] = w[i + 1] /\ w[i + 1] = q[i + 1] /\ q[i + 1] = p[i]
    BY ONLY <1>10, <1>12, <1>14, <2>1
  <2> QED
    BY <1>5, <2>2
<1>17. x[n + 2] = v
  <2>1. n + 2 \in 1 .. n + 2 /\ ~(n + 2 <= n + 1) /\ (n + 2) - (n + 1) = 1
    BY ONLY <1>4
  <2> QED
    BY ONLY <1>8, <1>12, <1>14, <2>1
<1>18. ASSUME NEW i \in 1 .. Len(x), x[i] = v
       PROVE  n + 2 <= i
  <2>1. i # 1
    BY ONLY <1>4, <1>15, <1>18
  <2>2. i \notin 2 .. n + 1
    <3> SUFFICES ASSUME i \in 2 .. n + 1
                 PROVE  FALSE
      OBVIOUS
    <3>1. i - 1 \in 1 .. n /\ (i - 1) + 1 = i
      BY ONLY <1>4, i \in 2 .. n + 1
    <3>2. x[i] = Character(t[i - 1]) /\ t[i - 1] \in STRING
      BY <1>5, <1>16, <3>1
    <3> QED
      BY <1>3, <1>18, <3>2, Marks
  <2> QED
    BY ONLY <1>4, <1>14, <2>1, <2>2, i \in 1 .. Len(x)
<1>19. Ends00(x) = {i \in 1 .. Len(x) : x[i] = v}
  BY <1>3, <1>14 DEF Ends00
<1>20. n + 2 \in Ends00(x) /\ Ends00(x) \subseteq Int /\ \A i \in Ends00(x) : n + 2 <= i
  <2>1. n + 2 \in 1 .. Len(x)
    BY ONLY <1>4, <1>14
  <2> QED
    BY ONLY <1>17, <1>18, <1>19, <2>1
<1>21. Min(Ends00(x)) = n + 2 /\ Ends00(x) # {}
  <2>1. n + 2 \in Int
    BY <1>4
  <2> QED
    BY ONLY <1>20, <2>1, MinIs
<1>22. TextOf00(x) = t
  <2>1. \A i \in 1 .. n : x[i + 1].s = t[i]
    <3>1. \A c \in STRING : Character(c).s = c
      BY DEF Character, Byte
    <3> QED
      BY ONLY <1>5, <1>16, <3>1
  <2>2. t = [i \in 1 .. n |-> t[i]]
    BY <1>1
  <2>3. Min(Ends00(x)) - 2 = n
    BY ONLY <1>4, <1>21
  <2> QED
    BY <2>1, <2>2, <2>3 DEF TextOf00
<1>23. SubSeq(x, Min(Ends00(x)) + 1, Len(x)) = b
  <2>1. x = w \o b /\ w \in Bytes0 /\ b \in Bytes0
    BY <1>12, <1>13 DEF Bytes0
  <2>2. SubSeq(x, Len(w) + 1, Len(x)) = b
    BY ONLY <2>1, DropPrefix
  <2> QED
    BY ONLY <1>12, <1>21, <2>2
<1>24. w # <<>> /\ x # <<>>
  BY ONLY <1>4, <1>12, <1>14, EmptySeq
<1> QED
  BY <1>1, <1>3, <1>12, <1>13, <1>14, <1>15, <1>21, <1>22, <1>23, <1>24 DEF Bytes0

(* What hybi00 makes of a text, a client reads as that text.               *)
LEMMA ReadsText00 ==
  ASSUME NEW t \in Seq(STRING), IsUtf8(t)
  PROVE  Text00(t) \in Bytes0 /\ Appends(ClientReads00, Text00(t), <<Text(t)>>)
<1>1. <<>> \in Bytes0
  BY EmptySeq DEF Bytes0
<1>2. Text00(t) \in Bytes0
  BY <1>1, Text00Parts
<1>3. WellFormed(t)
  BY Utf8IsWellFormed
<1>4. ASSUME NEW b \in Bytes0, NEW r \in Seq(Seen), ClientReads00[b] = r
      PROVE  ClientReads00[Text00(t) \o b] = <<Text(t)>> \o r
  <2>1. PICK x : x = Text00(t) \o b
    OBVIOUS
  <2>2. /\ x \in Bytes0 /\ x # <<>> /\ x[1] = Mark("00") /\ Ends00(x) # {} /\ TextOf00(x) = t
        /\ SubSeq(x, Min(Ends00(x)) + 1, Len(x)) = b
    BY <2>1, Text00Parts
  <2>3. IsText00(x)
    BY <1>3, <2>2 DEF IsText00
  <2>4. ClientReads00[x] = <<Text(TextOf00(x))>> \o ClientReads00[SubSeq(x, Min(Ends00(x)) + 1, Len(x))]
    BY <2>2, <2>3, ClientReads00Is
  <2> QED
    BY ONLY <1>4, <2>1, <2>2, <2>4
<1> QED
  BY <1>2, <1>4 DEF Appends

(* And of a close, as a close.                                             *)
LEMMA ReadsClose00 ==
  PrepareClose00 \in Bytes0 /\ Appends(ClientReads00, PrepareClose00, <<[op |-> "CLOSE"]>>)
<1>1. PICK w : w = PrepareClose00
  OBVIOUS
<1>2. /\ w \in Seq(ByteType) /\ Len(w) = 2 /\ w[1] = Mark("ff") /\ w[2] = Mark("00")
      /\ Mark("00") # Mark("ff")
  BY <1>1, Marks DEF PrepareClose00
<1>3. w \in Bytes0
  BY <1>2 DEF Bytes0
<1>4. ASSUME NEW b \in Bytes0, NEW r \in Seq(Seen), ClientReads00[b] = r
      PROVE  ClientReads00[w \o b] = <<[op |-> "CLOSE"]>> \o r
  <2>1. PICK x : x = w \o b
    OBVIOUS
  <2>2. b \in Seq(ByteType) /\ Len(b) \in Nat
    BY DEF Bytes0
  <2>3. /\ x \in Seq(ByteType) /\ Len(x) = 2 + Len(b)
        /\ \A i \in 1 .. 2 : x[i] = w[i]
    <3>1. /\ x \in Seq(ByteType) /\ Len(x) = Len(w) + Len(b)
          /\ \A i \in 1 .. Len(w) + Len(b) : x[i] = IF i <= Len(w) THEN w[i] ELSE b[i - Len(w)]
      BY ONLY <1>2, <2>1, <2>2, ConcatProperties
    <3> QED
      BY ONLY <1>2, <2>2, <3>1
  <2>4. ~IsText00(x)
    BY <1>2, <2>3 DEF IsText00
  <2>5. SubSeq(x, 1, 2) = w
    <3>1. PICK y : y = SubSeq(x, 1, 2)
      OBVIOUS
    <3>2. \A i \in 1 .. 2 : x[i] \in ByteType
      BY ONLY <1>2, <2>3
    <3>3. y \in Seq(ByteType) /\ Len(y) = (IF 1 <= 2 THEN 2 - 1 + 1 ELSE 0)
          /\ \A i \in 1 .. 2 - 1 + 1 : y[i] = x[1 + i - 1]
      BY ONLY <3>1, <3>2, SubSeqProperties
    <3>4. Len(y) = Len(w) /\ \A i \in 1 .. Len(y) : y[i] = w[i]
      BY ONLY <1>2, <2>3, <3>3
    <3> QED
      BY ONLY <1>2, <3>1, <3>3, <3>4, SeqEqual
  <2>6. IsClose00(x) /\ x # <<>> /\ x \in Bytes0
    <3>1. Len(x) > 1 /\ x # <<>>
      BY ONLY <2>2, <2>3, EmptySeq
    <3> QED
      BY <1>1, <2>3, <2>5, <3>1 DEF IsClose00, Bytes0
  <2>7. SubSeq(x, 3, Len(x)) = b
    <3>1. SubSeq(x, Len(w) + 1, Len(x)) = b
      BY ONLY <1>3, <2>1, b \in Bytes0, DropPrefix
    <3> QED
      BY ONLY <1>2, <3>1
  <2>8. ClientReads00[x] = <<[op |-> "CLOSE"]>> \o ClientReads00[SubSeq(x, 3, Len(x))]
    BY <2>4, <2>6, ClientReads00Is
  <2> QED
    BY ONLY <1>4, <2>1, <2>7, <2>8
<1> QED
  BY <1>1, <1>3, <1>4 DEF Appends
-----------------------------------------------------------------------------
(* What a client of a protocol reads in bytes, and what it takes a message   *)
(* for.                                                                    *)
ReadsBy(v) == IF v = 0 THEN ClientReads00 ELSE ClientReads

SeenBy(v, m) == IF v = 0 /\ m.op = "CLOSE" THEN [op |-> "CLOSE"] ELSE m

(* Whatever the server says, in the protocol of the connection, is         *)
(* understood.                                                             *)
LEMMA EncodedIsRead ==
  ASSUME NEW v, v = GetWebsocketVersion, NEW m \in Sent, Encode(m) # <<>>
  PROVE  Encode(m) \in Bytes0 /\ Appends(ReadsBy(v), Encode(m), <<SeenBy(v, m)>>) /\ SeenBy(v, m) \in Seen
<1>1. CASE GetWebsocketVersion # 0
  <2>1. ReadsBy(v) = ClientReads /\ SeenBy(v, m) = m
    BY <1>1 DEF ReadsBy, SeenBy
  <2>2. Encode(m) \in Bytes0 /\ Appends(ClientReads, Encode(m), <<m>>)
    BY <1>1, EncodeReads
  <2> QED
    BY <2>1, <2>2 DEF Seen
<1>2. CASE GetWebsocketVersion = 0
  <2>1. ReadsBy(v) = ClientReads00
    BY <1>2 DEF ReadsBy
  <2>2. CASE m.op \in Data
    <3>1. m.op # "CLOSE" /\ m.op # "PONG"
      BY <2>2 DEF Data
    <3>2. m \in [op : Data \cup {"PONG"}, payload : Seq(STRING)]
      BY <3>1 DEF Sent
    <3>3. m = [op |-> m.op, payload |-> m.payload] /\ m.payload \in Seq(STRING)
      BY ONLY <3>2
    <3>4. Encode(m) = PrepareDataFrame00(m.op, m.payload)
      BY <1>2, <2>2 DEF Encode, Data
    <3>5. m.op = "TEXT" /\ IsUtf8(m.payload) /\ Encode(m) = Text00(m.payload)
      BY <3>4 DEF PrepareDataFrame00, Text00
    <3>6. SeenBy(v, m) = Text(m.payload) /\ SeenBy(v, m) = m
      BY <3>1, <3>3, <3>5 DEF SeenBy, Text
    <3>7. Text00(m.payload) \in Bytes0 /\ Appends(ClientReads00, Text00(m.payload), <<Text(m.payload)>>)
      BY <3>3, <3>5, ReadsText00
    <3> QED
      BY <2>1, <3>5, <3>6, <3>7 DEF Seen
  <2>3. CASE m.op = "CLOSE"
    <3>1. Encode(m) = PrepareClose00
      BY <1>2, <2>3 DEF Encode, Data
    <3>2. SeenBy(v, m) = [op |-> "CLOSE"]
      BY <1>2, <2>3 DEF SeenBy
    <3>3. [op |-> "CLOSE"] \in Seen
      BY DEF Seen
    <3> QED
      BY <2>1, <3>1, <3>2, <3>3, ReadsClose00
  <2>4. CASE m.op \notin Data /\ m.op # "CLOSE"
    BY <1>2, <2>4 DEF Encode
  <2> QED
    BY <2>2, <2>3, <2>4
<1> QED
  BY <1>1, <1>2

(* A client reads nothing in nothing.                                      *)
LEMMA ReadsNothing ==
  ASSUME NEW v
  PROVE  ReadsBy(v)[<<>>] = <<>>
<1>1. <<>> \in Bytes0
  BY EmptySeq DEF Bytes0
<1>2. ClientReads[<<>>] = <<>> /\ ClientReads00[<<>>] = <<>>
  BY <1>1, ClientReadsIs, ClientReads00Is
<1> QED
  BY <1>2 DEF ReadsBy
-----------------------------------------------------------------------------
(* What the variables that hold bytes and messages hold.                   *)
BytesType ==
  /\ input \in Bytes0 /\ chunk \in Bytes0 /\ m_buf \in Bytes0
  /\ m_basic_header \in Bytes0 /\ m_extended_header \in Bytes0

MessageType ==
  /\ m_data_msg \in MsgType /\ m_control_msg \in MsgType
  /\ m_current_msg \in {"data", "control"} /\ m_bytes_needed \in Nat
  /\ ec \in Errors /\ delivered \in Seq(Message)

(* Before the handshake no frame has been looked at.                       *)
Untouched ==
  m_response # 101 =>
    /\ m_state = "HEADER_BASIC" \/ (m_response # 0 /\ m_state = "HEADER")
    /\ m_bytes_needed = 2 /\ m_basic_header = <<>> /\ m_extended_header = <<>>
    /\ m_data_msg = NoMsg /\ m_control_msg = NoMsg /\ m_current_msg = "data"
    /\ delivered = <<>> /\ ec = "none"

(* Before the handshake nothing is said.                                   *)
Silent == m_response # 101 => session = "connecting" /\ sent = <<>> /\ out = <<>>

(* hybi00 has no headers: a text is being read, or its mark is awaited.    *)
Parsing00 ==
  m_response = 101 /\ GetWebsocketVersion = 0 =>
    /\ m_state \in {"HEADER", "PAYLOAD", "READY"}
    /\ m_bytes_needed = 2 /\ m_basic_header = <<>> /\ m_extended_header = <<>>
    /\ m_current_msg = "data"
    /\ m_state # "HEADER" => m_data_msg.op = "TEXT"

(* What is known of the frame that is being read, and of the message.      *)
WholeHeader(h) == Len(h) = 2 /\ GetMasked(h)

Opened(h) ==
  \/ GetOpcode(h) \in Control
  \/ GetOpcode(h) \in Data \cup {"CONTINUATION"} /\ (m_data_msg = NoMsg => GetOpcode(h) \in Data)

(* In the first two bytes, in the rest of the header, in the payload.      *)
InBasic ==
  /\ m_state = "HEADER_BASIC"
  /\ Len(m_basic_header) + m_bytes_needed = 2 /\ m_extended_header = <<>>

InExtended ==
  /\ m_state = "HEADER_EXTENDED" /\ WholeHeader(m_basic_header) /\ Opened(m_basic_header)
  /\ Len(m_extended_header) + m_bytes_needed = GetHeaderLen(m_basic_header)

InPayload ==
  /\ m_state \in {"APPLICATION", "READY"}
  /\ WholeHeader(m_basic_header) /\ Len(m_extended_header) = GetHeaderLen(m_basic_header)
  /\ m_current_msg = "data" =>
       m_data_msg.op \in Data /\ Len(m_data_msg.payload) + m_bytes_needed <= MaxMessage
  /\ m_current_msg = "control" => m_control_msg.op \in Control

(* A message that is not yet whole is one of data, and never too long.     *)
DataMsg == (m_data_msg = NoMsg \/ m_data_msg.op \in Data) /\ Len(m_data_msg.payload) <= MaxMessage

(* hybi13 is in one of the three.                                          *)
Parsing13 ==
  m_response = 101 /\ GetWebsocketVersion # 0 => DataMsg /\ (InBasic \/ InExtended \/ InPayload)

FramesIInv == BytesType /\ MessageType /\ Untouched /\ Parsing00 /\ Parsing13
-----------------------------------------------------------------------------
(* The lesser of two numbers.                                              *)
LEMMA MinOfTwo ==
  ASSUME NEW a \in Nat, NEW b \in Nat
  PROVE  Min({a, b}) \in Nat /\ Min({a, b}) <= a /\ Min({a, b}) <= b /\ Min({a, b}) \in {a, b}
<1>1. {a, b} \subseteq Nat /\ {a, b} # {}
  OBVIOUS
<1>2. Min({a, b}) \in {a, b} /\ Min({a, b}) \in Nat /\ \A y \in {a, b} : Min({a, b}) <= y
  BY <1>1, MinExists
<1> QED
  BY <1>2

(* A sequence in two parts.                                                *)
LEMMA TakeAndSkip ==
  ASSUME NEW T, NEW s \in Seq(T), NEW n \in 0 .. Len(s)
  PROVE  /\ SubSeq(s, 1, n) \in Seq(T) /\ Len(SubSeq(s, 1, n)) = n
         /\ SubSeq(s, n + 1, Len(s)) \in Seq(T) /\ Len(SubSeq(s, n + 1, Len(s))) = Len(s) - n
<1>1. Len(s) \in Nat /\ \A i \in 1 .. Len(s) : s[i] \in T
  OBVIOUS
<1>2. PICK u, v : u = SubSeq(s, 1, n) /\ v = SubSeq(s, n + 1, Len(s))
  OBVIOUS
<1>3. (\A i \in 1 .. n : s[i] \in T) /\ (\A i \in n + 1 .. Len(s) : s[i] \in T)
  BY <1>1
<1>4. u \in Seq(T) /\ Len(u) = (IF 1 <= n THEN n - 1 + 1 ELSE 0)
  BY <1>2, <1>3, SubSeqProperties
<1>5. v \in Seq(T) /\ Len(v) = (IF n + 1 <= Len(s) THEN Len(s) - (n + 1) + 1 ELSE 0)
  BY <1>1, <1>2, <1>3, SubSeqProperties
<1>6. Len(u) = n /\ Len(v) = Len(s) - n
  BY ONLY <1>1, <1>4, <1>5, n \in 0 .. Len(s)
<1> QED
  BY <1>2, <1>4, <1>5, <1>6

(* What a turn of the loop takes out of the chunk.                         *)
LEMMA Takes ==
  ASSUME chunk \in Bytes0, m_bytes_needed \in Nat
  PROVE  /\ Available \in Nat /\ Available <= m_bytes_needed
         /\ Take(Available) \in Bytes0 /\ Len(Take(Available)) = Available
         /\ Skip(Available) => chunk' \in Bytes0
<1>1. chunk \in Seq(ByteType) /\ Len(chunk) \in Nat
  BY DEF Bytes0
<1>2. PICK n : n = Available
  OBVIOUS
<1>3. n \in Nat /\ n <= m_bytes_needed /\ n <= Len(chunk)
  BY <1>1, <1>2, MinOfTwo DEF Available
<1>4. n \in 0 .. Len(chunk)
  BY ONLY <1>1, <1>3
<1>5. SubSeq(chunk, 1, n) \in Seq(ByteType) /\ Len(SubSeq(chunk, 1, n)) = n /\ SubSeq(chunk, n + 1, Len(chunk)) \in Seq(ByteType)
  BY ONLY <1>1, <1>4, TakeAndSkip
<1> QED
  BY <1>2, <1>3, <1>5 DEF Take, Skip, Bytes0

(* How long the rest of a header is: a masked frame has one.               *)
LEMMA HeaderLen ==
  ASSUME NEW h \in Bytes0, Len(h) = 2
  PROVE  /\ GetHeaderLen(h) \in Nat /\ GetHeaderLen(h) <= KeyBytes + 1 /\ GetBasicSize(h) \in Nat
         /\ GetMasked(h) => GetHeaderLen(h) > 0
         /\ GetBasicSize(h) = SizeCode => GetHeaderLen(h) > 0
<1>1. KeyBytes \in Nat /\ KeyBytes > 0
  BY FramesAssumption
<1>2. h[2] \in ByteType
  BY DEF Bytes0
<1>3. h[2].n \in Nat
  BY <1>2 DEF ByteType
<1>4. GetHeaderLen(h) \in {0, 1, KeyBytes, KeyBytes + 1}
  BY <1>1 DEF GetHeaderLen
<1>5. GetMasked(h) => GetHeaderLen(h) \in {KeyBytes, 1 + KeyBytes}
  BY <1>1 DEF GetHeaderLen
<1>6. GetBasicSize(h) = SizeCode => GetHeaderLen(h) \in {1, 1 + KeyBytes}
  BY <1>1 DEF GetHeaderLen
<1> QED
  BY <1>1, <1>3, <1>4, <1>5, <1>6 DEF GetBasicSize

(* What handling frames leaves alone.                                      *)
LEMMA Unmoved ==
  ASSUME UNCHANGED <<asked, input, request>>
  PROVE  /\ GetWebsocketVersion' = GetWebsocketVersion /\ m_response' = m_response
         /\ input' = input /\ m_buf' = m_buf /\ stream' = stream
BY DEF asked, request, GetWebsocketVersion

(* No message: it has an empty payload.                                    *)
LEMMA NoMsgType == NoMsg \in MsgType /\ NoMsg.payload = <<>> /\ Len(NoMsg.payload) = 0
<1>1. <<>> \in Seq(STRING) /\ Len(<<>>) = 0
  BY EmptySeq
<1> QED
  BY <1>1 DEF NoMsg, MsgType

(* No bytes are bytes.                                                     *)
LEMMA NothingRead == <<>> \in Bytes0 /\ Len(<<>>) = 0
BY EmptySeq DEF Bytes0

(* Bytes after bytes.                                                      *)
LEMMA Added ==
  ASSUME NEW a \in Bytes0, NEW b \in Bytes0
  PROVE  a \o b \in Bytes0 /\ Len(a \o b) = Len(a) + Len(b) /\ Len(a) \in Nat /\ Len(b) \in Nat
<1>1. a \in Seq(ByteType) /\ b \in Seq(ByteType)
  BY DEF Bytes0
<1> QED
  BY <1>1, ConcatProperties DEF Bytes0

(* What validate_incoming_basic_header lets pass is masked, and fits what  *)
(* came before.                                                            *)
LEMMA BasicErrorIs ==
  ASSUME NEW h
  PROVE  BasicError(h) \in Errors /\ (BasicError(h) = "none" => GetMasked(h) /\ Opened(h))
BY Zenon DEF BasicError, Errors, Opened
-----------------------------------------------------------------------------
(* The first two bytes of a frame.                                         *)
LEMMA HeaderBasicStep ==
  ASSUME FramesIInv, m_response = 101, GetWebsocketVersion # 0, HeaderBasic, UNCHANGED <<asked, input, request>>
  PROVE  FramesIInv'
<1>0. /\ GetWebsocketVersion' = GetWebsocketVersion /\ m_response' = m_response
      /\ input' = input /\ m_buf' = m_buf
  BY Unmoved
<1>1. BytesType /\ MessageType /\ DataMsg
  BY DEF FramesIInv, Parsing13
<1>2. m_state = "HEADER_BASIC" /\ ec = "none"
  BY DEF HeaderBasic, Turn
<1>3. Len(m_basic_header) + m_bytes_needed = 2 /\ m_extended_header = <<>>
  BY <1>2 DEF FramesIInv, Parsing13, InBasic, InExtended, InPayload
<1>4. PICK n : n = Available
  OBVIOUS
<1>5. PICK h : h = m_basic_header \o Take(n)
  OBVIOUS
<1>6. m_bytes_needed \in Nat /\ n \in Nat /\ n <= m_bytes_needed /\ Take(n) \in Bytes0 /\ Len(Take(n)) = n /\ chunk' \in Bytes0
  BY <1>1, <1>4, Takes DEF BytesType, MessageType, HeaderBasic
<1>7. h \in Bytes0 /\ Len(h) = Len(m_basic_header) + n /\ Len(m_basic_header) \in Nat
  BY <1>1, <1>5, <1>6, Added DEF BytesType
<1>8. /\ m_basic_header' = h /\ UNCHANGED <<messages, delivered>>
      /\ ec' = IF n = m_bytes_needed THEN BasicError(h) ELSE "none"
      /\ IF n = m_bytes_needed /\ ec' = "none"
           THEN m_state' = "HEADER_EXTENDED" /\ m_extended_header' = <<>> /\ m_bytes_needed' = GetHeaderLen(h)
           ELSE m_bytes_needed' = m_bytes_needed - n /\ UNCHANGED <<m_state, m_extended_header>>
  BY <1>4, <1>5 DEF HeaderBasic
<1>9. ec' \in Errors
  BY <1>8, BasicErrorIs DEF Errors
<1>10. m_extended_header' = <<>>
  BY <1>3, <1>8
<1>11. BytesType'
  BY <1>0, <1>1, <1>6, <1>7, <1>8, <1>10, NothingRead DEF BytesType
<1>12. DataMsg'
  BY <1>1, <1>8 DEF DataMsg, messages
<1>13. CASE n = m_bytes_needed /\ ec' = "none"
  <2>1. Len(h) = 2
    BY ONLY <1>3, <1>6, <1>7, <1>13
  <2>2. GetHeaderLen(h) \in Nat
    BY <1>7, <2>1, HeaderLen
  <2>3. GetMasked(h) /\ Opened(h)
    BY <1>8, <1>13, BasicErrorIs
  <2>4. Opened(m_basic_header)'
    BY <1>8, <2>3 DEF Opened, messages
  <2>5. InExtended'
    BY <1>8, <1>10, <1>13, <2>1, <2>2, <2>3, <2>4, NothingRead DEF InExtended, WholeHeader
  <2>6. MessageType'
    BY <1>1, <1>8, <1>9, <1>13, <2>2 DEF MessageType, messages
  <2> QED
    BY <1>0, <1>11, <1>12, <2>5, <2>6 DEF FramesIInv, Untouched, Parsing00, Parsing13
<1>14. CASE ~(n = m_bytes_needed /\ ec' = "none")
  <2>1. m_bytes_needed' = m_bytes_needed - n /\ m_state' = "HEADER_BASIC"
    BY <1>2, <1>8, <1>14
  <2>2. m_bytes_needed' \in Nat /\ Len(h) + m_bytes_needed' = 2
    BY ONLY <1>3, <1>6, <1>7, <2>1
  <2>3. InBasic'
    BY <1>8, <1>10, <2>1, <2>2 DEF InBasic
  <2>4. MessageType'
    BY <1>1, <1>8, <1>9, <2>2 DEF MessageType, messages
  <2> QED
    BY <1>0, <1>11, <1>12, <2>3, <2>4 DEF FramesIInv, Untouched, Parsing00, Parsing13
<1> QED
  BY <1>13, <1>14

(* A message that a frame begins has no payload yet.                       *)
LEMMA NewMsg ==
  ASSUME NEW op \in Data \cup Control, NEW key \in [key : Nat, next : Nat]
  PROVE  /\ [NoMsg EXCEPT !.op = op, !.key = key] \in MsgType
         /\ [NoMsg EXCEPT !.op = op, !.key = key].op = op
         /\ [NoMsg EXCEPT !.op = op, !.key = key].payload = <<>>
<1>1. <<>> \in Seq(STRING)
  BY EmptySeq
<1> QED
  BY <1>1 DEF NoMsg, MsgType

(* What validate_incoming_extended_header lets pass does not exceed the    *)
(* limit.                                                                  *)
LEMMA ExtendedErrorIs ==
  ASSUME NEW h, NEW e
  PROVE  /\ ExtendedError(h, e) \in Errors
         /\ ExtendedError(h, e) = "none" /\ GetOpcode(h) \notin Control =>
              ~(Len(m_data_msg.payload) + GetPayloadSize(h, e) > MaxMessage)
BY Zenon DEF ExtendedError, NonMinimal, TooBig, Errors

(* The rest of the header: here the frame's payload is promised a place    *)
(* below the limit.                                                        *)
LEMMA HeaderExtendedStep ==
  ASSUME FramesIInv, m_response = 101, GetWebsocketVersion # 0, HeaderExtended, UNCHANGED <<asked, input, request>>
  PROVE  FramesIInv'
<1>0. /\ GetWebsocketVersion' = GetWebsocketVersion /\ m_response' = m_response
      /\ input' = input /\ m_buf' = m_buf
  BY Unmoved
<1>1. BytesType /\ MessageType /\ DataMsg
  BY DEF FramesIInv, Parsing13
<1>2. m_state = "HEADER_EXTENDED" /\ ec = "none"
  BY DEF HeaderExtended, Turn
<1>3. /\ WholeHeader(m_basic_header) /\ Opened(m_basic_header)
      /\ Len(m_extended_header) + m_bytes_needed = GetHeaderLen(m_basic_header)
  BY <1>2 DEF FramesIInv, Parsing13, InBasic, InExtended, InPayload
<1>4. PICK n : n = Available
  OBVIOUS
<1>5. PICK e : e = m_extended_header \o Take(n)
  OBVIOUS
<1>6. PICK h : h = m_basic_header
  OBVIOUS
<1>7. m_bytes_needed \in Nat /\ n \in Nat /\ n <= m_bytes_needed /\ Take(n) \in Bytes0 /\ Len(Take(n)) = n /\ chunk' \in Bytes0
  BY <1>1, <1>4, Takes DEF BytesType, MessageType, HeaderExtended
<1>8. e \in Bytes0 /\ Len(e) = Len(m_extended_header) + n /\ Len(m_extended_header) \in Nat
  BY <1>1, <1>5, <1>7, Added DEF BytesType
<1>9. /\ h \in Bytes0 /\ Len(h) = 2 /\ GetMasked(h)
      /\ GetHeaderLen(h) \in Nat /\ GetHeaderLen(h) > 0 /\ GetBasicSize(h) \in Nat
  <2>1. h \in Bytes0 /\ Len(h) = 2 /\ GetMasked(h)
    BY <1>1, <1>3, <1>6 DEF WholeHeader, BytesType
  <2> QED
    BY <2>1, HeaderLen
<1>10. /\ m_basic_header' = h /\ m_extended_header' = e /\ UNCHANGED delivered
       /\ ec' = IF n = m_bytes_needed THEN ExtendedError(h, e) ELSE "none"
       /\ IF n = m_bytes_needed /\ ec' = "none"
            THEN m_state' = "APPLICATION" /\ m_bytes_needed' = GetPayloadSize(h, e) /\ BeginPayload(h, e)
            ELSE m_bytes_needed' = m_bytes_needed - n /\ UNCHANGED <<m_state, messages>>
  BY <1>4, <1>5, <1>6 DEF HeaderExtended
<1>11. ec' \in Errors
  BY <1>10, ExtendedErrorIs DEF Errors
<1>12. BytesType'
  BY <1>0, <1>1, <1>7, <1>8, <1>9, <1>10 DEF BytesType
<1>13. CASE n = m_bytes_needed /\ ec' = "none"
  <2>1. Len(e) = GetHeaderLen(h)
    BY <1>3, <1>6, <1>7, <1>8, <1>13
  <2>2. PICK size : size = GetPayloadSize(h, e)
    OBVIOUS
  <2>3. \A i \in 1 .. Len(e) : e[i] \in ByteType
    BY <1>8 DEF Bytes0
  <2>4. Len(e) \in Nat /\ Len(e) > 0 /\ e[1] \in ByteType /\ e[Len(e)] \in ByteType
    BY <1>9, <2>1, <2>3
  <2>5. size \in Nat
    BY <1>9, <2>2, <2>4 DEF GetPayloadSize, ByteType
  <2>6. GetMaskingKey(h, e) \in [key : Nat, next : Nat]
    <3>1. Last(e) = e[Len(e)]
      BY DEF Last
    <3>2. Last(e).key \in Nat
      BY <2>4, <3>1 DEF ByteType
    <3> QED
      BY <3>2 DEF GetMaskingKey
  <2>7. PICK key \in [key : Nat, next : Nat] : key = GetMaskingKey(h, e)
    BY <2>6
  <2>8. /\ m_state' = "APPLICATION" /\ m_bytes_needed' = size /\ ec' = "none"
        /\ m_current_msg' = IF GetOpcode(h) \in Control THEN "control" ELSE "data"
        /\ IF GetOpcode(h) \in Control
             THEN m_control_msg' = [NoMsg EXCEPT !.op = GetOpcode(h), !.key = key] /\ UNCHANGED m_data_msg
             ELSE /\ m_data_msg' = IF m_data_msg = NoMsg
                                     THEN [NoMsg EXCEPT !.op = GetOpcode(h), !.key = key]
                                     ELSE [m_data_msg EXCEPT !.key = key]
                  /\ UNCHANGED m_control_msg
    BY <1>10, <1>13, <2>2, <2>7 DEF BeginPayload
  <2>9. ExtendedError(h, e) = "none"
    BY <1>10, <1>13
  <2>10. /\ WholeHeader(m_basic_header)' /\ (Len(m_extended_header) = GetHeaderLen(m_basic_header))'
    BY <1>9, <1>10, <2>1 DEF WholeHeader
  <2>11. CASE GetOpcode(h) \in Control
    <3>1. PICK op \in Control : op = GetOpcode(h)
      BY <2>11
    <3>2. m_control_msg' \in MsgType /\ m_control_msg'.op \in Control /\ m_data_msg' = m_data_msg /\ m_current_msg' = "control"
      <4>1. /\ m_control_msg' = [NoMsg EXCEPT !.op = op, !.key = key] /\ m_data_msg' = m_data_msg
            /\ m_current_msg' = "control"
        BY <2>8, <2>11, <3>1
      <4>2. op \in Data \cup Control
        OBVIOUS
      <4>3. m_control_msg' \in MsgType /\ m_control_msg'.op = op
        BY ONLY <4>1, <4>2, key \in [key : Nat, next : Nat], NewMsg
      <4> QED
        BY <4>1, <4>3
    <3>3. MessageType'
      BY <1>1, <1>10, <1>11, <2>5, <2>8, <3>2 DEF MessageType
    <3>4. DataMsg'
      BY <1>1, <3>2 DEF DataMsg
    <3>5. InPayload'
      BY <2>8, <2>10, <3>2 DEF InPayload
    <3> QED
      BY <1>0, <1>12, <3>3, <3>4, <3>5 DEF FramesIInv, Untouched, Parsing00, Parsing13
  <2>12. CASE GetOpcode(h) \notin Control
    <3>1. Len(m_data_msg.payload) \in Nat
      BY <1>1 DEF MessageType, MsgType
    <3>2. Len(m_data_msg.payload) + size <= MaxMessage
      <4>1. ~(Len(m_data_msg.payload) + size > MaxMessage)
        BY <2>2, <2>9, <2>12, ExtendedErrorIs
      <4> QED
        BY <2>5, <3>1, <4>1, FramesAssumption
    <3>3. /\ m_data_msg' \in MsgType /\ m_data_msg'.op \in Data
          /\ m_data_msg'.payload = m_data_msg.payload /\ m_control_msg' = m_control_msg /\ m_current_msg' = "data"
      <4>1. CASE m_data_msg = NoMsg
        <5>1. PICK op \in Data : op = GetOpcode(h)
          BY <1>3, <1>6, <2>12, <4>1 DEF Opened
        <5>2. m_data_msg' = [NoMsg EXCEPT !.op = op, !.key = key]
          BY <2>8, <2>12, <4>1, <5>1
        <5>3. m_data_msg' \in MsgType /\ m_data_msg'.op = op /\ m_data_msg'.payload = <<>>
          BY <5>2, NewMsg
        <5> QED
          BY <2>8, <2>12, <4>1, <5>3, NoMsgType
      <4>2. CASE m_data_msg # NoMsg
        <5>1. m_data_msg' = [m_data_msg EXCEPT !.key = key] /\ m_data_msg \in MsgType /\ m_data_msg.op \in Data
          BY <1>1, <2>8, <2>12, <4>2 DEF MessageType, DataMsg
        <5>2. m_data_msg' \in MsgType /\ m_data_msg'.op = m_data_msg.op /\ m_data_msg'.payload = m_data_msg.payload
          BY ONLY <5>1, key \in [key : Nat, next : Nat] DEF MsgType
        <5> QED
          BY <2>8, <2>12, <5>1, <5>2
      <4> QED
        BY <4>1, <4>2
    <3>4. MessageType'
      BY <1>1, <1>10, <1>11, <2>5, <2>8, <3>3 DEF MessageType
    <3>5. DataMsg'
      BY <1>1, <3>3 DEF DataMsg
    <3>6. InPayload'
      BY <2>8, <2>10, <3>2, <3>3 DEF InPayload
    <3> QED
      BY <1>0, <1>12, <3>4, <3>5, <3>6 DEF FramesIInv, Untouched, Parsing00, Parsing13
  <2> QED
    BY <2>11, <2>12
<1>14. CASE ~(n = m_bytes_needed /\ ec' = "none")
  <2>1. m_bytes_needed' = m_bytes_needed - n /\ m_state' = "HEADER_EXTENDED" /\ UNCHANGED messages
    BY <1>2, <1>10, <1>14
  <2>2. m_bytes_needed' \in Nat /\ Len(e) + m_bytes_needed' = Len(m_extended_header) + m_bytes_needed
    BY ONLY <1>7, <1>8, <2>1
  <2>3. Opened(m_basic_header)'
    BY <1>3, <1>6, <1>10, <2>1 DEF Opened, messages
  <2>4. InExtended'
    BY <1>3, <1>6, <1>9, <1>10, <2>1, <2>2, <2>3 DEF InExtended, WholeHeader
  <2>5. MessageType'
    BY <1>1, <1>10, <1>11, <2>1, <2>2 DEF MessageType, messages
  <2>6. DataMsg'
    BY <1>1, <2>1 DEF DataMsg, messages
  <2> QED
    BY <1>0, <1>12, <2>4, <2>5, <2>6 DEF FramesIInv, Untouched, Parsing00, Parsing13
<1> QED
  BY <1>13, <1>14

(* The characters of bytes.                                                *)
LEMMA TextOfBytes ==
  ASSUME NEW b \in Bytes0
  PROVE  /\ b \in Seq(ByteType) /\ Len(b) \in Nat /\ DOMAIN b = 1 .. Len(b)
         /\ \A i \in 1 .. Len(b) : b[i].s \in STRING
<1>1. b \in Seq(ByteType) /\ Len(b) \in Nat /\ DOMAIN b = 1 .. Len(b) /\ \A i \in 1 .. Len(b) : b[i] \in ByteType
  BY DEF Bytes0
<1>2. \A c \in ByteType : c.s \in STRING
  BY DEF ByteType
<1> QED
  BY ONLY <1>1, <1>2

(* n more bytes of a message leave it a message, that much longer.         *)
LEMMA Processed ==
  ASSUME NEW msg \in MsgType, NEW n \in Nat, Take(n) \in Bytes0, Len(Take(n)) = n
  PROVE  /\ ProcessPayload(msg, n) \in MsgType /\ ProcessPayload(msg, n).op = msg.op
         /\ Len(ProcessPayload(msg, n).payload) = Len(msg.payload) + n
         /\ Len(msg.payload) \in Nat
<1>1. PICK b : b = Take(n)
  OBVIOUS
<1>2. /\ b \in Seq(ByteType) /\ Len(b) = n /\ DOMAIN b = 1 .. n
      /\ \A i \in 1 .. n : b[i].s \in STRING
  BY <1>1, TextOfBytes
<1>3. PICK text : text = Unmask(b, msg.key)
  OBVIOUS
<1>4. text \in Seq(STRING) /\ Len(text) = n
  <2>1. "garbage" \in STRING
    BY StringsAssumption
  <2>2. text = [i \in 1 .. n |->
                  IF b[i].key = msg.key.key /\ b[i].n = (msg.key.next + i - 1) % KeyBytes
                    THEN b[i].s ELSE "garbage"]
    BY <1>2, <1>3 DEF Unmask
  <2>3. \A i \in 1 .. n : text[i] \in STRING
    BY <1>2, <2>1, <2>2
  <2> QED
    BY <2>2, <2>3
<1>5. PICK state : state = IF msg.op = "TEXT" THEN Decode(msg.utf8, text) ELSE msg.utf8
  OBVIOUS
<1>6. state \in {"accept", "rest", "reject"}
  <2>1. msg.utf8 \in States
    BY DEF MsgType, States
  <2>2. Decode(msg.utf8, text) \in States
    BY <1>4, <2>1, DecodeType
  <2> QED
    BY <1>5, <2>1, <2>2 DEF States
<1>7. PICK key : key = Rotate(msg.key, n)
  OBVIOUS
<1>8. key \in [key : Nat, next : Nat]
  <2>1. KeyBytes \in Nat \ {0} /\ msg.key \in [key : Nat, next : Nat]
    BY FramesAssumption DEF MsgType
  <2>2. (msg.key.next + n) % KeyBytes \in Nat
    BY <2>1
  <2> QED
    BY <1>7, <2>1, <2>2 DEF Rotate
<1>9. PICK payload : payload = msg.payload \o text
  OBVIOUS
<1>10. /\ payload \in Seq(STRING) /\ Len(payload) = Len(msg.payload) + n /\ Len(msg.payload) \in Nat
  <2>1. msg.payload \in Seq(STRING)
    BY DEF MsgType
  <2>2. msg.payload \o text \in Seq(STRING) /\ Len(msg.payload \o text) = Len(msg.payload) + Len(text)
    BY ONLY <1>4, <2>1, ConcatProperties
  <2> QED
    BY <1>4, <1>9, <2>1, <2>2
<1>11. ProcessPayload(msg, n) = [msg EXCEPT !.payload = payload, !.key = key, !.utf8 = state]
  BY <1>1, <1>3, <1>5, <1>7, <1>9 DEF ProcessPayload
<1> QED
  BY <1>6, <1>8, <1>10, <1>11 DEF MsgType

(* Errors of a payload.                                                    *)
LEMMA PayloadErrorIs ==
  ASSUME NEW msg, NEW complete
  PROVE  PayloadError(msg, complete) \in Errors
BY Zenon DEF PayloadError, Errors

(* Some of the payload: what arrives was promised.                         *)
LEMMA ApplicationStep ==
  ASSUME FramesIInv, m_response = 101, GetWebsocketVersion # 0, Application, UNCHANGED <<asked, input, request>>
  PROVE  FramesIInv'
<1>0. /\ GetWebsocketVersion' = GetWebsocketVersion /\ m_response' = m_response
      /\ input' = input /\ m_buf' = m_buf
  BY Unmoved
<1>1. BytesType /\ MessageType /\ DataMsg
  BY DEF FramesIInv, Parsing13
<1>2. m_state = "APPLICATION" /\ ec = "none"
  BY DEF Application, Turn
<1>3. InPayload
  BY <1>2 DEF FramesIInv, Parsing13, InBasic, InExtended
<1>4. PICK n : n = Available
  OBVIOUS
<1>5. m_bytes_needed \in Nat /\ n \in Nat /\ n <= m_bytes_needed /\ Take(n) \in Bytes0 /\ Len(Take(n)) = n /\ chunk' \in Bytes0
  BY <1>1, <1>4, Takes DEF BytesType, MessageType, Application
<1>6. CurrentMsg \in MsgType
  BY <1>1 DEF CurrentMsg, MessageType
<1>7. PICK msg : msg = ProcessPayload(CurrentMsg, n)
  OBVIOUS
<1>8. /\ msg \in MsgType /\ msg.op = CurrentMsg.op /\ Len(msg.payload) = Len(CurrentMsg.payload) + n
      /\ Len(CurrentMsg.payload) \in Nat
  BY <1>5, <1>6, <1>7, Processed
<1>9. PICK ends : ends = (n = m_bytes_needed /\ ~(n = m_bytes_needed /\ GetFin(m_basic_header)))
  OBVIOUS
<1>10. /\ IF m_current_msg = "data" THEN m_data_msg' = msg /\ UNCHANGED m_control_msg
                                    ELSE m_control_msg' = msg /\ UNCHANGED m_data_msg
       /\ UNCHANGED <<m_current_msg, delivered>> /\ ec' \in Errors
  BY <1>4, <1>7, PayloadErrorIs DEF Application
<1>11. \/ ResetHeaders
       \/ /\ m_bytes_needed' = m_bytes_needed - n /\ m_state' \in {"READY", m_state}
          /\ UNCHANGED <<m_basic_header, m_extended_header>>
  BY <1>4 DEF Application
<1>12. m_bytes_needed' \in Nat /\ m_basic_header' \in Bytes0 /\ m_extended_header' \in Bytes0
  BY <1>1, <1>5, <1>11, NothingRead DEF ResetHeaders, BytesType
<1>13. BytesType'
  BY <1>0, <1>1, <1>5, <1>12 DEF BytesType
<1>14. MessageType'
  BY <1>1, <1>8, <1>10, <1>12 DEF MessageType
<1>15. /\ m_current_msg = "data" => /\ m_data_msg' = msg /\ CurrentMsg = m_data_msg
                                    /\ m_data_msg.op \in Data /\ Len(m_data_msg.payload) + m_bytes_needed <= MaxMessage
       /\ m_current_msg # "data" => /\ m_control_msg' = msg /\ CurrentMsg = m_control_msg
                                    /\ m_control_msg.op \in Control /\ m_data_msg' = m_data_msg
  BY <1>1, <1>3, <1>10 DEF CurrentMsg, InPayload, MessageType
<1>16. m_current_msg = "data" =>
         m_data_msg'.op \in Data /\ Len(m_data_msg'.payload) + (m_bytes_needed - n) <= MaxMessage
  <2>1. SUFFICES ASSUME m_current_msg = "data"
                 PROVE  m_data_msg'.op \in Data /\ Len(m_data_msg'.payload) + (m_bytes_needed - n) <= MaxMessage
    OBVIOUS
  <2>2. MaxMessage \in Nat
    BY FramesAssumption
  <2>3. /\ m_data_msg' = msg /\ msg.op \in Data /\ Len(msg.payload) = Len(m_data_msg.payload) + n
        /\ Len(m_data_msg.payload) \in Nat /\ Len(m_data_msg.payload) + m_bytes_needed <= MaxMessage
    BY <1>8, <1>15, <2>1
  <2> QED
    BY ONLY <1>5, <2>2, <2>3
<1>17. DataMsg'
  <2>1. CASE m_current_msg = "data"
    <3>1. Len(m_data_msg'.payload) \in Nat /\ MaxMessage \in Nat
      BY <1>14, FramesAssumption DEF MessageType, MsgType
    <3>2. Len(m_data_msg'.payload) <= MaxMessage
      BY ONLY <1>5, <1>16, <2>1, <3>1
    <3> QED
      BY <1>16, <2>1, <3>2 DEF DataMsg
  <2>2. CASE m_current_msg # "data"
    BY <1>1, <1>15, <2>2 DEF DataMsg
  <2> QED
    BY <2>1, <2>2
<1>18. InBasic' \/ InPayload'
  <2>1. CASE ResetHeaders
    <3>1. m_state' = "HEADER_BASIC" /\ m_bytes_needed' = 2 /\ m_basic_header' = <<>> /\ m_extended_header' = <<>>
      BY <2>1 DEF ResetHeaders
    <3> QED
      BY <3>1, NothingRead DEF InBasic
  <2>2. CASE /\ m_bytes_needed' = m_bytes_needed - n /\ m_state' \in {"READY", m_state}
             /\ UNCHANGED <<m_basic_header, m_extended_header>>
    <3>1. WholeHeader(m_basic_header)' /\ (Len(m_extended_header) = GetHeaderLen(m_basic_header))'
      BY <1>3, <2>2 DEF InPayload, WholeHeader
    <3>2. m_current_msg = "control" => m_control_msg'.op \in Control
      BY <1>8, <1>15
    <3>3. m_state' \in {"APPLICATION", "READY"} /\ m_current_msg' = m_current_msg
      BY <1>2, <1>10, <2>2
    <3> QED
      BY <1>16, <2>2, <3>1, <3>2, <3>3 DEF InPayload
  <2> QED
    BY <1>11, <2>1, <2>2
<1> QED
  BY <1>0, <1>13, <1>14, <1>17, <1>18 DEF FramesIInv, Untouched, Parsing00, Parsing13

(* A message that is delivered is one.                                     *)
LEMMA Delivers ==
  ASSUME MessageType, NEW op \in Data \cup Control, NEW text \in Seq(STRING)
  PROVE  Append(delivered, [op |-> op, payload |-> text]) \in Seq(Message)
<1>1. [op |-> op, payload |-> text] \in Message
  BY DEF Message
<1>2. delivered \in Seq(Message)
  BY DEF MessageType
<1> QED
  BY <1>1, <1>2

(* A frame is over: the next begins, and a whole message is delivered.     *)
LEMMA GetMessageStep ==
  ASSUME FramesIInv, m_response = 101, GetWebsocketVersion # 0, GetMessage, UNCHANGED <<asked, input, request>>
  PROVE  FramesIInv'
<1>0. /\ GetWebsocketVersion' = GetWebsocketVersion /\ m_response' = m_response
      /\ input' = input /\ m_buf' = m_buf
  BY Unmoved
<1>1. BytesType /\ MessageType /\ DataMsg
  BY DEF FramesIInv, Parsing13
<1>2. m_state = "READY"
  BY DEF GetMessage
<1>3. InPayload
  BY <1>2 DEF FramesIInv, Parsing13, InBasic, InExtended
<1>4. CurrentMsg.op \in Data \cup Control /\ CurrentMsg.payload \in Seq(STRING)
  BY <1>1, <1>3 DEF CurrentMsg, InPayload, MessageType, MsgType
<1>5. delivered' \in Seq(Message)
  BY <1>1, <1>4, Delivers DEF GetMessage
<1>6. m_state' = "HEADER_BASIC" /\ m_bytes_needed' = 2 /\ m_basic_header' = <<>> /\ m_extended_header' = <<>>
  BY DEF GetMessage, ResetHeaders
<1>7. m_data_msg' \in {NoMsg, m_data_msg} /\ m_control_msg' \in {NoMsg, m_control_msg}
      /\ UNCHANGED <<chunk, m_current_msg, ec>>
  BY DEF GetMessage
<1>8. BytesType'
  BY <1>0, <1>1, <1>6, <1>7, NothingRead DEF BytesType
<1>9. MessageType'
  BY <1>1, <1>5, <1>6, <1>7, NoMsgType DEF MessageType
<1>10. DataMsg'
  <2>1. MaxMessage \in Nat
    BY FramesAssumption
  <2>2. CASE m_data_msg' = NoMsg
    BY <2>1, <2>2, NoMsgType DEF DataMsg
  <2>3. CASE m_data_msg' = m_data_msg
    BY <1>1, <2>3 DEF DataMsg
  <2> QED
    BY <1>7, <2>2, <2>3
<1>11. InBasic'
  BY <1>6, NothingRead DEF InBasic
<1> QED
  BY <1>0, <1>8, <1>9, <1>10, <1>11 DEF FramesIInv, Untouched, Parsing00, Parsing13
-----------------------------------------------------------------------------
(* hybi00: the mark in front of a text.                                    *)
LEMMA Header00Step ==
  ASSUME FramesIInv, m_response = 101, GetWebsocketVersion = 0, Header00, UNCHANGED <<asked, input, request>>
  PROVE  FramesIInv'
<1>0. /\ GetWebsocketVersion' = GetWebsocketVersion /\ m_response' = m_response
      /\ input' = input /\ m_buf' = m_buf
  BY Unmoved
<1>1. BytesType /\ MessageType
  BY DEF FramesIInv
<1>2. /\ m_state = "HEADER" /\ chunk # <<>>
      /\ m_bytes_needed = 2 /\ m_basic_header = <<>> /\ m_extended_header = <<>> /\ m_current_msg = "data"
  BY DEF Header00, Hybi00Turn, FramesIInv, Parsing00
<1>3. UNCHANGED <<m_bytes_needed, m_basic_header, m_extended_header, m_control_msg, m_current_msg, delivered>>
  BY DEF Header00
<1>4. CASE chunk[1] = Mark("00")
  <2>1. Skip(1) /\ m_data_msg' = [NoMsg EXCEPT !.op = "TEXT"] /\ m_state' = "PAYLOAD" /\ UNCHANGED ec
    BY <1>4 DEF Header00
  <2>2. chunk' \in Bytes0
    <3>1. chunk \in Seq(ByteType)
      BY <1>1 DEF BytesType, Bytes0
    <3>2. 1 \in 0 .. Len(chunk)
      BY <1>2, <3>1, EmptySeq
    <3>3. SubSeq(chunk, 1 + 1, Len(chunk)) \in Seq(ByteType)
      BY ONLY <3>1, <3>2, TakeAndSkip
    <3> QED
      BY <2>1, <3>3 DEF Skip, Bytes0
  <2>3. m_data_msg' \in MsgType /\ m_data_msg'.op = "TEXT"
    BY <2>1, EmptySeq DEF MsgType, NoMsg, Data
  <2>4. BytesType' /\ MessageType'
    BY <1>0, <1>1, <1>3, <2>1, <2>2, <2>3 DEF BytesType, MessageType
  <2> QED
    BY <1>0, <1>2, <1>3, <2>1, <2>3, <2>4 DEF FramesIInv, Untouched, Parsing00, Parsing13
<1>5. CASE chunk[1] # Mark("00")
  <2>1. ec' = "protocol_violation" /\ UNCHANGED <<chunk, m_data_msg, m_state>>
    BY <1>5 DEF Header00
  <2>2. BytesType' /\ MessageType'
    BY <1>0, <1>1, <1>3, <2>1 DEF BytesType, MessageType, Errors
  <2> QED
    BY <1>0, <1>2, <1>3, <2>1, <2>2 DEF FramesIInv, Untouched, Parsing00, Parsing13
<1> QED
  BY <1>4, <1>5

(* hybi00: some of a text.                                                 *)
LEMMA Payload00Step ==
  ASSUME FramesIInv, m_response = 101, GetWebsocketVersion = 0, Payload00, UNCHANGED <<asked, input, request>>
  PROVE  FramesIInv'
<1>0. /\ GetWebsocketVersion' = GetWebsocketVersion /\ m_response' = m_response
      /\ input' = input /\ m_buf' = m_buf
  BY Unmoved
<1>1. BytesType /\ MessageType
  BY DEF FramesIInv
<1>2. /\ m_state = "PAYLOAD" /\ m_data_msg.op = "TEXT"
      /\ m_bytes_needed = 2 /\ m_basic_header = <<>> /\ m_extended_header = <<>> /\ m_current_msg = "data"
  BY DEF Payload00, Hybi00Turn, FramesIInv, Parsing00
<1>3. UNCHANGED <<m_bytes_needed, m_basic_header, m_extended_header, m_control_msg, m_current_msg, delivered, ec>>
  BY DEF Payload00
<1>4. PICK ends : ends = {i \in DOMAIN chunk : chunk[i] = Mark("ff")}
  OBVIOUS
<1>5. PICK n : n = IF ends = {} THEN Len(chunk) ELSE Min(ends) - 1
  OBVIOUS
<1>6. chunk \in Seq(ByteType) /\ Len(chunk) \in Nat /\ \A i \in 1 .. Len(chunk) : chunk[i].s \in STRING
  BY <1>1, TextOfBytes DEF BytesType
<1>7. n \in 0 .. Len(chunk) /\ (ends # {} => n + 1 \in 0 .. Len(chunk))
  <2>1. CASE ends = {}
    BY <1>5, <1>6, <2>1
  <2>2. CASE ends # {}
    <3>1. ends \subseteq Nat /\ ends \subseteq 1 .. Len(chunk)
      BY <1>4, <1>6
    <3>2. Min(ends) \in 1 .. Len(chunk)
      BY <2>2, <3>1, MinExists
    <3> QED
      BY <1>5, <1>6, <2>2, <3>2
  <2> QED
    BY <2>1, <2>2
<1>8. PICK text : text = [i \in 1 .. n |-> chunk[i].s]
  OBVIOUS
<1>9. /\ m_data_msg' = [m_data_msg EXCEPT !.payload = m_data_msg.payload \o text]
      /\ IF ends = {} THEN Skip(n) /\ UNCHANGED m_state ELSE Skip(n + 1) /\ m_state' = "READY"
  BY <1>4, <1>5, <1>8 DEF Payload00
<1>10. chunk' \in Bytes0
  <2>1. \A k \in 0 .. Len(chunk) : SubSeq(chunk, k + 1, Len(chunk)) \in Seq(ByteType)
    BY <1>6, TakeAndSkip
  <2> QED
    BY <1>7, <1>9, <2>1 DEF Skip, Bytes0
<1>11. m_data_msg' \in MsgType /\ m_data_msg'.op = "TEXT"
  <2>1. text \in Seq(STRING)
    BY <1>6, <1>7, <1>8
  <2>2. m_data_msg \in MsgType /\ m_data_msg.payload \in Seq(STRING)
    BY <1>1 DEF MessageType, MsgType
  <2>3. m_data_msg.payload \o text \in Seq(STRING)
    BY ONLY <2>1, <2>2, ConcatProperties
  <2> QED
    BY ONLY <1>2, <1>9, <2>2, <2>3 DEF MsgType
<1>12. BytesType' /\ MessageType'
  BY <1>0, <1>1, <1>3, <1>10, <1>11 DEF BytesType, MessageType
<1>13. m_state' \in {"PAYLOAD", "READY"}
  BY <1>2, <1>9
<1> QED
  BY <1>0, <1>2, <1>3, <1>11, <1>12, <1>13 DEF FramesIInv, Untouched, Parsing00, Parsing13

(* hybi00: a text is over.                                                 *)
LEMMA GetMessage00Step ==
  ASSUME FramesIInv, m_response = 101, GetWebsocketVersion = 0, GetMessage00, UNCHANGED <<asked, input, request>>
  PROVE  FramesIInv'
<1>0. /\ GetWebsocketVersion' = GetWebsocketVersion /\ m_response' = m_response
      /\ input' = input /\ m_buf' = m_buf
  BY Unmoved
<1>1. BytesType /\ MessageType
  BY DEF FramesIInv
<1>2. /\ m_state = "READY" /\ m_data_msg.op = "TEXT"
      /\ m_bytes_needed = 2 /\ m_basic_header = <<>> /\ m_extended_header = <<>> /\ m_current_msg = "data"
  BY DEF GetMessage00, FramesIInv, Parsing00
<1>3. /\ m_data_msg' = NoMsg /\ m_state' = "HEADER"
      /\ UNCHANGED <<chunk, m_bytes_needed, m_basic_header, m_extended_header, m_control_msg, m_current_msg, ec>>
  BY DEF GetMessage00
<1>4. delivered' \in Seq(Message)
  <2>1. m_data_msg.op \in Data \cup Control /\ m_data_msg.payload \in Seq(STRING)
    BY <1>1, <1>2 DEF MessageType, MsgType, Data
  <2> QED
    BY <1>1, <2>1, Delivers DEF GetMessage00
<1>5. BytesType' /\ MessageType'
  BY <1>0, <1>1, <1>3, <1>4, NoMsgType DEF BytesType, MessageType
<1> QED
  BY <1>0, <1>2, <1>3, <1>5 DEF FramesIInv, Untouched, Parsing00, Parsing13

(* Every turn of the loop over a chunk.                                    *)
LEMMA FrameStepFrames ==
  ASSUME FramesIInv, Frame
  PROVE  FramesIInv'
<1>1. m_response = 101 /\ UNCHANGED <<asked, input, request>>
  BY DEF Frame
<1>2. CASE GetWebsocketVersion = 0
  <2>1. Header00 \/ Payload00 \/ GetMessage00
    BY <1>2 DEF Frame, ConsumeHybi00
  <2> QED
    BY <1>1, <1>2, <2>1, Header00Step, Payload00Step, GetMessage00Step
<1>3. CASE GetWebsocketVersion # 0
  <2>1. HeaderBasic \/ HeaderExtended \/ Application \/ GetMessage
    BY <1>3 DEF Frame, ConsumeFrames
  <2> QED
    BY <1>1, <1>3, <2>1, HeaderBasicStep, HeaderExtendedStep, ApplicationStep, GetMessageStep
<1> QED
  BY <1>2, <1>3
-----------------------------------------------------------------------------
(* The bytes that clients send: one of any kind.                           *)
LEMMA ByteRecord ==
  ASSUME NEW k \in {"http", "mark", "b0", "b1", "size", "key", "data"}, NEW s \in STRING, NEW n \in Nat,
         NEW f \in BOOLEAN, NEW key \in Nat
  PROVE  [k |-> k, s |-> s, n |-> n, f |-> f, key |-> key] \in ByteType
BY DEF ByteType

(* A character of a request.                                               *)
LEMMA HttpType ==
  ASSUME NEW s \in STRING
  PROVE  Http(s) \in ByteType
<1>1. FALSE \in BOOLEAN /\ 0 \in Nat
  OBVIOUS
<1> QED
  BY ONLY <1>1, ByteRecord, s \in STRING DEF Http

(* A line of a request.                                                    *)
LEMMA LineBytesType ==
  ASSUME NEW line \in Seq(STRING)
  PROVE  LineBytes(line) \in Bytes0
<1>1. PICK a : a = [i \in 1 .. Len(line) |-> Http(line[i])]
  OBVIOUS
<1>2. Len(line) \in Nat /\ DOMAIN line = 1 .. Len(line) /\ \A i \in 1 .. Len(line) : line[i] \in STRING
  OBVIOUS
<1>3. \A i \in 1 .. Len(line) : Http(line[i]) \in ByteType
  BY <1>2, HttpType
<1>4. a \in Seq(ByteType)
  BY ONLY <1>1, <1>2, <1>3
<1>5. PICK c, d : c = Http("CR") /\ d = Http("LF")
  OBVIOUS
<1>6. c \in ByteType /\ d \in ByteType
  <2>1. "CR" \in STRING /\ "LF" \in STRING
    BY StringsAssumption
  <2> QED
    BY <1>5, <2>1, HttpType, Zenon
<1>7. <<c, d>> \in Seq(ByteType)
  BY ONLY <1>6
<1>8. a \o <<c, d>> \in Seq(ByteType)
  BY ONLY <1>4, <1>7, ConcatProperties
<1> QED
  BY <1>1, <1>2, <1>5, <1>8 DEF LineBytes, Bytes0

(* A frame of a client of hybi00.                                          *)
LEMMA FrameBytes00Type ==
  ASSUME NEW frame \in Frame00
  PROVE  FrameBytes00(frame) \in Bytes0
<1>1. frame.payload \in Seq(STRING)
  BY DEF Frame00
<1>2. PICK p : p = Payload(frame.payload)
  OBVIOUS
<1>3. p \in Bytes0
  BY <1>1, <1>2, PayloadType
<1>4. PICK u, v : u = Mark("00") /\ v = Mark("ff")
  OBVIOUS
<1>5. u \in ByteType /\ v \in ByteType
  BY <1>4, Marks
<1>6. <<u>> \in Bytes0 /\ <<v>> \in Bytes0 /\ <<>> \in Bytes0
  BY ONLY <1>5, EmptySeq DEF Bytes0
<1>7. PICK a \in Bytes0 : a = IF frame.op = "JUNK" THEN <<>> ELSE <<u>>
  BY <1>6
<1>8. (a \o p) \o <<v>> \in Bytes0
  BY ONLY <1>3, <1>6, a \in Bytes0, Added
<1>9. FrameBytes00(frame) = (a \o p) \o <<v>>
  BY <1>2, <1>4, <1>7, Zenon DEF FrameBytes00
<1> QED
  BY <1>8, <1>9

(* A frame of a client of hybi13.                                          *)
LEMMA FrameBytesType ==
  ASSUME NEW frame \in Frame13
  PROVE  FrameBytes(frame) \in Bytes0
<1> DEFINE byte(k, s, n, f) == [k |-> k, s |-> s, n |-> n, f |-> f, key |-> frame.key]
<1>1. /\ frame.payload \in Seq(STRING) /\ Len(frame.payload) \in Nat /\ frame.op \in STRING
      /\ frame.fin \in BOOLEAN /\ frame.rsv \in Nat /\ frame.masked \in BOOLEAN /\ frame.key \in Nat
      /\ \A i \in 1 .. Len(frame.payload) : frame.payload[i] \in STRING
  BY DEF Frame13
<1>2. \A k \in {"b0", "b1", "size", "key", "data"}, s \in STRING, n \in Nat, f \in BOOLEAN : byte(k, s, n, f) \in ByteType
  BY <1>1, ByteRecord
<1> HIDE DEF byte
<1>3. PICK size \in Nat, keys \in Nat, code \in Nat :
        /\ size = Len(frame.payload) /\ keys = IF frame.masked THEN KeyBytes ELSE 0
        /\ code = IF frame.long THEN SizeCode ELSE size
  <2>1. PICK l : l = Len(frame.payload)
    OBVIOUS
  <2>2. PICK m : m = IF frame.masked THEN KeyBytes ELSE 0
    OBVIOUS
  <2>3. PICK c : c = IF frame.long THEN SizeCode ELSE l
    OBVIOUS
  <2>4. l \in Nat
    BY <1>1, <2>1, Zenon
  <2>5. m \in Nat
    BY ONLY <2>2, FramesAssumption
  <2>6. c \in Nat
    BY ONLY <2>3, <2>4, FramesAssumption DEF SizeCode
  <2> QED
    BY ONLY <2>1, <2>2, <2>3, <2>4, <2>5, <2>6, Zenon
<1>4. "none" \in STRING /\ FALSE \in BOOLEAN /\ 0 \in Nat
  BY StringsAssumption
<1>5. PICK a : a = <<byte("b0", frame.op, frame.rsv, frame.fin), byte("b1", "none", code, frame.masked)>>
  OBVIOUS
<1>6. a \in Seq(ByteType)
  <2>1. PICK x, y : x = byte("b0", frame.op, frame.rsv, frame.fin) /\ y = byte("b1", "none", code, frame.masked)
    OBVIOUS
  <2>2. x \in ByteType /\ y \in ByteType
    BY <1>1, <1>2, <1>3, <1>4, <2>1, Zenon
  <2>3. <<x, y>> \in Seq(ByteType)
    BY ONLY <2>2
  <2> QED
    BY <1>5, <2>1, <2>3
<1>7. PICK b : b = IF frame.long THEN <<byte("size", "none", size, FALSE)>> ELSE <<>>
  OBVIOUS
<1>8. b \in Seq(ByteType)
  <2>1. PICK x : x = byte("size", "none", size, FALSE)
    OBVIOUS
  <2>2. x \in ByteType
    BY <1>2, <1>3, <1>4, <2>1, Zenon
  <2>3. <<x>> \in Seq(ByteType) /\ <<>> \in Seq(ByteType)
    BY ONLY <2>2, EmptySeq
  <2> QED
    BY <1>7, <2>1, <2>3
<1>9. PICK c : c = [i \in 1 .. keys |-> byte("key", "none", 0, FALSE)]
  OBVIOUS
<1>10. c \in Seq(ByteType)
  <2>1. PICK x : x = byte("key", "none", 0, FALSE)
    OBVIOUS
  <2>2. x \in ByteType
    BY <1>2, <1>4, <2>1, Zenon
  <2>3. [i \in 1 .. keys |-> x] \in Seq(ByteType)
    BY ONLY <2>2, keys \in Nat
  <2> QED
    BY <1>9, <2>1, <2>3
<1>11. PICK d : d = [i \in 1 .. size |-> byte("data", frame.payload[i], (i - 1) % KeyBytes, FALSE)]
  OBVIOUS
<1>12. \A i \in 1 .. size : d[i] \in ByteType
  <2>1. ASSUME NEW i \in 1 .. size
        PROVE  byte("data", frame.payload[i], (i - 1) % KeyBytes, FALSE) \in ByteType
    <3>1. (i - 1) % KeyBytes \in Nat
      BY FramesAssumption
    <3>2. frame.payload[i] \in STRING
      BY <1>1, <1>3
    <3> QED
      BY <1>2, <1>4, <3>1, <3>2, Zenon
  <2>2. \A i \in 1 .. size : d[i] = byte("data", frame.payload[i], (i - 1) % KeyBytes, FALSE)
    BY <1>11, Zenon
  <2> QED
    BY <2>1, <2>2, Zenon
<1>15. d \in Seq(ByteType)
  <2>1. DOMAIN d = 1 .. size /\ d = [i \in 1 .. size |-> d[i]]
    BY <1>11, Zenon
  <2> QED
    BY ONLY <1>12, <2>1, size \in Nat
<1>13. (((a \o b) \o c) \o d) \in Bytes0
  BY ONLY <1>6, <1>8, <1>10, <1>15, Added DEF Bytes0
<1>14. FrameBytes(frame) = ((a \o b) \o c) \o d
  BY <1>3, <1>5, <1>7, <1>9, <1>11, Zenon DEF FrameBytes, byte
<1> QED
  BY <1>13, <1>14

(* So all that a client may send is bytes.                                 *)
LEMMA StreamBytes ==
  ASSUME NEW s \in Streams
  PROVE  Bytes(s) \in Bytes0
<1>1. /\ s.lines \in Seq(Seq(STRING)) /\ s.body \in Nat
      /\ s.frames \in Seq(Frame00 \cup Frame13)
  BY StreamsAssumption
<1>2. PICK a : a = [i \in DOMAIN s.lines |-> LineBytes(s.lines[i])]
  OBVIOUS
<1>3. a \in Seq(Bytes0)
  <2>1. \A i \in 1 .. Len(s.lines) : LineBytes(s.lines[i]) \in Bytes0
    BY <1>1, LineBytesType
  <2>2. DOMAIN s.lines = 1 .. Len(s.lines) /\ Len(s.lines) \in Nat
    BY <1>1
  <2> QED
    BY ONLY <1>2, <2>1, <2>2
<1>4. PICK b : b = [i \in 1 .. s.body |-> <<Http("x")>>]
  OBVIOUS
<1>5. b \in Seq(Bytes0)
  <2>1. "x" \in STRING
    BY StringsAssumption
  <2>2. PICK x \in ByteType : x = Http("x")
    BY <2>1, HttpType, Zenon
  <2>3. <<x>> \in Bytes0
    BY DEF Bytes0
  <2>4. PICK y \in Bytes0 : y = <<Http("x")>>
    BY <2>2, <2>3
  <2>5. b = [i \in 1 .. s.body |-> y]
    BY <1>4, <2>4
  <2> QED
    BY ONLY <1>1, <2>5, y \in Bytes0
<1>6. PICK c : c = [i \in DOMAIN s.frames |-> IF s.frames[i].op \in {"00", "JUNK"} THEN FrameBytes00(s.frames[i])
                                                                                    ELSE FrameBytes(s.frames[i])]
  OBVIOUS
<1>7. c \in Seq(Bytes0)
  <2>1. ASSUME NEW f \in Frame00 \cup Frame13
        PROVE  (IF f.op \in {"00", "JUNK"} THEN FrameBytes00(f) ELSE FrameBytes(f)) \in Bytes0
    <3>1. CASE f.op \in {"00", "JUNK"}
      <4>1. f \in Frame00
        BY <3>1 DEF Frame13
      <4> QED
        BY <3>1, <4>1, FrameBytes00Type
    <3>2. CASE f.op \notin {"00", "JUNK"}
      <4>1. f \in Frame13
        BY <3>2 DEF Frame00
      <4> QED
        BY <3>2, <4>1, FrameBytesType
    <3> QED
      BY <3>1, <3>2
  <2>2. DOMAIN s.frames = 1 .. Len(s.frames) /\ Len(s.frames) \in Nat
        /\ \A i \in 1 .. Len(s.frames) : s.frames[i] \in Frame00 \cup Frame13
    BY <1>1
  <2> QED
    BY ONLY <1>6, <2>1, <2>2
<1>8. FlattenSeq(a) \in Bytes0 /\ FlattenSeq(b) \in Bytes0 /\ FlattenSeq(c) \in Bytes0
  BY <1>3, <1>5, <1>7, FlattenType DEF Bytes0
<1>9. (FlattenSeq(a) \o FlattenSeq(b)) \o FlattenSeq(c) \in Bytes0
  BY ONLY <1>8, Added
<1> QED
  BY <1>2, <1>4, <1>6, <1>9, Zenon DEF Bytes
-----------------------------------------------------------------------------
(* At first no frame is being read and nothing has been said.              *)
LEMMA InitFrames ==
  ASSUME ConversationInit
  PROVE  FramesIInv /\ Silent
<1>1. /\ stream \in Streams /\ input = Bytes(stream) /\ chunk = <<>> /\ m_buf = <<>> /\ m_response = 0
      /\ m_state = "HEADER_BASIC" /\ m_bytes_needed = 2 /\ m_basic_header = <<>> /\ m_extended_header = <<>>
      /\ m_data_msg = NoMsg /\ m_control_msg = NoMsg /\ m_current_msg = "data"
      /\ delivered = <<>> /\ ec = "none"
  BY DEF ConversationInit, Init, FramesInit
<1>2. BytesType
  BY <1>1, StreamBytes, NothingRead DEF BytesType
<1>3. MessageType
  <2>1. delivered \in Seq(Message)
    BY <1>1, EmptySeq
  <2>2. "none" \in Errors
    BY DEF Errors
  <2> QED
    BY <1>1, <2>1, <2>2, NoMsgType DEF MessageType
<1> QED
  BY <1>1, <1>2, <1>3 DEF FramesIInv, Untouched, Parsing00, Parsing13, Silent, ConversationInit
-----------------------------------------------------------------------------
(* The body is what its length says it is.                                 *)
Body ==
  /\ m_body \in Nat /\ m_body_bytes_needed \in Nat /\ m_body + m_body_bytes_needed <= BodyLength
  /\ m_ready \in BOOLEAN
  /\ m_ready => m_body_bytes_needed = 0
  /\ ~m_ready /\ m_body_bytes_needed = 0 => m_body = 0

(* Before the answer, only what is still to be read changes.               *)
LEMMA BeforeAnswer ==
  ASSUME FramesIInv, m_response = 0, m_response' # 101, UNCHANGED framing,
         chunk' \in Bytes0, input' \in Bytes0, m_buf' \in Bytes0
  PROVE  FramesIInv'
<1>1. BytesType' /\ MessageType'
  BY DEF FramesIInv, BytesType, MessageType, framing, headers, messages
<1>2. Untouched'
  BY DEF FramesIInv, Untouched, framing, headers, messages
<1> QED
  BY <1>1, <1>2 DEF FramesIInv, Parsing00, Parsing13

(* A part of the input.                                                    *)
LEMMA ReadType ==
  ASSUME FramesIInv, NEW n \in 1 .. Min({MaxRead, Len(input)}), Receive(n)
  PROVE  chunk' \in Bytes0 /\ input' \in Bytes0
<1>1. input \in Seq(ByteType) /\ Len(input) \in Nat /\ MaxRead \in Nat
  BY InboundAssumption DEF FramesIInv, BytesType, Bytes0
<1>2. Min({MaxRead, Len(input)}) \in Nat /\ Min({MaxRead, Len(input)}) <= Len(input)
  BY <1>1, MinOfTwo
<1>3. n \in 0 .. Len(input)
  BY <1>1, <1>2
<1>4. SubSeq(input, 1, n) \in Seq(ByteType) /\ SubSeq(input, n + 1, Len(input)) \in Seq(ByteType)
  BY ONLY <1>1, <1>3, TakeAndSkip
<1> QED
  BY <1>4 DEF Receive, Bytes0

(* Bytes of a request arrive.                                              *)
LEMMA ReadStep ==
  ASSUME FramesIInv, NEW n \in 1 .. Min({MaxRead, Len(input)}), ReadRequest(n) \/ ReadBody(n)
  PROVE  FramesIInv' /\ m_response = 0 /\ m_response' # 101
<1>1. Receive(n) /\ m_response = 0 /\ UNCHANGED framing
  BY DEF ReadRequest, ReadBody
<1>2. chunk' \in Bytes0 /\ input' \in Bytes0
  BY <1>1, ReadType
<1>3. m_buf \in Bytes0
  BY DEF FramesIInv, BytesType
<1>4. m_response' \in {0, 431}
  BY <1>1 DEF ReadRequest, ReadBody, request
<1>5. m_buf' = m_buf \/ m_buf' = m_buf \o chunk'
  BY DEF ReadRequest, ReadBody, request
<1>6. m_buf' \in Bytes0
  BY <1>2, <1>3, <1>5, Added
<1> QED
  BY <1>1, <1>2, <1>4, <1>6, BeforeAnswer

(* Bytes from some place on.                                               *)
LEMMA RestOf ==
  ASSUME NEW s \in Bytes0, NEW k \in Nat
  PROVE  SubSeq(s, k + 1, Len(s)) \in Bytes0
<1>1. s \in Seq(ByteType) /\ Len(s) \in Nat
  BY DEF Bytes0
<1>2. CASE k <= Len(s)
  <2>1. k \in 0 .. Len(s)
    BY <1>1, <1>2
  <2> QED
    BY <1>1, <2>1, TakeAndSkip DEF Bytes0
<1>3. CASE ~(k <= Len(s))
  <2>1. k + 1 > Len(s)
    BY <1>1, <1>3
  <2>2. SubSeq(s, k + 1, Len(s)) = <<>>
    BY <1>1, <2>1, SubSeqEmpty
  <2> QED
    BY <2>2, NothingRead
<1> QED
  BY <1>2, <1>3

(* Where a line ends.                                                      *)
LEMMA LineEndsIs ==
  ASSUME m_buf \in Bytes0, LineEnds # {}
  PROVE  Min(LineEnds) \in Nat
<1>1. LineEnds \subseteq Nat
  BY DEF LineEnds
<1> QED
  BY <1>1, MinExists

(* A line of the request is taken, or there is none.                       *)
LEMMA LineStep ==
  ASSUME FramesIInv, Process \/ ProcessHeader \/ OutOfBytes
  PROVE  FramesIInv' /\ m_response = 0 /\ m_response' # 101
<1>1. /\ m_response = 0 /\ UNCHANGED framing
      /\ chunk' = <<>> \/ chunk' = chunk
      /\ input' = input /\ m_response' \in {0, 400}
  BY DEF Process, ProcessHeader, Line, OutOfBytes, Request, request
<1>2. m_buf \in Bytes0 /\ chunk \in Bytes0 /\ input \in Bytes0
  BY DEF FramesIInv, BytesType
<1>3. m_buf' \in Bytes0
  <2>1. CASE m_buf' = m_buf
    BY <1>2, <2>1
  <2>2. CASE Line
    <3>1. LineEnds # {} /\ m_buf' = SubSeq(m_buf, Min(LineEnds) + 2, Len(m_buf))
      BY <2>2 DEF Line, Request
    <3>2. Min(LineEnds) + 1 \in Nat /\ Min(LineEnds) + 2 = (Min(LineEnds) + 1) + 1
      BY <1>2, <3>1, LineEndsIs
    <3>3. SubSeq(m_buf, (Min(LineEnds) + 1) + 1, Len(m_buf)) \in Bytes0
      BY <1>2, <3>2, RestOf
    <3> QED
      BY <3>1, <3>2, <3>3
  <2> QED
    BY <2>1, <2>2 DEF Process, ProcessHeader, OutOfBytes, request
<1> QED
  BY <1>1, <1>2, <1>3, NothingRead, BeforeAnswer

(* The line that ends the headers.                                         *)
LEMMA BlankLineStep ==
  ASSUME FramesIInv, BlankLine
  PROVE  FramesIInv' /\ m_response = 0 /\ m_response' # 101
<1>1. m_response = 0 /\ UNCHANGED framing /\ input' = input
  BY DEF BlankLine, Request
<1>2. m_buf \in Bytes0 /\ chunk \in Bytes0 /\ input \in Bytes0
  BY DEF FramesIInv, BytesType
<1>3. RequestError # 101
  BY DEF RequestError
<1>4. m_response' # 101
  BY <1>1, <1>3 DEF BlankLine
<1>5. SubSeq(m_buf, 3, Len(m_buf)) \in Bytes0
  <2>1. 2 \in Nat /\ 2 + 1 = 3
    OBVIOUS
  <2>2. SubSeq(m_buf, 2 + 1, Len(m_buf)) \in Bytes0
    BY <1>2, <2>1, RestOf
  <2> QED
    BY <2>1, <2>2
<1>6. chunk' \in Bytes0 /\ m_buf' \in Bytes0
  BY <1>2, <1>5, NothingRead DEF BlankLine
<1> QED
  BY <1>1, <1>2, <1>4, <1>6, BeforeAnswer

(* A part of the body: never more than its length.                         *)
LEMMA ProcessBodyStep ==
  ASSUME FramesIInv, Body, ProcessBody
  PROVE  FramesIInv' /\ m_response = 0 /\ m_response' # 101 /\ Body'
<1>1. PICK n : n = Min({m_body_bytes_needed, Len(chunk)})
  OBVIOUS
<1>2. chunk \in Bytes0 /\ m_buf \in Bytes0 /\ input \in Bytes0 /\ m_body_bytes_needed \in Nat /\ Len(chunk) \in Nat
  BY DEF FramesIInv, BytesType, Body, Bytes0
<1>3. n \in Nat /\ n <= m_body_bytes_needed
  BY <1>1, <1>2, MinOfTwo
<1>4. /\ m_response = 0 /\ UNCHANGED framing /\ input' = input /\ m_buf' = m_buf /\ m_response' = 0
      /\ Skip(n) /\ m_body' = m_body + n /\ m_body_bytes_needed' = m_body_bytes_needed - n
      /\ m_ready' = (n = m_body_bytes_needed)
      /\ m_body_bytes_needed > 0
  BY <1>1 DEF ProcessBody
<1>5. chunk' \in Bytes0
  BY <1>2, <1>3, <1>4, RestOf DEF Skip
<1>6. FramesIInv'
  BY <1>2, <1>4, <1>5, BeforeAnswer
<1>7. Body'
  <2>1. m_body \in Nat /\ m_body + m_body_bytes_needed <= BodyLength /\ BodyLength \in Nat
    BY InboundAssumption DEF Body
  <2>2. m_body' \in Nat /\ m_body_bytes_needed' \in Nat /\ m_body' + m_body_bytes_needed' <= BodyLength
        /\ (n = m_body_bytes_needed => m_body_bytes_needed' = 0) /\ (n # m_body_bytes_needed => m_body_bytes_needed' # 0)
    BY ONLY <1>2, <1>3, <1>4, <2>1
  <2>3. m_ready' \in BOOLEAN /\ (m_ready' => n = m_body_bytes_needed) /\ (n = m_body_bytes_needed => m_ready')
    BY <1>4
  <2> QED
    BY <2>2, <2>3 DEF Body
<1> QED
  BY <1>4, <1>6, <1>7

(* A handshake is accepted only if it is one and there is a processor.     *)
LEMMA Accepts ==
  ASSUME Respond, m_response' = 101
  PROVE  ProcessorError = 0 /\ IsWebsocketHandshake
<1>1. m_response' = IF ProcessorError # 0 THEN ProcessorError ELSE ProcessHandshakeRequest
  BY DEF Respond
<1>2. ProcessorError \in {0, 400, 500}
  BY DEF ProcessorError
<1>3. ProcessorError = 0 /\ ProcessHandshakeRequest = 101
  BY <1>1, <1>2
<1>4. CASE ~Uris[GetHeader("Host")].valid
  BY <1>3, <1>4 DEF ProcessHandshakeRequest
<1>5. CASE Uris[GetHeader("Host")].valid /\ ~IsWebsocketHandshake
  BY <1>3, <1>5 DEF ProcessHandshakeRequest
<1> QED
  BY <1>3, <1>4, <1>5

(* The answer: if it accepts, the first frame is to come.                  *)
LEMMA RespondStep ==
  ASSUME FramesIInv, Respond
  PROVE  FramesIInv'
<1>1. /\ m_response = 0 /\ input' = input /\ m_buf' = m_buf /\ m_headers' = m_headers
      /\ UNCHANGED <<m_bytes_needed, m_basic_header, m_extended_header, messages, delivered, ec>>
      /\ GetWebsocketVersion' = GetWebsocketVersion
  BY DEF Respond, GetWebsocketVersion
<1>2. BytesType /\ MessageType
  BY DEF FramesIInv
<1>3. /\ m_state = "HEADER_BASIC" /\ m_bytes_needed = 2 /\ m_basic_header = <<>> /\ m_extended_header = <<>>
      /\ m_data_msg = NoMsg /\ m_control_msg = NoMsg /\ m_current_msg = "data"
      /\ delivered = <<>> /\ ec = "none"
  BY <1>1 DEF FramesIInv, Untouched
<1>4. PICK hybi00 \in BOOLEAN : hybi00 = (IsWebsocketHandshake /\ GetWebsocketVersion = 0 /\ ProcessorError = 0)
  OBVIOUS
<1>5. /\ chunk' = IF hybi00 THEN SubSeq(chunk, Key3Bytes + 1, Len(chunk)) ELSE chunk
      /\ m_state' = IF hybi00 THEN "HEADER" ELSE m_state
      /\ m_response' = IF ProcessorError # 0 THEN ProcessorError ELSE ProcessHandshakeRequest
  BY <1>4 DEF Respond
<1>6. chunk' \in Bytes0
  BY <1>2, <1>5, RestOf, InboundAssumption DEF BytesType
<1>7. BytesType' /\ MessageType'
  BY <1>1, <1>2, <1>6 DEF BytesType, MessageType, messages
<1>8. ProcessorError \in {0, 400, 500}
  BY DEF ProcessorError
<1>9. ProcessHandshakeRequest \in {400, 426, 101}
  <2>1. CASE ~Uris[GetHeader("Host")].valid
    BY <2>1 DEF ProcessHandshakeRequest
  <2>2. CASE Uris[GetHeader("Host")].valid /\ ~IsWebsocketHandshake
    BY <2>2 DEF ProcessHandshakeRequest
  <2>3. CASE Uris[GetHeader("Host")].valid /\ IsWebsocketHandshake
    BY <2>3 DEF ProcessHandshakeRequest
  <2> QED
    BY <2>1, <2>2, <2>3
<1>10. m_response' = 101 => ProcessorError = 0 /\ IsWebsocketHandshake
  BY Accepts
<1>11. m_response' # 0
  BY <1>5, <1>9
<1>12. Untouched'
  BY <1>1, <1>3, <1>5, <1>11 DEF Untouched, messages
<1>13. Parsing00'
  BY <1>1, <1>3, <1>4, <1>5, <1>10 DEF Parsing00, messages
<1>14. Parsing13'
  <2> SUFFICES ASSUME m_response' = 101, GetWebsocketVersion # 0
               PROVE  (DataMsg /\ InBasic)'
    BY <1>1 DEF Parsing13
  <2>1. m_state' = "HEADER_BASIC"
    BY <1>3, <1>4, <1>5
  <2>2. MaxMessage \in Nat
    BY FramesAssumption
  <2>3. m_data_msg' = NoMsg
    BY <1>1, <1>3 DEF messages
  <2> QED
    BY <1>1, <1>3, <2>1, <2>2, <2>3, NoMsgType, NothingRead DEF DataMsg, InBasic
<1> QED
  BY <1>7, <1>12, <1>13, <1>14 DEF FramesIInv

(* At first there is no body.                                              *)
LEMMA InitBody ==
  ASSUME ConversationInit
  PROVE  Body
<1>1. m_body = 0 /\ m_body_bytes_needed = 0 /\ ~m_ready
  BY DEF ConversationInit, Init
<1>2. m_ready \in BOOLEAN
  BY Zenon DEF ConversationInit, Init
<1> QED
  BY <1>1, <1>2, InboundAssumption DEF Body

(* Steps that leave the body alone.                                        *)
LEMMA BodyStays ==
  ASSUME Body, UNCHANGED <<m_body, m_body_bytes_needed, m_ready>>
  PROVE  Body'
BY DEF Body

(* The end of the headers tells how long the body is.                      *)
LEMMA BlankLineBody ==
  ASSUME Body, BlankLine
  PROVE  Body'
<1>1. m_body' = m_body /\ m_body_bytes_needed = 0 /\ m_body = 0 /\ ~m_ready /\ BodyLength \in Nat
  BY InboundAssumption DEF BlankLine, Request, Body
<1>2. CASE UNCHANGED <<m_body_bytes_needed, m_ready>>
  BY <1>1, <1>2, BodyStays
<1>3. CASE m_body_bytes_needed' = BodyLength /\ m_ready' = (BodyLength = 0)
  BY <1>1, <1>3 DEF Body
<1>4. CASE m_body_bytes_needed' = m_body_bytes_needed /\ m_ready' = TRUE
  BY <1>1, <1>4 DEF Body
<1> QED
  BY <1>2, <1>3, <1>4 DEF BlankLine

(* Every step.                                                             *)
LEMMA FramesNext ==
  ASSUME FramesIInv, Body, [ConversationNext]_<<vars, conversation>>
  PROVE  FramesIInv' /\ Body'
<1>1. CASE UNCHANGED vars
  <2>1. UNCHANGED <<chunk, input, m_buf, m_response, m_headers, framing>>
    BY <1>1 DEF vars, request
  <2>2. GetWebsocketVersion' = GetWebsocketVersion
    BY <2>1 DEF GetWebsocketVersion
  <2>3. Body'
    BY <1>1, BodyStays DEF vars, request
  <2>4. FramesIInv'
    <3>1. UNCHANGED <<m_state, m_bytes_needed, m_basic_header, m_extended_header, m_data_msg, m_control_msg,
                      m_current_msg, delivered, ec>>
      BY <2>1 DEF framing, headers, messages
    <3>2. BytesType' /\ MessageType' /\ Untouched' /\ Parsing00'
      BY <2>1, <2>2, <3>1 DEF FramesIInv, BytesType, MessageType, Untouched, Parsing00
    <3>3. (DataMsg <=> DataMsg') /\ (InBasic <=> InBasic') /\ (InExtended <=> InExtended') /\ (InPayload <=> InPayload')
      BY <3>1 DEF DataMsg, InBasic, InExtended, InPayload, Opened
    <3> QED
      BY <2>1, <2>2, <3>2, <3>3 DEF FramesIInv, Parsing13
  <2> QED
    BY <2>3, <2>4
<1>2. ASSUME NEW n \in 1 .. Min({MaxRead, Len(input)}), ReadRequest(n) \/ ReadBody(n)
      PROVE  FramesIInv' /\ Body'
  <2>1. UNCHANGED <<m_body, m_body_bytes_needed, m_ready>>
    BY <1>2 DEF ReadRequest, ReadBody, request
  <2> QED
    BY <1>2, <2>1, ReadStep, BodyStays
<1>3. ASSUME NEW n \in 1 .. Min({MaxRead, Len(input)}), ReadMore(n)
      PROVE  FramesIInv' /\ Body'
  <2>1. /\ Receive(n) /\ m_response = 101 /\ m_response' = m_response /\ UNCHANGED framing
        /\ m_buf' = m_buf /\ m_headers' = m_headers
        /\ UNCHANGED <<m_body, m_body_bytes_needed, m_ready>>
    BY <1>3 DEF ReadMore, ReadFrames, request
  <2>2. chunk' \in Bytes0 /\ input' \in Bytes0
    BY <2>1, ReadType
  <2>3. GetWebsocketVersion' = GetWebsocketVersion
    BY <2>1 DEF GetWebsocketVersion
  <2>4. UNCHANGED <<m_state, m_bytes_needed, m_basic_header, m_extended_header, m_data_msg, m_control_msg,
                    m_current_msg, delivered, ec>>
    BY <2>1 DEF framing, headers, messages
  <2>5. BytesType' /\ MessageType' /\ Untouched' /\ Parsing00'
    BY <2>1, <2>2, <2>3, <2>4 DEF FramesIInv, BytesType, MessageType, Untouched, Parsing00
  <2>6. (DataMsg <=> DataMsg') /\ (InBasic <=> InBasic') /\ (InExtended <=> InExtended') /\ (InPayload <=> InPayload')
    BY <2>4 DEF DataMsg, InBasic, InExtended, InPayload, Opened
  <2> QED
    BY <2>1, <2>3, <2>5, <2>6, BodyStays DEF FramesIInv, Parsing13
<1>4. CASE OutOfBytes \/ Process \/ ProcessHeader
  <2>1. UNCHANGED <<m_body, m_body_bytes_needed, m_ready>>
    BY <1>4 DEF OutOfBytes, Process, ProcessHeader, Line, request
  <2> QED
    BY <1>4, <2>1, LineStep, BodyStays
<1>5. CASE BlankLine
  BY <1>5, BlankLineStep, BlankLineBody
<1>6. CASE ProcessBody
  BY <1>6, ProcessBodyStep
<1>7. CASE Respond
  <2>1. UNCHANGED <<m_body, m_body_bytes_needed, m_ready>>
    BY <1>7 DEF Respond
  <2> QED
    BY <1>7, <2>1, RespondStep, BodyStays
<1>8. CASE FrameStep
  <2>1. Frame /\ UNCHANGED <<m_body, m_body_bytes_needed, m_ready>>
    BY <1>8 DEF FrameStep, Frame, request
  <2> QED
    BY <2>1, FrameStepFrames, BodyStays
<1>9. CASE Drop
  BY <1>1, <1>9 DEF Drop
<1>10. CASE ConversationNext
  BY <1>2, <1>3, <1>4, <1>5, <1>6, <1>7, <1>8, <1>9, <1>10 DEF ConversationNext, OfRequest
<1> QED
  BY <1>1, <1>10

(* In every behaviour.                                                     *)
LEMMA FramesInvariant == Spec => [](FramesIInv /\ Body)
<1>1. ConversationInit => FramesIInv /\ Body
  BY InitFrames, InitBody
<1>2. FramesIInv /\ Body /\ [ConversationNext]_<<vars, conversation>> => (FramesIInv /\ Body)'
  BY FramesNext
<1> QED
  BY <1>1, <1>2, PTL DEF Spec

(* process_payload's promise: a message put together from any number of    *)
(* frames, whole or not, in any pieces, is never longer than               *)
(* max_message_size; validate_incoming_extended_header refuses a frame     *)
(* that would make it longer before any of its payload is stored.          *)
THEOREM MessagesBounded == Spec => []MessageBounded
<1>1. FramesIInv => MessageBounded
  <2> SUFFICES ASSUME FramesIInv, GetWebsocketVersion # 0
               PROVE  Len(m_data_msg.payload)
                        + (IF m_state = "APPLICATION" /\ m_current_msg = "data" THEN m_bytes_needed ELSE 0) <= MaxMessage
    BY DEF MessageBounded
  <2>1. PICK k : k = Len(m_data_msg.payload)
    OBVIOUS
  <2>2. k \in Nat /\ m_bytes_needed \in Nat /\ MaxMessage \in Nat
    BY <2>1, FramesAssumption DEF FramesIInv, MessageType, MsgType
  <2>3. CASE m_response # 101
    <3>1. m_state # "APPLICATION" /\ k = 0
      BY <2>1, <2>3, NoMsgType DEF FramesIInv, Untouched
    <3> QED
      BY <2>1, <2>2, <3>1
  <2>4. CASE m_response = 101
    <3>1. k <= MaxMessage /\ (m_state = "APPLICATION" /\ m_current_msg = "data" => k + m_bytes_needed <= MaxMessage)
      <4>1. DataMsg /\ (InBasic \/ InExtended \/ InPayload)
        BY <2>4 DEF FramesIInv, Parsing13
      <4>2. m_state = "APPLICATION" => InPayload
        BY <4>1 DEF InBasic, InExtended
      <4>3. m_current_msg = "data" /\ InPayload => k + m_bytes_needed <= MaxMessage
        BY <2>1 DEF InPayload
      <4>4. k <= MaxMessage
        BY <2>1, <4>1 DEF DataMsg
      <4> QED
        BY <4>2, <4>3, <4>4, Zenon
    <3>2. CASE m_state = "APPLICATION" /\ m_current_msg = "data"
      <4>1. (IF m_state = "APPLICATION" /\ m_current_msg = "data" THEN m_bytes_needed ELSE 0) = m_bytes_needed
        BY <3>2
      <4>2. k + m_bytes_needed <= MaxMessage
        BY <3>1, <3>2, Zenon
      <4> QED
        BY <2>1, <4>1, <4>2, Zenon
    <3>3. CASE ~(m_state = "APPLICATION" /\ m_current_msg = "data")
      <4>1. (IF m_state = "APPLICATION" /\ m_current_msg = "data" THEN m_bytes_needed ELSE 0) = 0
        BY <3>3
      <4>2. k + 0 <= MaxMessage
        BY ONLY <2>2, <3>1
      <4> QED
        BY <2>1, <4>1, <4>2, Zenon
    <3> QED
      BY <3>2, <3>3
  <2> QED
    BY <2>3, <2>4
<1> QED
  BY <1>1, FramesInvariant, PTL
-----------------------------------------------------------------------------
(* What clients see of the messages, and what may be said to them.         *)
SaidTo(v, msgs) == [i \in DOMAIN msgs |-> SeenBy(v, msgs[i])]

MaySay(m) == m \in Sent /\ (m.op = "CLOSE" => LegalCode(m.code))

(* A client that reads bytes, whatever comes after them, reads msgs first. *)
Understands(v, msgs, bytes) ==
  /\ msgs \in Seq(Sent) /\ bytes \in Bytes0
  /\ \A i \in 1 .. Len(msgs) : MaySay(msgs[i])
  /\ Appends(ReadsBy(v), bytes, SaidTo(v, msgs))

(* What a client sees of messages.                                         *)
LEMMA SeenByType ==
  ASSUME NEW v, NEW msgs \in Seq(Sent)
  PROVE  /\ SaidTo(v, msgs) \in Seq(Seen) /\ Len(SaidTo(v, msgs)) = Len(msgs)
         /\ DOMAIN SaidTo(v, msgs) = 1 .. Len(msgs)
         /\ \A i \in 1 .. Len(msgs) : SaidTo(v, msgs)[i] = SeenBy(v, msgs[i])
<1>1. DOMAIN msgs = 1 .. Len(msgs) /\ Len(msgs) \in Nat /\ \A i \in 1 .. Len(msgs) : msgs[i] \in Sent
  OBVIOUS
<1>2. \A m \in Sent : SeenBy(v, m) \in Seen
  BY DEF SeenBy, Seen
<1>3. PICK s : s = SaidTo(v, msgs)
  OBVIOUS
<1>4. s = [i \in 1 .. Len(msgs) |-> SeenBy(v, msgs[i])]
  BY <1>1, <1>3 DEF SaidTo
<1>5. \A i \in 1 .. Len(msgs) : SeenBy(v, msgs[i]) \in Seen
  BY <1>1, <1>2
<1>6. s \in Seq(Seen) /\ Len(s) = Len(msgs) /\ DOMAIN s = 1 .. Len(msgs)
      /\ \A i \in 1 .. Len(msgs) : s[i] = SeenBy(v, msgs[i])
  BY ONLY <1>1, <1>4, <1>5
<1> QED
  BY <1>3, <1>6

(* And of messages after messages.                                         *)
LEMMA SaidBoth ==
  ASSUME NEW v, NEW a \in Seq(Sent), NEW b \in Seq(Sent)
  PROVE  SaidTo(v, a \o b) = SaidTo(v, a) \o SaidTo(v, b)
<1>1. PICK c : c = a \o b
  OBVIOUS
<1>2. PICK x, y, z : x = SaidTo(v, a) /\ y = SaidTo(v, b) /\ z = SaidTo(v, c)
  OBVIOUS
<1>3. /\ c \in Seq(Sent) /\ Len(c) = Len(a) + Len(b) /\ Len(a) \in Nat /\ Len(b) \in Nat
      /\ \A i \in 1 .. Len(a) + Len(b) : c[i] = IF i <= Len(a) THEN a[i] ELSE b[i - Len(a)]
  BY <1>1, ConcatProperties
<1>4. /\ x \in Seq(Seen) /\ Len(x) = Len(a) /\ \A i \in 1 .. Len(a) : x[i] = SeenBy(v, a[i])
  BY <1>2, SeenByType
<1>5. /\ y \in Seq(Seen) /\ Len(y) = Len(b) /\ \A i \in 1 .. Len(b) : y[i] = SeenBy(v, b[i])
  BY <1>2, SeenByType
<1>6. /\ z \in Seq(Seen) /\ Len(z) = Len(c) /\ \A i \in 1 .. Len(c) : z[i] = SeenBy(v, c[i])
  BY <1>2, <1>3, SeenByType
<1>7. PICK w : w = x \o y
  OBVIOUS
<1>8. /\ w \in Seq(Seen) /\ Len(w) = Len(x) + Len(y)
      /\ \A i \in 1 .. Len(x) + Len(y) : w[i] = IF i <= Len(x) THEN x[i] ELSE y[i - Len(x)]
  BY ONLY <1>4, <1>5, <1>7, ConcatProperties
<1>9. Len(w) = Len(z)
  BY ONLY <1>3, <1>4, <1>5, <1>6, <1>8
<1>10. ASSUME NEW i \in 1 .. Len(w)
       PROVE  w[i] = z[i]
  <2>1. i \in 1 .. Len(a) + Len(b) /\ i \in 1 .. Len(c) /\ i \in 1 .. Len(x) + Len(y)
    BY ONLY <1>3, <1>4, <1>5, <1>8
  <2>2. CASE i <= Len(a)
    <3>1. i \in 1 .. Len(a)
      BY ONLY <1>3, <2>1, <2>2
    <3> QED
      BY ONLY <1>3, <1>4, <1>6, <1>8, <2>1, <2>2, <3>1
  <2>3. CASE ~(i <= Len(a))
    <3>1. i - Len(a) \in 1 .. Len(b)
      BY ONLY <1>3, <2>1, <2>3
    <3> QED
      BY ONLY <1>3, <1>4, <1>5, <1>6, <1>8, <2>1, <2>3, <3>1
  <2> QED
    BY ONLY <2>2, <2>3
<1>11. w = z
  BY ONLY <1>6, <1>8, <1>9, <1>10, SeqEqual
<1> QED
  BY <1>1, <1>2, <1>7, <1>11

(* Nothing said is understood.                                             *)
LEMMA UnderstandsNothing ==
  ASSUME NEW v
  PROVE  Understands(v, <<>>, <<>>)
<1>1. ReadsBy(v)[<<>>] = <<>>
  BY ReadsNothing
<1>2. <<>> \in Bytes0 /\ Appends(ReadsBy(v), <<>>, <<>>)
  BY <1>1, AppendsNothing
<1>3. PICK e : e = <<>>
  OBVIOUS
<1>4. e \in Seq(Sent) /\ Len(e) = 0
  BY <1>3, EmptySeq
<1>5. SaidTo(v, e) \in Seq(Seen) /\ Len(SaidTo(v, e)) = 0
  BY <1>4, SeenByType
<1>6. SaidTo(v, e) = <<>>
  BY <1>5, EmptySeq
<1>7. \A i \in 1 .. Len(e) : MaySay(e[i])
  BY <1>4
<1> QED
  BY <1>2, <1>3, <1>4, <1>6, <1>7 DEF Understands

(* A function on 1 .. n is a sequence.                                     *)
LEMMA SeqEqual2 ==
  ASSUME NEW T, NEW n \in Nat, NEW f, f = [i \in 1 .. n |-> f[i]], \A i \in 1 .. n : f[i] \in T
  PROVE  f \in Seq(T) /\ Len(f) = n
OBVIOUS

(* Messages that can be sent go on with what a client understands.         *)
LEMMA QueueUnderstood ==
  ASSUME NEW v, v = GetWebsocketVersion, Understands(v, sent, out), NEW msgs \in Seq(Sent),
         \A i \in 1 .. Len(msgs) : Encode(msgs[i]) # <<>> /\ MaySay(msgs[i]), Queue(msgs)
  PROVE  Understands(v, sent', out')
<1>1. PICK said : said = SaidTo(v, msgs)
  OBVIOUS
<1>2. /\ said \in Seq(Seen) /\ Len(said) = Len(msgs) /\ Len(msgs) \in Nat
      /\ \A i \in 1 .. Len(msgs) : said[i] = SeenBy(v, msgs[i]) /\ msgs[i] \in Sent
  BY <1>1, SeenByType
<1>3. PICK seqs : seqs = [i \in 1 .. Len(msgs) |-> Encode(msgs[i])]
  OBVIOUS
<1>4. \A i \in 1 .. Len(msgs) : seqs[i] = Encode(msgs[i])
  BY <1>3
<1>5. ASSUME NEW i \in 1 .. Len(msgs)
      PROVE  seqs[i] \in Bytes0 /\ Appends(ReadsBy(v), seqs[i], <<said[i]>>)
  <2>1. Encode(msgs[i]) \in Bytes0 /\ Appends(ReadsBy(v), Encode(msgs[i]), <<SeenBy(v, msgs[i])>>)
    BY <1>2, EncodedIsRead
  <2>3. seqs[i] = Encode(msgs[i]) /\ said[i] = SeenBy(v, msgs[i])
    BY <1>2, <1>4
  <2> QED
    BY <2>1, <2>3, Zenon
<1>6. seqs \in Seq(Bytes0) /\ Len(seqs) = Len(said)
  <2>1. seqs = [i \in 1 .. Len(msgs) |-> seqs[i]]
    BY <1>3, Zenon
  <2>2. \A i \in 1 .. Len(msgs) : seqs[i] \in Bytes0
    BY <1>5
  <2> QED
    BY ONLY <1>2, <2>1, <2>2, SeqEqual2
<1>7. ReadsBy(v)[<<>>] = <<>>
  BY ReadsNothing
<1>8. PICK reads : reads = ReadsBy(v)
  OBVIOUS
<1>9. PICK more : more = FlattenSeq(seqs)
  OBVIOUS
<1>10. more \in Bytes0 /\ Appends(reads, more, said)
  <2>1. /\ reads[<<>>] = <<>>
        /\ \A i \in 1 .. Len(said) : Appends(reads, seqs[i], <<said[i]>>)
    BY <1>2, <1>5, <1>7, <1>8, Zenon
  <2> QED
    BY ONLY <1>2, <1>6, <1>9, <2>1, AppendsAll
<1>11. PICK before : before = SaidTo(v, sent)
  OBVIOUS
<1>12. /\ sent \in Seq(Sent) /\ out \in Bytes0 /\ Appends(reads, out, before) /\ before \in Seq(Seen)
       /\ \A i \in 1 .. Len(sent) : MaySay(sent[i])
  BY <1>8, <1>11, SeenByType DEF Understands
<1>13. out \o more \in Bytes0 /\ Appends(reads, out \o more, before \o said)
  BY ONLY <1>2, <1>10, <1>12, AppendsBoth
<1>14. sent' = sent \o msgs /\ out' = out \o more
  <2>1. DOMAIN msgs = 1 .. Len(msgs)
    OBVIOUS
  <2> QED
    BY <1>3, <1>9, <2>1 DEF Queue
<1>15. SaidTo(v, sent \o msgs) = before \o said
  BY <1>1, <1>11, <1>12, SaidBoth
<1>16. sent \o msgs \in Seq(Sent) /\ \A i \in 1 .. Len(sent \o msgs) : MaySay((sent \o msgs)[i])
  <2>1. PICK s : s = sent \o msgs
    OBVIOUS
  <2>2. /\ s \in Seq(Sent) /\ Len(s) = Len(sent) + Len(msgs) /\ Len(sent) \in Nat
        /\ \A i \in 1 .. Len(sent) + Len(msgs) : s[i] = IF i <= Len(sent) THEN sent[i] ELSE msgs[i - Len(sent)]
    BY <1>12, <2>1, ConcatProperties
  <2>3. ASSUME NEW i \in 1 .. Len(s)
        PROVE  MaySay(s[i])
    <3>1. CASE i <= Len(sent)
      <4>1. i \in 1 .. Len(sent) /\ s[i] = sent[i]
        BY <1>2, <2>2, <3>1
      <4> QED
        BY <1>12, <4>1
    <3>2. CASE ~(i <= Len(sent))
      <4>1. i - Len(sent) \in 1 .. Len(msgs) /\ s[i] = msgs[i - Len(sent)]
        BY <1>2, <2>2, <3>2
      <4> QED
        BY <4>1
    <3> QED
      BY <3>1, <3>2
  <2> QED
    BY <2>1, <2>2, <2>3
<1> QED
  BY <1>8, <1>13, <1>14, <1>15, <1>16, Zenon DEF Understands
-----------------------------------------------------------------------------
(* What the connection is while it lasts.                                  *)
Lasting ==
  /\ session \in {"open", "closing", "closed"}
  /\ m_was_clean \in BOOLEAN /\ terminal \in BOOLEAN /\ aborted \in BOOLEAN

Conversing == Lasting /\ Understands(GetWebsocketVersion, sent, out)

(* What a handler of a frame leaves.                                       *)
GoesOn == Lasting' /\ Understands(GetWebsocketVersion, sent', out')

(* A step that changes nothing of the conversation.                        *)
LEMMA NothingDone ==
  ASSUME Conversing, UNCHANGED conversation
  PROVE  GoesOn
BY DEF Conversing, GoesOn, Lasting, conversation

(* A step that sends nothing.                                              *)
LEMMA NothingSent ==
  ASSUME Conversing, UNCHANGED <<sent, out>>, Lasting'
  PROVE  GoesOn
BY DEF Conversing, GoesOn

(* terminate sends nothing.                                                *)
LEMMA TerminateStep ==
  ASSUME Conversing, Terminate
  PROVE  GoesOn
<1>1. session' = "closed" /\ UNCHANGED <<m_was_clean, terminal, sent, out, aborted>>
  BY DEF Terminate
<1> QED
  BY <1>1 DEF Conversing, GoesOn, Lasting

(* One message is sent.                                                    *)
LEMMA QueueOne ==
  ASSUME Conversing, NEW m, MaySay(m), Encode(m) # <<>>, Queue(<<m>>), Lasting'
  PROVE  GoesOn
<1>1. PICK s : s = <<m>>
  OBVIOUS
<1>2. m \in Sent
  BY DEF MaySay
<1>3. s \in Seq(Sent) /\ Len(s) = 1 /\ s[1] = m
  BY <1>1, <1>2
<1>4. \A i \in 1 .. Len(s) : Encode(s[i]) # <<>> /\ MaySay(s[i])
  <2>1. \A i \in 1 .. Len(s) : i = 1
    BY <1>3
  <2> QED
    BY <1>3, <2>1, Zenon
<1>5. PICK v : v = GetWebsocketVersion
  OBVIOUS
<1>6. Queue(s) /\ Understands(v, sent, out)
  BY <1>1, <1>5 DEF Conversing
<1>7. Understands(v, sent', out')
  BY <1>3, <1>4, <1>5, <1>6, QueueUnderstood
<1> QED
  BY <1>5, <1>7 DEF GoesOn
-----------------------------------------------------------------------------
(* What the server says: pongs,                                            *)
LEMMA MayPong ==
  ASSUME NEW payload \in Seq(STRING)
  PROVE  MaySay([op |-> "PONG", payload |-> payload])
BY DEF MaySay, Sent

(* texts,                                                                  *)
LEMMA MayText ==
  ASSUME NEW payload \in Seq(STRING)
  PROVE  MaySay(Text(payload))
BY DEF MaySay, Sent, Text, Data

(* and closes with a code that may be on the wire.                         *)
LEMMA MayClose ==
  ASSUME NEW code \in Codes, LegalCode(code), NEW reason \in Seq(STRING)
  PROVE  MaySay(CloseMsg(code, reason))
<1>1. CloseMsg(code, reason) \in Sent
  BY DEF Sent, CloseMsg
<1>2. CloseMsg(code, reason).code = code
  BY DEF CloseMsg
<1> QED
  BY <1>1, <1>2 DEF MaySay

(* A pong is sent, unless hybi00 has none.                                 *)
LEMMA PongStep ==
  ASSUME Conversing, NEW payload \in Seq(STRING), Pong(payload)
  PROVE  GoesOn
<1>1. PICK m : m = [op |-> "PONG", payload |-> payload]
  OBVIOUS
<1>2. MaySay(m)
  BY <1>1, MayPong
<1>3. IF Encode(m) = <<>> THEN UNCHANGED <<sent, out>> ELSE Queue(<<m>>)
  BY <1>1 DEF Pong
<1>4. Lasting'
  BY DEF Pong, Conversing, Lasting
<1> QED
  BY <1>2, <1>3, <1>4, NothingSent, QueueOne

(* Nothing is sent.                                                        *)
LEMMA QueueNothing ==
  ASSUME Conversing, Queue(<<>>), Lasting'
  PROVE  GoesOn
<1>1. PICK e : e = <<>>
  OBVIOUS
<1>2. e \in Seq(Sent) /\ Len(e) = 0
  BY <1>1, EmptySeq
<1>3. \A i \in 1 .. Len(e) : Encode(e[i]) # <<>> /\ MaySay(e[i])
  BY <1>2
<1>4. PICK v : v = GetWebsocketVersion
  OBVIOUS
<1>5. Understands(v, sent', out')
  BY <1>1, <1>2, <1>3, <1>4, QueueUnderstood DEF Conversing
<1> QED
  BY <1>4, <1>5 DEF GoesOn

(* A close frame is sent, or refused.                                      *)
LEMMA CloseStep ==
  ASSUME Conversing, NEW code \in Codes, LegalCode(code), NEW reason \in Seq(STRING),
         NEW ack \in BOOLEAN, NEW last \in BOOLEAN, SendCloseFrame(<<>>, code, reason, ack, last)
  PROVE  GoesOn
<1>1. PICK m : m = CloseMsg(code, reason)
  OBVIOUS
<1>2. MaySay(m) /\ m \in Sent
  BY <1>1, MayClose DEF MaySay
<1>3. Append(<<>>, m) = <<m>>
  OBVIOUS
<1>4. CASE Encode(m) = <<>>
  <2>1. Queue(<<>>) /\ UNCHANGED <<session, m_was_clean, terminal, aborted>>
    BY <1>1, <1>4 DEF SendCloseFrame
  <2>2. Lasting'
    BY <2>1 DEF Conversing, Lasting
  <2> QED
    BY <2>1, <2>2, QueueNothing
<1>5. CASE Encode(m) # <<>>
  <2>1. /\ Queue(<<m>>) /\ session' = "closing" /\ aborted' = aborted
        /\ m_was_clean' = (m_was_clean \/ ack) /\ terminal' = (terminal \/ last)
    BY <1>1, <1>3, <1>5 DEF SendCloseFrame
  <2>2. session' \in {"open", "closing", "closed"} /\ aborted' \in BOOLEAN
    BY <2>1 DEF Conversing, Lasting
  <2>3. m_was_clean' \in BOOLEAN /\ terminal' \in BOOLEAN
    BY <2>1, Zenon DEF Conversing, Lasting
  <2> QED
    BY <1>2, <1>5, <2>1, <2>2, <2>3, QueueOne DEF Lasting
<1> QED
  BY <1>4, <1>5

(* The codes the server chooses are legal.                                 *)
LEMMA LegalCodes ==
  /\ 1000 \in Codes /\ 1001 \in Codes /\ 1002 \in Codes
  /\ LegalCode(1000) /\ LegalCode(1001) /\ LegalCode(1002)
<1>1. 1000 \in Codes /\ 1001 \in Codes /\ 1002 \in Codes
  BY ONLY CodesAssumption
<1>2. LegalCode(1000) /\ LegalCode(1001) /\ LegalCode(1002)
  BY ONLY DEF LegalCode
<1> QED
  BY ONLY <1>1, <1>2

(* Codes are numbers.                                                      *)
LEMMA CodesInt == ASSUME NEW c \in Codes PROVE c \in Int
BY ONLY WidthAssumption, c \in Codes

(* A code that is two bytes of something else is invalid.                  *)
LEMMA ValidCode ==
  ASSUME NEW c, ~Invalid(c)
  PROVE  c # 65535
BY DEF Invalid

(* A code that process_control_frame echoes may be sent.                   *)
LEMMA EchoedCode ==
  ASSUME NEW payload \in Seq(STRING), ~ExtractCode(payload).bad, ExtractCode(payload).code # NoStatus
  PROVE  ExtractCode(payload).code \in Codes /\ LegalCode(ExtractCode(payload).code)
<1>1. PICK code : code = Number(SubSeq(payload, 1, 2))
  OBVIOUS
<1>2. payload # <<>> /\ Len(payload) # 1
  BY DEF ExtractCode
<1>3. ExtractCode(payload) = [code |-> code, bad |-> Invalid(code) \/ Reserved(code)]
  BY <1>1, <1>2 DEF ExtractCode
<1>4. ExtractCode(payload).code = code /\ ~(Invalid(code) \/ Reserved(code))
  <2>1. ExtractCode(payload).code = code
    BY <1>3
  <2>2. ExtractCode(payload).bad = (Invalid(code) \/ Reserved(code))
    BY <1>3
  <2> QED
    BY <2>1, <2>2
<1>5. code \in Codes \/ code = 65535
  BY <1>1 DEF Number
<1>6. code # 65535
  BY <1>4, ValidCode
<1>7. code \in Codes /\ code \in Int
  <2>1. code \in Codes
    BY ONLY <1>5, <1>6
  <2> QED
    BY <2>1, CodesInt
<1>8. LegalCode(code)
  <2>1. ~(code <= 999) /\ ~(code >= 5000) /\ code # 1005 /\ code # 1006 /\ code # 1015
    BY <1>4 DEF Invalid, NoStatus
  <2>2. code \notin 1016 .. 2999 /\ code # 1004 /\ code # 1014
    BY <1>4 DEF Reserved
  <2> QED
    BY ONLY <1>7, <2>1, <2>2 DEF LegalCode
<1> QED
  BY <1>4, <1>7, <1>8

(* The reason of a close frame is text.                                    *)
LEMMA ReasonType ==
  ASSUME NEW payload \in Seq(STRING)
  PROVE  ExtractReason(payload).reason \in Seq(STRING)
<1>1. ExtractReason(payload).reason = SubSeq(payload, 3, Len(payload))
  BY DEF ExtractReason
<1>2. Len(payload) \in Int /\ \A i \in 3 .. Len(payload) : payload[i] \in STRING
  OBVIOUS
<1>3. SubSeq(payload, 3, Len(payload)) \in Seq(STRING)
  BY <1>2, SubSeqProperties
<1> QED
  BY <1>1, <1>3

(* The client closes, or acknowledges a close.                             *)
LEMMA ProcessCloseStep ==
  ASSUME Conversing, NEW payload \in Seq(STRING), ProcessClose(payload)
  PROVE  GoesOn
<1>1. Reason \in Seq(STRING) /\ <<>> \in Seq(STRING) /\ TRUE \in BOOLEAN
  BY ConversationAssumption, EmptySeq
<1>2. PICK remote : remote = ExtractCode(payload)
  OBVIOUS
<1>3. PICK why : why = ExtractReason(payload)
  OBVIOUS
<1>4. ASSUME NEW code \in Codes, LegalCode(code), NEW reason \in Seq(STRING), SendCloseAck(code, reason)
      PROVE  GoesOn
  BY <1>1, <1>4, CloseStep DEF SendCloseAck
<1>5. session \in {"open", "closing", "closed"}
  BY DEF Conversing, Lasting
<1>6. CASE session = "closed"
  BY <1>6, NothingDone, Zenon DEF ProcessClose
<1>7. CASE session # "closed" /\ (remote.bad \/ why.bad)
  <2>1. SendCloseAck(1002, Reason)
    BY <1>2, <1>3, <1>7 DEF ProcessClose
  <2> QED
    BY <1>1, <1>4, <2>1, LegalCodes
<1>8. CASE session = "open" /\ ~remote.bad /\ ~why.bad
  <2>1. CASE remote.code = NoStatus
    <3>1. SendCloseAck(1000, <<>>)
      BY <1>2, <1>3, <1>8, <2>1 DEF ProcessClose
    <3>2. PICK none \in Seq(STRING) : none = <<>>
      BY <1>1
    <3>3. SendCloseAck(1000, none)
      BY <3>1, <3>2
    <3> QED
      BY <1>4, <3>3, LegalCodes
  <2>2. CASE remote.code # NoStatus
    <3>1. SendCloseAck(remote.code, why.reason)
      BY <1>2, <1>3, <1>8, <2>2 DEF ProcessClose
    <3>2. remote.code \in Codes /\ LegalCode(remote.code)
      BY <1>2, <1>8, <2>2, EchoedCode
    <3>3. why.reason \in Seq(STRING)
      BY <1>3, ReasonType
    <3> QED
      BY <1>4, <3>1, <3>2, <3>3
  <2> QED
    BY <2>1, <2>2
<1>9. CASE session = "closing" /\ ~remote.bad /\ ~why.bad
  <2>1. CASE m_was_clean
    <3>1. UNCHANGED conversation
      BY <1>2, <1>3, <1>9, <2>1 DEF ProcessClose
    <3> QED
      BY <3>1, NothingDone
  <2>2. CASE ~m_was_clean
    <3>1. m_was_clean' = TRUE /\ session' = "closed" /\ UNCHANGED <<terminal, sent, out, aborted>>
      BY <1>2, <1>3, <1>9, <2>2 DEF ProcessClose
    <3>2. m_was_clean' \in BOOLEAN
      BY <3>1, Zenon
    <3>3. Lasting'
      BY <3>1, <3>2 DEF Conversing, Lasting
    <3> QED
      BY <3>1, <3>3, NothingSent
  <2> QED
    BY <2>1, <2>2
<1> QED
  BY <1>5, <1>6, <1>7, <1>8, <1>9

(* Several messages are sent at once.                                      *)
LEMMA QueueAll ==
  ASSUME Conversing, NEW msgs \in Seq(Sent),
         \A i \in 1 .. Len(msgs) : Encode(msgs[i]) # <<>> /\ MaySay(msgs[i]), Queue(msgs), Lasting'
  PROVE  GoesOn
<1>1. PICK v : v = GetWebsocketVersion
  OBVIOUS
<1>2. Understands(v, sent', out')
  BY <1>1, QueueUnderstood DEF Conversing
<1> QED
  BY <1>1, <1>2 DEF GoesOn

(* The last text is one that can be sent.                                  *)
LEMMA ByeEncoded == Encode(Text(Bye)) # <<>>
<1>1. PICK t : t = Bye
  OBVIOUS
<1>2. t \in Seq(STRING) /\ IsUtf8(t)
  BY <1>1, ConversationAssumption
<1>3. "TEXT" \in STRING /\ "TEXT" \in Data /\ "TEXT" \notin Control
  BY StringsAssumption DEF Data, Control
<1>4. CASE GetWebsocketVersion = 0
  <2>1. Encode(Text(t)) = Text00(t)
    BY <1>2, <1>3, <1>4 DEF Encode, Text, PrepareDataFrame00, Text00
  <2>2. <<>> \in Bytes0
    BY EmptySeq DEF Bytes0
  <2>3. Text00(t) # <<>>
    BY <1>2, <2>2, Text00Parts
  <2> QED
    BY <1>1, <2>1, <2>3
<1>5. CASE GetWebsocketVersion # 0
  <2>1. Encode(Text(t)) = FrameOf("TEXT", t)
    BY <1>2, <1>3, <1>5 DEF Encode, Text, PrepareDataFrame, FrameOf, HeaderOf
  <2>2. PICK n : n = Len(t)
    OBVIOUS
  <2>3. PICK h : h = HeaderOf("TEXT", n)
    OBVIOUS
  <2>4. n \in Nat
    BY <1>2, <2>2
  <2>5. h \in Bytes0 /\ Len(h) \in Nat /\ Len(h) >= 2
    <3>1. h \in Bytes0 /\ (n <= MaxBasic => Len(h) = 2) /\ (n > MaxBasic => Len(h) = 3)
      BY <1>3, <2>3, <2>4, Header
    <3> QED
      BY <2>4, <3>1, FramesAssumption
  <2>6. PICK p : p = Payload(t)
    OBVIOUS
  <2>7. p \in Bytes0
    BY <1>2, <2>6, PayloadType
  <2>8. Len(h \o p) = Len(h) + Len(p) /\ Len(p) \in Nat
    BY <2>5, <2>7, Added
  <2>9. h \o p # <<>>
    BY <2>5, <2>8, EmptySeq
  <2> QED
    BY <1>1, <2>1, <2>2, <2>3, <2>6, <2>9 DEF FrameOf
<1> QED
  BY <1>4, <1>5

(* The daemon says goodbye and closes.                                     *)
LEMMA QuitStep ==
  ASSUME Conversing, NEW code \in Codes, LegalCode(code), Close(<<Text(Bye)>>, code)
  PROVE  GoesOn
<1>1. PICK a, m : a = Text(Bye) /\ m = CloseMsg(code, Reason)
  OBVIOUS
<1>2. MaySay(a) /\ Encode(a) # <<>>
  <2>1. PICK t : t = Bye
    OBVIOUS
  <2>2. t \in Seq(STRING)
    BY <2>1, ConversationAssumption
  <2> QED
    BY <1>1, <2>1, <2>2, MayText, ByeEncoded
<1>3. MaySay(m)
  <2>1. Reason \in Seq(STRING)
    BY ConversationAssumption
  <2> QED
    BY <1>1, <2>1, MayClose
<1>4. a \in Sent /\ m \in Sent
  BY <1>2, <1>3 DEF MaySay
<1>5. CASE Encode(m) = <<>>
  <2>1. Queue(<<a>>) /\ UNCHANGED <<session, m_was_clean, terminal, aborted>>
    BY <1>1, <1>5 DEF Close, SendCloseFrame
  <2>2. Lasting'
    BY <2>1 DEF Conversing, Lasting
  <2> QED
    BY <1>2, <2>1, <2>2, QueueOne
<1>6. CASE Encode(m) # <<>>
  <2>1. /\ Queue(Append(<<a>>, m)) /\ session' = "closing" /\ aborted' = aborted
        /\ m_was_clean' = (m_was_clean \/ FALSE)
        /\ terminal' = (terminal \/ Terminal(code))
    BY <1>1, <1>6 DEF Close, SendCloseFrame
  <2>2. session' \in {"open", "closing", "closed"} /\ aborted' \in BOOLEAN
    BY <2>1 DEF Conversing, Lasting
  <2>3. m_was_clean' \in BOOLEAN /\ terminal' \in BOOLEAN
    BY <2>1, Zenon DEF Conversing, Lasting
  <2>4. PICK s : s = Append(<<a>>, m)
    OBVIOUS
  <2>5. s \in Seq(Sent) /\ Len(s) = 2 /\ s[1] = a /\ s[2] = m
    BY ONLY <1>4, <2>4
  <2>6. ASSUME NEW i \in 1 .. Len(s)
        PROVE  Encode(s[i]) # <<>> /\ MaySay(s[i])
    <3>1. i = 1 \/ i = 2
      BY ONLY <2>5, i \in 1 .. Len(s)
    <3>2. s[i] = a \/ s[i] = m
      BY ONLY <2>5, <3>1
    <3> QED
      BY <1>2, <1>3, <1>6, <3>2, Zenon
  <2> QED
    BY <2>1, <2>2, <2>3, <2>4, <2>5, <2>6, QueueAll DEF Lasting
<1> QED
  BY <1>5, <1>6

(* The daemon answers with texts, or stops at the first it cannot send.    *)
LEMMA GreetingStep ==
  ASSUME Conversing, NEW greeting \in Greetings, SendAll(greeting)
  PROVE  GoesOn
<1>1. PICK all : all = greeting
  OBVIOUS
<1>2. all \in Seq([op : Data, payload : Seq(STRING)])
  BY <1>1, ConversationAssumption
<1>3. Len(all) \in Nat /\ DOMAIN all = 1 .. Len(all) /\ \A i \in 1 .. Len(all) : all[i] \in [op : Data, payload : Seq(STRING)]
  <2>1. PICK T : T = [op : Data, payload : Seq(STRING)]
    OBVIOUS
  <2>2. all \in Seq(T)
    BY <1>2, <2>1
  <2>3. Len(all) \in Nat /\ DOMAIN all = 1 .. Len(all) /\ \A i \in 1 .. Len(all) : all[i] \in T
    BY ONLY <2>2
  <2> QED
    BY <2>1, <2>3
<1>4. \A m \in [op : Data, payload : Seq(STRING)] : MaySay(m)
  BY DEF MaySay, Sent, Data
<1>5. all \in Seq(Sent) /\ \A i \in 1 .. Len(all) : MaySay(all[i])
  <2>1. \A i \in 1 .. Len(all) : MaySay(all[i])
    BY <1>3, <1>4
  <2>2. \A i \in 1 .. Len(all) : all[i] \in Sent
    BY <2>1 DEF MaySay
  <2>3. all = [i \in 1 .. Len(all) |-> all[i]]
    <3>1. PICK T : T = [op : Data, payload : Seq(STRING)]
      OBVIOUS
    <3>2. all \in Seq(T)
      BY <1>2, <3>1
    <3> QED
      BY ONLY <3>2
  <2>4. all \in Seq(Sent)
    BY ONLY <1>3, <2>2, <2>3, SeqEqual2
  <2> QED
    BY <2>1, <2>4
<1>6. PICK refused : refused = {i \in 1 .. Len(all) : Encode(all[i]) = <<>>}
  OBVIOUS
<1>7. /\ Queue(IF refused = {} THEN all ELSE SubSeq(all, 1, Min(refused) - 1))
      /\ aborted' = (refused # {}) /\ UNCHANGED <<session, m_was_clean, terminal>>
  BY <1>1, <1>3, <1>6 DEF SendAll
<1>8. Lasting'
  <2>1. aborted' \in BOOLEAN
    BY <1>7, Zenon
  <2> QED
    BY <1>7, <2>1 DEF Conversing, Lasting
<1>9. CASE refused = {}
  <2>1. \A i \in 1 .. Len(all) : Encode(all[i]) # <<>> /\ MaySay(all[i])
    BY <1>5, <1>6, <1>9
  <2>2. Queue(all)
    BY <1>7, <1>9
  <2> QED
    BY <1>5, <1>8, <2>1, <2>2, QueueAll
<1>10. CASE refused # {}
  <2>1. PICK n : n = Min(refused)
    OBVIOUS
  <2>2. refused \subseteq Nat
    BY <1>6
  <2>3. n \in refused /\ n \in 1 .. Len(all) /\ \A i \in refused : n <= i
    BY <1>6, <1>10, <2>1, <2>2, MinExists
  <2>4. PICK s : s = SubSeq(all, 1, n - 1)
    OBVIOUS
  <2>5. s \in Seq(Sent) /\ Len(s) = n - 1 /\ \A i \in 1 .. n - 1 : s[i] = all[i] /\ i \in 1 .. Len(all) /\ i \notin refused
    <3>1. \A i \in 1 .. n - 1 : all[i] \in Sent /\ i \in 1 .. Len(all)
      BY <1>3, <1>5, <2>3
    <3>2. 1 \in Int /\ n - 1 \in Int
      BY <2>3
    <3>3. s \in Seq(Sent) /\ Len(s) = (IF 1 <= n - 1 THEN (n - 1) - 1 + 1 ELSE 0)
          /\ \A i \in 1 .. (n - 1) - 1 + 1 : s[i] = all[1 + i - 1]
      BY ONLY <2>4, <3>1, <3>2, SubSeqProperties
    <3>4. Len(s) = n - 1 /\ \A i \in 1 .. n - 1 : s[i] = all[i]
      BY ONLY <1>3, <2>3, <3>3
    <3>5. \A i \in 1 .. n - 1 : i \notin refused
      BY ONLY <1>3, <2>3
    <3> QED
      BY <3>1, <3>3, <3>4, <3>5
  <2>6. \A i \in 1 .. Len(s) : Encode(s[i]) # <<>> /\ MaySay(s[i])
    BY <1>5, <1>6, <2>5
  <2>7. Queue(s)
    BY <1>7, <1>10, <2>1, <2>4
  <2> QED
    BY <1>8, <2>5, <2>6, <2>7, QueueAll
<1> QED
  BY <1>9, <1>10

(* A message of the client's.                                              *)
LEMMA OnMessageStep ==
  ASSUME Conversing, NEW payload, OnMessage(payload)
  PROVE  GoesOn
<1>1. CASE payload = Ready
  <2>1. \E greeting \in Greetings : SendAll(greeting)
    BY <1>1 DEF OnMessage
  <2> QED
    BY <2>1, GreetingStep
<1>2. CASE payload # Ready /\ payload = Quit
  <2>1. PICK code : code = 1001
    OBVIOUS
  <2>2. Close(<<Text(Bye)>>, code)
    BY <1>2, <2>1 DEF OnMessage
  <2>3. code \in Codes /\ LegalCode(code)
    BY <2>1, LegalCodes
  <2> QED
    BY <2>2, <2>3, QuitStep
<1>3. CASE payload # Ready /\ payload # Quit
  BY <1>3, NothingDone DEF OnMessage
<1> QED
  BY <1>1, <1>2, <1>3

(* Any message: a text, a ping, a close.                                   *)
LEMMA DispatchStep ==
  ASSUME Conversing, NEW msg \in Message, Dispatch(msg)
  PROVE  GoesOn
<1>1. msg.payload \in Seq(STRING)
  BY DEF Message
<1>2. CASE msg.op = "CLOSE"
  <2>1. ProcessClose(msg.payload)
    BY <1>2 DEF Dispatch, Data
  <2> QED
    BY <1>1, <2>1, ProcessCloseStep
<1>3. CASE msg.op = "PING" /\ session = "open"
  <2>1. Pong(msg.payload)
    BY <1>3 DEF Dispatch, Data
  <2> QED
    BY <1>1, <2>1, PongStep
<1>4. CASE msg.op \in Data /\ session = "open"
  <2>1. OnMessage(msg.payload)
    BY <1>4 DEF Dispatch, Data
  <2> QED
    BY <2>1, OnMessageStep
<1>5. CASE msg.op # "CLOSE" /\ ~(msg.op = "PING" /\ session = "open") /\ ~(msg.op \in Data /\ session = "open")
  <2>1. UNCHANGED conversation
    BY <1>5 DEF Dispatch
  <2> QED
    BY <2>1, NothingDone
<1> QED
  BY <1>2, <1>3, <1>4, <1>5

(* The code that an error is answered with may be on the wire.             *)
LEMMA ToWsIs ==
  ASSUME NEW error
  PROVE  ToWs(error) \in Codes /\ LegalCode(ToWs(error)) /\ Terminal(ToWs(error)) \in BOOLEAN
<1>1. ToWs(error) \in {1002, 1007, 1009, 1011}
  BY DEF ToWs
<1>2. {1002, 1007, 1009, 1011} \subseteq Codes
  BY CodesAssumption
<1>3. \A c \in {1002, 1007, 1009, 1011} : LegalCode(c)
  BY DEF LegalCode
<1>4. \A c : Terminal(c) \in BOOLEAN
  BY DEF Terminal
<1> QED
  BY <1>1, <1>2, <1>3, <1>4

(* A frame that is refused.                                                *)
LEMMA ConsumeErrorStep ==
  ASSUME Conversing, NEW error, ConsumeError(error)
  PROVE  GoesOn
<1>1. PICK code : code = ToWs(error)
  OBVIOUS
<1>2. code \in Codes /\ LegalCode(code) /\ Terminal(code) \in BOOLEAN /\ FALSE \in BOOLEAN
  BY <1>1, ToWsIs
<1>3. Reason \in Seq(STRING)
  BY ConversationAssumption
<1>4. SendCloseFrame(<<>>, code, Reason, FALSE, Terminal(code)) \/ Terminate
  BY <1>1 DEF ConsumeError, Close
<1> QED
  BY <1>2, <1>3, <1>4, CloseStep, TerminateStep
-----------------------------------------------------------------------------
(* What close frames have set.                                             *)
Flags == m_was_clean \in BOOLEAN /\ terminal \in BOOLEAN /\ aborted \in BOOLEAN

(* All that has been written is understood; before the answer nothing has. *)
TalkIInv == Silent /\ Flags /\ (m_response = 101 => Conversing)

(* At first.                                                               *)
LEMMA InitTalk ==
  ASSUME ConversationInit
  PROVE  TalkIInv
<1>1. m_was_clean = FALSE /\ terminal = FALSE /\ aborted = FALSE /\ m_response = 0
      /\ session = "connecting" /\ sent = <<>> /\ out = <<>>
  BY Zenon DEF ConversationInit, Init
<1>2. Flags
  BY <1>1, Zenon DEF Flags
<1>3. m_response # 101
  BY <1>1
<1> QED
  BY <1>1, <1>2, <1>3 DEF TalkIInv, Silent

(* A step of the request: what has been said stays nothing.                *)
LEMMA RequestTalk ==
  ASSUME TalkIInv, m_response = 0, UNCHANGED <<m_was_clean, terminal, sent, out, aborted>>,
         session' = IF m_response' = 101 THEN "open" ELSE session
  PROVE  TalkIInv'
<1>1. session = "connecting" /\ sent = <<>> /\ out = <<>>
  BY DEF TalkIInv, Silent
<1>2. Flags'
  BY DEF TalkIInv, Flags
<1>3. Silent'
  BY <1>1 DEF Silent
<1>4. ASSUME m_response' = 101
      PROVE  Conversing'
  <2>1. sent' = <<>> /\ out' = <<>> /\ session' = "open"
    BY <1>1, <1>4
  <2>2. PICK v : v = GetWebsocketVersion'
    OBVIOUS
  <2>3. PICK s, o : s = sent' /\ o = out'
    OBVIOUS
  <2>4. s = <<>> /\ o = <<>>
    BY <2>1, <2>3
  <2>5. Understands(v, s, o)
    BY <2>4, UnderstandsNothing
  <2>6. Understands(GetWebsocketVersion', sent', out')
    BY <2>2, <2>3, <2>5
  <2>7. Lasting'
    BY <1>2, <2>1 DEF Lasting, Flags
  <2> QED
    BY <2>6, <2>7 DEF Conversing
<1> QED
  BY <1>2, <1>3, <1>4 DEF TalkIInv

(* The connection and the version stay what they are while frames come.    *)
LEMMA FrameTalk ==
  ASSUME TalkIInv, m_response = 101, m_response' = 101, m_headers' = m_headers, GoesOn
  PROVE  TalkIInv'
<1>1. GetWebsocketVersion' = GetWebsocketVersion
  BY DEF GetWebsocketVersion
<1>2. Conversing'
  <2>1. Lasting' /\ Understands(GetWebsocketVersion, sent', out')
    BY DEF GoesOn
  <2>2. PICK v : v = GetWebsocketVersion
    OBVIOUS
  <2>3. PICK s, o : s = sent' /\ o = out'
    OBVIOUS
  <2>4. Understands(v, s, o)
    BY <2>1, <2>2, <2>3
  <2>5. Understands(GetWebsocketVersion', sent', out')
    BY <1>1, <2>2, <2>3, <2>4
  <2> QED
    BY <2>1, <2>5 DEF Conversing
<1>3. Flags'
  BY DEF GoesOn, Lasting, Flags
<1> QED
  BY <1>2, <1>3 DEF TalkIInv, Silent

(* A turn of the loop delivers nothing, or a message.                      *)
LEMMA Delivery ==
  ASSUME Frame, FramesIInv
  PROVE  delivered' = delivered \/ (delivered' \in Seq(Message) /\ Len(delivered') \in Nat \ {0})
<1>1. FramesIInv' /\ delivered \in Seq(Message)
  BY FrameStepFrames DEF FramesIInv, MessageType
<1>2. PICK d : d = delivered'
  OBVIOUS
<1>3. d \in Seq(Message)
  BY <1>1, <1>2 DEF FramesIInv, MessageType
<1>4. delivered' = delivered \/ \E m : delivered' = Append(delivered, m)
  BY Zenon DEF Frame, ConsumeFrames, ConsumeHybi00, HeaderBasic, HeaderExtended, Application, GetMessage,
               Header00, Payload00, GetMessage00
<1>5. ASSUME NEW m, d = Append(delivered, m)
      PROVE  Len(d) \in Nat \ {0}
  <2>1. Len(d) = Len(delivered) + 1
    BY <1>1, <1>5
  <2> QED
    BY <1>1, <2>1
<1> QED
  BY <1>2, <1>3, <1>4, <1>5

(* A turn of the loop, with what the daemon does about it.                 *)
LEMMA FrameStepTalk ==
  ASSUME FramesIInv, TalkIInv, FrameStep
  PROVE  TalkIInv'
<1>1. Frame /\ m_response = 101 /\ m_response' = 101 /\ m_headers' = m_headers /\ Conversing
  BY DEF FrameStep, Frame, request, TalkIInv
<1>2. CASE ec' # "none"
  <2>1. ConsumeError(ec')
    BY <1>2 DEF FrameStep
  <2>2. PICK error : error = ec'
    OBVIOUS
  <2>3. ConsumeError(error)
    BY <2>1, <2>2
  <2>4. GoesOn
    BY <1>1, <2>3, ConsumeErrorStep
  <2> QED
    BY <1>1, <2>4, FrameTalk
<1>3. CASE ec' = "none" /\ delivered' # delivered
  <2>1. Dispatch(Last(delivered'))
    BY <1>3 DEF FrameStep
  <2>2. PICK d : d = delivered'
    OBVIOUS
  <2>3. d \in Seq(Message) /\ Len(d) \in Nat \ {0}
    BY <1>1, <1>3, <2>2, Delivery
  <2>4. Last(d) \in Message
    BY <2>3 DEF Last
  <2>5. PICK msg \in Message : msg = Last(d)
    BY <2>4
  <2>6. Dispatch(msg)
    BY <2>1, <2>2, <2>5
  <2>7. GoesOn
    BY <1>1, <2>6, DispatchStep
  <2> QED
    BY <1>1, <2>7, FrameTalk
<1>4. CASE ec' = "none" /\ delivered' = delivered
  <2>1. UNCHANGED conversation
    BY <1>4 DEF FrameStep
  <2>2. GoesOn
    BY <1>1, <2>1, NothingDone
  <2> QED
    BY <1>1, <2>2, FrameTalk
<1> QED
  BY <1>2, <1>3, <1>4

(* Every step.                                                             *)
LEMMA TalkNext ==
  ASSUME FramesIInv, TalkIInv, [ConversationNext]_<<vars, conversation>>
  PROVE  TalkIInv'
<1>1. CASE UNCHANGED <<vars, conversation>>
  <2>1. UNCHANGED <<m_response, m_headers, session, m_was_clean, terminal, sent, out, aborted>>
    BY <1>1 DEF vars, request, conversation
  <2>2. CASE m_response = 101
    <3>1. Conversing /\ UNCHANGED conversation
      BY <2>1, <2>2 DEF TalkIInv, conversation
    <3> QED
      BY <2>1, <2>2, <3>1, NothingDone, FrameTalk
  <2>3. CASE m_response # 101
    BY <2>1, <2>3 DEF TalkIInv, Silent, Flags
  <2> QED
    BY <2>2, <2>3
<1>2. ASSUME NEW n \in 1 .. Min({MaxRead, Len(input)}), ReadMore(n)
      PROVE  TalkIInv'
  <2>1. m_response = 101 /\ m_response' = 101 /\ m_headers' = m_headers /\ Conversing /\ UNCHANGED conversation
    BY <1>2 DEF ReadMore, ReadFrames, request, TalkIInv
  <2> QED
    BY <2>1, NothingDone, FrameTalk
<1>3. CASE \/ \E n \in 1 .. Min({MaxRead, Len(input)}) : OfRequest(ReadRequest(n)) \/ OfRequest(ReadBody(n))
           \/ OfRequest(OutOfBytes) \/ OfRequest(Process) \/ OfRequest(ProcessHeader)
           \/ OfRequest(BlankLine) \/ OfRequest(ProcessBody) \/ OfRequest(Respond)
  <2>1. m_response = 0
    BY <1>3 DEF OfRequest, ReadRequest, ReadBody, OutOfBytes, Process, ProcessHeader, Line, Request,
                BlankLine, ProcessBody, Respond
  <2>2. /\ session' = IF m_response' = 101 THEN "open" ELSE session
        /\ UNCHANGED <<m_was_clean, terminal, sent, out, aborted>>
    BY <1>3 DEF OfRequest
  <2> QED
    BY <2>1, <2>2, RequestTalk
<1>4. CASE FrameStep
  BY <1>4, FrameStepTalk
<1>5. CASE Drop
  <2>1. /\ session = "closing" /\ Terminate /\ UNCHANGED <<m_response, m_headers>>
    BY <1>5 DEF Drop, vars, request
  <2>2. m_response = 101 /\ Conversing
    BY <2>1 DEF TalkIInv, Silent
  <2> QED
    BY <2>1, <2>2, TerminateStep, FrameTalk
<1>6. CASE ConversationNext
  BY <1>2, <1>3, <1>4, <1>5, <1>6 DEF ConversationNext
<1> QED
  BY <1>1, <1>6

(* In every behaviour.                                                     *)
LEMMA TalkInvariant == Spec => []TalkIInv
<1>1. ConversationInit => FramesIInv /\ Body /\ TalkIInv
  BY InitFrames, InitBody, InitTalk
<1>2. FramesIInv /\ Body /\ TalkIInv /\ [ConversationNext]_<<vars, conversation>> => (FramesIInv /\ Body /\ TalkIInv)'
  BY FramesNext, TalkNext
<1> QED
  BY <1>1, <1>2, PTL DEF Spec

(* What is understood is read as what was said.                            *)
LEMMA UnderstandsAll ==
  ASSUME NEW v, NEW msgs, NEW bytes, Understands(v, msgs, bytes)
  PROVE  ReadsBy(v)[bytes] = SaidTo(v, msgs)
<1>1. PICK reads, said : reads = ReadsBy(v) /\ said = SaidTo(v, msgs)
  OBVIOUS
<1>2. bytes \in Bytes0 /\ Appends(reads, bytes, said) /\ said \in Seq(Seen)
  BY <1>1, SeenByType DEF Understands
<1>3. <<>> \in Bytes0 /\ <<>> \in Seq(Seen)
  BY EmptySeq DEF Bytes0
<1>4. reads[<<>>] = <<>>
  BY <1>1, ReadsNothing
<1>5. reads[bytes \o <<>>] = said \o <<>>
  <2>1. PICK e : e = <<>>
    OBVIOUS
  <2>2. e \in Bytes0 /\ e \in Seq(Seen) /\ reads[e] = e
    BY <1>3, <1>4, <2>1
  <2>3. reads[bytes \o e] = said \o e
    BY ONLY <1>2, <2>2 DEF Appends
  <2> QED
    BY <2>1, <2>3
<1>6. bytes \o <<>> = bytes /\ said \o <<>> = said
  BY <1>2, ConcatEmptySeq DEF Bytes0
<1> QED
  BY <1>1, <1>5, <1>6, Zenon

(* Whatever a client sends and in whatever pieces it arrives, a client     *)
(* that follows the protocol to the letter can read everything the         *)
(* connection has written, and reads just what was said: pongs, texts and  *)
(* closes with the payload, code and reason they were given, no close      *)
(* frame with a code that must not be on the wire, in both protocols.      *)
THEOREM ClientsUnderstand == Spec => []Understood
<1>1. TalkIInv => Understood
  <2> SUFFICES ASSUME TalkIInv
               PROVE  Understood
    OBVIOUS
  <2>1. PICK v : v = GetWebsocketVersion
    OBVIOUS
  <2>2. Understands(v, sent, out)
    <3>1. CASE m_response = 101
      BY <2>1, <3>1 DEF TalkIInv, Conversing
    <3>2. CASE m_response # 101
      <4>1. sent = <<>> /\ out = <<>>
        BY <3>2 DEF TalkIInv, Silent
      <4> QED
        BY <4>1, UnderstandsNothing
    <3> QED
      BY <3>1, <3>2
  <2>3. ReadsBy(v)[out] = SaidTo(v, sent) /\ sent \in Seq(Sent)
    BY <2>2, UnderstandsAll DEF Understands
  <2>4. DOMAIN sent = 1 .. Len(sent) /\ sent = [i \in DOMAIN sent |-> sent[i]]
    BY ONLY <2>3
  <2>5. \A i \in DOMAIN sent : sent[i].op = "CLOSE" => LegalCode(sent[i].code)
    <3>1. \A i \in 1 .. Len(sent) : MaySay(sent[i])
      BY <2>2 DEF Understands
    <3> QED
      BY <2>4, <3>1 DEF MaySay
  <2>6. CASE v = 0
    <3>1. SaidTo(v, sent) = [i \in DOMAIN sent |-> IF sent[i].op = "CLOSE" THEN [op |-> "CLOSE"] ELSE sent[i]]
      BY <2>6 DEF SaidTo, SeenBy
    <3>2. ClientReads00[out] = [i \in DOMAIN sent |-> IF sent[i].op = "CLOSE" THEN [op |-> "CLOSE"] ELSE sent[i]]
      BY <2>3, <2>6, <3>1 DEF ReadsBy
    <3> QED
      BY <2>1, <2>5, <2>6, <3>2 DEF Understood
  <2>7. CASE v # 0
    <3>1. SaidTo(v, sent) = [i \in DOMAIN sent |-> sent[i]]
      BY <2>7 DEF SaidTo, SeenBy
    <3>2. ClientReads[out] = sent
      BY <2>3, <2>4, <2>7, <3>1 DEF ReadsBy
    <3> QED
      BY <2>1, <2>5, <2>7, <3>2 DEF Understood
  <2> QED
    BY <2>6, <2>7
<1> QED
  BY <1>1, TalkInvariant, PTL
-----------------------------------------------------------------------------
(* What Payloads does with a message.                                      *)
Gather(op, texts, m) == IF m.op = op THEN Append(texts, m.payload) ELSE texts

(* g is the fold of t from s, on all subsets of 1 .. n.                    *)
Gathers(g, n, op, t) ==
  g = [x \in SUBSET (1 .. n) |-> IF x = {} THEN <<>> ELSE Gather(op, g[x \ {Max(x)}], t[Max(x)])]

(* The fold behind Payloads, written out.                                  *)
LEMMA PayloadsIsFold ==
  ASSUME NEW op, NEW t, Len(t) \in Nat, DOMAIN t = 1 .. Len(t)
  PROVE  Payloads(t, op) = (CHOOSE g : Gathers(g, Len(t), op, t))[1 .. Len(t)]
<1>1. DOMAIN t = 1 .. Len(t)
  OBVIOUS
<1>2. Payloads(t, op) = (CHOOSE g : g = [x \in SUBSET DOMAIN t |->
                         IF x = {} THEN <<>> ELSE Gather(op, g[x \ {Max(x)}], t[Max(x)])])[DOMAIN t]
  BY Zenon DEF Payloads, Gather, FoldLeft, MapThenFoldSet
<1> QED
  BY <1>1, <1>2, Zenon DEF Gathers

(* That fold exists, for every length: by induction on the length.         *)
LEMMA GatherExists ==
  ASSUME NEW op, NEW t
  PROVE  \A n \in Nat : \E g : Gathers(g, n, op, t)
<1> DEFINE S == {n \in Nat : \E g : Gathers(g, n, op, t)}
<1>1. 0 \in S
  <2>1. SUBSET (1 .. 0) = {{}}
    OBVIOUS
  <2>2. Gathers([x \in SUBSET (1 .. 0) |-> <<>>], 0, op, t)
    BY <2>1 DEF Gathers
  <2> QED
    BY <2>2
<1>2. ASSUME NEW n \in Nat, n \in S
      PROVE  n + 1 \in S
  <2>1. PICK g : Gathers(g, n, op, t)
    BY <1>2
  <2>2. \A x \in SUBSET (1 .. n) : g[x] = IF x = {} THEN <<>> ELSE Gather(op, g[x \ {Max(x)}], t[Max(x)])
    BY <2>1 DEF Gathers
  <2> DEFINE h == [x \in SUBSET (1 .. n + 1) |->
                     IF n + 1 \in x THEN Gather(op, g[x \ {n + 1}], t[n + 1]) ELSE g[x]]
  <2>3. ASSUME NEW x \in SUBSET (1 .. n + 1)
        PROVE  h[x] = IF x = {} THEN <<>> ELSE Gather(op, h[x \ {Max(x)}], t[Max(x)])
    <3>1. CASE n + 1 \in x
      <4>1. Max(x) = n + 1
        <5>1. \A y \in x : y <= n + 1 /\ y \in Int
          OBVIOUS
        <5> QED
          BY <3>1, <5>1, MaxIs
      <4>2. x \ {n + 1} \in SUBSET (1 .. n + 1) /\ n + 1 \notin x \ {n + 1}
        OBVIOUS
      <4>3. h[x \ {n + 1}] = g[x \ {n + 1}]
        BY <4>2
      <4> QED
        BY <3>1, <4>1, <4>3
    <3>2. CASE n + 1 \notin x
      <4>1. x \in SUBSET (1 .. n) /\ x \ {Max(x)} \in SUBSET (1 .. n + 1) /\ n + 1 \notin x \ {Max(x)}
        <5>1. \A y \in x : y \in 1 .. n + 1 /\ y # n + 1
          BY <3>2
        <5>2. \A y \in 1 .. n + 1 : y # n + 1 => y \in 1 .. n
          OBVIOUS
        <5> QED
          BY <3>2, <5>1, <5>2
      <4>2. h[x] = g[x] /\ h[x \ {Max(x)}] = g[x \ {Max(x)}]
        BY <3>2, <4>1
      <4> QED
        BY <2>2, <4>1, <4>2
    <3> QED
      BY <3>1, <3>2
  <2>4. Gathers(h, n + 1, op, t)
    <3>1. h = [x \in SUBSET (1 .. n + 1) |-> h[x]]
      OBVIOUS
    <3> HIDE DEF h
    <3> QED
      BY <2>3, <3>1 DEF Gathers
  <2> HIDE DEF h
  <2> QED
    BY <2>4
<1> HIDE DEF S
<1>3. Nat \subseteq S
  BY <1>1, <1>2, SetInduction
<1> QED
  BY <1>3 DEF S

(* Payloads takes a message at a time.                                     *)
LEMMA PayloadsRun ==
  ASSUME NEW op, NEW t, Len(t) \in Nat, DOMAIN t = 1 .. Len(t)
  PROVE  \E d : d[0] = <<>> /\ d[Len(t)] = Payloads(t, op) /\ \A i \in 1 .. Len(t) : d[i] = Gather(op, d[i - 1], t[i])
<1>1. Len(t) \in Nat
  OBVIOUS
<1> DEFINE g == CHOOSE g : Gathers(g, Len(t), op, t)
<1>2. Gathers(g, Len(t), op, t)
  BY <1>1, GatherExists
<1>3. Payloads(t, op) = g[1 .. Len(t)]
  BY PayloadsIsFold
<1> HIDE DEF g
<1>4. \A x \in SUBSET (1 .. Len(t)) : g[x] = IF x = {} THEN <<>> ELSE Gather(op, g[x \ {Max(x)}], t[Max(x)])
  BY <1>2 DEF Gathers
<1>5. ASSUME NEW i \in 1 .. Len(t)
      PROVE  g[1 .. i] = Gather(op, g[1 .. i - 1], t[i])
  <2>1. i \in 1 .. i /\ 1 .. i \subseteq Int /\ \A y \in 1 .. i : y <= i
    OBVIOUS
  <2>2. Max(1 .. i) = i
    BY <2>1, MaxIs
  <2>3. (1 .. i) \ {i} = 1 .. i - 1
    OBVIOUS
  <2>4. 1 .. i \in SUBSET (1 .. Len(t)) /\ 1 .. i # {}
    <3>1. \A y \in 1 .. i : y \in 1 .. Len(t)
      BY <1>1
    <3> QED
      BY <2>1, <3>1
  <2>5. g[1 .. i] = Gather(op, g[(1 .. i) \ {Max(1 .. i)}], t[Max(1 .. i)])
    BY ONLY <1>4, <2>4
  <2> QED
    BY ONLY <2>2, <2>3, <2>5
<1>6. g[1 .. 0] = <<>>
  <2>1. 1 .. 0 \in SUBSET (1 .. Len(t)) /\ 1 .. 0 = {}
    OBVIOUS
  <2> QED
    BY ONLY <1>4, <2>1
<1> DEFINE d == [i \in 0 .. Len(t) |-> g[1 .. i]]
<1>7. d[0] = <<>> /\ d[Len(t)] = Payloads(t, op)
  BY <1>1, <1>3, <1>6
<1>8. \A i \in 1 .. Len(t) : d[i] = Gather(op, d[i - 1], t[i])
  BY <1>1, <1>5
<1> HIDE DEF d
<1> QED
  BY <1>7, <1>8

(* What is gathered of messages goes on with that of those behind them.    *)
LEMMA PayloadsOfBoth ==
  ASSUME NEW T, NEW op, NEW t \in Seq(T), NEW u \in Seq(T)
  PROVE  \E d : /\ d[Len(t)] = Payloads(t, op) /\ d[Len(t) + Len(u)] = Payloads(t \o u, op)
                /\ \A i \in 1 .. Len(u) : d[Len(t) + i] = Gather(op, d[Len(t) + i - 1], u[i])
<1>1. /\ Len(t) \in Nat /\ DOMAIN t = 1 .. Len(t) /\ Len(u) \in Nat
      /\ t \o u \in Seq(T) /\ Len(t \o u) = Len(t) + Len(u)
      /\ \A i \in 1 .. Len(t) : (t \o u)[i] = t[i]
      /\ \A i \in 1 .. Len(u) : (t \o u)[Len(t) + i] = u[i]
  OBVIOUS
<1>2. DOMAIN (t \o u) = 1 .. Len(t \o u) /\ Len(t \o u) \in Nat
  BY <1>1
<1>3. PICK c : /\ c[0] = <<>> /\ c[Len(t)] = Payloads(t, op)
               /\ \A i \in 1 .. Len(t) : c[i] = Gather(op, c[i - 1], t[i])
  BY <1>1, PayloadsRun
<1>4. PICK d : /\ d[0] = <<>> /\ d[Len(t \o u)] = Payloads(t \o u, op)
               /\ \A i \in 1 .. Len(t \o u) : d[i] = Gather(op, d[i - 1], (t \o u)[i])
  <2>1. PICK x : x = t \o u
    OBVIOUS
  <2>2. Len(x) \in Nat /\ DOMAIN x = 1 .. Len(x)
    BY <1>2, <2>1
  <2>3. \E d : /\ d[0] = <<>> /\ d[Len(x)] = Payloads(x, op)
               /\ \A i \in 1 .. Len(x) : d[i] = Gather(op, d[i - 1], x[i])
    BY <2>2, PayloadsRun
  <2> QED
    BY <2>1, <2>3
<1> DEFINE S == {i \in Nat : i <= Len(t) => d[i] = c[i]}
<1>5. 0 \in S
  BY <1>3, <1>4
<1>6. ASSUME NEW i \in Nat, i \in S
      PROVE  i + 1 \in S
  <2> SUFFICES ASSUME i + 1 <= Len(t) PROVE d[i + 1] = c[i + 1]
    OBVIOUS
  <2>1. i + 1 \in 1 .. Len(t) /\ i + 1 \in 1 .. Len(t \o u) /\ i + 1 - 1 = i /\ d[i] = c[i]
    BY <1>1, <1>6
  <2>2. d[i + 1] = Gather(op, d[i], (t \o u)[i + 1]) /\ c[i + 1] = Gather(op, c[i], t[i + 1])
    BY <1>3, <1>4, <2>1
  <2> QED
    BY <1>1, <2>1, <2>2
<1> HIDE DEF S
<1>7. Nat \subseteq S
  BY <1>5, <1>6, SetInduction
<1>8. d[Len(t)] = Payloads(t, op)
  BY <1>1, <1>3, <1>7 DEF S
<1>9. ASSUME NEW i \in 1 .. Len(u)
      PROVE  d[Len(t) + i] = Gather(op, d[Len(t) + i - 1], u[i])
  <2>1. Len(t) + i \in 1 .. Len(t \o u)
    BY <1>1
  <2> QED
    BY <1>1, <1>4, <2>1
<1> QED
  BY <1>1, <1>4, <1>8, <1>9

(* Of no messages,                                                         *)
LEMMA PayloadsOfNone ==
  ASSUME NEW op PROVE Payloads(<<>>, op) = <<>>
<1>1. PICK t : t = <<>>
  OBVIOUS
<1>2. Len(t) = 0 /\ DOMAIN t = 1 .. Len(t)
  BY <1>1
<1>3. PICK c : c[0] = <<>> /\ c[Len(t)] = Payloads(t, op)
  BY <1>2, PayloadsRun
<1> QED
  BY <1>1, <1>2, <1>3

(* and of one more.                                                        *)
LEMMA PayloadsOfOne ==
  ASSUME NEW T, NEW op, NEW t \in Seq(T), NEW m \in T
  PROVE  Payloads(Append(t, m), op) = Gather(op, Payloads(t, op), m)
<1>1. PICK u : u = <<m>>
  OBVIOUS
<1>2. u \in Seq(T)
  BY <1>1
<1>3. Len(u) = 1 /\ u[1] = m /\ Append(t, m) = t \o u /\ Len(t) \in Nat
  BY <1>1
<1>4. PICK d : /\ d[Len(t)] = Payloads(t, op) /\ d[Len(t) + Len(u)] = Payloads(t \o u, op)
               /\ \A i \in 1 .. Len(u) : d[Len(t) + i] = Gather(op, d[Len(t) + i - 1], u[i])
  BY ONLY t \in Seq(T), <1>2, PayloadsOfBoth, SMTT(30)
<1>5. 1 \in 1 .. Len(u) /\ Len(t) + 1 - 1 = Len(t)
  BY <1>3
<1> QED
  BY ONLY <1>3, <1>4, <1>5

(* Messages of another kind add nothing.                                   *)
LEMMA PayloadsOfOthers ==
  ASSUME NEW T, NEW op, NEW t \in Seq(T), NEW u \in Seq(T), \A i \in 1 .. Len(u) : u[i].op # op
  PROVE  Payloads(t \o u, op) = Payloads(t, op)
<1>1. Len(t) \in Nat /\ Len(u) \in Nat
  OBVIOUS
<1>2. PICK d : /\ d[Len(t)] = Payloads(t, op) /\ d[Len(t) + Len(u)] = Payloads(t \o u, op)
               /\ \A i \in 1 .. Len(u) : d[Len(t) + i] = Gather(op, d[Len(t) + i - 1], u[i])
  BY PayloadsOfBoth
<1> DEFINE S == {i \in Nat : i <= Len(u) => d[Len(t) + i] = Payloads(t, op)}
<1>3. 0 \in S
  BY <1>1, <1>2
<1>4. ASSUME NEW i \in Nat, i \in S
      PROVE  i + 1 \in S
  <2> SUFFICES ASSUME i + 1 <= Len(u) PROVE d[Len(t) + (i + 1)] = Payloads(t, op)
    OBVIOUS
  <2>1. i + 1 \in 1 .. Len(u) /\ Len(t) + (i + 1) - 1 = Len(t) + i /\ d[Len(t) + i] = Payloads(t, op)
    BY <1>1, <1>4
  <2>2. d[Len(t) + (i + 1)] = Gather(op, d[Len(t) + i], u[i + 1]) /\ u[i + 1].op # op
    BY <1>2, <2>1
  <2> QED
    BY <2>1, <2>2 DEF Gather
<1> HIDE DEF S
<1>5. Nat \subseteq S
  BY <1>3, <1>4, SetInduction
<1> QED
  BY <1>1, <1>2, <1>5 DEF S
-----------------------------------------------------------------------------
(* The reference does not ask for more than the decoder.                   *)
LEMMA WellFormedIsUtf8 ==
  ASSUME NEW t \in Seq(STRING), WellFormed(t), t # <<>> => Last(t) # "lead"
  PROVE  IsUtf8(t)
<1>1. PICK d : d[0] = "accept" /\ d[Len(t)] = Decode("accept", t) /\ \A i \in 1 .. Len(t) : d[i] = Utf8(d[i - 1], t[i])
  BY DecodeRun
<1>2. Len(t) \in Nat /\ DOMAIN t = 1 .. Len(t)
  OBVIOUS
<1>3. \A i \in 1 .. Len(t) :
        \/ t[i] = "a"
        \/ t[i] = "lead" /\ (i = Len(t) \/ t[i + 1] = "cont")
        \/ t[i] = "cont" /\ i > 1 /\ t[i - 1] = "lead"
  BY <1>2 DEF WellFormed
<1> DEFINE S == {i \in Nat : i <= Len(t) => d[i] = IF i > 0 /\ t[i] = "lead" THEN "rest" ELSE "accept"}
<1>4. 0 \in S
  BY <1>1
<1>5. ASSUME NEW i \in Nat, i \in S
      PROVE  i + 1 \in S
  <2> SUFFICES ASSUME i + 1 <= Len(t)
               PROVE  d[i + 1] = IF t[i + 1] = "lead" THEN "rest" ELSE "accept"
    OBVIOUS
  <2>1. d[i] = IF i > 0 /\ t[i] = "lead" THEN "rest" ELSE "accept"
    BY <1>2, <1>5
  <2>2. i + 1 \in 1 .. Len(t) /\ i + 1 - 1 = i /\ (i > 0 => i \in 1 .. Len(t) /\ i # Len(t))
    <3>1. \A n, j \in Nat : j + 1 <= n =>
            j + 1 \in 1 .. n /\ j + 1 - 1 = j /\ (j > 0 => j \in 1 .. n /\ j # n)
      OBVIOUS
    <3> QED
      BY ONLY <1>2, <3>1, i + 1 <= Len(t), i \in Nat
  <2>3. d[i + 1] = Utf8(d[i], t[i + 1])
    BY <1>1, <2>2
  <2>4. i > 0 /\ t[i] = "lead" => t[i + 1] = "cont"
    BY <1>3, <2>2
  <2>5. t[i + 1] = "cont" => i > 0 /\ t[i] = "lead"
    BY <1>3, <2>2
  <2>6. t[i + 1] \in {"a", "lead", "cont"}
    BY <1>3, <2>2
  <2> QED
    BY <2>1, <2>3, <2>4, <2>5, <2>6 DEF Utf8
<1> HIDE DEF S
<1>6. Nat \subseteq S
  BY <1>4, <1>5, SetInduction
<1>7. d[Len(t)] = IF Len(t) > 0 /\ t[Len(t)] = "lead" THEN "rest" ELSE "accept"
  BY <1>2, <1>6 DEF S
<1>8. ~(Len(t) > 0 /\ t[Len(t)] = "lead")
  BY <1>2 DEF Last
<1> QED
  BY <1>1, <1>7, <1>8 DEF IsUtf8

(* The codes a client may be sent are those the server lets through.       *)
LEMMA LegalIs ==
  ASSUME NEW code, code \in Int
  PROVE  LegalCode(code) <=> ~Invalid(code) /\ ~Reserved(code)
<1>1. LegalCode(code) => ~Invalid(code) /\ ~Reserved(code)
  BY DEF LegalCode, Invalid, Reserved, NoStatus
<1>2. ~Invalid(code) /\ ~Reserved(code) => LegalCode(code)
  BY DEF LegalCode, Invalid, Reserved, NoStatus
<1> QED
  BY <1>1, <1>2

(* A header is never nothing.                                              *)
LEMMA SomeFrame ==
  ASSUME NEW op \in STRING, NEW text \in Seq(STRING)
  PROVE  PrepareHeader(BasicHeader(op, Len(text), TRUE, FALSE), ExtendedHeader(Len(text))) \o Payload(text) # <<>>
<1>1. <<>> \in Bytes0
  BY NothingRead
<1>2. PICK b \in Bytes0 : b = <<>>
  BY <1>1
<1>3. FrameOf(op, text) # <<>>
  BY <1>2, FrameParts
<1> QED
  BY <1>3 DEF FrameOf, HeaderOf

(* For the provers.                                                        *)
LEMMA ControlStrings == "PONG" \in STRING /\ "CLOSE" \in STRING
BY StringsAssumption DEF Control, Data

(* A close frame with a legal code and a reason that fits is sent.         *)
LEMMA CloseEncoded ==
  ASSUME NEW code \in Codes, LegalCode(code), NEW reason \in Seq(STRING), Len(reason) + 2 <= MaxBasic
  PROVE  Encode(CloseMsg(code, reason)) # <<>>
<1>1. PICK m : m = CloseMsg(code, reason)
  OBVIOUS
<1>2. m.op = "CLOSE" /\ m.code = code /\ m.reason = reason
  BY <1>1 DEF CloseMsg
<1>3. m.op \notin Data
  BY <1>2 DEF Data
<1>4. Encode(m) = IF GetWebsocketVersion = 0 THEN PrepareClose00 ELSE PrepareClose(code, reason)
  BY <1>2, <1>3 DEF Encode
<1>5. PrepareClose00 # <<>>
  BY DEF PrepareClose00
<1>6. code \in Int /\ ~Invalid(code) /\ ~Reserved(code) /\ code # NoStatus
  <2>1. code \in Int
    BY CodesInt
  <2>2. ~Invalid(code) /\ ~Reserved(code)
    BY <2>1, LegalIs
  <2>3. code # NoStatus
    BY <2>2 DEF Invalid
  <2> QED
    BY <2>1, <2>2, <2>3
<1>7. PICK t : t = CodeBytes(code) \o reason
  OBVIOUS
<1>8. t \in Seq(STRING) /\ Len(t) = Len(reason) + 2 /\ Len(reason) \in Nat
  BY <1>7, CodeBytesOf
<1>9. PrepareClose(code, reason) = PrepareControl("CLOSE", t)
  <2>1. ~(Len(reason) + 2 > MaxBasic)
    BY <1>8, FramesAssumption
  <2> QED
    BY <1>6, <1>7, <2>1 DEF PrepareClose
<1>10. PrepareControl("CLOSE", t) # <<>>
  <2>1. ~(Len(t) > MaxBasic) /\ "CLOSE" \in Control
    BY <1>8, FramesAssumption DEF Control
  <2>2. PrepareControl("CLOSE", t)
          = PrepareHeader(BasicHeader("CLOSE", Len(t), TRUE, FALSE), ExtendedHeader(Len(t))) \o Payload(t)
    BY <2>1 DEF PrepareControl
  <2> QED
    BY <1>8, <2>2, SomeFrame, ControlStrings
<1> QED
  BY <1>1, <1>4, <1>5, <1>9, <1>10

(* So is a pong that repeats a ping.                                       *)
LEMMA PongEncoded ==
  ASSUME NEW text \in Seq(STRING), Len(text) <= MaxBasic, GetWebsocketVersion # 0
  PROVE  Encode([op |-> "PONG", payload |-> text]) # <<>>
<1>1. PICK m : m = [op |-> "PONG", payload |-> text]
  OBVIOUS
<1>2. m.op = "PONG" /\ m.payload = text
  BY <1>1
<1>3. m.op \notin Data /\ m.op # "CLOSE"
  BY <1>2 DEF Data
<1>4. Encode(m) = PrepareControl("PONG", text)
  BY <1>2, <1>3 DEF Encode
<1>5. ~(Len(text) > MaxBasic) /\ "PONG" \in Control
  BY FramesAssumption DEF Control
<1>6. PrepareControl("PONG", text)
        = PrepareHeader(BasicHeader("PONG", Len(text), TRUE, FALSE), ExtendedHeader(Len(text))) \o Payload(text)
  BY <1>5 DEF PrepareControl
<1> QED
  BY <1>1, <1>4, <1>6, SomeFrame, ControlStrings
-----------------------------------------------------------------------------
(* Control frames are short, and so are the messages in them.              *)
Short ==
  m_response = 101 /\ GetWebsocketVersion # 0 =>
    /\ m_state = "HEADER_EXTENDED" /\ GetOpcode(m_basic_header) \in Control =>
         GetBasicSize(m_basic_header) <= MaxBasic
    /\ m_state \in {"APPLICATION", "READY"} /\ m_current_msg = "control" =>
         Len(m_control_msg.payload) + m_bytes_needed <= MaxBasic

(* After an error no message is handed over.                               *)
Quiet == ec # "none" => m_state # "READY"

(* What validate_incoming_basic_header lets through.                       *)
LEMMA BasicErrorControl ==
  ASSUME NEW h, BasicError(h) = "none", GetOpcode(h) \in Control
  PROVE  ~(GetBasicSize(h) > MaxBasic)
<1>1. SUFFICES ASSUME GetBasicSize(h) > MaxBasic PROVE BasicError(h) = "control_too_big"
  OBVIOUS
<1> QED
  BY <1>1 DEF BasicError

(* The first two bytes: a control frame's size is checked here.            *)
LEMMA HeaderBasicShort ==
  ASSUME FramesIInv, m_response = 101, GetWebsocketVersion # 0, HeaderBasic
  PROVE  Short' /\ Quiet'
<1>1. BytesType /\ MessageType
  BY DEF FramesIInv
<1>2. m_state = "HEADER_BASIC"
  BY DEF HeaderBasic, Turn
<1>3. Len(m_basic_header) + m_bytes_needed = 2
  BY <1>2 DEF FramesIInv, Parsing13, InBasic, InExtended, InPayload
<1>4. PICK n : n = Available
  OBVIOUS
<1>5. PICK h : h = m_basic_header \o Take(n)
  OBVIOUS
<1>6. m_bytes_needed \in Nat /\ n \in Nat /\ n <= m_bytes_needed /\ Take(n) \in Bytes0 /\ Len(Take(n)) = n
  BY <1>1, <1>4, Takes DEF BytesType, MessageType
<1>7. h \in Bytes0 /\ Len(h) = Len(m_basic_header) + n /\ Len(m_basic_header) \in Nat
  BY <1>1, <1>5, <1>6, Added DEF BytesType
<1>8. /\ m_basic_header' = h
      /\ ec' = IF n = m_bytes_needed THEN BasicError(h) ELSE "none"
      /\ IF n = m_bytes_needed /\ ec' = "none" THEN m_state' = "HEADER_EXTENDED" ELSE UNCHANGED m_state
  BY <1>4, <1>5 DEF HeaderBasic
<1>9. Quiet'
  BY <1>2, <1>8 DEF Quiet
<1>10. m_state' = "HEADER_EXTENDED" /\ GetOpcode(h) \in Control => GetBasicSize(h) <= MaxBasic
  <2> SUFFICES ASSUME m_state' = "HEADER_EXTENDED", GetOpcode(h) \in Control PROVE GetBasicSize(h) <= MaxBasic
    OBVIOUS
  <2>1. n = m_bytes_needed /\ BasicError(h) = "none"
    BY <1>2, <1>8
  <2>2. Len(h) = 2
    BY ONLY <1>3, <1>6, <1>7, <2>1
  <2>3. GetBasicSize(h) \in Nat
    BY <1>7, <2>2, HeaderLen
  <2>4. ~(GetBasicSize(h) > MaxBasic)
    BY <2>1, BasicErrorControl
  <2> QED
    BY <2>3, <2>4, FramesAssumption
<1> QED
  BY <1>2, <1>8, <1>9, <1>10 DEF Short, GetOpcode, GetBasicSize

(* The rest of the header: its message is as long as announced.            *)
LEMMA HeaderExtendedShort ==
  ASSUME FramesIInv, Short, m_response = 101, GetWebsocketVersion # 0, HeaderExtended
  PROVE  Short' /\ Quiet'
<1>1. BytesType /\ MessageType
  BY DEF FramesIInv
<1>2. m_state = "HEADER_EXTENDED"
  BY DEF HeaderExtended, Turn
<1>3. PICK n : n = Available
  OBVIOUS
<1>4. PICK e : e = m_extended_header \o Take(n)
  OBVIOUS
<1>5. PICK h : h = m_basic_header
  OBVIOUS
<1>6. GetOpcode(h) \in Control => GetBasicSize(h) <= MaxBasic
  BY <1>2, <1>5 DEF Short
<1>7. /\ m_basic_header' = h
      /\ IF n = m_bytes_needed /\ ec' = "none"
           THEN m_state' = "APPLICATION" /\ m_bytes_needed' = GetPayloadSize(h, e) /\ BeginPayload(h, e)
           ELSE UNCHANGED <<m_state, messages>>
  BY <1>3, <1>4, <1>5 DEF HeaderExtended
<1>8. m_state' \in {"APPLICATION", "HEADER_EXTENDED"}
  BY <1>2, <1>7
<1>9. Quiet'
  BY <1>8 DEF Quiet
<1>10. m_state' = "APPLICATION" /\ m_current_msg' = "control" => Len(m_control_msg'.payload) + m_bytes_needed' <= MaxBasic
  <2> SUFFICES ASSUME m_state' = "APPLICATION", m_current_msg' = "control"
               PROVE  Len(m_control_msg'.payload) + m_bytes_needed' <= MaxBasic
    OBVIOUS
  <2>1. m_bytes_needed' = GetPayloadSize(h, e) /\ BeginPayload(h, e)
    BY <1>2, <1>7
  <2>2. GetOpcode(h) \in Control /\ m_control_msg' = [NoMsg EXCEPT !.op = GetOpcode(h), !.key = GetMaskingKey(h, e)]
    BY <2>1 DEF BeginPayload
  <2>3. m_control_msg'.payload = <<>>
    BY <2>2 DEF NoMsg
  <2>4. WholeHeader(m_basic_header)
    BY <1>2 DEF FramesIInv, Parsing13, InBasic, InExtended, InPayload
  <2>5. GetBasicSize(h) \in Nat
    BY <1>1, <1>5, <2>4, HeaderLen DEF WholeHeader, BytesType
  <2>6. GetBasicSize(h) # SizeCode
    BY <1>6, <2>2, <2>5, FramesAssumption DEF SizeCode
  <2>7. m_bytes_needed' = GetBasicSize(h)
    BY <2>1, <2>6 DEF GetPayloadSize
  <2>8. Len(m_control_msg'.payload) = 0
    BY <2>3, EmptySeq
  <2> QED
    BY <1>6, <2>2, <2>5, <2>7, <2>8
<1>11. m_state' = "HEADER_EXTENDED" /\ GetOpcode(h) \in Control => GetBasicSize(h) <= MaxBasic
  BY <1>6
<1> QED
  BY <1>7, <1>8, <1>9, <1>10, <1>11 DEF Short, GetOpcode, GetBasicSize

(* The payload: what is there and what is needed add up.                   *)
LEMMA ApplicationShort ==
  ASSUME FramesIInv, Short, m_response = 101, GetWebsocketVersion # 0, Application
  PROVE  Short' /\ Quiet'
<1>1. BytesType /\ MessageType
  BY DEF FramesIInv
<1>2. m_state = "APPLICATION"
  BY DEF Application, Turn
<1>3. PICK n : n = Available
  OBVIOUS
<1>4. m_bytes_needed \in Nat /\ n \in Nat /\ n <= m_bytes_needed /\ Take(n) \in Bytes0 /\ Len(Take(n)) = n
  BY <1>1, <1>3, Takes DEF BytesType, MessageType
<1>5. CurrentMsg \in MsgType
  BY <1>1 DEF CurrentMsg, MessageType
<1>6. PICK msg : msg = ProcessPayload(CurrentMsg, n)
  OBVIOUS
<1>7. Len(msg.payload) = Len(CurrentMsg.payload) + n /\ Len(CurrentMsg.payload) \in Nat
  BY <1>4, <1>5, <1>6, Processed
<1>8. m_current_msg' = m_current_msg /\ (m_current_msg # "data" => m_control_msg' = msg)
  BY <1>3, <1>6 DEF Application
<1>9. \/ m_state' = "HEADER_BASIC"
      \/ m_bytes_needed' = m_bytes_needed - n /\ m_state' \in {"READY", "APPLICATION"}
  BY <1>2, <1>3 DEF Application, ResetHeaders
<1>10. m_state' = "READY" => ec' = "none"
  <2>1. PICK complete : complete = (n = m_bytes_needed /\ GetFin(m_basic_header))
    OBVIOUS
  <2>2. \/ m_state' = "HEADER_BASIC" \/ m_state' = IF complete /\ ec' = "none" THEN "READY" ELSE m_state
    BY <1>3, <2>1 DEF Application, ResetHeaders
  <2> QED
    BY <1>2, <2>2
<1>11. m_state' # "HEADER_BASIC" /\ m_current_msg = "control" => Len(m_control_msg'.payload) + m_bytes_needed' <= MaxBasic
  <2> SUFFICES ASSUME m_state' # "HEADER_BASIC", m_current_msg = "control"
               PROVE  Len(m_control_msg'.payload) + m_bytes_needed' <= MaxBasic
    OBVIOUS
  <2>1. Len(m_control_msg.payload) + m_bytes_needed <= MaxBasic
    BY <1>2 DEF Short
  <2>2. CurrentMsg = m_control_msg /\ m_control_msg' = msg
    BY <1>8 DEF CurrentMsg
  <2>3. Len(m_control_msg'.payload) = Len(m_control_msg.payload) + n /\ Len(m_control_msg.payload) \in Nat
    BY <1>7, <2>2
  <2>4. m_bytes_needed' = m_bytes_needed - n /\ MaxBasic \in Nat
    BY <1>9, FramesAssumption
  <2> QED
    BY ONLY <1>4, <2>1, <2>3, <2>4
<1> QED
  BY <1>8, <1>9, <1>10, <1>11 DEF Short, Quiet

(* What the connection is given: a message that came without an error, and *)
(* if it is not data, one that was short.                                  *)
GivenMessage ==
  /\ ec = "none" /\ ec' = "none"
  /\ \E m \in Message : /\ delivered' = Append(delivered, m)
                        /\ m.op \notin Data => GetWebsocketVersion # 0 /\ Len(m.payload) <= MaxBasic

(* The message is handed over.                                             *)
LEMMA GetMessageShort ==
  ASSUME FramesIInv, Short, Quiet, m_response = 101, GetWebsocketVersion # 0, GetMessage
  PROVE  Short' /\ Quiet' /\ GivenMessage
<1>1. MessageType
  BY DEF FramesIInv
<1>2. m_state = "READY" /\ ec = "none" /\ ec' = "none" /\ m_state' = "HEADER_BASIC"
  BY DEF GetMessage, ResetHeaders, Quiet
<1>3. InPayload
  BY <1>2 DEF FramesIInv, Parsing13, InBasic, InExtended
<1>4. CurrentMsg.op \in Data \cup Control /\ CurrentMsg.payload \in Seq(STRING)
  BY <1>1, <1>3 DEF CurrentMsg, InPayload, MessageType, MsgType
<1>5. CurrentMsg.op \notin Data => Len(CurrentMsg.payload) <= MaxBasic
  <2> SUFFICES ASSUME CurrentMsg.op \notin Data PROVE Len(CurrentMsg.payload) <= MaxBasic
    OBVIOUS
  <2>1. m_current_msg = "control"
    BY <1>1, <1>3 DEF CurrentMsg, InPayload, MessageType
  <2>2. CurrentMsg = m_control_msg
    BY <2>1 DEF CurrentMsg
  <2>3. Len(m_control_msg.payload) + m_bytes_needed <= MaxBasic
    BY <1>2, <2>1 DEF Short
  <2>4. m_bytes_needed \in Nat /\ MaxBasic \in Nat /\ Len(m_control_msg.payload) \in Nat
    BY <1>1, FramesAssumption DEF MessageType, MsgType
  <2> QED
    BY ONLY <2>2, <2>3, <2>4
<1>6. PICK m : m = [op |-> CurrentMsg.op, payload |-> CurrentMsg.payload]
  OBVIOUS
<1>7. m \in Message /\ m.op = CurrentMsg.op /\ m.payload = CurrentMsg.payload
  BY <1>4, <1>6 DEF Message
<1>8. delivered' = Append(delivered, m)
  BY <1>6 DEF GetMessage
<1>9. GivenMessage
  BY <1>2, <1>5, <1>7, <1>8 DEF GivenMessage
<1> QED
  BY <1>2, <1>9 DEF Short, Quiet

(* Every turn of the loop.                                                 *)
LEMMA ShortStep ==
  ASSUME FramesIInv, Short, Quiet, Frame
  PROVE  Short' /\ Quiet' /\ (UNCHANGED delivered \/ GivenMessage)
<1>1. m_response = 101 /\ UNCHANGED <<asked, input, request>>
  BY DEF Frame
<1>2. GetWebsocketVersion' = GetWebsocketVersion
  BY <1>1, Unmoved
<1>3. CASE GetWebsocketVersion = 0
  <2>1. Header00 \/ Payload00 \/ GetMessage00
    BY <1>3 DEF Frame, ConsumeHybi00
  <2>2. Short'
    BY <1>2, <1>3 DEF Short
  <2>3. CASE Header00
    <3>1. m_state' \in {"PAYLOAD", "HEADER"} /\ UNCHANGED delivered
      BY <2>3 DEF Header00, Hybi00Turn
    <3> QED
      BY <2>2, <3>1 DEF Quiet
  <2>4. CASE Payload00
    <3>1. ec = "none" /\ UNCHANGED ec /\ UNCHANGED delivered
      BY <2>4 DEF Payload00, Hybi00Turn
    <3> QED
      BY <2>2, <3>1 DEF Quiet
  <2>5. CASE GetMessage00
    <3>1. m_state = "READY" /\ m_state' = "HEADER" /\ UNCHANGED ec /\ ec = "none"
      BY <2>5 DEF GetMessage00, Quiet
    <3>2. m_data_msg.op = "TEXT" /\ m_data_msg.payload \in Seq(STRING)
      BY <1>1, <1>3, <3>1 DEF FramesIInv, Parsing00, MessageType, MsgType
    <3>3. PICK m : m = [op |-> m_data_msg.op, payload |-> m_data_msg.payload]
      OBVIOUS
    <3>4. m \in Message /\ m.op \in Data
      BY <3>2, <3>3 DEF Message, Data
    <3>5. delivered' = Append(delivered, m)
      BY <2>5, <3>3 DEF GetMessage00
    <3>6. GivenMessage
      BY <3>1, <3>4, <3>5 DEF GivenMessage
    <3> QED
      BY <2>2, <3>1, <3>6 DEF Quiet
  <2> QED
    BY <2>1, <2>3, <2>4, <2>5
<1>4. CASE GetWebsocketVersion # 0
  <2>1. HeaderBasic \/ HeaderExtended \/ Application \/ GetMessage
    BY <1>4 DEF Frame, ConsumeFrames
  <2>2. HeaderBasic \/ HeaderExtended \/ Application => UNCHANGED delivered
    BY DEF HeaderBasic, HeaderExtended, Application
  <2> QED
    BY <1>1, <1>4, <2>1, <2>2, HeaderBasicShort, HeaderExtendedShort, ApplicationShort, GetMessageShort
<1> QED
  BY <1>3, <1>4
-----------------------------------------------------------------------------
(* The messages that end a conversation, and the closes it is ended with.  *)
Endings(d) == {i \in 1 .. Len(d) : Final(d[i])}

Closes(q) == {i \in 1 .. Len(q) : q[i].op = "CLOSE"}

Over(d, e) == Endings(d) # {} \/ e # "none"

Heard(d) == IF Endings(d) = {} THEN Len(d) ELSE Min(Endings(d))

Why(d, e) == IF Endings(d) = {} THEN Refusal(e) ELSE Parting(d[Min(Endings(d))])

Pinged(d) == Payloads(SubSeq(d, 1, Heard(d)), "PING")

Closed(q, m) == q[Min(Closes(q))] = m /\ Closes(q) = Min(Closes(q)) .. Len(q)

(* What holds of what was sent, given what came and the error.             *)
ReplyTo(q, d, e, s) ==
  /\ Payloads(q, "PONG") = Pinged(d)
  /\ Closes(q) = {} <=> ~Over(d, e)
  /\ Over(d, e) => Closed(q, Why(d, e))
  /\ s = "open" <=> ~Over(d, e)

(* Whether a message is one of those that end it.                          *)
LEMMA NewEnding ==
  ASSUME NEW d \in Seq(Message), NEW m \in Message, NEW d1, d1 = Append(d, m)
  PROVE  /\ ~Final(m) => Endings(d1) = Endings(d)
         /\ Final(m) => Endings(d1) = Endings(d) \cup {Len(d) + 1}
         /\ Endings(d) \subseteq 1 .. Len(d) /\ Endings(d) \subseteq Nat
<1>1. /\ Len(d) \in Nat /\ d1 \in Seq(Message) /\ Len(d1) = Len(d) + 1 /\ d1[Len(d) + 1] = m
      /\ \A i \in 1 .. Len(d) : d1[i] = d[i]
  BY ONLY d \in Seq(Message), m \in Message, d1 = Append(d, m)
<1>2. 1 .. Len(d1) = 1 .. Len(d) \cup {Len(d) + 1}
  BY ONLY <1>1
<1>3. Endings(d1) = Endings(d) \cup {i \in {Len(d) + 1} : Final(m)}
  BY ONLY <1>1, <1>2 DEF Endings
<1>4. Endings(d) \subseteq 1 .. Len(d) /\ 1 .. Len(d) \subseteq Nat
  BY ONLY <1>1 DEF Endings
<1> QED
  BY ONLY <1>3, <1>4

(* Once ended, a conversation does not go on.                              *)
LEMMA HeardEnough ==
  ASSUME NEW d \in Seq(Message), NEW m \in Message, NEW d1, d1 = Append(d, m), Endings(d) # {}
  PROVE  /\ Endings(d1) # {} /\ Pinged(d1) = Pinged(d)
         /\ \A e, f : Why(d1, e) = Why(d, f)
<1>1. /\ Len(d) \in Nat /\ d1 \in Seq(Message) /\ Len(d1) = Len(d) + 1
      /\ \A i \in 1 .. Len(d) : d1[i] = d[i]
  BY ONLY d \in Seq(Message), m \in Message, d1 = Append(d, m)
<1>2. PICK n : n = Min(Endings(d))
  OBVIOUS
<1>3. Endings(d) \subseteq Nat /\ n \in Endings(d) /\ n \in 1 .. Len(d) /\ \A i \in Endings(d) : n <= i
  BY <1>2, NewEnding, MinExists
<1>4. Endings(d1) = Endings(d) \/ Endings(d1) = Endings(d) \cup {Len(d) + 1}
  BY NewEnding
<1>5. Min(Endings(d1)) = n /\ Endings(d1) # {}
  <2>1. n \in Int /\ n \in Endings(d1) /\ Endings(d1) \subseteq Int /\ \A i \in Endings(d1) : n <= i
    BY ONLY <1>1, <1>3, <1>4
  <2> QED
    BY <2>1, MinIs
<1>6. SubSeq(d1, 1, n) = SubSeq(d, 1, n)
  <2>1. \A i \in 1 .. n : d1[i] = d[i] /\ d[i] \in Message /\ d1[i] \in Message
    BY <1>1, <1>3
  <2> QED
    BY ONLY <1>1, <1>3, <2>1, d \in Seq(Message)
<1>7. Pinged(d1) = Pinged(d)
  BY <1>2, <1>5, <1>6 DEF Pinged, Heard
<1>8. d1[n] = d[n]
  BY <1>1, <1>3
<1> QED
  BY <1>2, <1>5, <1>7, <1>8 DEF Why

(* While it goes on everything is heard.                                   *)
LEMMA HeardAll ==
  ASSUME NEW d \in Seq(Message), NEW m \in Message, NEW d1, d1 = Append(d, m), Endings(d) = {}
  PROVE  /\ Pinged(d1) = Gather("PING", Pinged(d), m)
         /\ Final(m) => Endings(d1) # {} /\ \A e : Why(d1, e) = Parting(m)
         /\ ~Final(m) => Endings(d1) = {}
<1>1. /\ Len(d) \in Nat /\ d1 \in Seq(Message) /\ Len(d1) = Len(d) + 1 /\ d1[Len(d) + 1] = m
      /\ SubSeq(d, 1, Len(d)) = d /\ SubSeq(d1, 1, Len(d1)) = d1
  BY ONLY d \in Seq(Message), m \in Message, d1 = Append(d, m)
<1>2. Pinged(d) = Payloads(d, "PING")
  BY <1>1 DEF Pinged, Heard
<1>3. Payloads(d1, "PING") = Gather("PING", Payloads(d, "PING"), m)
  BY PayloadsOfOne
<1>4. Final(m) => Endings(d1) = {Len(d1)} /\ Min(Endings(d1)) = Len(d1)
  <2> SUFFICES ASSUME Final(m) PROVE Endings(d1) = {Len(d1)} /\ Min(Endings(d1)) = Len(d1)
    OBVIOUS
  <2>1. Endings(d1) = {Len(d1)}
    <3>1. Endings(d1) = Endings(d) \cup {Len(d) + 1}
      BY ONLY d \in Seq(Message), m \in Message, d1 = Append(d, m), Final(m), NewEnding
    <3> QED
      BY ONLY <1>1, <3>1, Endings(d) = {}
  <2>2. PICK n : n = Len(d1)
    OBVIOUS
  <2>3. Endings(d1) = {n} /\ n \in Int
    BY <1>1, <2>1, <2>2
  <2>4. PICK T : T = {n}
    OBVIOUS
  <2>5. n \in T /\ T \subseteq Int /\ \A y \in T : n <= y
    BY ONLY <2>3, <2>4
  <2>6. Min(T) = n
    BY <2>3, <2>5, MinIs
  <2> QED
    BY <2>1, <2>2, <2>4, <2>6
<1>5. ~Final(m) => Endings(d1) = {}
  BY NewEnding
<1>6. Heard(d1) = Len(d1)
  BY <1>4, <1>5 DEF Heard
<1>7. Pinged(d1) = Payloads(d1, "PING")
  BY <1>1, <1>6 DEF Pinged
<1>8. Final(m) => \A e : Why(d1, e) = Parting(m)
  BY <1>1, <1>4 DEF Why
<1> QED
  BY <1>2, <1>3, <1>4, <1>5, <1>7, <1>8

(* No close among the messages.                                            *)
LEMMA NoCloses ==
  ASSUME NEW q \in Seq(Sent), NEW u \in Seq(Sent), Closes(q) = {}, \A i \in 1 .. Len(u) : u[i].op # "CLOSE"
  PROVE  Closes(q \o u) = {}
<1>1. PICK x : x = q \o u
  OBVIOUS
<1>2. /\ Len(q) \in Nat /\ Len(u) \in Nat /\ Len(x) = Len(q) + Len(u)
      /\ \A i \in 1 .. Len(q) : x[i] = q[i]
      /\ \A i \in Len(q) + 1 .. Len(q) + Len(u) : x[i] = u[i - Len(q)] /\ i - Len(q) \in 1 .. Len(u)
  BY <1>1
<1>3. \A i \in 1 .. Len(x) : i \in 1 .. Len(q) \/ i \in Len(q) + 1 .. Len(q) + Len(u)
  BY ONLY <1>2
<1>4. \A i \in 1 .. Len(x) : x[i].op # "CLOSE"
  BY <1>2, <1>3 DEF Closes
<1> QED
  BY <1>1, <1>4 DEF Closes

(* The first close ...                                                     *)
LEMMA FirstClose ==
  ASSUME NEW q \in Seq(Sent), NEW m \in Sent, m.op = "CLOSE", Closes(q) = {}
  PROVE  Closes(Append(q, m)) # {} /\ Closed(Append(q, m), m)
<1>1. PICK x : x = Append(q, m)
  OBVIOUS
<1>2. /\ Len(q) \in Nat /\ Len(x) = Len(q) + 1 /\ x[Len(q) + 1] = m
      /\ \A i \in 1 .. Len(q) : x[i] = q[i]
  BY <1>1
<1>3. PICK n : n = Len(x)
  OBVIOUS
<1>4. n \in Nat /\ \A i \in 1 .. n : i \in 1 .. Len(q) \/ i = n
  BY ONLY <1>2, <1>3
<1>5. \A i \in 1 .. Len(q) : q[i].op # "CLOSE"
  BY DEF Closes
<1>6. n \in 1 .. n
  BY ONLY <1>2, <1>3
<1>7. Closes(x) = {n}
  BY <1>2, <1>3, <1>4, <1>5, <1>6 DEF Closes
<1>8. Min(Closes(x)) = n
  <2>1. PICK T : T = {n}
    OBVIOUS
  <2>2. Min(T) = n
    BY <1>4, <2>1, MinIs
  <2> QED
    BY <1>7, <2>1, <2>2
<1>9. n .. n = {n}
  BY <1>4
<1> QED
  BY <1>1, <1>2, <1>3, <1>7, <1>8, <1>9 DEF Closed

(* ... and another.                                                        *)
LEMMA NextClose ==
  ASSUME NEW q \in Seq(Sent), NEW m \in Sent, m.op = "CLOSE", Closes(q) # {}, NEW w, Closed(q, w)
  PROVE  Closes(Append(q, m)) # {} /\ Closed(Append(q, m), w)
<1>1. PICK x : x = Append(q, m)
  OBVIOUS
<1>2. /\ Len(q) \in Nat /\ Len(x) = Len(q) + 1 /\ x[Len(q) + 1] = m
      /\ \A i \in 1 .. Len(q) : x[i] = q[i]
  BY <1>1
<1>3. PICK n : n = Min(Closes(q))
  OBVIOUS
<1>4. Closes(q) \subseteq Nat /\ Closes(q) \subseteq 1 .. Len(q)
  BY <1>2 DEF Closes
<1>5. n \in Closes(q) /\ n \in 1 .. Len(q)
  BY <1>3, <1>4, MinExists
<1>6. Closes(q) = n .. Len(q) /\ q[n] = w
  BY <1>3 DEF Closed
<1>7. Closes(x) = Closes(q) \cup {Len(q) + 1}
  <2>1. 1 .. Len(x) = 1 .. Len(q) \cup {Len(q) + 1}
    BY ONLY <1>2
  <2> QED
    BY <1>2, <2>1 DEF Closes
<1>8. Closes(x) = n .. Len(x)
  BY ONLY <1>2, <1>5, <1>6, <1>7
<1>9. Min(Closes(x)) = n
  <2>1. n \in Int /\ n \in Closes(x) /\ Closes(x) \subseteq Int /\ \A i \in Closes(x) : n <= i
    BY ONLY <1>2, <1>5, <1>8
  <2> QED
    BY <2>1, MinIs
<1> QED
  BY <1>1, <1>2, <1>5, <1>6, <1>7, <1>8, <1>9 DEF Closed
-----------------------------------------------------------------------------
(* A message that ends nothing, and what is said to it: no close, and a    *)
(* pong for a ping.                                                        *)
LEMMA ReplyGoesOn ==
  ASSUME NEW q \in Seq(Sent), NEW d \in Seq(Message), NEW m \in Message, NEW u \in Seq(Sent),
         NEW s, ReplyTo(q, d, "none", s), s = "open", ~Final(m), \A i \in 1 .. Len(u) : u[i].op # "CLOSE",
         Payloads(q \o u, "PONG") = Gather("PING", Payloads(q, "PONG"), m)
  PROVE  ReplyTo(q \o u, Append(d, m), "none", s)
<1>1. PICK q1, d1 : q1 = q \o u /\ d1 = Append(d, m)
  OBVIOUS
<1>2. Endings(d) = {} /\ Closes(q) = {} /\ Payloads(q, "PONG") = Pinged(d)
  BY DEF ReplyTo, Over
<1>3. Pinged(d1) = Gather("PING", Pinged(d), m) /\ Endings(d1) = {}
  BY <1>1, <1>2, HeardAll
<1>4. Closes(q1) = {}
  BY <1>1, <1>2, NoCloses
<1>5. Payloads(q1, "PONG") = Pinged(d1)
  BY <1>1, <1>2, <1>3
<1>6. ~Over(d1, "none")
  BY <1>3 DEF Over
<1> QED
  BY <1>1, <1>4, <1>5, <1>6 DEF ReplyTo

(* One that ends it, and the close that follows.                           *)
LEMMA ReplyEnds ==
  ASSUME NEW q \in Seq(Sent), NEW d \in Seq(Message), NEW m \in Message, NEW u \in Seq(Sent),
         NEW s, NEW r, ReplyTo(q, d, "none", s), s = "open", r # "open", Final(m),
         \A i \in 1 .. Len(u) : u[i].op \notin {"CLOSE", "PONG"},
         NEW c \in Sent, c = Parting(m), c.op = "CLOSE"
  PROVE  ReplyTo(Append(q \o u, c), Append(d, m), "none", r)
<1>1. PICK q0, d1 : q0 = q \o u /\ d1 = Append(d, m)
  OBVIOUS
<1>2. PICK q1 : q1 = Append(q0, c)
  OBVIOUS
<1>3. Endings(d) = {} /\ Closes(q) = {} /\ Payloads(q, "PONG") = Pinged(d)
  BY DEF ReplyTo, Over
<1>4. m.op # "PING"
  BY DEF Final, Data
<1>5. Pinged(d1) = Pinged(d) /\ Endings(d1) # {} /\ Why(d1, "none") = c
  BY <1>1, <1>3, <1>4, HeardAll DEF Gather
<1>6. q0 \in Seq(Sent)
  BY <1>1
<1>7. Closes(q0) = {}
  BY <1>1, <1>3, NoCloses
<1>8. Closes(q1) # {} /\ Closed(q1, c)
  BY <1>2, <1>6, <1>7, FirstClose
<1>9. Payloads(q1, "PONG") = Payloads(q, "PONG")
  <2>1. Payloads(q0, "PONG") = Payloads(q, "PONG")
    <3>1. \A i \in 1 .. Len(u) : u[i].op # "PONG"
      OBVIOUS
    <3> QED
      BY <1>1, <3>1, PayloadsOfOthers
  <2>2. Payloads(q1, "PONG") = Gather("PONG", Payloads(q0, "PONG"), c)
    BY <1>2, <1>6, PayloadsOfOne
  <2> QED
    BY <2>1, <2>2 DEF Gather
<1>10. Over(d1, "none")
  BY <1>5 DEF Over
<1> QED
  BY <1>1, <1>2, <1>3, <1>5, <1>8, <1>9, <1>10 DEF ReplyTo

(* An error ends it as well.                                               *)
LEMMA ReplyRefuses ==
  ASSUME NEW q \in Seq(Sent), NEW d \in Seq(Message), NEW e, e # "none",
         NEW s, NEW r, ReplyTo(q, d, "none", s), s = "open", r # "open",
         NEW c \in Sent, c = Refusal(e), c.op = "CLOSE"
  PROVE  ReplyTo(Append(q, c), d, e, r)
<1>1. PICK q1 : q1 = Append(q, c)
  OBVIOUS
<1>2. Endings(d) = {} /\ Closes(q) = {} /\ Payloads(q, "PONG") = Pinged(d)
  BY DEF ReplyTo, Over
<1>3. Closes(q1) # {} /\ Closed(q1, c)
  BY <1>1, <1>2, FirstClose
<1>4. Payloads(q1, "PONG") = Payloads(q, "PONG")
  BY <1>1, PayloadsOfOne DEF Gather
<1>5. Over(d, e) /\ Why(d, e) = c
  BY <1>2 DEF Over, Why
<1> QED
  BY <1>1, <1>2, <1>3, <1>4, <1>5 DEF ReplyTo

(* After the end come closes, or nothing.                                  *)
LEMMA ReplyStays ==
  ASSUME NEW q \in Seq(Sent), NEW d \in Seq(Message), NEW e, NEW f, NEW s, NEW r,
         ReplyTo(q, d, e, s), s # "open", r # "open", e # "none" => f = e, NEW d1, NEW q1,
         \/ d1 = d /\ e = f
         \/ d1 = d /\ Endings(d) # {}
         \/ e = "none" /\ \E m \in Message : d1 = Append(d, m),
         \/ q1 = q
         \/ \E c \in Sent : c.op = "CLOSE" /\ q1 = Append(q, c)
  PROVE  ReplyTo(q1, d1, f, r)
<1>1. Over(d, e) /\ Closes(q) # {} /\ Closed(q, Why(d, e)) /\ Payloads(q, "PONG") = Pinged(d)
  BY DEF ReplyTo
<1>2. Over(d1, f) /\ Pinged(d1) = Pinged(d) /\ Why(d1, f) = Why(d, e)
  <2>1. CASE d1 = d /\ e = f
    BY <1>1, <2>1
  <2>2. CASE d1 = d /\ Endings(d) # {}
    BY <2>2 DEF Over, Why
  <2>3. ASSUME NEW m \in Message, e = "none", d1 = Append(d, m)
        PROVE  Over(d1, f) /\ Pinged(d1) = Pinged(d) /\ Why(d1, f) = Why(d, e)
    <3>1. Endings(d) # {}
      BY <1>1, <2>3 DEF Over
    <3>2. Endings(d1) # {} /\ Pinged(d1) = Pinged(d) /\ \A x, y : Why(d1, x) = Why(d, y)
      BY ONLY d \in Seq(Message), m \in Message, d1 = Append(d, m), <2>3, <3>1, HeardEnough
    <3>3. Why(d1, f) = Why(d, e)
      BY <3>2, Zenon
    <3> QED
      BY <3>2, <3>3 DEF Over
  <2> QED
    BY <2>1, <2>2, <2>3
<1>3. Closes(q1) # {} /\ Closed(q1, Why(d, e)) /\ Payloads(q1, "PONG") = Payloads(q, "PONG")
  <2>1. CASE q1 = q
    BY <1>1, <2>1
  <2>2. ASSUME NEW c \in Sent, c.op = "CLOSE", q1 = Append(q, c)
        PROVE  Closes(q1) # {} /\ Closed(q1, Why(d, e)) /\ Payloads(q1, "PONG") = Payloads(q, "PONG")
    <3>1. PICK w : w = Why(d, e)
      OBVIOUS
    <3>2. Closes(q1) # {} /\ Closed(q1, w)
      BY <1>1, <2>2, <3>1, NextClose
    <3>3. Payloads(q1, "PONG") = Payloads(q, "PONG")
      BY <2>2, PayloadsOfOne DEF Gather
    <3> QED
      BY <3>1, <3>2, <3>3
  <2> QED
    BY <2>1, <2>2
<1> QED
  BY <1>1, <1>2, <1>3 DEF ReplyTo

(* Nothing has come or gone yet.                                           *)
LEMMA NothingYet == ReplyTo(<<>>, <<>>, "none", "open")
<1>1. PICK t : t = <<>>
  OBVIOUS
<1>2. Len(t) = 0 /\ SubSeq(t, 1, 0) = t
  BY <1>1
<1>3. Endings(t) = {} /\ Closes(t) = {}
  BY <1>2 DEF Endings, Closes
<1>4. Pinged(t) = t /\ Payloads(t, "PONG") = t
  BY <1>1, <1>2, <1>3, PayloadsOfNone DEF Pinged, Heard
<1>5. ~Over(t, "none")
  BY <1>3 DEF Over
<1> QED
  BY <1>1, <1>3, <1>4, <1>5 DEF ReplyTo
-----------------------------------------------------------------------------
(* Nothing is said to a message that asks for nothing.                     *)
LEMMA NothingSaid ==
  ASSUME NEW q \in Seq(Sent), NEW d \in Seq(Message), NEW m \in Message,
         NEW s, ReplyTo(q, d, "none", s), s = "open", ~Final(m), m.op # "PING"
  PROVE  ReplyTo(q, Append(d, m), "none", s)
<1>1. PICK u : u = <<>>
  OBVIOUS
<1>2. u \in Seq(Sent) /\ Len(u) = 0 /\ q \o u = q
  BY <1>1
<1>3. \A i \in 1 .. Len(u) : u[i].op # "CLOSE"
  BY <1>2
<1>4. Payloads(q \o u, "PONG") = Gather("PING", Payloads(q, "PONG"), m)
  BY <1>2 DEF Gather
<1>5. ReplyTo(q \o u, Append(d, m), "none", s)
  BY <1>2, <1>3, <1>4, ReplyGoesOn
<1> QED
  BY <1>2, <1>5

(* A ping has its pong.                                                    *)
LEMMA PongReply ==
  ASSUME sent \in Seq(Sent), delivered \in Seq(Message), NEW m \in Message, m.op = "PING",
         Len(m.payload) <= MaxBasic, GetWebsocketVersion # 0, session = "open",
         ReplyTo(sent, delivered, "none", session), Pong(m.payload)
  PROVE  ReplyTo(sent', Append(delivered, m), "none", session')
<1>1. PICK q, d, s : q = sent /\ d = delivered /\ s = session
  OBVIOUS
<1>2. PICK t : t = m.payload
  OBVIOUS
<1>3. t \in Seq(STRING) /\ Len(t) <= MaxBasic
  BY <1>2 DEF Message
<1>4. PICK c : c = [op |-> "PONG", payload |-> t]
  OBVIOUS
<1>5. c \in Sent /\ c.op = "PONG" /\ c.payload = t
  BY <1>3, <1>4 DEF Sent
<1>6. Encode(c) # <<>>
  BY <1>3, <1>4, PongEncoded
<1>7. Queue(<<c>>) /\ session' = s
  BY <1>1, <1>2, <1>4, <1>6 DEF Pong
<1>8. PICK u : u = <<c>>
  OBVIOUS
<1>9. u \in Seq(Sent) /\ Len(u) = 1 /\ u[1] = c /\ q \o u = Append(q, c)
  BY <1>1, <1>5, <1>8
<1>10. sent' = q \o u
  BY <1>1, <1>7, <1>8 DEF Queue
<1>11. \A i \in 1 .. Len(u) : u[i].op # "CLOSE"
  <2>1. \A i \in 1 .. Len(u) : i = 1
    BY <1>9
  <2> QED
    BY <1>5, <1>9, <2>1
<1>12. Payloads(q \o u, "PONG") = Gather("PING", Payloads(q, "PONG"), m)
  <2>1. Payloads(Append(q, c), "PONG") = Gather("PONG", Payloads(q, "PONG"), c)
    BY <1>1, <1>5, PayloadsOfOne
  <2> QED
    BY <1>2, <1>5, <1>9, <2>1 DEF Gather
<1>13. ~Final(m)
  BY DEF Final, Data
<1>14. ReplyTo(q \o u, Append(d, m), "none", s)
  BY <1>1, <1>9, <1>11, <1>12, <1>13, ReplyGoesOn
<1> QED
  BY <1>1, <1>7, <1>10, <1>14

(* The greeting.                                                           *)
LEMMA GreetingReply ==
  ASSUME sent \in Seq(Sent), delivered \in Seq(Message), NEW m \in Message, m.op \in Data,
         m.payload = Ready, session = "open", ReplyTo(sent, delivered, "none", session),
         NEW greeting \in Greetings, SendAll(greeting), ~aborted'
  PROVE  ReplyTo(sent', Append(delivered, m), "none", session')
<1>1. PICK q, d, s : q = sent /\ d = delivered /\ s = session
  OBVIOUS
<1>2. PICK u : u = greeting
  OBVIOUS
<1>3. u \in Seq([op : Data, payload : Seq(STRING)])
  BY <1>2, ConversationAssumption
<1>4. PICK T : T = [op : Data, payload : Seq(STRING)]
  OBVIOUS
<1>5. u \in Seq(T) /\ T \subseteq Sent /\ \A x \in T : x.op \notin {"CLOSE", "PONG"}
  <2>1. T \subseteq Sent
    BY <1>4 DEF Sent
  <2>2. \A x \in T : x.op \notin {"CLOSE", "PONG"}
    BY <1>4 DEF Data
  <2> QED
    BY <1>3, <1>4, <2>1, <2>2
<1>6. u \in Seq(Sent) /\ \A i \in 1 .. Len(u) : u[i] \in T
  BY ONLY <1>5
<1>7. sent' = q \o u /\ session' = s
  <2>1. PICK refused : refused = {i \in DOMAIN u : Encode(u[i]) = <<>>}
    OBVIOUS
  <2>2. /\ Queue(IF refused = {} THEN u ELSE SubSeq(u, 1, Min(refused) - 1))
        /\ aborted' = (refused # {}) /\ session' = s
    BY <1>1, <1>2, <2>1 DEF SendAll
  <2>3. refused = {}
    BY <2>2
  <2> QED
    BY <1>1, <2>2, <2>3 DEF Queue
<1>8. ~Final(m) /\ m.op # "PING"
  BY ConversationAssumption DEF Final, Data
<1>9. Payloads(q \o u, "PONG") = Gather("PING", Payloads(q, "PONG"), m)
  <2>1. \A i \in 1 .. Len(u) : u[i].op # "PONG"
    BY <1>5, <1>6
  <2>2. Payloads(q \o u, "PONG") = Payloads(q, "PONG")
    BY <1>1, <1>6, <2>1, PayloadsOfOthers
  <2> QED
    BY <1>8, <2>2 DEF Gather
<1>10. \A i \in 1 .. Len(u) : u[i].op # "CLOSE"
  BY <1>5, <1>6
<1>11. ReplyTo(q \o u, Append(d, m), "none", s)
  BY <1>1, <1>6, <1>8, <1>9, <1>10, ReplyGoesOn
<1> QED
  BY <1>1, <1>7, <1>11

(* A close frame goes out.                                                 *)
LEMMA ClosingSends ==
  ASSUME NEW said, NEW code \in Codes, LegalCode(code), NEW reason \in Seq(STRING), Len(reason) + 2 <= MaxBasic,
         NEW ack, NEW last, SendCloseFrame(said, code, reason, ack, last)
  PROVE  /\ sent' = sent \o Append(said, CloseMsg(code, reason)) /\ session' = "closing"
         /\ CloseMsg(code, reason) \in Sent /\ CloseMsg(code, reason).op = "CLOSE"
<1>1. Encode(CloseMsg(code, reason)) # <<>>
  BY CloseEncoded
<1>2. Queue(Append(said, CloseMsg(code, reason))) /\ session' = "closing"
  BY <1>1 DEF SendCloseFrame
<1>3. CloseMsg(code, reason) \in Sent /\ CloseMsg(code, reason).op = "CLOSE"
  BY DEF Sent, CloseMsg
<1> QED
  BY <1>2, <1>3 DEF Queue

(* The reason of the server's own close frames fits.                       *)
LEMMA ReasonFits == Reason \in Seq(STRING) /\ Len(Reason) + 2 <= MaxBasic
BY ConversationAssumption

(* "quit".                                                                 *)
LEMMA QuitReply ==
  ASSUME sent \in Seq(Sent), delivered \in Seq(Message), NEW m \in Message, m.op \in Data,
         m.payload = Quit, session = "open", ReplyTo(sent, delivered, "none", session),
         NEW code, code = 1001, Close(<<Text(Bye)>>, code)
  PROVE  ReplyTo(sent', Append(delivered, m), "none", session')
<1>1. PICK q, d, s : q = sent /\ d = delivered /\ s = session
  OBVIOUS
<1>2. PICK a, c, u : a = Text(Bye) /\ c = CloseMsg(code, Reason) /\ u = <<a>>
  OBVIOUS
<1>3. code \in Codes /\ LegalCode(code)
  BY LegalCodes
<1>4. sent' = q \o Append(u, c) /\ session' = "closing" /\ c \in Sent /\ c.op = "CLOSE"
  <2>1. Close(u, code)
    BY <1>2
  <2>2. PICK ack, last : ack = FALSE /\ last = Terminal(code)
    OBVIOUS
  <2>3. SendCloseFrame(u, code, Reason, ack, last)
    BY ONLY <2>1, <2>2 DEF Close
  <2>4. /\ sent' = sent \o Append(u, CloseMsg(code, Reason)) /\ session' = "closing"
        /\ CloseMsg(code, Reason) \in Sent /\ CloseMsg(code, Reason).op = "CLOSE"
    BY ONLY <1>3, <2>3, ReasonFits, ClosingSends
  <2> QED
    BY <1>1, <1>2, <2>4
<1>5. a \in Sent /\ a.op = "TEXT"
  <2>1. PICK t : t = Bye
    OBVIOUS
  <2>2. t \in Seq(STRING)
    BY <2>1, ConversationAssumption
  <2> QED
    BY <1>2, <2>1, <2>2 DEF Text, Sent, Data
<1>6. u \in Seq(Sent) /\ Len(u) = 1 /\ u[1] = a
  BY ONLY <1>2, <1>5
<1>7. q \o Append(u, c) = Append(q \o u, c)
  BY ONLY <1>1, <1>4, <1>6, sent \in Seq(Sent)
<1>8. c = Parting(m)
  <2>1. m.op # "CLOSE"
    BY DEF Data
  <2> QED
    BY <1>2, <2>1 DEF Parting
<1>9. \A i \in 1 .. Len(u) : u[i].op \notin {"CLOSE", "PONG"}
  <2>1. \A i \in 1 .. Len(u) : i = 1
    BY <1>6
  <2> QED
    BY <1>5, <1>6, <2>1
<1>10. Final(m)
  BY DEF Final
<1>11. PICK r : r = "closing"
  OBVIOUS
<1>12. r # "open"
  BY <1>11
<1>13. ReplyTo(Append(q \o u, c), Append(d, m), "none", r)
  BY <1>1, <1>4, <1>6, <1>8, <1>9, <1>10, <1>12, ReplyEnds
<1> QED
  BY <1>1, <1>4, <1>7, <1>11, <1>13
-----------------------------------------------------------------------------
(* What the server takes for a good close frame is one.                    *)
LEMMA GoodClose ==
  ASSUME NEW payload \in Seq(STRING), payload # <<>>,
         NEW remote, remote = ExtractCode(payload), NEW why, why = ExtractReason(payload)
  PROVE  /\ Legal(payload) <=> ~remote.bad /\ ~why.bad
         /\ why.reason \in Seq(STRING) /\ why.reason = SubSeq(payload, 3, Len(payload))
         /\ Legal(payload) => /\ remote.code = Number(SubSeq(payload, 1, 2)) /\ remote.code # NoStatus
                              /\ remote.code \in Codes /\ LegalCode(remote.code)
                              /\ Len(why.reason) + 2 = Len(payload)
<1>1. PICK text, code : text = SubSeq(payload, 3, Len(payload)) /\ code = Number(SubSeq(payload, 1, 2))
  OBVIOUS
<1>2. text \in Seq(STRING) /\ why.reason = text /\ why.bad = ~IsUtf8(text)
  <2>1. ExtractReason(payload) = [reason |-> text, bad |-> ~IsUtf8(text)]
    BY <1>1 DEF ExtractReason
  <2>2. why.reason = text /\ why.bad = ~IsUtf8(text)
    BY <2>1
  <2> QED
    BY <2>2, ReasonType
<1>3. ~why.bad <=> WellFormed(text) /\ (text # <<>> => Last(text) # "lead")
  <2>1. IsUtf8(text) <=> WellFormed(text) /\ (text # <<>> => Last(text) # "lead")
    BY <1>2, Utf8IsWellFormed, WellFormedIsUtf8
  <2> QED
    BY <1>2, <2>1
<1>4. CASE Len(payload) = 1
  <2>1. remote.bad = TRUE
    BY <1>4 DEF ExtractCode
  <2>2. ~Legal(payload)
    BY <1>4 DEF Legal
  <2> QED
    BY <1>1, <1>2, <2>1, <2>2
<1>5. CASE Len(payload) # 1
  <2>1. Len(payload) > 1 /\ Len(payload) \in Nat
    <3>1. Len(payload) \in Nat
      OBVIOUS
    <3>2. Len(payload) # 0
      BY ONLY payload \in Seq(STRING), payload # <<>>, EmptySeq
    <3>3. PICK n : n = Len(payload)
      OBVIOUS
    <3>4. n \in Nat /\ n # 0 /\ n # 1
      BY <1>5, <3>1, <3>2, <3>3
    <3>5. n > 1
      BY ONLY <3>4
    <3> QED
      BY ONLY <3>3, <3>4, <3>5
  <2>2. remote.code = code /\ remote.bad = (Invalid(code) \/ Reserved(code))
    <3>1. remote = [code |-> code, bad |-> Invalid(code) \/ Reserved(code)]
      BY <1>1, <1>5 DEF ExtractCode
    <3> QED
      BY <3>1
  <2>3. ~remote.bad <=> \E c \in Codes : LegalCode(c) /\ SubSeq(payload, 1, 2) = CodeBytes(c)
    <3>1. PICK two : two = SubSeq(payload, 1, 2)
      OBVIOUS
    <3>2. ASSUME NEW c \in Codes, two = CodeBytes(c)
          PROVE  code = c
      <4>1. code = CHOOSE b \in Codes : two = CodeBytes(b)
        BY <1>1, <3>1, <3>2 DEF Number
      <4>2. code \in Codes /\ two = CodeBytes(code)
        BY <3>2, <4>1
      <4>3. CodeName(c) = CodeName(code)
        BY <3>2, <4>2 DEF CodeBytes
      <4> QED
        BY <3>2, <4>2, <4>3, NamesAssumption
    <3>3. ASSUME ~remote.bad
          PROVE  \E c \in Codes : LegalCode(c) /\ two = CodeBytes(c)
      <4>1. ~Invalid(code) /\ ~Reserved(code)
        BY <2>2, <3>3
      <4>2. code # 65535
        BY <4>1, ValidCode
      <4>3. \E c \in Codes : two = CodeBytes(c)
        BY <1>1, <3>1, <4>2 DEF Number
      <4>4. code \in Codes /\ two = CodeBytes(code)
        BY <3>2, <4>3
      <4>5. LegalCode(code)
        BY <4>1, <4>4, CodesInt, LegalIs
      <4> QED
        BY <4>4, <4>5
    <3>4. ASSUME NEW c \in Codes, LegalCode(c), two = CodeBytes(c)
          PROVE  ~remote.bad
      <4>1. code = c /\ c \in Int
        BY <3>2, <3>4, CodesInt
      <4>2. ~Invalid(code) /\ ~Reserved(code)
        BY <3>4, <4>1, LegalIs
      <4> QED
        BY <2>2, <4>2
    <3> QED
      BY <3>1, <3>3, <3>4
  <2>4. Legal(payload) <=> ~remote.bad /\ ~why.bad
    BY <1>1, <1>3, <2>1, <2>3 DEF Legal
  <2>5. ~remote.bad => remote.code # NoStatus
    <3>1. ~remote.bad => ~Invalid(code)
      BY <2>2
    <3>2. ~Invalid(code) => code # NoStatus
      BY ONLY DEF Invalid
    <3> QED
      BY <2>2, <3>1, <3>2
  <2>6. ~remote.bad => remote.code \in Codes /\ LegalCode(remote.code)
    BY <2>5, EchoedCode
  <2>7. Len(text) + 2 = Len(payload)
    <3>1. PICK n : n = Len(payload)
      OBVIOUS
    <3>2. n \in Nat /\ n > 1 /\ \A i \in 3 .. n : payload[i] \in STRING
      BY <2>1, <3>1
    <3>3. Len(SubSeq(payload, 3, n)) = IF 3 <= n THEN n - 3 + 1 ELSE 0
      BY <3>2, SubSeqProperties
    <3> QED
      BY ONLY <1>1, <3>1, <3>2, <3>3
  <2> QED
    BY <1>1, <1>2, <2>2, <2>4, <2>5, <2>6, <2>7
<1> QED
  BY <1>4, <1>5

(* The client's close, while the connection is open.                       *)
LEMMA FirstCloseReply ==
  ASSUME sent \in Seq(Sent), delivered \in Seq(Message), NEW m \in Message, m.op = "CLOSE",
         Len(m.payload) <= MaxBasic, session = "open",
         ReplyTo(sent, delivered, "none", session), ProcessClose(m.payload)
  PROVE  ReplyTo(sent', Append(delivered, m), "none", session')
<1>1. PICK q, d, s : q = sent /\ d = delivered /\ s = session
  OBVIOUS
<1>2. PICK payload : payload = m.payload
  OBVIOUS
<1>3. payload \in Seq(STRING) /\ Len(payload) <= MaxBasic /\ Len(payload) \in Nat /\ MaxBasic \in Nat
  BY <1>2, FramesAssumption DEF Message
<1>4. PICK remote, why : remote = ExtractCode(payload) /\ why = ExtractReason(payload)
  OBVIOUS
<1>5. \E code \in Codes, reason \in Seq(STRING) :
        /\ LegalCode(code) /\ Len(reason) + 2 <= MaxBasic
        /\ SendCloseAck(code, reason) /\ Parting(m) = CloseMsg(code, reason)
  <2>1. CASE remote.bad \/ why.bad
    <3>1. SendCloseAck(1002, Reason)
      BY <1>1, <1>2, <1>4, <2>1 DEF ProcessClose
    <3>2. payload # <<>>
      <4> SUFFICES ASSUME payload = <<>> PROVE FALSE
        OBVIOUS
      <4>1. remote = [code |-> NoStatus, bad |-> FALSE]
        BY <1>4 DEF ExtractCode
      <4>2. PICK t : t = <<>>
        OBVIOUS
      <4>3. SubSeq(t, 3, Len(t)) = t /\ t \in Seq(STRING) /\ WellFormed(t)
        BY <4>2 DEF WellFormed
      <4>4. IsUtf8(t)
        BY <4>2, <4>3, WellFormedIsUtf8
      <4>5. why = [reason |-> t, bad |-> ~IsUtf8(t)]
        BY <1>4, <4>2, <4>3 DEF ExtractReason
      <4> QED
        BY <2>1, <4>1, <4>4, <4>5
    <3>3. ~Legal(payload)
      BY <1>3, <1>4, <2>1, <3>2, GoodClose
    <3>4. Parting(m) = CloseMsg(1002, Reason)
      BY <1>2, <3>2, <3>3 DEF Parting
    <3> QED
      BY <3>1, <3>4, LegalCodes, ReasonFits
  <2>2. CASE ~remote.bad /\ ~why.bad /\ payload = <<>>
    <3>1. remote.code = NoStatus
      BY <1>4, <2>2 DEF ExtractCode
    <3>2. SendCloseAck(1000, <<>>)
      BY <1>1, <1>2, <1>4, <2>2, <3>1 DEF ProcessClose
    <3>3. Parting(m) = CloseMsg(1000, <<>>)
      BY <1>2, <2>2 DEF Parting
    <3>4. PICK t : t = <<>>
      OBVIOUS
    <3>5. t \in Seq(STRING) /\ Len(t) = 0
      BY <3>4
    <3>6. Len(t) + 2 <= MaxBasic
      <4>1. Len(Reason) \in Nat
        BY ReasonFits
      <4> QED
        BY <3>5, <4>1, <1>3, ReasonFits
    <3>7. PICK code : code = 1000
      OBVIOUS
    <3>8. SendCloseAck(code, t) /\ Parting(m) = CloseMsg(code, t)
      BY <3>2, <3>3, <3>4, <3>7
    <3>9. code \in Codes /\ LegalCode(code)
      BY <3>7, LegalCodes
    <3> QED
      BY <3>5, <3>6, <3>8, <3>9
  <2>3. CASE ~remote.bad /\ ~why.bad /\ payload # <<>>
    <3>1. /\ Legal(payload) /\ why.reason \in Seq(STRING) /\ why.reason = SubSeq(payload, 3, Len(payload))
          /\ remote.code = Number(SubSeq(payload, 1, 2)) /\ remote.code # NoStatus
          /\ remote.code \in Codes /\ LegalCode(remote.code) /\ Len(why.reason) + 2 = Len(payload)
      BY <1>3, <1>4, <2>3, GoodClose
    <3>2. SendCloseAck(remote.code, why.reason)
      BY <1>1, <1>2, <1>4, <2>3, <3>1 DEF ProcessClose
    <3>3. Parting(m) = CloseMsg(remote.code, why.reason)
      BY <1>2, <2>3, <3>1 DEF Parting
    <3> QED
      BY <1>3, <3>1, <3>2, <3>3
  <2> QED
    BY <2>1, <2>2, <2>3
<1>6. PICK code \in Codes, reason \in Seq(STRING) :
        /\ LegalCode(code) /\ Len(reason) + 2 <= MaxBasic
        /\ SendCloseAck(code, reason) /\ Parting(m) = CloseMsg(code, reason)
  BY <1>5
<1>7. PICK u, ack : u = <<>> /\ ack = TRUE
  OBVIOUS
<1>8. SendCloseFrame(u, code, reason, ack, ack)
  BY <1>6, <1>7 DEF SendCloseAck
<1>9. PICK c : c = CloseMsg(code, reason)
  OBVIOUS
<1>10. sent' = q \o Append(u, c) /\ session' = "closing" /\ c \in Sent /\ c.op = "CLOSE"
  BY <1>1, <1>6, <1>8, <1>9, ClosingSends
<1>11. u \in Seq(Sent) /\ Len(u) = 0 /\ q \o Append(u, c) = Append(q \o u, c)
  BY ONLY <1>1, <1>7, <1>10, sent \in Seq(Sent)
<1>12. Final(m)
  BY DEF Final
<1>13. \A i \in 1 .. Len(u) : u[i].op \notin {"CLOSE", "PONG"}
  BY <1>11
<1>14. c = Parting(m)
  BY <1>6, <1>9
<1>15. PICK r : r = "closing"
  OBVIOUS
<1>16. r # "open"
  BY <1>15
<1>17. ReplyTo(Append(q \o u, c), Append(d, m), "none", r)
  BY <1>1, <1>10, <1>11, <1>12, <1>13, <1>14, <1>16, ReplyEnds
<1> QED
  BY <1>1, <1>10, <1>11, <1>15, <1>17

(* A close frame that comes later: another is sent, or none.               *)
LEMMA LaterClose ==
  ASSUME sent \in Seq(Sent), NEW payload \in Seq(STRING), session \in {"closing", "closed"},
         ProcessClose(payload)
  PROVE  /\ session' \in {"closing", "closed"}
         /\ sent' = sent \/ \E c \in Sent : c.op = "CLOSE" /\ sent' = Append(sent, c)
<1>1. PICK remote, why : remote = ExtractCode(payload) /\ why = ExtractReason(payload)
  OBVIOUS
<1>2. CASE session = "closed"
  <2>1. UNCHANGED conversation
    BY <1>2, Zenon DEF ProcessClose
  <2> QED
    BY <2>1 DEF conversation
<1>3. CASE session = "closing" /\ (remote.bad \/ why.bad)
  <2>1. SendCloseAck(1002, Reason)
    BY <1>1, <1>3 DEF ProcessClose
  <2>2. PICK u, ack, code : u = <<>> /\ ack = TRUE /\ code = 1002
    OBVIOUS
  <2>3. SendCloseFrame(u, code, Reason, ack, ack)
    BY <2>1, <2>2 DEF SendCloseAck
  <2>4. code \in Codes /\ LegalCode(code)
    BY <2>2, LegalCodes
  <2>5. PICK c : c = CloseMsg(code, Reason)
    OBVIOUS
  <2>6. sent' = sent \o Append(u, c) /\ session' = "closing" /\ c \in Sent /\ c.op = "CLOSE"
    BY <2>3, <2>4, <2>5, ReasonFits, ClosingSends
  <2>7. sent \o Append(u, c) = Append(sent, c)
    BY ONLY <2>2, <2>6, sent \in Seq(Sent)
  <2> QED
    BY <2>6, <2>7
<1>4. CASE session = "closing" /\ ~remote.bad /\ ~why.bad
  <2>1. IF m_was_clean THEN UNCHANGED conversation
          ELSE m_was_clean' = TRUE /\ session' = "closed" /\ UNCHANGED <<terminal, sent, out, aborted>>
    BY <1>1, <1>4 DEF ProcessClose
  <2> QED
    BY <1>4, <2>1 DEF conversation
<1> QED
  BY <1>2, <1>3, <1>4
-----------------------------------------------------------------------------
(* What a message leads to.                                                *)
LEMMA DispatchReply ==
  ASSUME sent \in Seq(Sent), delivered \in Seq(Message), NEW m \in Message,
         m.op \notin Data => GetWebsocketVersion # 0 /\ Len(m.payload) <= MaxBasic,
         session \in {"open", "closing", "closed"},
         ReplyTo(sent, delivered, "none", session), Dispatch(m), ~aborted'
  PROVE  ReplyTo(sent', Append(delivered, m), "none", session')
<1>1. PICK q, d, s : q = sent /\ d = delivered /\ s = session
  OBVIOUS
<1>2. m.payload \in Seq(STRING) /\ m.op \in Data \cup Control
  BY DEF Message
<1>3. PICK d1 : d1 = Append(d, m)
  OBVIOUS
<1>4. ASSUME s # "open", sent' = q \/ (\E c \in Sent : c.op = "CLOSE" /\ sent' = Append(q, c)), session' # "open"
      PROVE  ReplyTo(sent', d1, "none", session')
  <2>1. PICK q1, r : q1 = sent' /\ r = session'
    OBVIOUS
  <2>2. ReplyTo(q1, d1, "none", r)
    BY <1>1, <1>3, <1>4, <2>1, ReplyStays
  <2> QED
    BY <2>1, <2>2
<1>5. CASE m.op = "CLOSE"
  <2>1. ProcessClose(m.payload) /\ Len(m.payload) <= MaxBasic
    BY <1>5 DEF Dispatch, Data
  <2>2. CASE s = "open"
    BY <1>1, <1>5, <2>1, <2>2, FirstCloseReply
  <2>3. CASE s # "open"
    <3>1. PICK payload : payload = m.payload
      OBVIOUS
    <3>2. session' \in {"closing", "closed"} /\ (sent' = sent \/ \E c \in Sent : c.op = "CLOSE" /\ sent' = Append(sent, c))
      BY <1>1, <1>2, <2>1, <2>3, <3>1, LaterClose
    <3> QED
      BY <1>1, <1>3, <1>4, <2>3, <3>2
  <2> QED
    BY <2>2, <2>3
<1>6. ASSUME s = "open", UNCHANGED conversation, ~Final(m), m.op # "PING"
      PROVE  ReplyTo(sent', d1, "none", session')
  <2>1. sent' = q /\ session' = s
    BY <1>1, <1>6 DEF conversation
  <2> QED
    BY <1>1, <1>3, <1>6, <2>1, NothingSaid
<1>7. CASE m.op = "PING" /\ s = "open"
  <2>1. Pong(m.payload)
    BY <1>1, <1>7 DEF Dispatch, Data
  <2>2. GetWebsocketVersion # 0 /\ Len(m.payload) <= MaxBasic
    BY <1>7 DEF Data
  <2> QED
    BY <1>1, <1>7, <2>1, <2>2, PongReply
<1>8. CASE m.op \in Data /\ s = "open"
  <2>1. OnMessage(m.payload)
    BY <1>1, <1>8 DEF Dispatch, Data
  <2>2. CASE m.payload = Ready
    <3>1. PICK greeting \in Greetings : SendAll(greeting)
      BY <2>1, <2>2 DEF OnMessage
    <3> QED
      BY <1>1, <1>8, <2>2, <3>1, GreetingReply
  <2>3. CASE m.payload = Quit
    <3>1. PICK code : code = 1001
      OBVIOUS
    <3>2. m.payload # Ready
      BY <2>3, ConversationAssumption
    <3>3. Close(<<Text(Bye)>>, code)
      BY <2>1, <2>3, <3>1, <3>2 DEF OnMessage
    <3> QED
      BY ONLY <1>1, <1>8, <2>3, <3>1, <3>3, QuitReply, m \in Message, sent \in Seq(Sent),
              delivered \in Seq(Message), ReplyTo(sent, delivered, "none", session)
  <2>4. CASE m.payload # Ready /\ m.payload # Quit
    <3>1. UNCHANGED conversation
      BY <2>1, <2>4 DEF OnMessage
    <3>2. ~Final(m) /\ m.op # "PING"
      BY <1>8, <2>4 DEF Final, Data
    <3> QED
      BY <1>1, <1>3, <1>6, <1>8, <3>1, <3>2
  <2> QED
    BY <2>2, <2>3, <2>4
<1>9. CASE m.op # "CLOSE" /\ ~(m.op = "PING" /\ s = "open") /\ ~(m.op \in Data /\ s = "open")
  <2>1. UNCHANGED conversation
    BY <1>1, <1>9 DEF Dispatch
  <2>2. CASE s = "open"
    <3>1. ~Final(m) /\ m.op # "PING"
      BY <1>9, <2>2 DEF Final
    <3> QED
      BY <1>1, <1>3, <1>6, <2>1, <2>2, <3>1
  <2>3. CASE s # "open"
    <3>1. sent' = q /\ session' # "open"
      BY <1>1, <2>1, <2>3 DEF conversation
    <3> QED
      BY <1>1, <1>3, <1>4, <2>3, <3>1
  <2> QED
    BY <2>2, <2>3
<1> QED
  BY <1>5, <1>7, <1>8, <1>9

(* What an error leads to.                                                 *)
LEMMA RefusalIs ==
  ASSUME NEW e \in Errors, e # "none"
  PROVE  Refusal(e) = CloseMsg(ToWs(e), Reason)
<1>1. ToWs(e) = (CASE e = "invalid_utf8" -> 1007 [] e = "message_too_big" -> 1009
                   [] e = "non_minimal_encoding" -> 1011 [] OTHER -> 1002)
  BY DEF ToWs, Errors
<1> QED
  BY <1>1 DEF Refusal

(* It goes out, unless the connection is about to end anyway.              *)
LEMMA ErrorReply ==
  ASSUME sent \in Seq(Sent), delivered \in Seq(Message), NEW e \in Errors, e # "none",
         session \in {"open", "closing", "closed"},
         ReplyTo(sent, delivered, "none", session), ConsumeError(e)
  PROVE  ReplyTo(sent', delivered, e, session')
<1>1. PICK q, d, s : q = sent /\ d = delivered /\ s = session
  OBVIOUS
<1>2. PICK code : code = ToWs(e)
  OBVIOUS
<1>3. code \in Codes /\ LegalCode(code)
  BY <1>2, ToWsIs
<1>4. PICK c : c = CloseMsg(code, Reason)
  OBVIOUS
<1>5. c = Refusal(e)
  BY <1>2, <1>4, RefusalIs
<1>6. CASE s = "open"
  <2>1. Encode(CloseMsg(code, Reason)) # <<>>
    BY <1>3, ReasonFits, CloseEncoded
  <2>2. Close(<<>>, code)
    BY <1>1, <1>2, <1>6, <2>1 DEF ConsumeError
  <2>3. PICK u, ack, last : u = <<>> /\ ack = FALSE /\ last = Terminal(code)
    OBVIOUS
  <2>4. SendCloseFrame(u, code, Reason, ack, last)
    BY ONLY <2>2, <2>3 DEF Close
  <2>5. sent' = q \o Append(u, c) /\ session' = "closing" /\ c \in Sent /\ c.op = "CLOSE"
    BY <1>1, <1>3, <1>4, <2>4, ReasonFits, ClosingSends
  <2>6. q \o Append(u, c) = Append(q, c)
    BY ONLY <1>1, <2>3, <2>5, sent \in Seq(Sent)
  <2>7. PICK r : r = "closing"
    OBVIOUS
  <2>8. r # "open"
    BY <2>7
  <2>9. ReplyTo(Append(q, c), d, e, r)
    BY <1>1, <1>5, <1>6, <2>5, <2>8, ReplyRefuses
  <2> QED
    BY <1>1, <2>5, <2>6, <2>7, <2>9
<1>7. CASE s # "open"
  <2>1. sent' = q /\ session' = "closed"
    BY <1>1, <1>7 DEF ConsumeError, Terminate
  <2>2. Endings(d) # {}
    BY <1>1, <1>7 DEF ReplyTo, Over
  <2>3. PICK r : r = "closed"
    OBVIOUS
  <2>4. r # "open"
    BY <2>3
  <2>5. ReplyTo(q, d, e, r)
    BY <1>1, <1>7, <2>2, <2>4, ReplyStays
  <2> QED
    BY <1>1, <2>1, <2>3, <2>5
<1> QED
  BY <1>6, <1>7
-----------------------------------------------------------------------------
(* As long as no exception has ended the daemon, the client has its answers. *)
Answering == m_response = 101 /\ ~aborted => ReplyTo(sent, delivered, ec, session)

ReplyIInv == Short /\ Quiet /\ Answering

(* No turn after an error.                                                 *)
LEMMA NoErrorYet ==
  ASSUME Frame, Quiet
  PROVE  ec = "none"
BY DEF Frame, ConsumeFrames, ConsumeHybi00, HeaderBasic, HeaderExtended, Application, GetMessage,
       Header00, Payload00, GetMessage00, Turn, Hybi00Turn, Quiet

(* A turn of the loop.                                                     *)
LEMMA FrameStepReply ==
  ASSUME FramesIInv, TalkIInv, ReplyIInv, FrameStep
  PROVE  ReplyIInv'
<1>1. Frame /\ m_response = 101 /\ m_response' = 101 /\ ~aborted
  BY DEF FrameStep, Frame, request
<1>2. Short' /\ Quiet' /\ (UNCHANGED delivered \/ GivenMessage) /\ ec = "none"
  BY <1>1, ShortStep, NoErrorYet DEF ReplyIInv
<1>3. ReplyTo(sent, delivered, "none", session)
  BY <1>1, <1>2 DEF ReplyIInv, Answering
<1>4. delivered \in Seq(Message) /\ sent \in Seq(Sent) /\ session \in {"open", "closing", "closed"}
  BY <1>1 DEF FramesIInv, MessageType, TalkIInv, Conversing, Lasting, Understands
<1>5. ASSUME ~aborted'
      PROVE  ReplyTo(sent', delivered', ec', session')
  <2>1. CASE ec' # "none"
    <3>1. PICK e : e = ec'
      OBVIOUS
    <3>2. e \in Errors /\ e # "none"
      BY <1>1, <2>1, <3>1, FrameStepFrames DEF FramesIInv, MessageType
    <3>3. ConsumeError(e)
      BY <2>1, <3>1 DEF FrameStep
    <3>4. delivered' = delivered
      BY <1>2, <2>1 DEF GivenMessage
    <3>5. ReplyTo(sent', delivered, e, session')
      BY <1>3, <1>4, <3>2, <3>3, ErrorReply
    <3> QED
      BY <3>1, <3>4, <3>5
  <2>2. CASE ec' = "none" /\ delivered' # delivered
    <3>1. PICK m \in Message : /\ delivered' = Append(delivered, m)
                               /\ m.op \notin Data => GetWebsocketVersion # 0 /\ Len(m.payload) <= MaxBasic
      BY <1>2, <2>2 DEF GivenMessage
    <3>2. Last(delivered') = m
      <4>1. PICK d, d1 : d = delivered /\ d1 = Append(d, m)
        OBVIOUS
      <4>2. d1[Len(d1)] = m
        BY ONLY <1>4, <3>1, <4>1
      <4> QED
        BY <3>1, <4>1, <4>2 DEF Last
    <3>3. Dispatch(m)
      BY <2>2, <3>2 DEF FrameStep
    <3>4. ReplyTo(sent', Append(delivered, m), "none", session')
      BY <1>3, <1>4, <1>5, <3>1, <3>3, DispatchReply
    <3> QED
      BY <2>2, <3>1, <3>4
  <2>3. CASE ec' = "none" /\ delivered' = delivered
    <3>1. sent' = sent /\ session' = session
      BY <2>3 DEF FrameStep, conversation
    <3> QED
      BY <1>3, <2>3, <3>1
  <2> QED
    BY <2>1, <2>2, <2>3
<1> QED
  BY <1>2, <1>5 DEF ReplyIInv, Answering

(* A step of the request: when it is answered, nothing has been said.      *)
LEMMA RequestReply ==
  ASSUME FramesIInv, TalkIInv, m_response = 0, UNCHANGED <<delivered, ec, sent>>,
         m_state' \in {m_state, "HEADER"}, session' = IF m_response' = 101 THEN "open" ELSE session
  PROVE  ReplyIInv'
<1>1. sent = <<>> /\ delivered = <<>> /\ ec = "none" /\ m_state = "HEADER_BASIC"
  BY DEF FramesIInv, Untouched, TalkIInv, Silent
<1>2. Short' /\ Quiet'
  BY <1>1 DEF Short, Quiet
<1>3. ASSUME m_response' = 101
      PROVE  ReplyTo(sent', delivered', ec', session')
  BY <1>1, <1>3, NothingYet
<1> QED
  BY <1>2, <1>3 DEF ReplyIInv, Answering

(* Every step.                                                             *)
LEMMA ReplyNext ==
  ASSUME FramesIInv, TalkIInv, ReplyIInv, [ConversationNext]_<<vars, conversation>>
  PROVE  ReplyIInv'
<1>1. ASSUME UNCHANGED <<m_response, m_headers, framing, conversation>>
      PROVE  ReplyIInv'
  <2>1. UNCHANGED <<m_state, m_bytes_needed, m_basic_header, m_control_msg, m_current_msg, delivered, ec>>
    BY <1>1 DEF framing, headers, messages
  <2>2. GetWebsocketVersion' = GetWebsocketVersion
    BY <1>1 DEF GetWebsocketVersion
  <2>3. Short' /\ Quiet'
    BY <1>1, <2>1, <2>2 DEF ReplyIInv, Short, Quiet
  <2>4. sent' = sent /\ session' = session /\ aborted' = aborted
    BY <1>1 DEF conversation
  <2> QED
    BY <1>1, <2>1, <2>3, <2>4 DEF ReplyIInv, Answering
<1>2. CASE UNCHANGED <<vars, conversation>>
  <2>1. UNCHANGED <<m_response, m_headers, framing, conversation>>
    BY <1>2 DEF vars, request
  <2> QED
    BY <1>1, <2>1
<1>3. ASSUME NEW n \in 1 .. Min({MaxRead, Len(input)}), ReadMore(n)
      PROVE  ReplyIInv'
  <2>1. UNCHANGED <<m_response, m_headers, framing, conversation>>
    BY <1>3 DEF ReadMore, ReadFrames, request
  <2> QED
    BY <1>1, <2>1
<1>4. CASE \/ \E n \in 1 .. Min({MaxRead, Len(input)}) : OfRequest(ReadRequest(n)) \/ OfRequest(ReadBody(n))
           \/ OfRequest(OutOfBytes) \/ OfRequest(Process) \/ OfRequest(ProcessHeader)
           \/ OfRequest(BlankLine) \/ OfRequest(ProcessBody) \/ OfRequest(Respond)
  <2>1. m_response = 0
    BY <1>4 DEF OfRequest, ReadRequest, ReadBody, OutOfBytes, Process, ProcessHeader, Line, Request,
                BlankLine, ProcessBody, Respond
  <2>2. session' = (IF m_response' = 101 THEN "open" ELSE session) /\ sent' = sent
    BY <1>4 DEF OfRequest
  <2>3. UNCHANGED <<delivered, ec>> /\ m_state' \in {m_state, "HEADER"}
    <3>1. CASE \/ \E n \in 1 .. Min({MaxRead, Len(input)}) : OfRequest(ReadRequest(n)) \/ OfRequest(ReadBody(n))
               \/ OfRequest(OutOfBytes) \/ OfRequest(Process) \/ OfRequest(ProcessHeader)
               \/ OfRequest(BlankLine) \/ OfRequest(ProcessBody)
      <4>1. UNCHANGED framing
        BY <3>1 DEF OfRequest, ReadRequest, ReadBody, OutOfBytes, Process, ProcessHeader, Line, BlankLine,
                    ProcessBody
      <4> QED
        BY <4>1 DEF framing, headers
    <3>2. CASE OfRequest(Respond)
      BY <3>2 DEF OfRequest, Respond
    <3> QED
      BY <1>4, <3>1, <3>2
  <2> QED
    BY <2>1, <2>2, <2>3, RequestReply
<1>5. CASE FrameStep
  BY <1>5, FrameStepReply
<1>6. CASE Drop
  <2>1. /\ session = "closing" /\ session' = "closed" /\ sent' = sent /\ aborted' = aborted
        /\ UNCHANGED <<m_response, m_headers, framing>>
    BY <1>6 DEF Drop, Terminate, vars, request
  <2>2. UNCHANGED <<m_state, m_bytes_needed, m_basic_header, m_control_msg, m_current_msg, delivered, ec>>
    BY <2>1 DEF framing, headers, messages
  <2>3. GetWebsocketVersion' = GetWebsocketVersion
    BY <2>1 DEF GetWebsocketVersion
  <2>4. Short' /\ Quiet'
    BY <2>1, <2>2, <2>3 DEF ReplyIInv, Short, Quiet
  <2>5. ASSUME m_response = 101, ~aborted
        PROVE  ReplyTo(sent, delivered, ec, session')
    <3>1. PICK q, d, e, s, r : q = sent /\ d = delivered /\ e = ec /\ s = session /\ r = session'
      OBVIOUS
    <3>2. q \in Seq(Sent) /\ d \in Seq(Message) /\ ReplyTo(q, d, e, s) /\ s # "open" /\ r # "open"
      BY <2>1, <2>5, <3>1 DEF FramesIInv, MessageType, TalkIInv, Conversing, Understands, ReplyIInv, Answering
    <3>3. ReplyTo(q, d, e, r)
      BY ONLY <3>2, ReplyStays
    <3> QED
      BY <3>1, <3>3
  <2> QED
    BY <2>1, <2>2, <2>4, <2>5 DEF ReplyIInv, Answering
<1>7. CASE ConversationNext
  BY <1>3, <1>4, <1>5, <1>6, <1>7 DEF ConversationNext
<1> QED
  BY <1>2, <1>7

(* At first.                                                               *)
LEMMA InitReply ==
  ASSUME ConversationInit
  PROVE  ReplyIInv
<1>1. m_response = 0 /\ ec = "none" /\ m_state = "HEADER_BASIC"
  BY DEF ConversationInit, Init, FramesInit
<1> QED
  BY <1>1 DEF ReplyIInv, Short, Quiet, Answering

(* In every behaviour.                                                     *)
LEMMA ReplyInvariant == Spec => [](FramesIInv /\ TalkIInv /\ ReplyIInv)
<1>1. ConversationInit => FramesIInv /\ Body /\ TalkIInv /\ ReplyIInv
  BY InitFrames, InitBody, InitTalk, InitReply
<1>2. FramesIInv /\ Body /\ TalkIInv /\ ReplyIInv /\ [ConversationNext]_<<vars, conversation>>
        => (FramesIInv /\ Body /\ TalkIInv /\ ReplyIInv)'
  BY FramesNext, TalkNext, ReplyNext
<1> QED
  BY <1>1, <1>2, PTL DEF Spec

(* Every ping is answered, in order and with its own payload, until the    *)
(* conversation ends.  It ends when the client closes or says "quit", or   *)
(* when one of its frames is refused: then process_control_frame, Flotilla *)
(* or handle_read_frame has sent a close frame that says why, with the     *)
(* code that is due; only closes follow it, and no connection is closed    *)
(* without one.                                                            *)
THEOREM ClientsAnswered == Spec => []Replied
<1>1. FramesIInv /\ TalkIInv /\ ReplyIInv => Replied
  <2> SUFFICES ASSUME FramesIInv, TalkIInv, ReplyIInv, ~aborted
               PROVE  Replied
    BY DEF Replied
  <2>1. PICK q, d, e, s : q = sent /\ d = delivered /\ e = ec /\ s = session
    OBVIOUS
  <2>2. sent \in Seq(Sent) /\ delivered \in Seq(Message)
    <3>1. CASE m_response = 101
      BY <3>1 DEF FramesIInv, MessageType, TalkIInv, Conversing, Understands
    <3>2. CASE m_response # 101
      BY <3>2, EmptySeq DEF TalkIInv, Silent, FramesIInv, MessageType
    <3> QED
      BY <3>1, <3>2
  <2>3. DOMAIN sent = 1 .. Len(sent) /\ DOMAIN delivered = 1 .. Len(delivered)
    BY ONLY <2>2
  <2>4. Farewells = Endings(d) /\ {i \in DOMAIN sent : sent[i].op = "CLOSE"} = Closes(q)
    BY <2>1, <2>3 DEF Farewells, Endings, Closes
  <2>5. /\ Payloads(q, "PONG") = Pinged(d)
        /\ Closes(q) = {} <=> ~Over(d, e)
        /\ Over(d, e) => Closed(q, Why(d, e))
        /\ s = "closed" => Over(d, e)
    <3>1. CASE m_response = 101
      <4>1. ReplyTo(q, d, e, s)
        BY <2>1, <3>1 DEF ReplyIInv, Answering
      <4> QED
        BY <4>1 DEF ReplyTo
    <3>2. CASE m_response # 101
      <4>1. q = <<>> /\ d = <<>> /\ e = "none" /\ s = "connecting"
        BY <2>1, <3>2 DEF TalkIInv, Silent, FramesIInv, Untouched
      <4>2. ReplyTo(q, d, e, "open")
        BY <4>1, NothingYet
      <4> QED
        BY <4>1, <4>2 DEF ReplyTo
    <3> QED
      BY <3>1, <3>2
  <2>6. Over(d, e) => sent[Min(Closes(q))] = Farewell /\ Closes(q) = Min(Closes(q)) .. Len(sent)
    BY <2>1, <2>4, <2>5 DEF Closed, Why, Farewell
  <2>7. Payloads(sent, "PONG")
          = Payloads(SubSeq(delivered, 1, IF Farewells = {} THEN Len(delivered) ELSE Min(Farewells)), "PING")
    BY <2>1, <2>4, <2>5 DEF Pinged, Heard
  <2>8. Over(d, e) <=> Farewells # {} \/ ec # "none"
    BY <2>1, <2>4 DEF Over
  <2> QED
    BY <2>1, <2>4, <2>5, <2>6, <2>7, <2>8 DEF Replied
<1> QED
  BY <1>1, ReplyInvariant, PTL
-----------------------------------------------------------------------------
(* A function defined by tail recursion on smaller and smaller data exists, *)
(* and whatever satisfies its equation has its values where those that end *)
(* the recursion are, if what is allowed for rest[x] is allowed for x.     *)
TailRecursive(f, D, more, rest, base) ==
  f = [x \in D |-> IF x \in more THEN f[rest[x]] ELSE base[x]]

LEMMA TailRecursion ==
  ASSUME NEW D, NEW size \in [D -> Nat], NEW more, NEW rest, NEW base, NEW V,
         \A x \in D : x \in more => /\ rest[x] \in D /\ size[rest[x]] < size[x]
                                    /\ V[rest[x]] \subseteq V[x],
         \A x \in D : x \notin more => base[x] \in V[x]
  PROVE  /\ \E f : TailRecursive(f, D, more, rest, base)
         /\ \A f : TailRecursive(f, D, more, rest, base) => \A x \in D : f[x] \in V[x]
<1>1. \E f : TailRecursive(f, D, more, rest, base)
  <2>1. PICK f : Recurs(f, D, more, rest, {}, base, base)
    BY Recursion
  <2>2. \A x \in D : f[x] = IF x \in more THEN f[rest[x]] ELSE base[x]
    BY <2>1 DEF Recurs
  <2>3. f = [x \in D |-> f[x]]
    BY <2>1 DEF Recurs
  <2>4. [x \in D |-> f[x]] = [x \in D |-> IF x \in more THEN f[rest[x]] ELSE base[x]]
    BY <2>2
  <2>5. TailRecursive(f, D, more, rest, base)
    BY <2>3, <2>4 DEF TailRecursive
  <2> QED
    BY <2>5
<1>2. ASSUME NEW f, TailRecursive(f, D, more, rest, base)
      PROVE  \A x \in D : f[x] \in V[x]
  <2> DEFINE S == {n \in Nat : \A x \in D : size[x] < n => f[x] \in V[x]}
  <2>1. \A x \in D : f[x] = IF x \in more THEN f[rest[x]] ELSE base[x]
    BY <1>2 DEF TailRecursive
  <2>2. 0 \in S
    OBVIOUS
  <2>3. ASSUME NEW n \in Nat, n \in S
        PROVE  n + 1 \in S
    <3> SUFFICES ASSUME NEW x \in D, size[x] < n + 1
                 PROVE  f[x] \in V[x]
      OBVIOUS
    <3>1. CASE x \in more
      <4>1. rest[x] \in D /\ size[rest[x]] < size[x] /\ V[rest[x]] \subseteq V[x]
        BY <3>1
      <4>2. size[rest[x]] \in Nat /\ size[x] \in Nat
        BY <4>1
      <4>3. size[rest[x]] < n
        BY <4>1, <4>2
      <4>4. f[rest[x]] \in V[rest[x]]
        BY <2>3, <4>1, <4>3
      <4> QED
        BY <2>1, <3>1, <4>1, <4>4
    <3>2. CASE x \notin more
      BY <2>1, <3>2
    <3> QED
      BY <3>1, <3>2
  <2> HIDE DEF S
  <2>4. Nat \subseteq S
    BY <2>2, <2>3, SetInduction
  <2>5. ASSUME NEW x \in D
        PROVE  f[x] \in V[x]
    <3>1. size[x] \in Nat /\ size[x] + 1 \in Nat /\ size[x] < size[x] + 1
      OBVIOUS
    <3>2. size[x] + 1 \in S
      BY <2>4, <3>1
    <3> QED
      BY <3>1, <3>2 DEF S
  <2> QED
    BY <2>5
<1> QED
  BY <1>1, <1>2

(* The text from some character on.                                        *)
LEMMA FromType ==
  ASSUME NEW t \in Chars, NEW n \in 0 .. Len(t)
  PROVE  From(t, n + 1) \in Chars /\ Len(From(t, n + 1)) = Len(t) - n
BY TakeAndSkip DEF From, Chars

LEMMA TailType ==
  ASSUME NEW t \in Chars, t # <<>>
  PROVE  Tail(t) \in Chars /\ Len(Tail(t)) = Len(t) - 1 /\ Len(t) > 0
<1>1. Len(t) \in Nat /\ t \in Seq(STRING)
  BY DEF Chars
<1>2. Len(t) # 0
  BY <1>1, EmptySeq
<1> QED
  BY <1>1, <1>2, HeadTailProperties DEF Chars

(* The first place of some.                                                *)
LEMMA FirstPlace ==
  ASSUME NEW n \in Nat, NEW I \in SUBSET (1 .. n)
  PROVE  (IF I # {} THEN Min(I) ELSE 0) \in 0 .. n
<1>1. CASE I # {}
  <2>1. I \subseteq Nat
    OBVIOUS
  <2>2. Min(I) \in I
    BY <1>1, <2>1, MinExists
  <2>3. \A x \in I : x \in 0 .. n
    OBVIOUS
  <2> QED
    BY <1>1, <2>2, <2>3, Zenon
<1>2. CASE I = {}
  BY <1>2
<1> QED
  BY <1>1, <1>2

LEMMA SpanType ==
  ASSUME NEW t \in Chars
  PROVE  Span(t, IsToken) \in 0 .. Len(t) /\ Span(t, IsWhitespace) \in 0 .. Len(t)
<1>1. Len(t) \in Nat
  BY DEF Chars
<1>2. PICK I : I = {i \in 1 .. Len(t) : ~IsToken(t[i])}
  OBVIOUS
<1>3. PICK J : J = {i \in 1 .. Len(t) : ~IsWhitespace(t[i])}
  OBVIOUS
<1>4. PICK i : i = IF I # {} THEN Min(I) ELSE 0
  OBVIOUS
<1>5. PICK j : j = IF J # {} THEN Min(J) ELSE 0
  OBVIOUS
<1>6. i \in 0 .. Len(t) /\ j \in 0 .. Len(t)
  BY <1>1, <1>2, <1>3, <1>4, <1>5, FirstPlace
<1>7. Span(t, IsToken) = IF i = 0 THEN Len(t) ELSE i - 1
  BY <1>2, <1>4 DEF Span, SelectInSeq
<1>8. Span(t, IsWhitespace) = IF j = 0 THEN Len(t) ELSE j - 1
  BY <1>3, <1>5 DEF Span, SelectInSeq
<1> QED
  BY <1>1, <1>6, <1>7, <1>8

(* A token, and the text after it.                                         *)
Tokens == [ok : BOOLEAN, value : Chars, rest : Chars]

LEMMA TokenType ==
  ASSUME NEW t \in Chars
  PROVE  /\ ExtractToken(t) \in Tokens
         /\ Len(ExtractToken(t).rest) <= Len(t)
         /\ ExtractToken(t).ok => Len(ExtractToken(t).rest) < Len(t)
<1>1. PICK n : n = Span(t, IsToken)
  OBVIOUS
<1>2. Len(t) \in Nat /\ n \in 0 .. Len(t)
  BY <1>1, SpanType DEF Chars
<1>3. SubSeq(t, 1, n) \in Chars
  BY <1>2, TakeAndSkip DEF Chars
<1>4. From(t, n + 1) \in Chars /\ Len(From(t, n + 1)) = Len(t) - n
  BY <1>2, FromType
<1>5. ExtractToken(t) = [ok |-> n > 0, value |-> SubSeq(t, 1, n), rest |-> From(t, n + 1)]
  BY <1>1 DEF ExtractToken
<1>6. PICK u, v : u = SubSeq(t, 1, n) /\ v = From(t, n + 1)
  OBVIOUS
<1>7. u \in Chars /\ v \in Chars /\ Len(v) <= Len(t) /\ (n > 0 => Len(v) < Len(t))
  BY <1>2, <1>3, <1>4, <1>6
<1>8. CASE n > 0
  <2>1. (n > 0) = TRUE
    BY <1>8
  <2>2. ExtractToken(t) = [ok |-> TRUE, value |-> u, rest |-> v]
    BY <1>5, <1>6, <2>1, Zenon
  <2> QED
    BY ONLY <1>7, <1>8, <2>2 DEF Tokens
<1>9. CASE ~(n > 0)
  <2>1. (n > 0) = FALSE
    BY <1>9
  <2>2. ExtractToken(t) = [ok |-> FALSE, value |-> u, rest |-> v]
    BY <1>5, <1>6, <2>1, Zenon
  <2> QED
    BY ONLY <1>7, <2>2 DEF Tokens
<1> QED
  BY <1>8, <1>9

(* What is left of a text after white space.                               *)
NoLonger(t) == {u \in Chars : Len(u) <= Len(t)}

LEMMA LwsType ==
  ASSUME NEW t \in Chars
  PROVE  ExtractLws(t) \in NoLonger(t) /\ (ExtractLws(t) # t => Len(ExtractLws(t)) < Len(t))
<1> DEFINE folded == Len(t) > 2 /\ t[1] = "CR" /\ t[2] = "LF" /\ IsWhitespace(t[3])
<1>1. PICK it : it = IF folded THEN From(t, 4) ELSE t
  OBVIOUS
<1>2. PICK n : n = Span(it, IsWhitespace)
  OBVIOUS
<1>3. ExtractLws(t) = From(it, n + 1)
  BY <1>1, <1>2 DEF ExtractLws
<1>4. Len(t) \in Nat
  BY DEF Chars
<1>5. it \in Chars /\ Len(it) <= Len(t) /\ (it = t \/ Len(it) < Len(t))
  <2>1. CASE folded
    <3>1. 3 \in 0 .. Len(t) /\ 3 + 1 = 4
      BY <1>4, <2>1
    <3>2. From(t, 3 + 1) \in Chars /\ Len(From(t, 3 + 1)) = Len(t) - 3
      BY <3>1, FromType
    <3> HIDE DEF folded
    <3> QED
      BY <1>1, <1>4, <2>1, <3>1, <3>2
  <2>2. CASE ~folded
    <3> HIDE DEF folded
    <3> QED
      BY <1>1, <1>4, <2>2
  <2> QED
    BY <2>1, <2>2
<1>6. Len(it) \in Nat /\ n \in 0 .. Len(it)
  BY <1>2, <1>5, SpanType DEF Chars
<1>7. PICK u : u = From(it, n + 1)
  OBVIOUS
<1>8. u \in Chars /\ Len(u) = Len(it) - n
  BY <1>5, <1>6, <1>7, FromType
<1>9. n = 0 => u = it
  BY <1>5, <1>6, <1>7, SubSeqFull DEF From, Chars
<1> HIDE DEF folded
<1>10. u # t => Len(u) < Len(t)
  BY <1>4, <1>5, <1>6, <1>8, <1>9
<1>11. Len(u) <= Len(t)
  BY <1>4, <1>5, <1>6, <1>8
<1> QED
  BY <1>3, <1>7, <1>8, <1>10, <1>11 DEF NoLonger

LEMMA AllLwsType ==
  ASSUME NEW t \in Chars
  PROVE  ExtractAllLws(t) \in NoLonger(t)
<1> DEFINE size == [x \in Chars |-> Len(x)]
           more == {x \in Chars : ~(ExtractLws(x) = <<>> \/ ExtractLws(x) = x)}
           it == [x \in Chars |-> ExtractLws(x)]
           V == [x \in Chars |-> NoLonger(x)]
           Is(f) == f = [x \in Chars |-> IF ExtractLws(x) = <<>> \/ ExtractLws(x) = x THEN ExtractLws(x)
                                                                                   ELSE f[ExtractLws(x)]]
<1>1. size \in [Chars -> Nat] /\ \A x \in Chars : Len(x) \in Nat
  BY LenProperties DEF Chars
<1>2. \A x \in Chars : x \in more => it[x] \in Chars /\ size[it[x]] < size[x] /\ V[it[x]] \subseteq V[x]
  <2> SUFFICES ASSUME NEW x \in Chars, x \in more
               PROVE  it[x] \in Chars /\ size[it[x]] < size[x] /\ V[it[x]] \subseteq V[x]
    OBVIOUS
  <2>1. PICK u : u = ExtractLws(x)
    OBVIOUS
  <2>2. u \in Chars /\ Len(u) < Len(x)
    BY <2>1, LwsType DEF NoLonger
  <2>3. \A v \in Chars : Len(v) <= Len(u) => Len(v) <= Len(x)
    BY ONLY <1>1, <2>2, x \in Chars
  <2> QED
    BY <2>1, <2>2, <2>3 DEF NoLonger
<1>3. \A x \in Chars : x \notin more => it[x] \in V[x]
  BY LwsType
<1>4. \A f : TailRecursive(f, Chars, more, it, it) <=> Is(f)
  <2> TAKE f
  <2>1. \A x \in Chars : (IF x \in more THEN f[it[x]] ELSE it[x])
                         = IF ExtractLws(x) = <<>> \/ ExtractLws(x) = x THEN ExtractLws(x) ELSE f[ExtractLws(x)]
    OBVIOUS
  <2>2. [x \in Chars |-> IF x \in more THEN f[it[x]] ELSE it[x]]
        = [x \in Chars |-> IF ExtractLws(x) = <<>> \/ ExtractLws(x) = x THEN ExtractLws(x) ELSE f[ExtractLws(x)]]
    BY <2>1
  <2> HIDE DEF more, it
  <2> QED
    BY <2>2 DEF TailRecursive
<1>5. (\E f : Is(f)) /\ \A f : Is(f) => \A x \in Chars : f[x] \in V[x]
  <2> HIDE DEF size, more, it, V, Is
  <2> QED
    BY <1>1, <1>2, <1>3, <1>4, TailRecursion
<1>6. Is(AllLws)
  <2>1. AllLws = CHOOSE g : Is(g)
    BY DEF AllLws
  <2> HIDE DEF Is
  <2> QED
    BY <1>5, <2>1
<1>7. AllLws[t] \in V[t]
  <2> HIDE DEF Is, V
  <2> QED
    BY <1>5, <1>6
<1> QED
  BY <1>7 DEF ExtractAllLws

LEMMA LwsGives ==
  ASSUME NEW t \in Chars
  PROVE  /\ ExtractAllLws(t) \in Chars /\ Len(ExtractAllLws(t)) \in Nat
         /\ Len(t) \in Nat /\ Len(ExtractAllLws(t)) <= Len(t)
<1>1. ExtractAllLws(t) \in Chars /\ Len(ExtractAllLws(t)) <= Len(t)
  BY AllLwsType DEF NoLonger
<1> QED
  BY <1>1 DEF Chars

(* Where a parser goes on in a text: nowhere if there is an error.         *)
Reached(t) == [ok : BOOLEAN, rest : NoLonger(t)]

LEMMA ReachedIs ==
  ASSUME NEW t \in Chars
  PROVE  Error \in Reached(t) /\ \A u \in NoLonger(t) : Good(u) \in Reached(t)
<1>1. <<>> \in Chars /\ Len(<<>>) = 0 /\ Len(t) \in Nat
  BY EmptySeq DEF Chars
<1>2. <<>> \in NoLonger(t)
  BY <1>1 DEF NoLonger
<1> QED
  BY <1>2 DEF Reached, Error, Good

(* What is reached from a part of a text is reached from the text.         *)
LEMMA ReachedFrom ==
  ASSUME NEW t \in Chars, NEW u \in NoLonger(t)
  PROVE  u \in Chars /\ NoLonger(u) \subseteq NoLonger(t) /\ Reached(u) \subseteq Reached(t)
<1>1. Len(t) \in Nat /\ Len(u) \in Nat /\ u \in Chars /\ Len(u) <= Len(t)
  BY DEF Chars, NoLonger
<1>2. \A v \in Chars : Len(v) \in Nat
  BY DEF Chars
<1>3. NoLonger(u) \subseteq NoLonger(t)
  <2> SUFFICES ASSUME NEW v \in Chars, Len(v) <= Len(u)
               PROVE  Len(v) <= Len(t)
    BY DEF NoLonger
  <2> QED
    BY <1>1, <1>2
<1> QED
  BY <1>1, <1>3, Zenon DEF Reached

LEMMA QuotedType ==
  ASSUME NEW t \in Chars
  PROVE  ExtractQuoted[t] \in Reached(t)
<1> DEFINE quotes(x) == {i \in 1 .. Len(x) : x[i] = Quote}
           at == [x \in Chars |-> IF quotes(x) # {} THEN Min(quotes(x)) ELSE 0]
           size == [x \in Chars |-> Len(x)]
           more == {x \in Chars : at[x] # 0 /\ at[x] > 1 /\ x[at[x] - 1] = Backslash}
           rest == [x \in Chars |-> From(x, at[x] + 1)]
           base == [x \in Chars |-> IF at[x] = 0 THEN Error ELSE Good(From(x, at[x] + 1))]
           V == [x \in Chars |-> Reached(x)]
           Is(f) == f = [x \in Chars |->
                      LET i == SelectInSeq(x, LAMBDA c : c = Quote)
                      IN IF i = 0 THEN Error
                         ELSE IF i > 1 /\ x[i - 1] = Backslash THEN f[From(x, i + 1)]
                         ELSE Good(From(x, i + 1))]
<1>1. size \in [Chars -> Nat] /\ \A x \in Chars : Len(x) \in Nat
  BY LenProperties DEF Chars
<1>2. \A x \in Chars : at[x] = SelectInSeq(x, LAMBDA c : c = Quote)
  BY DEF SelectInSeq
<1>3. \A x \in Chars : at[x] \in 0 .. Len(x)
  <2> TAKE x \in Chars
  <2>1. PICK I : I = quotes(x)
    OBVIOUS
  <2>2. (IF I # {} THEN Min(I) ELSE 0) \in 0 .. Len(x)
    BY <1>1, <2>1, FirstPlace
  <2>3. at[x] = IF I # {} THEN Min(I) ELSE 0
    BY <2>1
  <2> QED
    BY <2>2, <2>3
<1> HIDE DEF at
<1>4. \A x \in Chars : /\ From(x, at[x] + 1) \in NoLonger(x)
                       /\ at[x] # 0 => Len(From(x, at[x] + 1)) < Len(x)
  <2> TAKE x \in Chars
  <2>1. PICK n, u : n = at[x] /\ u = From(x, at[x] + 1)
    OBVIOUS
  <2>2. n \in 0 .. Len(x) /\ u \in Chars /\ Len(u) = Len(x) - n
    BY <1>3, <2>1, FromType
  <2>3. Len(u) <= Len(x) /\ (n # 0 => Len(u) < Len(x))
    BY <1>1, <2>2
  <2> QED
    BY <2>1, <2>2, <2>3 DEF NoLonger
<1>5. \A x \in Chars : x \in more => rest[x] \in Chars /\ size[rest[x]] < size[x] /\ V[rest[x]] \subseteq V[x]
  BY <1>4, ReachedFrom
<1>6. \A x \in Chars : x \notin more => base[x] \in V[x]
  BY <1>4, ReachedIs
<1>7. \A f : TailRecursive(f, Chars, more, rest, base) <=> Is(f)
  <2> TAKE f
  <2>1. \A x \in Chars :
          (IF x \in more THEN f[rest[x]] ELSE base[x])
          = LET i == SelectInSeq(x, LAMBDA c : c = Quote)
            IN IF i = 0 THEN Error
               ELSE IF i > 1 /\ x[i - 1] = Backslash THEN f[From(x, i + 1)]
               ELSE Good(From(x, i + 1))
    BY <1>2, Zenon
  <2>2. [x \in Chars |-> IF x \in more THEN f[rest[x]] ELSE base[x]]
        = [x \in Chars |->
             LET i == SelectInSeq(x, LAMBDA c : c = Quote)
             IN IF i = 0 THEN Error
                ELSE IF i > 1 /\ x[i - 1] = Backslash THEN f[From(x, i + 1)]
                ELSE Good(From(x, i + 1))]
    BY <2>1, Zenon
  <2> HIDE DEF more, rest, base
  <2> QED
    BY <2>2, Zenon DEF TailRecursive
<1>8. (\E f : Is(f)) /\ \A f : Is(f) => \A x \in Chars : f[x] \in V[x]
  <2> HIDE DEF size, more, rest, base, V, Is
  <2> QED
    BY <1>1, <1>5, <1>6, <1>7, TailRecursion
<1>9. Is(ExtractQuoted)
  <2>1. ExtractQuoted = CHOOSE g : Is(g)
    BY Zenon DEF ExtractQuoted
  <2> HIDE DEF Is
  <2> QED
    BY <1>8, <2>1
<1>10. ExtractQuoted[t] \in V[t]
  <2> HIDE DEF Is, V
  <2> QED
    BY <1>8, <1>9
<1> QED
  BY <1>10

LEMMA ValueType ==
  ASSUME NEW t \in Chars
  PROVE  ExtractValue(t) \in Reached(t)
<1>1. ExtractQuotedString(t) \in Reached(t)
  <2>1. CASE Starts(t, Quote)
    <3>1. PICK u : u = Tail(t)
      OBVIOUS
    <3>2. u \in Chars /\ Len(u) = Len(t) - 1 /\ Len(t) \in Nat
      BY <2>1, <3>1, TailType DEF Starts, Chars
    <3>3. u \in NoLonger(t)
      BY <3>2 DEF NoLonger
    <3>4. ExtractQuoted[u] \in Reached(u) /\ Reached(u) \subseteq Reached(t)
      BY <3>3, ReachedFrom, QuotedType
    <3> QED
      BY <2>1, <3>1, <3>4 DEF ExtractQuotedString
  <2>2. CASE ~Starts(t, Quote)
    BY <2>2, ReachedIs DEF ExtractQuotedString
  <2> QED
    BY <2>1, <2>2
<1>2. ExtractToken(t).rest \in NoLonger(t) /\ ExtractToken(t).ok \in BOOLEAN
  BY TokenType, Zenon DEF NoLonger, Tokens
<1>3. PICK q, k : q = ExtractQuotedString(t) /\ k = ExtractToken(t)
  OBVIOUS
<1>4. q \in Reached(t) /\ q.ok \in BOOLEAN /\ k.ok \in BOOLEAN
  BY <1>1, <1>2, <1>3 DEF Reached
<1>5. Good(k.rest) \in Reached(t) /\ Error \in Reached(t)
  BY <1>2, <1>3, ReachedIs
<1>6. ExtractValue(t) = CASE q.ok -> q [] ~q.ok /\ k.ok -> Good(k.rest) [] OTHER -> Error
  BY <1>3 DEF ExtractValue
<1>7. ExtractValue(t) \in {q, Good(k.rest), Error}
  BY ONLY <1>6
<1> QED
  BY <1>4, <1>5, <1>7

(* An attribute is not empty.                                              *)
LEMMA AttributeType ==
  ASSUME NEW t \in Chars
  PROVE  Attribute(t) \in Reached(t) /\ (Attribute(t).ok => Len(Attribute(t).rest) < Len(t))
<1>1. PICK s, k, n : s = ExtractAllLws(t) /\ k = ExtractToken(s) /\ n = ExtractAllLws(k.rest)
  OBVIOUS
<1>2. s \in NoLonger(t) /\ s \in Chars /\ Len(s) \in Nat /\ Len(t) \in Nat /\ Len(s) <= Len(t)
  BY <1>1, AllLwsType DEF NoLonger, Chars
<1>3. k.ok \in BOOLEAN /\ k.rest \in Chars /\ Len(k.rest) <= Len(s) /\ (k.ok => Len(k.rest) < Len(s))
  BY <1>1, <1>2, TokenType, Zenon DEF Tokens
<1>4. n \in Chars /\ Len(n) <= Len(k.rest) /\ Len(n) \in Nat /\ Len(k.rest) \in Nat
  BY <1>1, <1>3, AllLwsType DEF NoLonger, Chars
<1>5. Len(n) <= Len(t) /\ (k.ok => Len(n) < Len(t))
  BY ONLY <1>2, <1>3, <1>4
<1>6. n \in NoLonger(t)
  BY <1>4, <1>5 DEF NoLonger
<1>7. CASE ~k.ok
  <2>1. Attribute(t) = Error
    BY <1>1, <1>7 DEF Attribute
  <2> QED
    BY <2>1, ReachedIs DEF Error
<1>8. CASE k.ok /\ ~Starts(n, "=")
  <2>1. Attribute(t) = Good(n)
    BY <1>1, <1>8 DEF Attribute
  <2> QED
    BY <1>5, <1>6, <1>8, <2>1, ReachedIs DEF Good
<1>9. CASE k.ok /\ Starts(n, "=")
  <2>1. PICK u, w : u = Tail(n) /\ w = ExtractAllLws(u)
    OBVIOUS
  <2>2. u \in Chars /\ Len(u) = Len(n) - 1 /\ Len(n) > 0
    BY <1>4, <1>9, <2>1, TailType DEF Starts
  <2>3. w \in Chars /\ Len(w) <= Len(u) /\ Len(w) \in Nat
    BY <2>1, <2>2, LwsGives
  <2>4. ExtractValue(w) \in Reached(w)
    BY <2>3, ValueType
  <2>5. Len(w) < Len(t)
    BY ONLY <1>2, <1>4, <1>5, <2>2, <2>3
  <2>6. w \in NoLonger(t)
    BY <1>2, <2>3, <2>5 DEF NoLonger
  <2>7. ExtractValue(w) \in Reached(t)
    BY <2>4, <2>6, ReachedFrom
  <2>8. Len(ExtractValue(w).rest) \in Nat /\ Len(ExtractValue(w).rest) <= Len(w)
    BY <2>4 DEF Reached, NoLonger, Chars
  <2>9. Len(ExtractValue(w).rest) < Len(t)
    BY ONLY <1>2, <2>3, <2>5, <2>8
  <2>10. Attribute(t) = ExtractValue(w)
    BY <1>1, <1>9, <2>1 DEF Attribute
  <2> QED
    BY <2>7, <2>9, <2>10
<1> QED
  BY <1>3, <1>7, <1>8, <1>9

LEMMA AttributesType ==
  ASSUME NEW t \in Chars
  PROVE  Attributes[t] \in Reached(t)
<1> DEFINE start(x) == ExtractAllLws(x)
           next(x) == Attribute(Tail(start(x)))
           size == [x \in Chars |-> Len(x)]
           more == {x \in Chars : Starts(start(x), ";") /\ next(x).ok}
           rest == [x \in Chars |-> next(x).rest]
           base == [x \in Chars |-> IF ~Starts(start(x), ";") THEN Good(start(x)) ELSE Error]
           V == [x \in Chars |-> Reached(x)]
           Is(f) == f = [x \in Chars |->
                      LET s == ExtractAllLws(x)
                          a == Attribute(Tail(s))
                      IN IF ~Starts(s, ";") THEN Good(s)
                         ELSE IF ~a.ok THEN Error
                         ELSE f[a.rest]]
<1>1. size \in [Chars -> Nat] /\ \A x \in Chars : Len(x) \in Nat
  BY LenProperties DEF Chars
<1>2. \A x \in Chars : x \in more => rest[x] \in Chars /\ size[rest[x]] < size[x] /\ V[rest[x]] \subseteq V[x]
  <2> SUFFICES ASSUME NEW x \in Chars, Starts(start(x), ";"), next(x).ok
               PROVE  /\ next(x).rest \in Chars /\ Len(next(x).rest) < Len(x)
                      /\ Reached(next(x).rest) \subseteq Reached(x)
    BY Zenon
  <2>1. PICK s, u : s = start(x) /\ u = Tail(s)
    OBVIOUS
  <2>2. s \in Chars /\ Len(s) <= Len(x) /\ Len(s) \in Nat /\ Len(x) \in Nat
    BY <2>1, LwsGives
  <2>3. u \in Chars /\ Len(u) = Len(s) - 1 /\ Len(u) \in Nat
    <3>1. s # <<>>
      BY <2>1 DEF Starts
    <3>2. u \in Chars /\ Len(u) = Len(s) - 1 /\ Len(s) > 0
      BY <2>1, <2>2, <3>1, TailType
    <3> QED
      BY ONLY <2>2, <3>2
  <2>4. PICK a : a = Attribute(u)
    OBVIOUS
  <2>5. a \in Reached(u) /\ Len(a.rest) < Len(u)
    BY <2>1, <2>3, <2>4, AttributeType
  <2>6. a.rest \in Chars /\ Len(a.rest) \in Nat
    <3>1. a.rest \in Chars
      BY <2>5 DEF Reached, NoLonger
    <3> QED
      BY <1>1, <3>1, Zenon
  <2>7. Len(a.rest) < Len(x)
    BY ONLY <2>2, <2>3, <2>5, <2>6
  <2>8. a.rest \in NoLonger(x)
    <3>1. Len(a.rest) <= Len(x)
      BY ONLY <2>2, <2>6, <2>7
    <3> QED
      BY <2>6, <3>1 DEF NoLonger
  <2> QED
    BY <2>1, <2>4, <2>6, <2>7, <2>8, ReachedFrom
<1>3. \A x \in Chars : x \notin more => base[x] \in V[x]
  BY AllLwsType, ReachedIs
<1>4. \A f : TailRecursive(f, Chars, more, rest, base) <=> Is(f)
  <2> TAKE f
  <2>1. \A x \in Chars :
          (IF x \in more THEN f[rest[x]] ELSE base[x])
          = LET s == ExtractAllLws(x)
                a == Attribute(Tail(s))
            IN IF ~Starts(s, ";") THEN Good(s) ELSE IF ~a.ok THEN Error ELSE f[a.rest]
    BY Zenon
  <2>2. [x \in Chars |-> IF x \in more THEN f[rest[x]] ELSE base[x]]
        = [x \in Chars |->
             LET s == ExtractAllLws(x)
                 a == Attribute(Tail(s))
             IN IF ~Starts(s, ";") THEN Good(s) ELSE IF ~a.ok THEN Error ELSE f[a.rest]]
    BY <2>1, Zenon
  <2> HIDE DEF more, rest, base
  <2> QED
    BY <2>2, Zenon DEF TailRecursive
<1>5. (\E f : Is(f)) /\ \A f : Is(f) => \A x \in Chars : f[x] \in V[x]
  <2> HIDE DEF size, more, rest, base, V, Is
  <2> QED
    BY <1>1, <1>2, <1>3, <1>4, TailRecursion
<1>6. Is(Attributes)
  <2>1. Attributes = CHOOSE g : Is(g)
    BY Zenon DEF Attributes
  <2> HIDE DEF Is
  <2> QED
    BY <1>5, <2>1
<1>7. Attributes[t] \in V[t]
  <2> HIDE DEF Is, V
  <2> QED
    BY <1>5, <1>6
<1> QED
  BY <1>7

LEMMA ExtractAttributesType ==
  ASSUME NEW t \in Chars
  PROVE  ExtractAttributes(t) \in Reached(t)
<1>1. PICK s, a : s = ExtractAllLws(t) /\ a = Attribute(s)
  OBVIOUS
<1>2. s \in Chars /\ s \in NoLonger(t)
  BY <1>1, AllLwsType DEF NoLonger
<1>3. a \in Reached(t)
  BY <1>1, <1>2, AttributeType, ReachedFrom
<1>4. a.rest \in NoLonger(t)
  BY <1>3 DEF Reached
<1>5. Attributes[a.rest] \in Reached(t) /\ Good(s) \in Reached(t) /\ Error \in Reached(t)
  BY <1>2, <1>4, AttributesType, ReachedFrom, ReachedIs
<1> QED
  BY <1>1, <1>5, Zenon DEF ExtractAttributes

(* A parameter's name, and a shorter text after it.                        *)
LEMMA ParameterType ==
  ASSUME NEW t \in Chars
  PROVE  /\ Parameter(t).name \in Chars /\ Parameter(t).rest \in NoLonger(t)
         /\ Parameter(t).ok => Len(Parameter(t).rest) < Len(t)
<1>1. PICK k, n : k = ExtractToken(t) /\ n = ExtractAllLws(k.rest)
  OBVIOUS
<1>2. k.value \in Chars /\ k.rest \in Chars /\ Len(k.rest) <= Len(t) /\ (k.ok => Len(k.rest) < Len(t))
  BY <1>1, TokenType, Zenon DEF Tokens
<1>3. n \in NoLonger(k.rest) /\ n \in Chars /\ Len(n) \in Nat
  BY <1>1, <1>2, AllLwsType, LwsGives
<1>4. PICK a : a = IF Starts(n, ";") THEN ExtractAttributes(Tail(n)) ELSE Good(n)
  OBVIOUS
<1>5. a.rest \in NoLonger(k.rest)
  <2>1. CASE Starts(n, ";")
    <3>1. n # <<>>
      BY <2>1 DEF Starts
    <3>2. PICK u : u = Tail(n)
      OBVIOUS
    <3>3. u \in Chars /\ Len(u) = Len(n) - 1 /\ Len(n) > 0
      BY <1>3, <3>1, <3>2, TailType
    <3>4. Len(u) <= Len(n)
      BY ONLY <1>3, <3>3
    <3>5. u \in NoLonger(n)
      BY <3>3, <3>4 DEF NoLonger
    <3>6. a \in Reached(u)
      BY <1>4, <2>1, <3>2, <3>3, ExtractAttributesType
    <3>7. a.rest \in NoLonger(u)
      BY <3>6 DEF Reached
    <3> QED
      BY <1>2, <1>3, <3>5, <3>7, ReachedFrom
  <2>2. CASE ~Starts(n, ";")
    BY <1>3, <1>4, <2>2 DEF Good
  <2> QED
    BY <2>1, <2>2
<1>6. PICK r : r = ExtractAllLws(a.rest)
  OBVIOUS
<1>7. a.rest \in Chars
  BY <1>5 DEF NoLonger
<1>8. r \in NoLonger(k.rest)
  BY <1>2, <1>5, <1>6, <1>7, AllLwsType, ReachedFrom
<1>9. r \in Chars /\ Len(r) <= Len(k.rest) /\ Len(r) \in Nat /\ Len(k.rest) \in Nat /\ Len(t) \in Nat
  <2>1. r \in Chars /\ Len(r) <= Len(k.rest)
    BY <1>8 DEF NoLonger
  <2>2. \A x \in Chars : Len(x) \in Nat
    BY LenProperties DEF Chars
  <2> QED
    BY <1>2, <2>1, <2>2, Zenon
<1>10. Len(r) <= Len(t) /\ (k.ok => Len(r) < Len(t))
  BY ONLY <1>2, <1>9
<1>11. r \in NoLonger(t)
  BY <1>9, <1>10 DEF NoLonger
<1> PICK b : b = (k.ok /\ a.ok)
  OBVIOUS
<1>12. Parameter(t) = [ok |-> b, name |-> k.value, rest |-> r]
  BY <1>1, <1>4, <1>6, Zenon DEF Parameter
<1>13. Parameter(t).name = k.value /\ Parameter(t).rest = r /\ Parameter(t).ok = b
  BY ONLY <1>12
<1>14. b => k.ok
  BY Zenon
<1> QED
  BY <1>2, <1>10, <1>11, <1>13, <1>14, Zenon

(* A list gives names.                                                     *)
LEMMA ParametersType ==
  ASSUME NEW t \in Chars
  PROVE  /\ ParseParameterList(t) \in [ok : BOOLEAN, names : Seq(Chars)]
         /\ ExtractAllLws(t) = <<>> => ParseParameterList(t) = [ok |-> TRUE, names |-> <<>>]
<1> DEFINE D == [text : Chars, names : Seq(Chars)]
           T == [ok : BOOLEAN, names : Seq(Chars)]
           start(x) == ExtractAllLws(x.text)
           next(x) == Parameter(start(x))
           all(x) == Append(x.names, next(x).name)
           wrong(x) == ~next(x).ok \/ next(x).rest = <<",">>
           size == [x \in D |-> Len(x.text)]
           more == {x \in D : start(x) # <<>> /\ ~wrong(x) /\ Starts(next(x).rest, ",")}
           rest == [x \in D |-> [text |-> Tail(next(x).rest), names |-> all(x)]]
           base == [x \in D |-> IF start(x) = <<>> THEN [ok |-> TRUE, names |-> x.names]
                                ELSE IF wrong(x) THEN [ok |-> FALSE, names |-> <<>>]
                                ELSE [ok |-> TRUE, names |-> all(x)]]
           V == [x \in D |-> T]
           Is(f) == f = [x \in D |->
                      LET s == ExtractAllLws(x.text)
                          p == Parameter(s)
                          a == Append(x.names, p.name)
                      IN IF s = <<>> THEN [ok |-> TRUE, names |-> x.names]
                         ELSE IF ~p.ok \/ p.rest = <<",">> THEN [ok |-> FALSE, names |-> <<>>]
                         ELSE IF ~Starts(p.rest, ",") THEN [ok |-> TRUE, names |-> a]
                         ELSE f[[text |-> Tail(p.rest), names |-> a]]]
<1>1. \A x \in Chars : Len(x) \in Nat
  BY LenProperties DEF Chars
<1>2. size \in [D -> Nat]
  BY <1>1
<1>3. \A x \in D : start(x) \in Chars /\ Len(start(x)) <= Len(x.text)
  <2> HIDE DEF NoLonger
  <2> QED
    BY AllLwsType DEF NoLonger
<1>4. \A x \in D : next(x).name \in Chars /\ next(x).rest \in NoLonger(start(x))
                   /\ (next(x).ok => Len(next(x).rest) < Len(start(x)))
  BY <1>3, ParameterType
<1>5. \A x \in D : all(x) \in Seq(Chars)
  <2> TAKE x \in D
  <2>1. PICK ns, m : ns = x.names /\ m = next(x).name
    OBVIOUS
  <2>2. ns \in Seq(Chars) /\ m \in Chars
    BY <1>4, <2>1
  <2> QED
    BY <2>1, <2>2, AppendProperties
<1>6. \A x \in D : x \in more => rest[x] \in D /\ size[rest[x]] < size[x] /\ V[rest[x]] \subseteq V[x]
  <2> SUFFICES ASSUME NEW x \in D, x \in more
               PROVE  rest[x] \in D /\ size[rest[x]] < size[x] /\ V[rest[x]] \subseteq V[x]
    OBVIOUS
  <2>1. PICK s, r, u, a : s = start(x) /\ r = next(x).rest /\ u = Tail(r) /\ a = all(x)
    OBVIOUS
  <2>2. rest[x] = [text |-> u, names |-> a]
    BY <2>1
  <2>3. s \in Chars /\ Len(s) <= Len(x.text) /\ r \in Chars /\ Len(r) < Len(s) /\ a \in Seq(Chars) /\ x.text \in Chars
    BY <1>3, <1>4, <1>5, <2>1 DEF NoLonger
  <2>4. r # <<>>
    BY <2>1 DEF Starts
  <2>5. u \in Chars /\ Len(u) = Len(r) - 1
    BY <2>1, <2>3, <2>4, TailType
  <2>6. Len(s) \in Nat /\ Len(r) \in Nat /\ Len(x.text) \in Nat
    BY <1>1, <2>3, Zenon
  <2>7. Len(u) < Len(x.text)
    BY ONLY <2>3, <2>5, <2>6
  <2>8. rest[x] \in D /\ rest[x].text = u
    BY <2>2, <2>3, <2>5
  <2> HIDE DEF rest, more, start, next, all, wrong
  <2>9. size[rest[x]] = Len(u) /\ size[x] = Len(x.text)
    BY <2>8
  <2> QED
    BY <2>7, <2>8, <2>9
<1>7. \A x \in D : base[x] \in T
  <2> TAKE x \in D
  <2>1. x.names \in Seq(Chars) /\ <<>> \in Seq(Chars) /\ all(x) \in Seq(Chars)
    BY <1>5, EmptySeq
  <2> HIDE DEF start, wrong, all
  <2> QED
    BY <2>1
<1>8. \A f : TailRecursive(f, D, more, rest, base) <=> Is(f)
  <2> TAKE f
  <2>1. \A x \in D :
          (IF x \in more THEN f[rest[x]] ELSE base[x])
          = LET s == ExtractAllLws(x.text)
                p == Parameter(s)
                a == Append(x.names, p.name)
            IN IF s = <<>> THEN [ok |-> TRUE, names |-> x.names]
               ELSE IF ~p.ok \/ p.rest = <<",">> THEN [ok |-> FALSE, names |-> <<>>]
               ELSE IF ~Starts(p.rest, ",") THEN [ok |-> TRUE, names |-> a]
               ELSE f[[text |-> Tail(p.rest), names |-> a]]
    BY Zenon
  <2>2. [x \in D |-> IF x \in more THEN f[rest[x]] ELSE base[x]]
        = [x \in D |->
             LET s == ExtractAllLws(x.text)
                 p == Parameter(s)
                 a == Append(x.names, p.name)
             IN IF s = <<>> THEN [ok |-> TRUE, names |-> x.names]
                ELSE IF ~p.ok \/ p.rest = <<",">> THEN [ok |-> FALSE, names |-> <<>>]
                ELSE IF ~Starts(p.rest, ",") THEN [ok |-> TRUE, names |-> a]
                ELSE f[[text |-> Tail(p.rest), names |-> a]]]
    <3> HIDE DEF more, rest, base, D
    <3> QED
      BY <2>1, Zenon
  <2> HIDE DEF more, rest, base
  <2> QED
    BY <2>2, Zenon DEF TailRecursive
<1>9. (\E f : Is(f)) /\ \A f : Is(f) => \A x \in D : f[x] \in V[x]
  <2>1. \A x \in D : x \notin more => base[x] \in V[x]
    <3> HIDE DEF base, T
    <3> QED
      BY <1>7
  <2> HIDE DEF size, more, rest, base, V, Is, D
  <2> QED
    BY <1>2, <1>6, <1>8, <2>1, TailRecursion
<1>10. Is(Parameters)
  <2>1. Parameters = CHOOSE g : Is(g)
    BY Zenon DEF Parameters, Unparsed
  <2> HIDE DEF Is
  <2> QED
    BY <1>9, <2>1
<1>11. [text |-> t, names |-> <<>>] \in D
  BY EmptySeq
<1>12. Parameters[[text |-> t, names |-> <<>>]] \in V[[text |-> t, names |-> <<>>]]
  <2> HIDE DEF Is, V, D
  <2> QED
    BY <1>9, <1>10, <1>11
<1>13. ASSUME ExtractAllLws(t) = <<>>
       PROVE  ParseParameterList(t) = [ok |-> TRUE, names |-> <<>>]
  <2>1. PICK x : x = [text |-> t, names |-> <<>>]
    OBVIOUS
  <2>2. x \in D /\ x.text = t /\ x.names = <<>>
    BY ONLY <1>11, <2>1
  <2>3. x \notin more /\ base[x] = [ok |-> TRUE, names |-> <<>>]
    BY <1>13, <2>2
  <2>4. TailRecursive(Parameters, D, more, rest, base)
    <3> HIDE DEF Is, D, more, rest, base
    <3> QED
      BY ONLY <1>8, <1>10
  <2>5. Parameters[x] = IF x \in more THEN Parameters[rest[x]] ELSE base[x]
    <3> HIDE DEF D, more, rest, base
    <3>1. \A f : TailRecursive(f, D, more, rest, base) => f[x] = IF x \in more THEN f[rest[x]] ELSE base[x]
      BY ONLY <2>2 DEF TailRecursive
    <3> QED
      BY ONLY <2>4, <3>1
  <2> QED
    BY ONLY <2>1, <2>3, <2>5 DEF ParseParameterList
<1> QED
  BY <1>11, <1>12, <1>13 DEF ParseParameterList

(* A header's value without the white space around it.                     *)
LEMMA StripType ==
  ASSUME NEW t \in Chars
  PROVE  StripLws(t) \in Chars
<1>1. \A x \in Chars : Reverse(x) \in Chars
  <2> TAKE x \in Chars
  <2>1. Len(x) \in Nat /\ \A i \in 1 .. Len(x) : x[i] \in STRING
    BY DEF Chars
  <2>2. \A i \in 1 .. Len(x) : Len(x) - i + 1 \in 1 .. Len(x)
    BY <2>1
  <2>3. Reverse(x) \in [1 .. Len(x) -> STRING]
    BY <2>1, <2>2 DEF Reverse
  <2> QED
    BY <2>1, <2>3 DEF Chars
<1>2. \A x \in Chars : ExtractAllLws(x) \in Chars
  BY LwsGives
<1> HIDE DEF Chars
<1> QED
  BY <1>1, <1>2 DEF StripLws
-----------------------------------------------------------------------------
(* What is known of the request.                                           *)
RequestType ==
  /\ stream \in Streams
  /\ m_method \in RequestLines \cup {""} /\ m_headers \subseteq HeaderLines
  /\ m_response \in {0, 101, 400, 413, 426, 431, 500}
  /\ m_requested_subprotocols \in Seq(Seq(STRING))

(* A header's value is one of those HttpLists has looked at.               *)
LEMMA HeaderType ==
  ASSUME NEW name \in {"Host", "Extensions", "Subprotocols"}, stream \in Streams
  PROVE  GetHeader(name) \in Range(Values) \cup {<<>>} /\ GetHeader(name) \in Chars
<1>1. stream.values \in [{"Host", "Extensions", "Subprotocols"} -> Seq(STRING)]
  BY StreamsAssumption
<1>2. PICK v, t : v = stream.values /\ t = v[name]
  OBVIOUS
<1>3. DOMAIN v = {"Host", "Extensions", "Subprotocols"} /\ t \in Chars
  BY <1>1, <1>2 DEF Chars
<1>4. t \in Range(v)
  BY <1>2, <1>3 DEF Range
<1>5. t \in UNION {Range(s.values) : s \in Streams}
  BY <1>2, <1>4
<1>6. t \in DOMAIN Values /\ Values[t] = StripLws(t)
  BY <1>5 DEF Values
<1>7. Values[t] \in Range(Values) /\ Values[t] \in Chars
  BY <1>3, <1>6, StripType DEF Range
<1>8. <<>> \in Chars
  BY EmptySeq DEF Chars
<1>9. GetHeader(name) \in {Values[t], <<>>}
  BY <1>2 DEF GetHeader
<1> QED
  BY <1>7, <1>8, <1>9

LEMMA SubprotocolsType ==
  ASSUME stream \in Streams
  PROVE  ExtractSubprotocols \in Seq(Seq(STRING))
<1>1. PICK h : h = GetHeader("Subprotocols")
  OBVIOUS
<1>2. h \in Range(Values) \cup {<<>>} /\ h \in Chars
  BY <1>1, HeaderType
<1>3. ParameterLists[h] = ParseParameterList(h)
  BY <1>2 DEF ParameterLists
<1>4. PICK l : l = ParseParameterList(h)
  OBVIOUS
<1>5. l \in [ok : BOOLEAN, names : Seq(Chars)]
  BY <1>2, <1>4, ParametersType
<1>6. l.names \in Seq(Chars) /\ <<>> \in Seq(Chars)
  BY <1>5, EmptySeq
<1>7. ExtractSubprotocols \in {<<>>, l.names}
  BY <1>1, <1>3, <1>4 DEF ExtractSubprotocols
<1> QED
  BY <1>6, <1>7 DEF Chars

LEMMA HeadersOfType ==
  ASSUME NEW w \in HeaderLines
  PROVE  HeadersOf(w) \subseteq HeaderLines
<1>1. "Version13" \in DOMAIN Versions
  BY DEF Versions
<1> QED
  BY <1>1 DEF HeadersOf, HeaderLines

(* A step that changes nothing of it but, perhaps, refuses the request.    *)
LEMMA RequestTypeStays ==
  ASSUME RequestType, UNCHANGED <<stream, m_requested_subprotocols, m_method, m_headers>>,
         m_response' \in {0, 101, 400, 413, 426, 431, 500}
  PROVE  RequestType'
BY DEF RequestType

LEMMA RespondType ==
  ASSUME RequestType, Respond
  PROVE  RequestType'
<1>1. m_response' = IF ProcessorError # 0 THEN ProcessorError ELSE ProcessHandshakeRequest
  BY DEF Respond
<1>2. ProcessorError \in {0, 400, 500}
  BY DEF ProcessorError
<1>3. ProcessHandshakeRequest \in {101, 400, 426}
  BY DEF ProcessHandshakeRequest
<1>4. m_requested_subprotocols' \in {ExtractSubprotocols, <<>>}
  BY DEF Respond
<1>5. ExtractSubprotocols \in Seq(Seq(STRING)) /\ <<>> \in Seq(Seq(STRING))
  BY SubprotocolsType, EmptySeq DEF RequestType
<1>6. UNCHANGED <<stream, m_method, m_headers>>
  BY DEF Respond
<1>7. m_response' \in {0, 101, 400, 413, 426, 431, 500}
  BY <1>1, <1>2, <1>3
<1>8. m_requested_subprotocols' \in Seq(Seq(STRING))
  BY <1>4, <1>5
<1> QED
  BY <1>6, <1>7, <1>8 DEF RequestType

LEMMA RequestTypeNext ==
  ASSUME RequestType, [ConversationNext]_<<vars, conversation>>
  PROVE  RequestType'
<1>0. m_response \in {0, 101, 400, 413, 426, 431, 500}
  BY DEF RequestType
<1>1. CASE UNCHANGED vars
  BY <1>0, <1>1, RequestTypeStays DEF vars, asked, request
<1>2. ASSUME NEW n \in 1 .. Min({MaxRead, Len(input)}), ReadRequest(n) \/ ReadBody(n) \/ ReadMore(n)
      PROVE  RequestType'
  <2>1. UNCHANGED <<stream, m_requested_subprotocols, m_method, m_headers>>
    BY <1>2 DEF ReadRequest, ReadBody, ReadMore, ReadFrames, asked, request
  <2>2. m_response' \in {m_response, 431}
    BY <1>2 DEF ReadRequest, ReadBody, ReadMore, ReadFrames, request
  <2> QED
    BY <1>0, <2>1, <2>2, RequestTypeStays
<1>3. CASE OutOfBytes
  BY <1>0, <1>3, RequestTypeStays DEF OutOfBytes, asked, request
<1>4. CASE Process
  <2>1. /\ m_method' \in RequestLines \cup {m_method} /\ m_response' \in {m_response, 400}
        /\ UNCHANGED <<stream, m_requested_subprotocols, m_headers>>
    BY <1>4 DEF Process, Line, asked
  <2>2. m_response' \in {0, 101, 400, 413, 426, 431, 500}
    BY ONLY <1>0, <2>1
  <2>3. m_method' \in RequestLines \cup {""} /\ m_headers' \subseteq HeaderLines
    BY ONLY RequestType, <2>1, Zenon DEF RequestType
  <2> QED
    BY ONLY RequestType, <2>1, <2>2, <2>3, Zenon DEF RequestType
<1>5. CASE ProcessHeader
  <2>1. /\ m_response' \in {m_response, 400} /\ UNCHANGED <<stream, m_requested_subprotocols, m_method>>
        /\ m_headers' = m_headers \/ \E w \in HeaderLines : m_headers' = m_headers \cup HeadersOf(w)
    BY <1>5 DEF ProcessHeader, Line, asked
  <2>2. m_headers' \subseteq HeaderLines
    BY <2>1, HeadersOfType DEF RequestType
  <2>3. m_response' \in {0, 101, 400, 413, 426, 431, 500}
    BY ONLY <1>0, <2>1
  <2> QED
    BY ONLY RequestType, <2>1, <2>2, <2>3, Zenon DEF RequestType
<1>6. CASE BlankLine
  <2>1. UNCHANGED <<stream, m_requested_subprotocols, m_method, m_headers>>
    BY <1>6 DEF BlankLine, asked
  <2>2. m_response' \in {m_response, RequestError}
    BY <1>6 DEF BlankLine
  <2>3. RequestError \in {0, 400, 413}
    BY DEF RequestError
  <2> QED
    BY <1>0, <2>1, <2>2, <2>3, RequestTypeStays
<1>7. CASE ProcessBody
  BY <1>0, <1>7, RequestTypeStays DEF ProcessBody, asked
<1>8. CASE Respond
  BY <1>8, RespondType
<1>9. CASE FrameStep
  BY <1>0, <1>9, RequestTypeStays DEF FrameStep, Frame, asked, request
<1>10. CASE Drop
  BY <1>1, <1>10 DEF Drop
<1>11. CASE ConversationNext
  BY <1>2, <1>3, <1>4, <1>5, <1>6, <1>7, <1>8, <1>9, <1>10, <1>11 DEF ConversationNext, OfRequest
<1> QED
  BY <1>1, <1>11 DEF vars

(* Every variable keeps its type: what has been read of a frame's header   *)
(* never exceeds it, and of a body there is never more than was announced. *)
THEOREM TypeCorrect == Spec => []TypeOK
<1>1. FramesIInv /\ Body /\ TalkIInv /\ RequestType => TypeOK
  <2> SUFFICES ASSUME FramesIInv, Body, TalkIInv, RequestType
               PROVE  TypeOK
    OBVIOUS
  <2>1. m_body \in 0 .. BodyLength /\ m_body_bytes_needed \in 0 .. BodyLength
    BY InboundAssumption DEF Body
  <2>2. /\ m_state \in {"HEADER_BASIC", "HEADER_EXTENDED", "APPLICATION", "READY", "HEADER", "PAYLOAD"}
        /\ Len(m_basic_header) <= 2 /\ Len(m_extended_header) <= KeyBytes + 1
    <3>1. KeyBytes \in Nat /\ Len(<<>>) = 0
      BY FramesAssumption
    <3>2. CASE m_response # 101
      BY <3>1, <3>2 DEF FramesIInv, Untouched
    <3>3. CASE m_response = 101 /\ GetWebsocketVersion = 0
      BY <3>1, <3>3 DEF FramesIInv, Parsing00
    <3>4. CASE m_response = 101 /\ GetWebsocketVersion # 0
      <4>1. PICK a, b, n, k : a = m_basic_header /\ b = m_extended_header /\ n = m_bytes_needed
                              /\ k = GetHeaderLen(a)
        OBVIOUS
      <4>2. a \in Bytes0 /\ b \in Bytes0 /\ n \in Nat
        BY <4>1 DEF FramesIInv, BytesType, MessageType
      <4>3. Len(a) \in Nat /\ Len(b) \in Nat
        BY <4>2 DEF Bytes0
      <4>4. k \in 0 .. KeyBytes + 1
        BY <3>1, <4>1 DEF GetHeaderLen
      <4>5. InBasic \/ InExtended \/ InPayload
        BY <3>4 DEF FramesIInv, Parsing13
      <4>6. CASE InBasic
        <5>1. m_state = "HEADER_BASIC" /\ Len(a) + n = 2 /\ b = <<>>
          BY <4>1, <4>6 DEF InBasic
        <5>2. Len(a) <= 2 /\ Len(b) <= KeyBytes + 1
          BY ONLY <3>1, <4>2, <4>3, <5>1
        <5> QED
          BY <4>1, <5>1, <5>2
      <4>7. CASE InExtended
        <5>1. m_state = "HEADER_EXTENDED" /\ Len(a) = 2 /\ Len(b) + n = k
          BY <4>1, <4>7 DEF InExtended, WholeHeader
        <5>2. Len(a) <= 2 /\ Len(b) <= KeyBytes + 1
          BY ONLY <3>1, <4>2, <4>3, <4>4, <5>1
        <5> QED
          BY <4>1, <5>1, <5>2
      <4>8. CASE InPayload
        <5>1. m_state \in {"APPLICATION", "READY"} /\ Len(a) = 2 /\ Len(b) = k
          BY <4>1, <4>8 DEF InPayload, WholeHeader
        <5>2. Len(a) <= 2 /\ Len(b) <= KeyBytes + 1
          BY ONLY <3>1, <4>2, <4>3, <4>4, <5>1
        <5> QED
          BY <4>1, <5>1, <5>2
      <4> QED
        BY <4>5, <4>6, <4>7, <4>8
    <3> QED
      BY <3>2, <3>3, <3>4
  <2>3. FramesType
    BY <2>2 DEF FramesIInv, MessageType, FramesType
  <2>4. InboundType
    BY <2>1, <2>3 DEF InboundType, Body, FramesIInv, BytesType, Bytes0, RequestType
  <2>5. /\ session \in {"connecting", "open", "closing", "closed"}
        /\ m_was_clean \in BOOLEAN /\ terminal \in BOOLEAN /\ aborted \in BOOLEAN
        /\ sent \in Seq(Sent) /\ out \in Seq(ByteType)
    <3>1. <<>> \in Seq(Sent) /\ <<>> \in Seq(ByteType)
      BY EmptySeq
    <3>2. m_response # 101 => session = "connecting" /\ sent = <<>> /\ out = <<>>
      BY DEF TalkIInv, Silent
    <3>3. m_response = 101 => session \in {"open", "closing", "closed"} /\ sent \in Seq(Sent) /\ out \in Seq(ByteType)
      BY DEF TalkIInv, Conversing, Lasting, Understands, Bytes0
    <3> QED
      BY <3>1, <3>2, <3>3 DEF TalkIInv, Flags
  <2> QED
    BY <2>4, <2>5 DEF TypeOK
<1>2. ConversationInit => RequestType
  <2> SUFFICES ASSUME ConversationInit PROVE RequestType
    OBVIOUS
  <2>1. /\ stream \in Streams /\ m_method = "" /\ m_headers = {} /\ m_response = 0
        /\ m_requested_subprotocols = <<>>
    BY DEF ConversationInit, Init
  <2> QED
    BY <2>1, EmptySeq DEF RequestType
<1>3. ConversationInit => FramesIInv /\ Body /\ TalkIInv /\ RequestType
  BY <1>2, InitFrames, InitBody, InitTalk
<1>4. FramesIInv /\ Body /\ TalkIInv /\ RequestType /\ [ConversationNext]_<<vars, conversation>>
        => (FramesIInv /\ Body /\ TalkIInv /\ RequestType)'
  BY FramesNext, TalkNext, RequestTypeNext
<1> QED
  BY <1>1, <1>3, <1>4, PTL DEF Spec
=============================================================================
