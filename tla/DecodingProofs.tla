---------------------------- MODULE DecodingProofs ---------------------------
(***************************************************************************)
(* Proofs about Conversation, continued: what is delivered to Flotilla is  *)
(* what the client's frames mean, and what its request is answered is what *)
(* the request means, whatever pieces its bytes arrive in.                 *)
(* The lemmas say what the windows of a sequence of bytes are, how the     *)
(* bytes of a client are laid out (IsPlan), what a piece of a frame adds   *)
(* to what has been read of it, and where in the bytes every step of the   *)
(* reader leaves it (ProgressIInv); then what the request means, line by   *)
(* line, and that an answer, once given, is that (SettledIInv).            *)
(***************************************************************************)
EXTENDS ConversationProofs

(* The bytes of a from the one after the p-th to the q-th.                 *)
Window(a, p, q) == SubSeq(a, p + 1, q)

LEMMA WindowIs ==
  ASSUME NEW a \in Bytes0, NEW q \in 0 .. Len(a), NEW p \in 0 .. q
  PROVE  /\ Window(a, p, q) \in Bytes0 /\ Len(Window(a, p, q)) = q - p
         /\ \A i \in 1 .. q - p : Window(a, p, q)[i] = a[p + i]
<1>1. a \in Seq(ByteType) /\ Len(a) \in Nat /\ \A i \in 1 .. Len(a) : a[i] \in ByteType
  BY DEF Bytes0
<1>2. p + 1 \in Int /\ q \in Int /\ q - (p + 1) + 1 = q - p /\ \A i \in p + 1 .. q : i \in 1 .. Len(a)
  BY <1>1
<1>3. \A i \in p + 1 .. q : a[i] \in ByteType
  BY <1>1, <1>2
<1>4. PICK m \in Int : m = p + 1
  BY <1>2
<1>5. /\ SubSeq(a, m, q) \in Seq(ByteType)
      /\ Len(SubSeq(a, m, q)) = IF m <= q THEN q - m + 1 ELSE 0
      /\ \A i \in 1 .. q - m + 1 : SubSeq(a, m, q)[i] = a[m + i - 1]
  BY <1>2, <1>3, <1>4, SubSeqProperties
<1>6. PICK w : w = SubSeq(a, m, q)
  OBVIOUS
<1>7. w \in Seq(ByteType) /\ Len(w) = q - p
  BY ONLY <1>4, <1>5, <1>6, <1>1, q \in 0 .. Len(a), p \in 0 .. q
<1>8. \A i \in 1 .. q - p : m + i - 1 = p + i /\ i \in 1 .. q - m + 1
  BY ONLY <1>4, <1>1, q \in 0 .. Len(a), p \in 0 .. q
<1>9. \A i \in 1 .. q - p : w[i] = a[p + i]
  BY <1>5, <1>6, <1>8
<1> QED
  BY <1>4, <1>6, <1>7, <1>9 DEF Window, Bytes0

(* Two sequences of bytes are the same if they agree everywhere.           *)
LEMMA SameBytes ==
  ASSUME NEW a \in Bytes0, NEW b \in Bytes0, Len(a) = Len(b), \A i \in 1 .. Len(a) : a[i] = b[i]
  PROVE  a = b
BY SeqEqual DEF Bytes0

(* The first and the other bytes of a window.                              *)
LEMMA WindowTake ==
  ASSUME NEW a \in Bytes0, NEW q \in 0 .. Len(a), NEW p \in 0 .. q, NEW n \in 0 .. q - p
  PROVE  /\ SubSeq(Window(a, p, q), 1, n) = Window(a, p, p + n)
         /\ SubSeq(Window(a, p, q), n + 1, Len(Window(a, p, q))) = Window(a, p + n, q)
<1>1. PICK w : w = Window(a, p, q)
  OBVIOUS
<1>2. w \in Bytes0 /\ Len(w) = q - p /\ \A i \in 1 .. q - p : w[i] = a[p + i]
  BY <1>1, WindowIs
<1>0. Len(a) \in Nat
  BY DEF Bytes0
<1>3. /\ Len(a) \in Nat /\ p + n \in 0 .. q /\ p + n \in 0 .. Len(a) /\ p \in 0 .. p + n
      /\ n \in 0 .. Len(w) /\ 0 \in 0 .. n /\ Len(w) \in 0 .. Len(w)
  <2>1. PICK k, l : k = Len(a) /\ l = Len(w)
    OBVIOUS
  <2>2. k \in Nat /\ l = q - p /\ q \in 0 .. k /\ p \in 0 .. q /\ n \in 0 .. q - p
    BY <1>0, <1>2, <2>1
  <2>3. /\ p + n \in 0 .. q /\ p + n \in 0 .. k /\ p \in 0 .. p + n
        /\ n \in 0 .. l /\ 0 \in 0 .. n /\ l \in 0 .. l
    BY ONLY <2>2
  <2> QED
    BY ONLY <1>0, <2>1, <2>3
<1>4. PICK x, y, u, v : x = Window(a, p, p + n) /\ y = Window(a, p + n, q) /\ u = Window(w, 0, n) /\ v = Window(w, n, Len(w))
  OBVIOUS
<1>5. x \in Bytes0 /\ Len(x) = p + n - p /\ \A i \in 1 .. p + n - p : x[i] = a[p + i]
  <2>1. PICK r : r = p + n
    OBVIOUS
  <2>2. r \in 0 .. Len(a) /\ p \in 0 .. r /\ x = Window(a, p, r)
    BY <1>3, <1>4, <2>1
  <2>3. x \in Bytes0 /\ Len(x) = r - p /\ \A i \in 1 .. r - p : x[i] = a[p + i]
    BY <2>2, WindowIs
  <2> QED
    BY <2>1, <2>3
<1>6. y \in Bytes0 /\ Len(y) = q - (p + n) /\ \A i \in 1 .. q - (p + n) : y[i] = a[p + n + i]
  BY <1>3, <1>4, WindowIs
<1>7. u \in Bytes0 /\ Len(u) = n - 0 /\ \A i \in 1 .. n - 0 : u[i] = w[0 + i]
  BY <1>2, <1>3, <1>4, WindowIs
<1>8. v \in Bytes0 /\ Len(v) = Len(w) - n /\ \A i \in 1 .. Len(w) - n : v[i] = w[n + i]
  BY <1>2, <1>3, <1>4, WindowIs
<1>9. u = x
  <2>1. Len(u) = Len(x) /\ Len(u) = n
    BY ONLY <1>3, <1>5, <1>7, p \in 0 .. q, q \in 0 .. Len(a), n \in 0 .. q - p
  <2>2. \A i \in 1 .. n : i \in 1 .. p + n - p /\ i \in 1 .. n - 0 /\ 0 + i = i /\ i \in 1 .. q - p
    BY ONLY <1>3, p \in 0 .. q, q \in 0 .. Len(a), n \in 0 .. q - p
  <2>3. \A i \in 1 .. Len(u) : u[i] = x[i]
    BY ONLY <1>2, <1>5, <1>7, <2>1, <2>2, ZenonT(60)
  <2> QED
    BY <1>5, <1>7, <2>1, <2>3, SameBytes
<1>10. v = y
  <2>1. Len(v) = Len(y) /\ Len(v) = q - p - n /\ Len(w) - n = q - p - n /\ q - (p + n) = q - p - n
    BY ONLY <1>2, <1>3, <1>6, <1>8, p \in 0 .. q, q \in 0 .. Len(a), n \in 0 .. q - p
  <2>2. \A i \in 1 .. q - p - n : n + i \in 1 .. q - p /\ p + (n + i) = p + n + i
    BY ONLY <1>3, p \in 0 .. q, q \in 0 .. Len(a), n \in 0 .. q - p
  <2>3. \A i \in 1 .. Len(v) : v[i] = y[i]
    BY ONLY <1>2, <1>6, <1>8, <2>1, <2>2
  <2> QED
    BY <1>6, <1>8, <2>1, <2>3, SameBytes
<1>11. Window(w, 0, n) = SubSeq(w, 1, n)
  BY DEF Window
<1> QED
  BY <1>1, <1>4, <1>9, <1>10, <1>11 DEF Window

(* Windows side by side.                                                   *)
LEMMA WindowJoin ==
  ASSUME NEW a \in Bytes0, NEW r \in 0 .. Len(a), NEW q \in 0 .. r, NEW p \in 0 .. q
  PROVE  Window(a, p, q) \o Window(a, q, r) = Window(a, p, r)
<1>1. PICK x, y, z : x = Window(a, p, q) /\ y = Window(a, q, r) /\ z = Window(a, p, r)
  OBVIOUS
<1>0. Len(a) \in Nat
  BY DEF Bytes0
<1>2. Len(a) \in Nat /\ q \in 0 .. Len(a) /\ p \in 0 .. r
  BY <1>0
<1>3. x \in Bytes0 /\ Len(x) = q - p /\ \A i \in 1 .. q - p : x[i] = a[p + i]
  BY <1>1, <1>2, WindowIs
<1>4. y \in Bytes0 /\ Len(y) = r - q /\ \A i \in 1 .. r - q : y[i] = a[q + i]
  BY <1>1, <1>2, WindowIs
<1>5. z \in Bytes0 /\ Len(z) = r - p /\ \A i \in 1 .. r - p : z[i] = a[p + i]
  BY <1>1, <1>2, WindowIs
<1>6. PICK w : w = x \o y
  OBVIOUS
<1>7. /\ w \in Bytes0 /\ Len(w) = Len(x) + Len(y)
      /\ \A i \in 1 .. Len(x) + Len(y) : w[i] = IF i <= Len(x) THEN x[i] ELSE y[i - Len(x)]
  BY <1>3, <1>4, <1>6, ConcatProperties DEF Bytes0
<1>8. Len(w) = r - p
  BY ONLY <1>2, <1>3, <1>4, <1>7, r \in 0 .. Len(a), q \in 0 .. r, p \in 0 .. q
<1>9. ASSUME NEW i \in 1 .. r - p
      PROVE  w[i] = z[i]
  <2>1. i \in 1 .. Len(x) + Len(y) /\ (i <= q - p => i \in 1 .. q - p)
        /\ (~(i <= q - p) => i - (q - p) \in 1 .. r - q /\ q + (i - (q - p)) = p + i)
    BY ONLY <1>2, <1>3, <1>4, r \in 0 .. Len(a), q \in 0 .. r, p \in 0 .. q, i \in 1 .. r - p
  <2>2. CASE i <= q - p
    BY ONLY <1>3, <1>5, <1>7, <2>1, <2>2, i \in 1 .. r - p
  <2>3. CASE ~(i <= q - p)
    <3>1. w[i] = y[i - (q - p)]
      BY ONLY <1>3, <1>7, <2>1, <2>3
    <3>2. y[i - (q - p)] = a[q + (i - (q - p))]
      BY ONLY <1>4, <2>1, <2>3
    <3> QED
      BY ONLY <1>5, <2>1, <2>3, <3>1, <3>2, i \in 1 .. r - p
  <2> QED
    BY <2>2, <2>3
<1>10. w = z
  BY <1>5, <1>7, <1>8, <1>9, SameBytes
<1> QED
  BY <1>1, <1>6, <1>10

LEMMA WindowEmpty ==
  ASSUME NEW a \in Bytes0, NEW q \in 0 .. Len(a), NEW p \in 0 .. q
  PROVE  Window(a, p, q) = <<>> <=> p = q
<1>0. Len(a) \in Nat
  BY DEF Bytes0
<1>1. Window(a, p, q) \in Bytes0 /\ Len(Window(a, p, q)) = q - p
  BY WindowIs
<1>2. PICK w : w = Window(a, p, q)
  OBVIOUS
<1>3. w \in Seq(ByteType) /\ Len(w) = q - p
  BY <1>1, <1>2 DEF Bytes0
<1>4. w = <<>> <=> Len(w) = 0
  BY ONLY <1>3, EmptySeq
<1>5. q - p = 0 <=> p = q
  BY ONLY <1>0, q \in 0 .. Len(a), p \in 0 .. q
<1> QED
  BY <1>2, <1>3, <1>4, <1>5

LEMMA WindowAll ==
  ASSUME NEW a \in Bytes0
  PROVE  Window(a, 0, Len(a)) = a
BY SubSeqFull DEF Window, Bytes0
-----------------------------------------------------------------------------
(* The parts that bytes are made of lie side by side in them: the k-th     *)
(* after the first at[k - 1] bytes, up to the first at[k].                 *)
Layout(at, parts, b) ==
  \A k \in 1 .. Len(parts) :
    /\ at[k - 1] \in Nat /\ at[k] = at[k - 1] + Len(parts[k]) /\ at[k] <= Len(b)
    /\ \A i \in 1 .. Len(parts[k]) : b[at[k - 1] + i] = parts[k][i]

LEMMA FlattenLayout ==
  ASSUME NEW parts \in Seq(Bytes0)
  PROVE  \E at : at[0] = 0 /\ at[Len(parts)] = Len(FlattenSeq(parts)) /\ Layout(at, parts, FlattenSeq(parts))
<1>1. PICK n : n = Len(parts)
  OBVIOUS
<1>2. n \in Nat /\ \A k \in 1 .. n : parts[k] \in Bytes0 /\ parts[k] \in Seq(ByteType) /\ Len(parts[k]) \in Nat
  BY <1>1 DEF Bytes0
<1>3. CASE n = 0
  <2>1. FlattenSeq(parts) = parts /\ Len(parts) = 0
    BY <1>1, <1>3 DEF FlattenSeq
  <2>2. PICK at : at = [k \in 0 .. 0 |-> 0]
    OBVIOUS
  <2>3. at[0] = 0
    BY <2>2
  <2>4. Layout(at, parts, FlattenSeq(parts))
    BY <2>1 DEF Layout
  <2> QED
    BY <2>1, <2>3, <2>4
<1>4. CASE n > 0
  <2>1. PICK e : /\ e[1] = parts[1] /\ \A i \in 2 .. n : e[i] = e[i - 1] \o parts[i]
                 /\ FlattenSeq(parts) = e[n]
    BY <1>1, <1>2, <1>4, FlattenRun
  <2> DEFINE S == {j \in Nat : j \in 1 .. n => e[j] \in Seq(ByteType)}
  <2>2. 0 \in S
    BY <1>2
  <2>3. ASSUME NEW j \in Nat, j \in S
        PROVE  j + 1 \in S
    <3> SUFFICES ASSUME j + 1 \in 1 .. n PROVE e[j + 1] \in Seq(ByteType)
      OBVIOUS
    <3>1. CASE j = 0
      BY <1>2, <1>4, <2>1, <3>1
    <3>2. CASE j > 0
      <4>1. PICK i : i = j + 1
        OBVIOUS
      <4>2. j \in 1 .. n /\ i \in 2 .. n /\ i \in 1 .. n /\ i - 1 = j
        BY <1>2, <3>2, <4>1
      <4>3. e[j] \in Seq(ByteType)
        BY <2>3, <4>2
      <4>4. e[i] = e[i - 1] \o parts[i] /\ parts[i] \in Seq(ByteType)
        BY <1>2, <2>1, <4>2
      <4>5. PICK x, y : x = e[j] /\ y = parts[i]
        OBVIOUS
      <4>6. x \in Seq(ByteType) /\ y \in Seq(ByteType) /\ e[i] = x \o y
        BY ONLY <4>2, <4>3, <4>4, <4>5
      <4>7. e[i] \in Seq(ByteType)
        BY ONLY <4>6, ConcatProperties
      <4> QED
        BY <4>1, <4>7
    <3> QED
      BY <3>1, <3>2
  <2> HIDE DEF S
  <2>4. Nat \subseteq S
    BY <2>2, <2>3, SetInduction
  <2>5. \A j \in 1 .. n : e[j] \in Seq(ByteType) /\ Len(e[j]) \in Nat
    BY <2>4 DEF S
  <2>6. PICK at : at = [k \in 0 .. n |-> IF k = 0 THEN 0 ELSE Len(e[k])]
    OBVIOUS
  <2>7. at[0] = 0 /\ \A k \in 1 .. n : at[k] = Len(e[k]) /\ at[k] \in Nat
    BY <1>2, <2>5, <2>6
  <2>8. ASSUME NEW k \in 1 .. n
        PROVE  /\ at[k - 1] \in Nat /\ at[k] = at[k - 1] + Len(parts[k])
               /\ \A i \in 1 .. Len(parts[k]) : e[k][at[k - 1] + i] = parts[k][i]
               /\ k > 1 => \A i \in 1 .. at[k - 1] : e[k][i] = e[k - 1][i]
    <3>1. CASE k = 1
      <4>1. k - 1 = 0 /\ at[0] = 0 /\ at[k] = Len(parts[k]) /\ e[k] = parts[k]
        BY <2>1, <2>7, <3>1
      <4>2. \A i \in 1 .. Len(parts[k]) : 0 + i = i
        OBVIOUS
      <4> QED
        BY <1>2, <3>1, <4>1, <4>2
    <3>2. CASE k > 1
      <4>1. k - 1 \in 1 .. n /\ k \in 2 .. n
        BY <1>2, <3>2
      <4>2. PICK x, y, w : x = e[k - 1] /\ y = parts[k] /\ w = e[k]
        OBVIOUS
      <4>3. x \in Seq(ByteType) /\ y \in Seq(ByteType) /\ w = x \o y
        BY <1>2, <2>1, <2>5, <4>1, <4>2
      <4>4. /\ Len(w) = Len(x) + Len(y) /\ Len(x) \in Nat /\ Len(y) \in Nat
            /\ \A i \in 1 .. Len(x) + Len(y) : w[i] = IF i <= Len(x) THEN x[i] ELSE y[i - Len(x)]
        BY ONLY <4>3, ConcatProperties
      <4>5. \A i \in 1 .. Len(y) : w[Len(x) + i] = y[i]
        <5>1. \A i \in 1 .. Len(y) : Len(x) + i \in 1 .. Len(x) + Len(y) /\ ~(Len(x) + i <= Len(x)) /\ Len(x) + i - Len(x) = i
          BY ONLY <4>4
        <5> QED
          BY ONLY <4>4, <5>1
      <4>6. \A i \in 1 .. Len(x) : w[i] = x[i]
        <5>1. \A i \in 1 .. Len(x) : i \in 1 .. Len(x) + Len(y) /\ i <= Len(x)
          BY ONLY <4>4
        <5> QED
          BY ONLY <4>4, <5>1
      <4>7. at[k - 1] = Len(x) /\ at[k] = Len(w)
        BY <2>7, <4>1, <4>2
      <4> QED
        BY <4>2, <4>4, <4>5, <4>6, <4>7
    <3> QED
      BY <3>1, <3>2
  <2> DEFINE Laid(j) == \A k \in 1 .. j : at[k] <= Len(e[j]) /\ \A i \in 1 .. Len(parts[k]) : e[j][at[k - 1] + i] = parts[k][i]
             T == {j \in Nat : j \in 1 .. n => Laid(j)}
  <2>9. 0 \in T
    OBVIOUS
  <2>10. ASSUME NEW j \in Nat, j \in T
         PROVE  j + 1 \in T
    <3> SUFFICES ASSUME j + 1 \in 1 .. n, NEW k \in 1 .. j + 1
                 PROVE  at[k] <= Len(e[j + 1]) /\ \A i \in 1 .. Len(parts[k]) : e[j + 1][at[k - 1] + i] = parts[k][i]
      OBVIOUS
    <3>1. CASE k = j + 1
      <4>1. k \in 1 .. n
        BY <3>1
      <4>2. at[k] = Len(e[k]) /\ at[k] \in Nat
        BY <2>7, <4>1
      <4>3. at[k] <= Len(e[k]) /\ \A i \in 1 .. Len(parts[k]) : e[k][at[k - 1] + i] = parts[k][i]
        BY <2>8, <4>1, <4>2
      <4> QED
        BY <3>1, <4>3
    <3>2. CASE k # j + 1
      <4>1. j \in 1 .. n /\ k \in 1 .. j /\ k \in 1 .. n /\ j + 1 > 1 /\ j + 1 - 1 = j
        BY <1>2, <3>2
      <4>2. at[k] <= Len(e[j]) /\ \A i \in 1 .. Len(parts[k]) : e[j][at[k - 1] + i] = parts[k][i]
        BY <2>10, <4>1
      <4>3. /\ at[j + 1] = at[j] + Len(parts[j + 1]) /\ at[j] \in Nat /\ at[j] = Len(e[j]) /\ at[j + 1] = Len(e[j + 1])
            /\ Len(parts[j + 1]) \in Nat
            /\ \A i \in 1 .. at[j] : e[j + 1][i] = e[j][i]
        BY <1>2, <2>7, <2>8, <4>1
      <4>4. at[k] = at[k - 1] + Len(parts[k]) /\ at[k - 1] \in Nat /\ Len(parts[k]) \in Nat
        BY <1>2, <2>8, <4>1
      <4>5. \A i \in 1 .. Len(parts[k]) : at[k - 1] + i \in 1 .. at[j]
        <5>1. PICK x, l, y : x = at[k - 1] /\ l = Len(parts[k]) /\ y = at[j]
          OBVIOUS
        <5>2. x \in Nat /\ l \in Nat /\ y \in Nat /\ x + l <= y
          BY <4>2, <4>3, <4>4, <5>1
        <5>3. \A i \in 1 .. l : x + i \in 1 .. y
          BY ONLY <5>2
        <5> QED
          BY <5>1, <5>3
      <4>6. \A i \in 1 .. Len(parts[k]) : e[j + 1][at[k - 1] + i] = parts[k][i]
        BY ONLY <4>2, <4>3, <4>5
      <4>7. at[k] <= Len(e[j + 1])
        <5>1. PICK x, l, y : x = at[k] /\ l = Len(parts[j + 1]) /\ y = at[j]
          OBVIOUS
        <5>2. l \in Nat /\ y \in Nat /\ Len(e[j + 1]) = y + l
          BY <4>3, <5>1
        <5>4. x \in Nat
          BY <4>4, <5>1
        <5>5. x <= y
          BY <4>2, <4>3, <5>1
        <5>3. x <= y + l
          BY ONLY <5>2, <5>4, <5>5
        <5> QED
          BY <5>1, <5>2, <5>3
      <4> QED
        BY <4>6, <4>7
    <3> QED
      BY <3>1, <3>2
  <2> HIDE DEF T
  <2>11. Nat \subseteq T
    BY <2>9, <2>10, SetInduction
  <2>12. n \in 1 .. n
    BY <1>2, <1>4
  <2>13. Laid(n)
    BY <2>11, <2>12 DEF T
  <2>14. Layout(at, parts, FlattenSeq(parts))
    <3>1. \A k \in 1 .. n : at[k - 1] \in Nat /\ at[k] = at[k - 1] + Len(parts[k])
      BY <2>8
    <3> QED
      BY <1>1, <2>1, <2>13, <3>1 DEF Layout
  <2> QED
    BY <1>1, <2>1, <2>7, <2>12, <2>14
<1> QED
  BY <1>2, <1>3, <1>4

(* They stay where they are when bytes are added at the end, and move by   *)
(* as many as are added at the beginning.                                  *)
LEMMA LayoutBefore ==
  ASSUME NEW at, NEW parts \in Seq(Bytes0), NEW b \in Bytes0, NEW c \in Bytes0, Layout(at, parts, b)
  PROVE  Layout(at, parts, b \o c)
<1>1. PICK w : w = b \o c
  OBVIOUS
<1>2. /\ Len(w) = Len(b) + Len(c) /\ Len(b) \in Nat /\ Len(c) \in Nat
      /\ \A i \in 1 .. Len(b) : w[i] = b[i]
  <2>1. b \in Seq(ByteType) /\ c \in Seq(ByteType)
    BY DEF Bytes0
  <2>2. /\ Len(w) = Len(b) + Len(c) /\ Len(b) \in Nat /\ Len(c) \in Nat
        /\ \A i \in 1 .. Len(b) + Len(c) : w[i] = IF i <= Len(b) THEN b[i] ELSE c[i - Len(b)]
    BY ONLY <1>1, <2>1, ConcatProperties, LenProperties
  <2>3. \A i \in 1 .. Len(b) : i \in 1 .. Len(b) + Len(c) /\ i <= Len(b)
    BY ONLY <2>2
  <2> QED
    BY ONLY <2>2, <2>3
<1>3. ASSUME NEW k \in 1 .. Len(parts)
      PROVE  /\ at[k - 1] \in Nat /\ at[k] = at[k - 1] + Len(parts[k]) /\ at[k] <= Len(w)
             /\ \A i \in 1 .. Len(parts[k]) : w[at[k - 1] + i] = parts[k][i]
  <2>1. PICK x, y, l : x = at[k - 1] /\ y = at[k] /\ l = Len(parts[k])
    OBVIOUS
  <2>2. x \in Nat /\ y = x + l /\ y <= Len(b)
    BY <2>1 DEF Layout
  <2>3. \A i \in 1 .. l : b[x + i] = parts[k][i]
    BY <2>1 DEF Layout
  <2>4. l \in Nat
    BY <2>1 DEF Bytes0
  <2>5. y <= Len(w) /\ \A i \in 1 .. l : x + i \in 1 .. Len(b)
    BY ONLY <1>2, <2>2, <2>4
  <2>6. \A i \in 1 .. l : w[x + i] = parts[k][i]
    BY ONLY <1>2, <2>3, <2>5
  <2> QED
    BY <2>1, <2>2, <2>5, <2>6
<1> QED
  BY <1>1, <1>3 DEF Layout

LEMMA LayoutAfter ==
  ASSUME NEW at, NEW parts \in Seq(Bytes0), NEW b \in Bytes0, NEW c \in Bytes0, Layout(at, parts, b), at[0] = 0
  PROVE  \E to : /\ to[0] = Len(c) /\ to[Len(parts)] = Len(c) + at[Len(parts)] /\ Layout(to, parts, c \o b)
<1>1. PICK w : w = c \o b
  OBVIOUS
<1>2. /\ Len(w) = Len(c) + Len(b) /\ Len(b) \in Nat /\ Len(c) \in Nat
      /\ \A i \in 1 .. Len(b) : w[Len(c) + i] = b[i]
  <2>1. b \in Seq(ByteType) /\ c \in Seq(ByteType)
    BY DEF Bytes0
  <2>2. /\ Len(w) = Len(c) + Len(b) /\ Len(b) \in Nat /\ Len(c) \in Nat
        /\ \A i \in 1 .. Len(c) + Len(b) : w[i] = IF i <= Len(c) THEN c[i] ELSE b[i - Len(c)]
    BY ONLY <1>1, <2>1, ConcatProperties, LenProperties
  <2>3. \A i \in 1 .. Len(b) : Len(c) + i \in 1 .. Len(c) + Len(b) /\ ~(Len(c) + i <= Len(c)) /\ Len(c) + i - Len(c) = i
    BY ONLY <2>2
  <2> QED
    BY ONLY <2>2, <2>3
<1>3. PICK n : n = Len(parts)
  OBVIOUS
<1>4. n \in Nat
  BY <1>3
<1>5. PICK to : to = [k \in 0 .. n |-> Len(c) + at[k]]
  OBVIOUS
<1>6. to[0] = Len(c) + at[0] /\ to[n] = Len(c) + at[n] /\ \A k \in 0 .. n : to[k] = Len(c) + at[k]
  BY <1>4, <1>5
<1>7. to[0] = Len(c)
  BY <1>2, <1>6
<1>8. ASSUME NEW k \in 1 .. n
      PROVE  /\ to[k - 1] \in Nat /\ to[k] = to[k - 1] + Len(parts[k]) /\ to[k] <= Len(w)
             /\ \A i \in 1 .. Len(parts[k]) : w[to[k - 1] + i] = parts[k][i]
  <2>1. PICK x, y, l : x = at[k - 1] /\ y = at[k] /\ l = Len(parts[k])
    OBVIOUS
  <2>2. x \in Nat /\ y = x + l /\ y <= Len(b)
    BY <1>3, <2>1 DEF Layout
  <2>3. \A i \in 1 .. l : b[x + i] = parts[k][i]
    BY <1>3, <2>1 DEF Layout
  <2>4. l \in Nat
    BY <1>3, <2>1 DEF Bytes0
  <2>5. k - 1 \in 0 .. n /\ k \in 0 .. n
    BY ONLY <1>4, k \in 1 .. n
  <2>6. PICK u, v : u = to[k - 1] /\ v = to[k]
    OBVIOUS
  <2>7. u = Len(c) + x /\ v = Len(c) + y
    BY <1>6, <2>1, <2>5, <2>6
  <2>8. u \in Nat /\ v = u + l /\ v <= Len(w) /\ \A i \in 1 .. l : x + i \in 1 .. Len(b) /\ u + i = Len(c) + (x + i)
    BY ONLY <1>2, <2>2, <2>4, <2>7, SMTT(60)
  <2>9. \A i \in 1 .. l : w[u + i] = parts[k][i]
    BY ONLY <1>2, <2>3, <2>8
  <2> QED
    BY <2>1, <2>6, <2>8, <2>9
<1>9. Layout(to, parts, w)
  BY <1>3, <1>8 DEF Layout
<1> QED
  BY <1>1, <1>3, <1>6, <1>7, <1>9

(* The lines and the frames of a client.                                   *)
LinesOf(s) == [i \in DOMAIN s.lines |-> LineBytes(s.lines[i])]

FramesOf(s) ==
  [i \in DOMAIN s.frames |-> IF s.frames[i].op \in {"00", "JUNK"} THEN FrameBytes00(s.frames[i])
                                                                  ELSE FrameBytes(s.frames[i])]

BodyParts(s) == [i \in 1 .. s.body |-> <<Http("x")>>]

(* Where they are in its bytes: the lines, the body, the frames.           *)
IsPlan(s, at, from) ==
  /\ at[0] = 0 /\ Layout(at, LinesOf(s), Bytes(s))
  /\ at[Len(s.lines)] \in Nat /\ from[0] = at[Len(s.lines)] + s.body
  /\ Layout(from, FramesOf(s), Bytes(s)) /\ from[Len(s.frames)] = Len(Bytes(s))

LEMMA PartsOf ==
  ASSUME NEW s \in Streams
  PROVE  /\ LinesOf(s) \in Seq(Bytes0) /\ BodyParts(s) \in Seq(Bytes0) /\ FramesOf(s) \in Seq(Bytes0)
         /\ Len(LinesOf(s)) = Len(s.lines) /\ Len(BodyParts(s)) = s.body /\ Len(FramesOf(s)) = Len(s.frames)
         /\ \A i \in 1 .. s.body : Len(BodyParts(s)[i]) = 1
<1>1. /\ s.lines \in Seq(Seq(STRING)) /\ s.body \in Nat
      /\ s.frames \in Seq(Frame00 \cup Frame13)
  BY StreamsAssumption
<1>2. PICK a : a = LinesOf(s)
  OBVIOUS
<1>3. a \in Seq(Bytes0) /\ Len(a) = Len(s.lines)
  <2>1. \A i \in 1 .. Len(s.lines) : LineBytes(s.lines[i]) \in Bytes0
    BY <1>1, LineBytesType
  <2>2. DOMAIN s.lines = 1 .. Len(s.lines) /\ Len(s.lines) \in Nat
    BY <1>1
  <2>3. a = [i \in DOMAIN s.lines |-> LineBytes(s.lines[i])]
    BY <1>2 DEF LinesOf
  <2> QED
    BY ONLY <2>1, <2>2, <2>3
<1>4. PICK b : b = BodyParts(s)
  OBVIOUS
<1>5. b \in Seq(Bytes0) /\ Len(b) = s.body /\ \A i \in 1 .. s.body : Len(b[i]) = 1
  <2>1. "x" \in STRING
    BY StringsAssumption
  <2>2. PICK x \in ByteType : x = Http("x")
    BY <2>1, HttpType, Zenon
  <2>3. PICK y : y = <<x>>
    OBVIOUS
  <2>6. <<x>> \in Seq(ByteType)
    OBVIOUS
  <2>7. Len(<<x>>) = 1
    OBVIOUS
  <2>4. y \in Bytes0 /\ y = <<Http("x")>> /\ Len(y) = 1
    BY <2>2, <2>3, <2>6, <2>7 DEF Bytes0
  <2>5. b = [i \in 1 .. s.body |-> y]
    BY <1>4, <2>4 DEF BodyParts
  <2>8. PICK n \in Nat : n = s.body
    BY <1>1
  <2>9. b \in Seq(Bytes0) /\ Len(b) = n
    BY ONLY <2>4, <2>5, <2>8
  <2>10. \A i \in 1 .. n : b[i] = y
    BY ONLY <2>5, <2>8
  <2>11. \A i \in 1 .. n : Len(b[i]) = 1
    BY ONLY <2>4, <2>10, Zenon
  <2> QED
    BY <2>8, <2>9, <2>11
<1>6. PICK c : c = FramesOf(s)
  OBVIOUS
<1>7. c \in Seq(Bytes0) /\ Len(c) = Len(s.frames)
  <2>1. ASSUME NEW f \in Frame00 \cup Frame13
        PROVE  (IF f.op \in {"00", "JUNK"} THEN FrameBytes00(f) ELSE FrameBytes(f)) \in Bytes0
    <3>1. CASE f.op \in {"00", "JUNK"}
      <4>1. f \in Frame00
        BY <3>1 DEF Frame13
      <4> QED
        BY <3>1, <4>1, FrameBytes00Type
    <3>2. CASE f.op \notin {"00", "JUNK"}
      <4>1. f \in Frame13
        BY <3>2 DEF Frame00
      <4> QED
        BY <3>2, <4>1, FrameBytesType
    <3> QED
      BY <3>1, <3>2
  <2>2. DOMAIN s.frames = 1 .. Len(s.frames) /\ Len(s.frames) \in Nat
        /\ \A i \in 1 .. Len(s.frames) : s.frames[i] \in Frame00 \cup Frame13
    BY <1>1
  <2>3. c = [i \in DOMAIN s.frames |-> IF s.frames[i].op \in {"00", "JUNK"} THEN FrameBytes00(s.frames[i])
                                                                           ELSE FrameBytes(s.frames[i])]
    BY <1>6 DEF FramesOf
  <2> QED
    BY ONLY <2>1, <2>2, <2>3
<1> QED
  BY <1>2, <1>3, <1>4, <1>5, <1>6, <1>7
-----------------------------------------------------------------------------

(* Division has one quotient and one remainder.                            *)
LEMMA Divided ==
  ASSUME NEW K \in Nat \ {0}, NEW x \in Nat
  PROVE  x \div K \in Nat /\ x % K \in 0 .. K - 1 /\ x = K * (x \div K) + (x % K)
OBVIOUS

LEMMA OneRemainder ==
  ASSUME NEW K \in Nat \ {0}, NEW a \in Int, NEW b \in Int, NEW m \in 0 .. K - 1, NEW n \in 0 .. K - 1,
         K * a + m = K * b + n
  PROVE  m = n
<1>1. PICK t \in Int : t = a - b
  OBVIOUS
<1>2. K * t = K * a - K * b
  BY <1>1
<1>3. K * t \in Int /\ K * a \in Int /\ K * b \in Int
  BY <1>1
<1>4. K * t < K /\ K * t > 0 - K
  BY <1>2, <1>3
<1>5. ~(t >= 1)
  <2>1. t >= 1 => K * t >= K * 1
    OBVIOUS
  <2> QED
    BY <1>4, <2>1
<1>6. ~(t <= -1)
  <2>1. t <= -1 => K * t <= K * (-1)
    OBVIOUS
  <2> QED
    BY <1>4, <2>1
<1>7. t = 0
  BY <1>5, <1>6
<1>8. K * t = 0
  BY <1>7
<1> QED
  BY <1>2, <1>3, <1>8

(* Going round a key in steps is going round it at once.                   *)
LEMMA ModPlus ==
  ASSUME NEW K \in Nat \ {0}, NEW x \in Nat, NEW y \in Nat
  PROVE  ((x % K) + y) % K = (x + y) % K /\ x % K \in Nat
<1>1. PICK q \in Nat, r \in 0 .. K - 1 : x = K * q + r /\ r = x % K
  BY Divided
<1>2. PICK u \in Nat, v \in Nat : u = r + y /\ v = x + y
  OBVIOUS
<1>3. PICK d \in Nat, m \in 0 .. K - 1 : u = K * d + m /\ m = u % K
  BY ONLY K \in Nat \ {0}, u \in Nat, Divided
<1>4. PICK e \in Nat, n \in 0 .. K - 1 : v = K * e + n /\ n = v % K
  BY ONLY K \in Nat \ {0}, v \in Nat, Divided
<1>5. K * q + K * d = K * (q + d)
  OBVIOUS
<1>6. K * q \in Nat /\ K * d \in Nat /\ K * e \in Nat
  OBVIOUS
<1>7. K * (q + d) + m = K * e + n
  BY <1>1, <1>2, <1>3, <1>4, <1>5, <1>6
<1>8. m = n
  BY <1>7, OneRemainder
<1>9. u % K = v % K
  BY ONLY <1>3, <1>4, <1>8, Zenon
<1>10. r \in Nat
  BY ONLY r \in 0 .. K - 1, K \in Nat \ {0}
<1> QED
  BY ONLY <1>1, <1>2, <1>9, <1>10, Zenon
-----------------------------------------------------------------------------
(* Parts of one byte each.                                                 *)
LEMMA SinglesFlat ==
  ASSUME NEW parts \in Seq(Bytes0), \A i \in 1 .. Len(parts) : Len(parts[i]) = 1
  PROVE  FlattenSeq(parts) \in Bytes0 /\ Len(FlattenSeq(parts)) = Len(parts)
<1>1. PICK n \in Nat : n = Len(parts)
  OBVIOUS
<1>2. PICK at : at[0] = 0 /\ at[n] = Len(FlattenSeq(parts)) /\ Layout(at, parts, FlattenSeq(parts))
  BY <1>1, FlattenLayout
<1> DEFINE S == {k \in Nat : k <= n => at[k] = k}
<1>3. 0 \in S
  BY <1>2
<1>4. ASSUME NEW k \in Nat, k \in S
      PROVE  k + 1 \in S
  <2> SUFFICES ASSUME k + 1 <= n PROVE at[k + 1] = k + 1
    OBVIOUS
  <2>1. PICK j : j = k + 1
    OBVIOUS
  <2>2. j \in 1 .. n /\ j - 1 = k /\ k <= n
    BY <1>1, <2>1
  <2>3. at[j] = at[j - 1] + Len(parts[j])
    BY <1>1, <1>2, <2>2 DEF Layout
  <2>4. at[k] = k /\ Len(parts[j]) = 1
    BY <1>1, <1>4, <2>2
  <2> QED
    BY <2>1, <2>2, <2>3, <2>4
<1> HIDE DEF S
<1>5. Nat \subseteq S
  BY <1>3, <1>4, SetInduction
<1>6. at[n] = n
  BY <1>5 DEF S
<1>7. FlattenSeq(parts) \in Bytes0
  BY FlattenType DEF Bytes0
<1> QED
  BY <1>1, <1>2, <1>6, <1>7

(* So the bytes of a client have a plan.                                   *)
LEMMA PlanExists ==
  ASSUME NEW s \in Streams
  PROVE  \E at, from : IsPlan(s, at, from)
<1>1. PICK l, b, f : l = LinesOf(s) /\ b = BodyParts(s) /\ f = FramesOf(s)
  OBVIOUS
<1>2. /\ l \in Seq(Bytes0) /\ b \in Seq(Bytes0) /\ f \in Seq(Bytes0)
      /\ Len(l) = Len(s.lines) /\ Len(b) = s.body /\ Len(f) = Len(s.frames)
      /\ \A i \in 1 .. Len(b) : Len(b[i]) = 1
  BY <1>1, PartsOf
<1>3. PICK x, y, z : x = FlattenSeq(l) /\ y = FlattenSeq(b) /\ z = FlattenSeq(f)
  OBVIOUS
<1>4. x \in Bytes0 /\ y \in Bytes0 /\ z \in Bytes0
  BY <1>2, <1>3, FlattenType DEF Bytes0
<1>5. Bytes(s) = (x \o y) \o z
  BY <1>1, <1>3, Zenon DEF Bytes, LinesOf, BodyParts, FramesOf
<1>6. Len(y) = s.body
  BY <1>2, <1>3, SinglesFlat
<1>7. PICK w : w = x \o y
  OBVIOUS
<1>8. w \in Bytes0 /\ Len(w) = Len(x) + s.body /\ Len(x) \in Nat /\ Len(z) \in Nat
  <2>1. w \in Bytes0 /\ Len(w) = Len(x) + Len(y) /\ Len(x) \in Nat
    BY <1>4, <1>7, Added
  <2>2. Len(z) \in Nat
    BY <1>4 DEF Bytes0
  <2> QED
    BY <1>6, <2>1, <2>2
<1>9. PICK at : at[0] = 0 /\ at[Len(l)] = Len(x) /\ Layout(at, l, x)
  BY <1>2, <1>3, FlattenLayout
<1>10. Layout(at, l, w)
  BY <1>2, <1>4, <1>7, <1>9, LayoutBefore
<1>11. Layout(at, l, w \o z)
  BY <1>2, <1>4, <1>8, <1>10, LayoutBefore
<1>12. PICK fr : fr[0] = 0 /\ fr[Len(f)] = Len(z) /\ Layout(fr, f, z)
  BY <1>2, <1>3, FlattenLayout
<1>13. PICK from : from[0] = Len(w) /\ from[Len(f)] = Len(w) + fr[Len(f)] /\ Layout(from, f, w \o z)
  BY <1>2, <1>4, <1>8, <1>12, LayoutAfter
<1>14. PICK v : v = w \o z
  OBVIOUS
<1>15. Len(v) = Len(w) + Len(z)
  BY <1>4, <1>8, <1>14, Added
<1>16. v = Bytes(s)
  BY <1>5, <1>7, <1>14
<1>17. from[Len(s.frames)] = Len(v)
  BY <1>2, <1>12, <1>13, <1>15
<1>18. at[Len(s.lines)] = Len(x)
  BY <1>2, <1>9
<1>19. from[0] = at[Len(s.lines)] + s.body
  BY <1>8, <1>13, <1>18
<1>20. at[0] = 0 /\ at[Len(s.lines)] \in Nat /\ Layout(at, LinesOf(s), Bytes(s)) /\ Layout(from, FramesOf(s), Bytes(s))
  BY <1>1, <1>8, <1>9, <1>11, <1>13, <1>14, <1>16, <1>18
<1>21. from[Len(s.frames)] = Len(Bytes(s))
  BY <1>16, <1>17
<1>22. IsPlan(s, at, from)
  BY <1>19, <1>20, <1>21 DEF IsPlan
<1> QED
  BY <1>22

(* A part of the bytes b, from the one after the x-th to the y-th.         *)
Lies(part, b, x, y) ==
  /\ x \in Nat /\ y \in Nat /\ y = x + Len(part) /\ y <= Len(b)
  /\ part \in Bytes0 /\ Len(part) \in Nat
  /\ \A i \in 1 .. Len(part) : b[x + i] = part[i]

LEMMA LayoutAt ==
  ASSUME NEW at, NEW parts \in Seq(Bytes0), NEW b \in Bytes0, Layout(at, parts, b), NEW k \in Nat, k < Len(parts)
  PROVE  Lies(parts[k + 1], b, at[k], at[k + 1])
<1>1. PICK n \in Nat : n = Len(parts)
  OBVIOUS
<1>2. PICK j : j = k + 1
  OBVIOUS
<1>3. j \in 1 .. n /\ j - 1 = k
  BY <1>1, <1>2
<1>4. parts[j] \in Bytes0
  BY <1>1, <1>3
<1>5. PICK l : l = Len(parts[j])
  OBVIOUS
<1>6. l \in Nat
  BY <1>4, <1>5 DEF Bytes0
<1>7. /\ at[j - 1] \in Nat /\ at[j] = at[j - 1] + Len(parts[j]) /\ at[j] <= Len(b)
      /\ \A i \in 1 .. Len(parts[j]) : b[at[j - 1] + i] = parts[j][i]
  BY <1>1, <1>3 DEF Layout
<1>8. at[k] \in Nat /\ at[j] = at[k] + l /\ at[j] <= Len(b) /\ \A i \in 1 .. l : b[at[k] + i] = parts[j][i]
  BY ONLY <1>3, <1>5, <1>7
<1>9. at[j] \in Nat
  BY ONLY <1>6, <1>8
<1>10. Lies(parts[j], b, at[k], at[j])
  BY ONLY <1>4, <1>5, <1>6, <1>8, <1>9 DEF Lies
<1> QED
  BY ONLY <1>2, <1>10
-----------------------------------------------------------------------------
(* d are the decoder's states in the first n characters of t.              *)
Decodes(d, t, n) == \A i \in 1 .. n : d[i] = Utf8(d[i - 1], t[i])

(* The decoder goes one way only, ...                                      *)
LEMMA OneDecoding ==
  ASSUME NEW t, NEW d, NEW e, NEW n \in Nat, d[0] = e[0], Decodes(d, t, n), Decodes(e, t, n)
  PROVE  d[n] = e[n]
<1> DEFINE S == {i \in Nat : i <= n => d[i] = e[i]}
<1>1. 0 \in S
  OBVIOUS
<1>2. ASSUME NEW i \in Nat, i \in S
      PROVE  i + 1 \in S
  <2> SUFFICES ASSUME i + 1 <= n PROVE d[i + 1] = e[i + 1]
    OBVIOUS
  <2>1. PICK j : j = i + 1
    OBVIOUS
  <2>2. j \in 1 .. n /\ j - 1 = i /\ d[i] = e[i]
    BY <1>2, <2>1
  <2>3. d[j] = Utf8(d[i], t[j]) /\ e[j] = Utf8(e[i], t[j])
    BY <2>2 DEF Decodes
  <2> QED
    BY <2>1, <2>2, <2>3
<1> HIDE DEF S
<1>3. Nat \subseteq S
  BY <1>1, <1>2, SetInduction
<1> QED
  BY <1>3 DEF S

(* ... so it may stop and go on.                                           *)
LEMMA DecodeBoth ==
  ASSUME NEW s, NEW t \in Seq(STRING), NEW u \in Seq(STRING)
  PROVE  Decode(s, t \o u) = Decode(Decode(s, t), u)
<1>1. PICK w : w = t \o u
  OBVIOUS
<1>2. PICK m \in Nat, n \in Nat : m = Len(t) /\ n = Len(u)
  OBVIOUS
<1>3. /\ w \in Seq(STRING) /\ Len(w) = m + n /\ \A i \in 1 .. m : w[i] = t[i]
      /\ \A i \in 1 .. n : w[m + i] = u[i]
  <2>1. w \in Seq(STRING) /\ Len(w) = m + n /\ \A i \in 1 .. m + n : w[i] = IF i <= m THEN t[i] ELSE u[i - m]
    BY ONLY <1>1, <1>2, t \in Seq(STRING), u \in Seq(STRING), ConcatProperties
  <2>2. \A i \in 1 .. m : i \in 1 .. m + n /\ i <= m
    OBVIOUS
  <2>3. \A i \in 1 .. n : m + i \in 1 .. m + n /\ ~(m + i <= m) /\ m + i - m = i
    OBVIOUS
  <2> QED
    BY ONLY <2>1, <2>2, <2>3
<1>4. PICK d : d[0] = s /\ d[Len(w)] = Decode(s, w) /\ \A i \in 1 .. Len(w) : d[i] = Utf8(d[i - 1], w[i])
  <2>1. w \in Seq(STRING)
    BY <1>3
  <2> QED
    BY ONLY <2>1, DecodeRun, SMTT(60)
<1>5. PICK e : e[0] = s /\ e[m] = Decode(s, t) /\ \A i \in 1 .. m : e[i] = Utf8(e[i - 1], t[i])
  BY <1>2, DecodeRun
<1>6. PICK x : x = Decode(s, t)
  OBVIOUS
<1>7. PICK g : g[0] = x /\ g[n] = Decode(x, u) /\ \A i \in 1 .. n : g[i] = Utf8(g[i - 1], u[i])
  BY <1>2, DecodeRun
<1>8. d[m] = x
  <2>1. \A i \in 1 .. m : i \in 1 .. Len(w)
    BY <1>3
  <2>2. Decodes(d, t, m) /\ Decodes(e, t, m)
    BY <1>3, <1>4, <1>5, <2>1 DEF Decodes
  <2>3. d[m] = e[m]
    <3>1. d[0] = e[0] /\ m \in Nat
      BY <1>4, <1>5
    <3> QED
      BY ONLY <3>1, <2>2, OneDecoding
  <2> QED
    BY <1>5, <1>6, <2>3
<1>9. PICK f : f = [i \in 0 .. n |-> d[m + i]]
  OBVIOUS
<1>10. f[0] = x /\ f[n] = d[m + n]
  BY <1>8, <1>9
<1>11. ASSUME NEW i \in 1 .. n
       PROVE  f[i] = Utf8(f[i - 1], u[i])
  <2>1. m + i \in 1 .. Len(w) /\ i - 1 \in 0 .. n /\ i \in 0 .. n /\ m + i - 1 = m + (i - 1)
    BY <1>3
  <2>2. PICK k : k = m + i
    OBVIOUS
  <2>3. d[k] = Utf8(d[k - 1], w[k]) /\ w[k] = u[i]
    BY <1>3, <1>4, <2>1, <2>2
  <2>4. f[i] = d[k] /\ f[i - 1] = d[m + (i - 1)]
    BY <1>9, <2>1, <2>2
  <2> QED
    BY <2>1, <2>2, <2>3, <2>4
<1>12. f[n] = g[n]
  <2>1. f[0] = g[0] /\ n \in Nat
    BY <1>7, <1>10
  <2>2. Decodes(f, u, n) /\ Decodes(g, u, n)
    BY <1>7, <1>11 DEF Decodes
  <2> QED
    BY ONLY <2>1, <2>2, OneDecoding
<1> QED
  BY <1>1, <1>3, <1>4, <1>6, <1>7, <1>10, <1>12

(* What is rejected stays so.                                              *)
LEMMA DecodeRejected ==
  ASSUME NEW t \in Seq(STRING)
  PROVE  Decode("reject", t) = "reject"
<1>1. PICK d : d[0] = "reject" /\ d[Len(t)] = Decode("reject", t) /\ \A i \in 1 .. Len(t) : d[i] = Utf8(d[i - 1], t[i])
  BY DecodeRun
<1>2. PICK n \in Nat : n = Len(t)
  OBVIOUS
<1>3. PICK e : e = [i \in 0 .. n |-> "reject"]
  OBVIOUS
<1>4. \A x : Utf8("reject", x) = "reject"
  BY DEF Utf8
<1>5. ASSUME NEW i \in 1 .. n
      PROVE  e[i] = Utf8(e[i - 1], t[i])
  <2>1. i \in 0 .. n /\ i - 1 \in 0 .. n
    OBVIOUS
  <2>2. e[i] = "reject" /\ e[i - 1] = "reject"
    BY <1>3, <2>1
  <2> QED
    BY <1>4, <2>2
<1>6. e[0] = "reject" /\ e[n] = "reject"
  BY <1>3
<1>7. d[n] = e[n]
  <2>1. d[0] = e[0] /\ n \in Nat
    BY <1>1, <1>6
  <2>2. Decodes(d, t, n) /\ Decodes(e, t, n)
    BY <1>1, <1>2, <1>5 DEF Decodes
  <2> QED
    BY ONLY <2>1, <2>2, OneDecoding
<1> QED
  BY <1>1, <1>2, <1>6, <1>7

(* The decoder and the reference agree: of a text that is not rejected all *)
(* is well-formed, ...                                                     *)
LEMMA DecodedWellFormed ==
  ASSUME NEW t \in Seq(STRING), Decode("accept", t) # "reject"
  PROVE  WellFormed(t) /\ (IsUtf8(t) /\ t # <<>> => Last(t) # "lead")
<1>1. PICK d : d[0] = "accept" /\ d[Len(t)] = Decode("accept", t) /\ \A i \in 1 .. Len(t) : d[i] = Utf8(d[i - 1], t[i])
  BY DecodeRun
<1>2. Len(t) \in Nat /\ DOMAIN t = 1 .. Len(t)
  OBVIOUS

(* From a rejected character on, everything is.                            *)
<1> DEFINE S == {k \in Nat : k <= Len(t) => d[Len(t) - k] # "reject"}
<1>3. 0 \in S
  BY <1>1, <1>2
<1>4. ASSUME NEW k \in Nat, k \in S
      PROVE  k + 1 \in S
  <2> SUFFICES ASSUME k + 1 <= Len(t)
               PROVE  d[Len(t) - (k + 1)] # "reject"
    OBVIOUS
  <2>1. Len(t) - k \in 1 .. Len(t) /\ Len(t) - k - 1 = Len(t) - (k + 1)
    BY <1>2
  <2>2. d[Len(t) - k] = Utf8(d[Len(t) - (k + 1)], t[Len(t) - k]) /\ d[Len(t) - k] # "reject"
    BY <1>1, <1>4, <2>1
  <2> QED
    BY <2>2 DEF Utf8
<1> HIDE DEF S
<1>5. Nat \subseteq S
  BY <1>3, <1>4, SetInduction
<1>6. ASSUME NEW i \in 0 .. Len(t)
      PROVE  d[i] # "reject"
  <2>1. Len(t) - i \in S /\ Len(t) - (Len(t) - i) = i
    BY <1>2, <1>5
  <2> QED
    BY <1>2, <2>1 DEF S
<1>7. ASSUME NEW i \in 1 .. Len(t)
      PROVE  \/ t[i] = "a" /\ d[i - 1] = "accept" /\ d[i] = "accept"
             \/ t[i] = "lead" /\ d[i - 1] = "accept" /\ d[i] = "rest"
             \/ t[i] = "cont" /\ d[i - 1] = "rest" /\ d[i] = "accept"
  <2>1. d[i] = Utf8(d[i - 1], t[i]) /\ d[i] # "reject"
    BY <1>1, <1>2, <1>6
  <2> QED
    BY <2>1 DEF Utf8
<1>8. ASSUME NEW i \in 1 .. Len(t), t[i] = "lead", i # Len(t)
      PROVE  t[i + 1] = "cont"
  <2>1. d[i] = "rest"
    BY <1>7, <1>8
  <2>3. i + 1 \in 1 .. Len(t) /\ i + 1 - 1 = i
    <3>1. \A n \in Nat : \A j \in 1 .. n : j # n => j + 1 \in 1 .. n /\ j + 1 - 1 = j
      OBVIOUS
    <3> QED
      BY ONLY <1>2, <3>1, <1>8
  <2> QED
    BY <1>7, <2>1, <2>3
<1>9. ASSUME NEW i \in 1 .. Len(t), t[i] = "cont"
      PROVE  i > 1 /\ t[i - 1] = "lead"
  <2>1. d[i - 1] = "rest"
    BY <1>7, <1>9
  <2>2. i - 1 # 0
    BY <1>1, <2>1
  <2>3. i > 1 /\ i - 1 \in 1 .. Len(t)
    BY <1>2, <2>2
  <2> QED
    BY <1>7, <2>1, <2>3
<1>10. \A i \in 1 .. Len(t) : t[i] \in {"a", "lead", "cont"}
  BY <1>7, SMTT(60)
<1>11. WellFormed(t)
  BY <1>2, <1>8, <1>9, <1>10 DEF WellFormed
<1>12. IsUtf8(t) /\ t # <<>> => Last(t) # "lead"
  <2> SUFFICES ASSUME IsUtf8(t), t # <<>>
               PROVE  Last(t) # "lead"
    OBVIOUS
  <2>1. Len(t) \in 1 .. Len(t)
    BY <1>2, EmptySeq
  <2>2. d[Len(t)] = "accept"
    BY <1>1 DEF IsUtf8
  <2> QED
    BY <1>7, <2>1, <2>2 DEF Last
<1> QED
  BY <1>11, <1>12

(* ... and the other way round.                                            *)
LEMMA WellFormedDecodes ==
  ASSUME NEW t \in Seq(STRING), WellFormed(t)
  PROVE  Decode("accept", t) # "reject" /\ ((t # <<>> => Last(t) # "lead") => IsUtf8(t))
<1>1. PICK d : d[0] = "accept" /\ d[Len(t)] = Decode("accept", t) /\ \A i \in 1 .. Len(t) : d[i] = Utf8(d[i - 1], t[i])
  BY DecodeRun
<1>2. Len(t) \in Nat /\ DOMAIN t = 1 .. Len(t)
  BY SMTT(60)
<1>3. \A i \in 1 .. Len(t) :
        \/ t[i] = "a"
        \/ t[i] = "lead" /\ (i = Len(t) \/ t[i + 1] = "cont")
        \/ t[i] = "cont" /\ i > 1 /\ t[i - 1] = "lead"
  BY <1>2 DEF WellFormed
<1> DEFINE S == {i \in Nat : i <= Len(t) => d[i] = IF i > 0 /\ t[i] = "lead" THEN "rest" ELSE "accept"}
<1>4. 0 \in S
  BY <1>1
<1>5. ASSUME NEW i \in Nat, i \in S
      PROVE  i + 1 \in S
  <2> SUFFICES ASSUME i + 1 <= Len(t)
               PROVE  d[i + 1] = IF t[i + 1] = "lead" THEN "rest" ELSE "accept"
    OBVIOUS
  <2>1. d[i] = IF i > 0 /\ t[i] = "lead" THEN "rest" ELSE "accept"
    BY <1>2, <1>5, SMTT(60)
  <2>2. i + 1 \in 1 .. Len(t) /\ i + 1 - 1 = i /\ (i > 0 => i \in 1 .. Len(t) /\ i # Len(t))
    <3>1. \A n, j \in Nat : j + 1 <= n =>
            j + 1 \in 1 .. n /\ j + 1 - 1 = j /\ (j > 0 => j \in 1 .. n /\ j # n)
      OBVIOUS
    <3> QED
      BY ONLY <1>2, <3>1, i + 1 <= Len(t), i \in Nat
  <2>3. d[i + 1] = Utf8(d[i], t[i + 1])
    BY <1>1, <2>2
  <2>4. i > 0 /\ t[i] = "lead" => t[i + 1] = "cont"
    BY <1>3, <2>2
  <2>5. t[i + 1] = "cont" => i > 0 /\ t[i] = "lead"
    BY <1>3, <2>2
  <2>6. t[i + 1] \in {"a", "lead", "cont"}
    BY <1>3, <2>2
  <2> QED
    BY <2>1, <2>3, <2>4, <2>5, <2>6 DEF Utf8
<1> HIDE DEF S
<1>6. Nat \subseteq S
  BY <1>4, <1>5, SetInduction
<1>7. d[Len(t)] = IF Len(t) > 0 /\ t[Len(t)] = "lead" THEN "rest" ELSE "accept"
  BY <1>2, <1>6 DEF S
<1>8. (t # <<>> => Last(t) # "lead") => ~(Len(t) > 0 /\ t[Len(t)] = "lead")
  BY <1>2 DEF Last
<1> QED
  BY <1>1, <1>7, <1>8 DEF IsUtf8
-----------------------------------------------------------------------------
(* What consume makes of the frames one by one: Reference, except that it  *)
(* lets the last one of several end a text within a character.             *)
Passed(r, frame) ==
  LET op == IF frame.op = "CONTINUATION" THEN r.op ELSE frame.op
      text == (IF frame.op \in Control THEN <<>> ELSE r.text) \o frame.payload
  IN IF frame.op \in {"00", "JUNK"} THEN frame.op = "00" ELSE
     /\ frame.masked /\ frame.rsv = 0
     /\ frame.long => Len(frame.payload) > MaxBasic
     /\ CASE frame.op \in Control -> frame.fin /\ ~frame.long
          [] frame.op \in Data -> r.op = "none"
          [] frame.op = "CONTINUATION" -> r.op # "none"
          [] OTHER -> FALSE
     /\ frame.op \notin Control => Len(text) <= MaxMessage
     /\ op = "TEXT" => WellFormed(text)
     /\ frame.op = "TEXT" /\ frame.fin /\ text # <<>> => Last(text) # "lead"

Start == [op |-> "none", text |-> <<>>, out |-> <<>>, bad |-> FALSE]

OpOf(r, frame) ==
  CASE frame.op = "CONTINUATION" -> r.op
    [] frame.op = "00" -> "TEXT"
    [] OTHER -> frame.op

TextWith(r, frame) == (IF frame.op \in Control THEN <<>> ELSE r.text) \o frame.payload

MessageOf(r, frame) == [op |-> OpOf(r, frame), payload |-> TextWith(r, frame)]

Step(r, frame) ==
  IF r.bad \/ ~Passed(r, frame) THEN [r EXCEPT !.bad = TRUE]
  ELSE IF frame.op \in Control THEN [r EXCEPT !.out = Append(@, MessageOf(r, frame))]
  ELSE IF frame.op = "00" \/ frame.fin
    THEN [r EXCEPT !.op = "none", !.text = <<>>, !.out = Append(@, MessageOf(r, frame))]
    ELSE [r EXCEPT !.op = OpOf(r, frame), !.text = TextWith(r, frame)]

Meaning(frames) == FoldLeft(Step, Start, frames)

(* g is the fold of t, on all subsets of 1 .. n.                           *)
Reads(g, n, t) ==
  g = [x \in SUBSET (1 .. n) |-> IF x = {} THEN Start ELSE Step(g[x \ {Max(x)}], t[Max(x)])]

(* The fold behind Meaning, written out.                                   *)
LEMMA MeaningIsFold ==
  ASSUME NEW t, Len(t) \in Nat, DOMAIN t = 1 .. Len(t)
  PROVE  Meaning(t) = (CHOOSE g : Reads(g, Len(t), t))[1 .. Len(t)]
<1>1. DOMAIN t = 1 .. Len(t)
  OBVIOUS
<1>2. Meaning(t) = (CHOOSE g : g = [x \in SUBSET DOMAIN t |->
                         IF x = {} THEN Start ELSE Step(g[x \ {Max(x)}], t[Max(x)])])[DOMAIN t]
  BY Zenon DEF Meaning, FoldLeft, MapThenFoldSet
<1> QED
  BY <1>1, <1>2, Zenon DEF Reads

(* That fold exists, for every length: by induction on the length.         *)
LEMMA ReadsExists ==
  ASSUME NEW t
  PROVE  \A n \in Nat : \E g : Reads(g, n, t)
<1> DEFINE S == {n \in Nat : \E g : Reads(g, n, t)}
<1>1. 0 \in S
  <2>1. SUBSET (1 .. 0) = {{}}
    OBVIOUS
  <2>2. Reads([x \in SUBSET (1 .. 0) |-> Start], 0, t)
    BY <2>1 DEF Reads
  <2> QED
    BY <2>2
<1>2. ASSUME NEW n \in Nat, n \in S
      PROVE  n + 1 \in S
  <2>1. PICK g : Reads(g, n, t)
    BY <1>2
  <2>2. \A x \in SUBSET (1 .. n) : g[x] = IF x = {} THEN Start ELSE Step(g[x \ {Max(x)}], t[Max(x)])
    BY <2>1 DEF Reads
  <2> DEFINE h == [x \in SUBSET (1 .. n + 1) |->
                     IF n + 1 \in x THEN Step(g[x \ {n + 1}], t[n + 1]) ELSE g[x]]
  <2>3. ASSUME NEW x \in SUBSET (1 .. n + 1)
        PROVE  h[x] = IF x = {} THEN Start ELSE Step(h[x \ {Max(x)}], t[Max(x)])
    <3>1. CASE n + 1 \in x
      <4>1. Max(x) = n + 1
        <5>1. \A y \in x : y <= n + 1 /\ y \in Int
          OBVIOUS
        <5> QED
          BY <3>1, <5>1, MaxIs
      <4>2. x \ {n + 1} \in SUBSET (1 .. n + 1) /\ n + 1 \notin x \ {n + 1}
        OBVIOUS
      <4>3. h[x \ {n + 1}] = g[x \ {n + 1}]
        BY <4>2
      <4> QED
        BY <3>1, <4>1, <4>3
    <3>2. CASE n + 1 \notin x
      <4>1. x \in SUBSET (1 .. n) /\ x \ {Max(x)} \in SUBSET (1 .. n + 1) /\ n + 1 \notin x \ {Max(x)}
        <5>1. \A y \in x : y \in 1 .. n + 1 /\ y # n + 1
          BY <3>2
        <5>2. \A y \in 1 .. n + 1 : y # n + 1 => y \in 1 .. n
          OBVIOUS
        <5> QED
          BY <3>2, <5>1, <5>2
      <4>2. h[x] = g[x] /\ h[x \ {Max(x)}] = g[x \ {Max(x)}]
        BY <3>2, <4>1
      <4> QED
        BY <2>2, <4>1, <4>2
    <3> QED
      BY <3>1, <3>2
  <2>4. Reads(h, n + 1, t)
    <3>1. h = [x \in SUBSET (1 .. n + 1) |-> h[x]]
      OBVIOUS
    <3> HIDE DEF h
    <3> QED
      BY <2>3, <3>1 DEF Reads
  <2> HIDE DEF h
  <2> QED
    BY <2>4
<1> HIDE DEF S
<1>3. Nat \subseteq S
  BY <1>1, <1>2, SetInduction
<1> QED
  BY <1>3 DEF S

(* What Meaning makes of the frames, one by one.                           *)
IsRun(t, r) ==
  /\ r[0] = Start /\ r[Len(t)] = Meaning(t)
  /\ \A i \in 1 .. Len(t) : r[i] = Step(r[i - 1], t[i])

LEMMA RunExists ==
  ASSUME NEW t, Len(t) \in Nat, DOMAIN t = 1 .. Len(t)
  PROVE  \E r : IsRun(t, r)
<1>1. Len(t) \in Nat
  OBVIOUS
<1> DEFINE g == CHOOSE g : Reads(g, Len(t), t)
<1>2. Reads(g, Len(t), t)
  BY <1>1, ReadsExists
<1>3. Meaning(t) = g[1 .. Len(t)]
  BY MeaningIsFold
<1> HIDE DEF g
<1>4. \A x \in SUBSET (1 .. Len(t)) : g[x] = IF x = {} THEN Start ELSE Step(g[x \ {Max(x)}], t[Max(x)])
  BY <1>2 DEF Reads
<1>5. ASSUME NEW i \in 1 .. Len(t)
      PROVE  g[1 .. i] = Step(g[1 .. i - 1], t[i])
  <2>1. i \in 1 .. i /\ 1 .. i \subseteq Int /\ \A y \in 1 .. i : y <= i
    OBVIOUS
  <2>2. Max(1 .. i) = i
    BY <2>1, MaxIs
  <2>3. (1 .. i) \ {i} = 1 .. i - 1
    OBVIOUS
  <2>4. 1 .. i \in SUBSET (1 .. Len(t)) /\ 1 .. i # {}
    <3>1. \A y \in 1 .. i : y \in 1 .. Len(t)
      BY <1>1
    <3> QED
      BY <2>1, <3>1
  <2>5. g[1 .. i] = Step(g[(1 .. i) \ {Max(1 .. i)}], t[Max(1 .. i)])
    BY ONLY <1>4, <2>4
  <2> QED
    BY ONLY <2>2, <2>3, <2>5
<1>6. g[1 .. 0] = Start
  <2>1. 1 .. 0 \in SUBSET (1 .. Len(t)) /\ 1 .. 0 = {}
    OBVIOUS
  <2> QED
    BY ONLY <1>4, <2>1
<1> DEFINE r == [i \in 0 .. Len(t) |-> g[1 .. i]]
<1>7. r[0] = Start /\ r[Len(t)] = Meaning(t)
  BY <1>1, <1>3, <1>6
<1>8. \A i \in 1 .. Len(t) : r[i] = Step(r[i - 1], t[i])
  BY <1>1, <1>5
<1> HIDE DEF r
<1> QED
  BY <1>7, <1>8 DEF IsRun
-----------------------------------------------------------------------------
(* What it knows after some frames.                                        *)
Known(r) ==
  /\ r \in [op : Data \cup {"none"}, text : Seq(STRING), out : Seq(Message), bad : BOOLEAN]
  /\ r.op = "none" => r.text = <<>>

AnyFrame == Frame00 \cup Frame13

LEMMA FrameIs ==
  ASSUME NEW f \in AnyFrame
  PROVE  /\ f.payload \in Seq(STRING)
         /\ f.op \in {"00", "JUNK"} => f \in Frame00
         /\ f.op \notin {"00", "JUNK"} => f \in Frame13
BY DEF AnyFrame, Frame00, Frame13

LEMMA TextWithType ==
  ASSUME NEW r, Known(r), NEW f \in AnyFrame
  PROVE  TextWith(r, f) \in Seq(STRING)
<1>1. r.text \in Seq(STRING) /\ f.payload \in Seq(STRING) /\ <<>> \in Seq(STRING)
  BY FrameIs, EmptySeq DEF Known
<1>2. PICK a \in Seq(STRING) : a = IF f.op \in Control THEN <<>> ELSE r.text
  BY <1>1
<1>3. a \o f.payload \in Seq(STRING)
  BY <1>1, <1>2, ConcatProperties
<1> QED
  BY <1>2, <1>3 DEF TextWith

(* The four things it may do.                                              *)
LEMMA StepBad ==
  ASSUME NEW r, Known(r), NEW f, r.bad \/ ~Passed(r, f)
  PROVE  Step(r, f).bad = TRUE /\ Step(r, f).out = r.out /\ Known(Step(r, f))
<1>1. Step(r, f) = [r EXCEPT !.bad = TRUE]
  BY DEF Step
<1>2. PICK q : q = Step(r, f)
  OBVIOUS
<1>3. r.op \in Data \cup {"none"} /\ r.text \in Seq(STRING) /\ r.out \in Seq(Message)
      /\ (r.op = "none" => r.text = <<>>)
  BY DEF Known
<1>4. q = [op |-> r.op, text |-> r.text, out |-> r.out, bad |-> TRUE]
  BY <1>1, <1>2 DEF Known
<1>5. Known(q) /\ q.bad = TRUE /\ q.out = r.out
  BY <1>3, <1>4 DEF Known
<1> QED
  BY <1>2, <1>5

LEMMA StepControl ==
  ASSUME NEW r, Known(r), NEW f \in AnyFrame, ~r.bad, Passed(r, f), f.op \in Control
  PROVE  /\ Step(r, f).out = Append(r.out, [op |-> f.op, payload |-> f.payload]) /\ Step(r, f).bad = FALSE
         /\ Step(r, f).op = r.op /\ Step(r, f).text = r.text /\ Known(Step(r, f))
<1>1. OpOf(r, f) = f.op
  BY DEF OpOf, Control
<1>2. TextWith(r, f) = f.payload
  <2>1. <<>> \o f.payload = f.payload
    BY FrameIs, ConcatEmptySeq
  <2> QED
    BY <2>1 DEF TextWith
<1>3. MessageOf(r, f) = [op |-> f.op, payload |-> f.payload]
  BY <1>1, <1>2 DEF MessageOf
<1>4. PICK m : m = MessageOf(r, f)
  OBVIOUS
<1>5. m \in Message
  BY <1>3, <1>4, FrameIs DEF Message
<1>6. Append(r.out, m) \in Seq(Message)
  BY <1>5, AppendProperties DEF Known
<1>7. Step(r, f) = [r EXCEPT !.out = Append(@, MessageOf(r, f))]
  BY Zenon DEF Step
<1>8. PICK q, o : q = Step(r, f) /\ o = Append(r.out, m)
  OBVIOUS
<1>9. r.op \in Data \cup {"none"} /\ r.text \in Seq(STRING) /\ (r.op = "none" => r.text = <<>>) /\ r.bad = FALSE
  BY DEF Known
<1>10. q = [op |-> r.op, text |-> r.text, out |-> o, bad |-> FALSE]
  BY <1>4, <1>7, <1>8, <1>9 DEF Known
<1>11. o \in Seq(Message)
  BY <1>6, <1>8
<1>12. Known(q) /\ q.bad = FALSE /\ q.op = r.op /\ q.text = r.text /\ q.out = o
  BY <1>9, <1>10, <1>11 DEF Known
<1> QED
  BY <1>3, <1>4, <1>8, <1>12

(* What is acceptable, by kinds of frames.                                 *)
LEMMA AcceptedOp ==
  ASSUME NEW r, Known(r), NEW f \in AnyFrame, Passed(r, f), f.op \notin Control
  PROVE  OpOf(r, f) \in Data
<1>1. CASE f.op \in {"00", "JUNK"}
  <2>1. f.op = "00"
    BY <1>1 DEF Passed
  <2> QED
    BY <2>1 DEF OpOf, Data
<1>2. CASE f.op \notin {"00", "JUNK"}
  <2>1. CASE f.op \in Data
    BY <1>2, <2>1 DEF OpOf, Data
  <2>2. CASE f.op = "CONTINUATION"
    <3>1. r.op # "none"
      BY <1>2, <2>2 DEF Passed, Control, Data
    <3>2. OpOf(r, f) = r.op
      BY <2>2 DEF OpOf
    <3> QED
      BY <3>1, <3>2 DEF Known
  <2>3. CASE f.op \notin Data /\ f.op # "CONTINUATION"
    BY <1>2, <2>3 DEF Passed
  <2> QED
    BY <2>1, <2>2, <2>3
<1> QED
  BY <1>1, <1>2

LEMMA StepWhole ==
  ASSUME NEW r, Known(r), NEW f \in AnyFrame, ~r.bad, Passed(r, f), f.op \notin Control, f.op = "00" \/ f.fin
  PROVE  /\ Step(r, f).out = Append(r.out, [op |-> OpOf(r, f), payload |-> TextWith(r, f)])
         /\ Step(r, f).bad = FALSE /\ Step(r, f).op = "none" /\ Step(r, f).text = <<>> /\ Known(Step(r, f))
<1>1. OpOf(r, f) \in Data /\ TextWith(r, f) \in Seq(STRING)
  BY AcceptedOp, TextWithType
<1>2. PICK m : m = MessageOf(r, f)
  OBVIOUS
<1>3. m = [op |-> OpOf(r, f), payload |-> TextWith(r, f)]
  BY <1>2 DEF MessageOf
<1>4. m \in Message
  BY <1>1, <1>3 DEF Message
<1>5. PICK q, o : q = Step(r, f) /\ o = Append(r.out, m)
  OBVIOUS
<1>6. o \in Seq(Message)
  BY <1>4, <1>5, AppendProperties DEF Known
<1>7. Step(r, f) = [r EXCEPT !.op = "none", !.text = <<>>, !.out = Append(@, MessageOf(r, f))]
  BY Zenon DEF Step
<1>8. r.bad = FALSE
  BY DEF Known
<1>9. q = [op |-> "none", text |-> <<>>, out |-> o, bad |-> FALSE]
  BY <1>2, <1>5, <1>7, <1>8 DEF Known
<1>10. <<>> \in Seq(STRING)
  BY EmptySeq
<1>11. Known(q) /\ q.bad = FALSE /\ q.op = "none" /\ q.text = <<>> /\ q.out = o
  BY <1>6, <1>9, <1>10 DEF Known
<1> QED
  BY <1>3, <1>5, <1>11

LEMMA StepPart ==
  ASSUME NEW r, Known(r), NEW f \in AnyFrame, ~r.bad, Passed(r, f), f.op \notin Control, f.op # "00", ~f.fin
  PROVE  /\ Step(r, f).out = r.out /\ Step(r, f).bad = FALSE
         /\ Step(r, f).op = OpOf(r, f) /\ Step(r, f).text = TextWith(r, f) /\ Known(Step(r, f))
<1>1. OpOf(r, f) \in Data /\ TextWith(r, f) \in Seq(STRING) /\ "none" \notin Data
  BY AcceptedOp, TextWithType DEF Data
<1>2. PICK q, t, o : q = Step(r, f) /\ t = TextWith(r, f) /\ o = OpOf(r, f)
  OBVIOUS
<1>3. Step(r, f) = [r EXCEPT !.op = OpOf(r, f), !.text = TextWith(r, f)]
  BY Zenon DEF Step
<1>4. r.bad = FALSE /\ r.out \in Seq(Message)
  BY DEF Known
<1>5. q = [op |-> o, text |-> t, out |-> r.out, bad |-> FALSE]
  BY <1>2, <1>3, <1>4 DEF Known
<1>6. o \in Data /\ t \in Seq(STRING) /\ o # "none"
  BY <1>1, <1>2
<1>7. Known(q) /\ q.bad = FALSE /\ q.op = o /\ q.text = t /\ q.out = r.out
  BY <1>4, <1>5, <1>6 DEF Known
<1> QED
  BY <1>2, <1>7

(* What is known stays known, and messages are only added.                 *)
LEMMA StepKnown ==
  ASSUME NEW r, Known(r), NEW f \in AnyFrame
  PROVE  /\ Known(Step(r, f))
         /\ Step(r, f).out = r.out \/ \E m \in Message : Step(r, f).out = Append(r.out, m)
         /\ r.bad => Step(r, f).bad /\ Step(r, f).out = r.out
<1>1. CASE r.bad \/ ~Passed(r, f)
  BY <1>1, StepBad
<1>2. CASE ~r.bad /\ Passed(r, f) /\ f.op \in Control
  <2>1. [op |-> f.op, payload |-> f.payload] \in Message
    BY <1>2, FrameIs DEF Message
  <2> QED
    BY <1>2, <2>1, StepControl
<1>3. CASE ~r.bad /\ Passed(r, f) /\ f.op \notin Control /\ (f.op = "00" \/ f.fin)
  <2>1. [op |-> OpOf(r, f), payload |-> TextWith(r, f)] \in Message
    BY <1>3, AcceptedOp, TextWithType DEF Message
  <2> QED
    BY <1>3, <2>1, StepWhole
<1>4. CASE ~r.bad /\ Passed(r, f) /\ f.op \notin Control /\ ~(f.op = "00" \/ f.fin)
  BY <1>4, StepPart
<1> QED
  BY <1>1, <1>2, <1>3, <1>4

LEMMA PrefixOfAppend ==
  ASSUME NEW T, NEW x \in Seq(T), NEW y \in Seq(T), IsPrefix(x, y), NEW m \in T
  PROVE  IsPrefix(x, Append(y, m))
<1>1. PICK k \in Nat, n \in Nat : k = Len(x) /\ n = Len(y)
  OBVIOUS
<1>2. k <= n /\ SubSeq(x, 1, k) = SubSeq(y, 1, k)
  BY <1>1 DEF IsPrefix
<1>3. PICK z : z = Append(y, m)
  OBVIOUS
<1>4. z \in Seq(T) /\ Len(z) = n + 1 /\ \A i \in 1 .. n : z[i] = y[i]
  BY <1>1, <1>3, AppendProperties
<1>5. SubSeq(z, 1, k) = SubSeq(y, 1, k)
  <2>1. \A i \in 1 .. k : z[i] = y[i] /\ y[i] \in T
    BY <1>1, <1>2, <1>4
  <2>2. /\ SubSeq(z, 1, k) \in Seq(T) /\ SubSeq(y, 1, k) \in Seq(T)
        /\ Len(SubSeq(z, 1, k)) = (IF 1 <= k THEN k - 1 + 1 ELSE 0) /\ Len(SubSeq(y, 1, k)) = (IF 1 <= k THEN k - 1 + 1 ELSE 0)
        /\ \A i \in 1 .. k - 1 + 1 : SubSeq(z, 1, k)[i] = z[1 + i - 1] /\ SubSeq(y, 1, k)[i] = y[1 + i - 1]
    BY <2>1, SubSeqProperties
  <2>3. PICK u, v : u = SubSeq(z, 1, k) /\ v = SubSeq(y, 1, k)
    OBVIOUS
  <2>4. \A i \in 1 .. k : i \in 1 .. k - 1 + 1 /\ 1 + i - 1 = i
    OBVIOUS
  <2>5. u \in Seq(T) /\ v \in Seq(T) /\ Len(u) = k /\ Len(v) = k
    BY <2>2, <2>3
  <2>6. \A i \in 1 .. k : u[i] = v[i]
    BY <2>1, <2>2, <2>3, <2>4
  <2> QED
    BY ONLY <2>3, <2>5, <2>6, SeqEqual
<1> QED
  BY <1>1, <1>2, <1>3, <1>4, <1>5 DEF IsPrefix

(* So it is after any frame, ...                                           *)
LEMMA RunKnown ==
  ASSUME NEW t \in Seq(AnyFrame), NEW r, IsRun(t, r), NEW k \in 0 .. Len(t)
  PROVE  Known(r[k])
<1>1. PICK n \in Nat : n = Len(t)
  OBVIOUS
<1>2. r[0] = Start /\ \A i \in 1 .. n : r[i] = Step(r[i - 1], t[i]) /\ t[i] \in AnyFrame
  BY <1>1 DEF IsRun
<1> DEFINE S == {i \in Nat : i <= n => Known(r[i])}
<1>3. 0 \in S
  <2>1. <<>> \in Seq(STRING) /\ <<>> \in Seq(Message)
    BY EmptySeq
  <2>2. Known(Start)
    <3>1. PICK s, o : s = Start /\ o \in Seq(Message) /\ o = <<>>
      BY <2>1
    <3>2. PICK x \in Seq(STRING) : x = <<>>
      BY <2>1
    <3>3. s = [op |-> "none", text |-> x, out |-> o, bad |-> FALSE]
      BY <3>1, <3>2 DEF Start
    <3>4. s \in [op : Data \cup {"none"}, text : Seq(STRING), out : Seq(Message), bad : BOOLEAN] /\ s.text = x
      BY ONLY <3>1, <3>3, x \in Seq(STRING)
    <3> QED
      BY <3>1, <3>2, <3>4 DEF Known
  <2> QED
    BY <1>2, <2>2
<1>4. ASSUME NEW i \in Nat, i \in S
      PROVE  i + 1 \in S
  <2> SUFFICES ASSUME i + 1 <= n PROVE Known(r[i + 1])
    OBVIOUS
  <2>1. PICK j : j = i + 1
    OBVIOUS
  <2>2. j \in 1 .. n /\ j - 1 = i /\ Known(r[i])
    BY <1>4, <2>1
  <2>3. r[j] = Step(r[i], t[j]) /\ t[j] \in AnyFrame
    BY <1>2, <2>2
  <2> QED
    BY <2>1, <2>2, <2>3, StepKnown
<1> HIDE DEF S
<1>5. Nat \subseteq S
  BY <1>3, <1>4, SetInduction
<1> QED
  BY <1>1, <1>5 DEF S

(* ... and what comes after k frames is added to what there is.            *)
LEMMA RunGrows ==
  ASSUME NEW t \in Seq(AnyFrame), NEW r, IsRun(t, r), NEW k \in 0 .. Len(t)
  PROVE  /\ IsPrefix(r[k].out, Meaning(t).out)
         /\ r[k].bad => Meaning(t).bad /\ Meaning(t).out = r[k].out
<1>1. PICK n \in Nat : n = Len(t)
  OBVIOUS
<1>2. Meaning(t) = r[n] /\ \A i \in 1 .. n : r[i] = Step(r[i - 1], t[i]) /\ t[i] \in AnyFrame
  BY <1>1 DEF IsRun
<1>3. \A i \in 0 .. n : Known(r[i]) /\ r[i].out \in Seq(Message)
  BY <1>1, RunKnown DEF Known
<1>0. k \in Nat /\ k <= n
  BY <1>1
<1> DEFINE S == {i \in Nat : k + i <= n =>
                  IsPrefix(r[k].out, r[k + i].out) /\ (r[k].bad => r[k + i].bad /\ r[k + i].out = r[k].out)}
<1>4. 0 \in S
  <2>1. k + 0 = k
    BY <1>0
  <2>2. IsPrefix(r[k].out, r[k].out)
    <3>1. PICK x : x = r[k].out
      OBVIOUS
    <3>2. x \in Seq(Message)
      BY <1>0, <1>3, <3>1
    <3>3. IsPrefix(x, x)
      BY <3>2 DEF IsPrefix
    <3> QED
      BY <3>1, <3>3
  <2> QED
    BY <2>1, <2>2
<1>5. ASSUME NEW i \in Nat, i \in S
      PROVE  i + 1 \in S
  <2> SUFFICES ASSUME k + (i + 1) <= n
               PROVE  /\ IsPrefix(r[k].out, r[k + (i + 1)].out)
                      /\ r[k].bad => r[k + (i + 1)].bad /\ r[k + (i + 1)].out = r[k].out
    OBVIOUS
  <2>1. PICK j, h : j = k + (i + 1) /\ h = k + i
    OBVIOUS
  <2>2. j \in 1 .. n /\ j - 1 = h /\ h \in 0 .. n /\ h <= n
    BY <1>0, <2>1
  <2>3. IsPrefix(r[k].out, r[h].out) /\ (r[k].bad => r[h].bad /\ r[h].out = r[k].out)
    BY <1>5, <2>1, <2>2
  <2>4. r[j] = Step(r[h], t[j]) /\ t[j] \in AnyFrame /\ Known(r[h])
    BY <1>2, <1>3, <2>2
  <2>5. /\ r[j].out = r[h].out \/ \E m \in Message : r[j].out = Append(r[h].out, m)
        /\ r[h].bad => r[j].bad /\ r[j].out = r[h].out
    <3>1. PICK x, f, q : x = r[h] /\ f = t[j] /\ q = r[j]
      OBVIOUS
    <3>2. q = Step(x, f) /\ f \in AnyFrame /\ Known(x)
      BY <2>4, <3>1
    <3>3. /\ Step(x, f).out = x.out \/ \E m \in Message : Step(x, f).out = Append(x.out, m)
          /\ x.bad => Step(x, f).bad /\ Step(x, f).out = x.out
      BY ONLY <3>2, StepKnown
    <3> QED
      BY ONLY <3>1, <3>2, <3>3
  <2>6. PICK x, y, z : x = r[k].out /\ y = r[h].out /\ z = r[j].out
    OBVIOUS
  <2>7. x \in Seq(Message) /\ y \in Seq(Message) /\ IsPrefix(x, y)
    BY <1>0, <1>3, <2>2, <2>3, <2>6
  <2>8. z = y \/ \E m \in Message : z = Append(y, m)
    BY <2>5, <2>6
  <2>9. IsPrefix(x, z)
    BY ONLY <2>7, <2>8, PrefixOfAppend
  <2> QED
    BY <2>1, <2>3, <2>5, <2>6, <2>9
<1> HIDE DEF S
<1>6. Nat \subseteq S
  BY <1>4, <1>5, SetInduction
<1>7. n - k \in Nat /\ k + (n - k) = n
  BY <1>0
<1>8. IsPrefix(r[k].out, r[n].out) /\ (r[k].bad => r[n].bad /\ r[n].out = r[k].out)
  BY <1>6, <1>7 DEF S
<1> QED
  BY <1>2, <1>8

(* A frame that breaks the protocol is the end of it.                      *)
LEMMA Spoils ==
  ASSUME NEW t \in Seq(AnyFrame), NEW r, IsRun(t, r), NEW k \in Nat, k < Len(t), ~Passed(r[k], t[k + 1])
  PROVE  Meaning(t).bad /\ Meaning(t).out = r[k].out
<1>1. PICK j : j = k + 1
  OBVIOUS
<1>2. j \in 1 .. Len(t) /\ j - 1 = k /\ k \in 0 .. Len(t) /\ j \in 0 .. Len(t)
  BY <1>1
<1>3. r[j] = Step(r[k], t[j]) /\ Known(r[k])
  BY <1>2, RunKnown DEF IsRun
<1>4. r[j].bad /\ r[j].out = r[k].out
  <2>1. PICK x, f : x = r[k] /\ f = t[j]
    OBVIOUS
  <2>2. Known(x) /\ ~Passed(x, f) /\ r[j] = Step(x, f)
    BY <1>1, <1>3, <2>1
  <2>3. Step(x, f).bad /\ Step(x, f).out = x.out
    BY ONLY <2>2, StepBad
  <2> QED
    BY <2>1, <2>2, <2>3
<1> QED
  BY <1>2, <1>4, RunGrows
-----------------------------------------------------------------------------
(* What Reference, which is strict, makes of a frame.                      *)
Unheard == [op |-> "none", text |-> <<>>, out |-> <<>>, bad |-> FALSE, cut |-> FALSE]

EndsCut(r, frame) ==
  frame.op # "00" /\ OpOf(r, frame) = "TEXT" /\ frame.fin /\ EndsWithin(TextWith(r, frame))

Judge(r, frame) ==
  IF r.bad \/ ~Acceptable(r, frame) THEN [r EXCEPT !.bad = TRUE]
  ELSE IF frame.op \in Control THEN [r EXCEPT !.out = Append(@, MessageOf(r, frame))]
  ELSE IF EndsCut(r, frame) THEN [r EXCEPT !.bad = TRUE, !.cut = (frame.op = "CONTINUATION")]
  ELSE IF frame.op = "00" \/ frame.fin
    THEN [r EXCEPT !.op = "none", !.text = <<>>, !.out = Append(@, MessageOf(r, frame))]
    ELSE [r EXCEPT !.op = OpOf(r, frame), !.text = TextWith(r, frame)]

Judged(frames) == FoldLeft(Judge, Unheard, frames)

LEMMA ReferenceIs == Reference = Judged(stream.frames)
BY Zenon DEF Reference, Judged, Judge, EndsCut, Unheard, MessageOf, TextWith, OpOf

(* g is the fold of t, on all subsets of 1 .. n.                           *)
Judges(g, n, t) ==
  g = [x \in SUBSET (1 .. n) |-> IF x = {} THEN Unheard ELSE Judge(g[x \ {Max(x)}], t[Max(x)])]

(* The fold behind Judged, written out.                                   *)
LEMMA JudgedIsFold ==
  ASSUME NEW t, Len(t) \in Nat, DOMAIN t = 1 .. Len(t)
  PROVE  Judged(t) = (CHOOSE g : Judges(g, Len(t), t))[1 .. Len(t)]
<1>1. DOMAIN t = 1 .. Len(t)
  OBVIOUS
<1>2. Judged(t) = (CHOOSE g : g = [x \in SUBSET DOMAIN t |->
                         IF x = {} THEN Unheard ELSE Judge(g[x \ {Max(x)}], t[Max(x)])])[DOMAIN t]
  BY Zenon DEF Judged, FoldLeft, MapThenFoldSet
<1> QED
  BY <1>1, <1>2, Zenon DEF Judges

(* That fold exists, for every length: by induction on the length.         *)
LEMMA JudgesExists ==
  ASSUME NEW t
  PROVE  \A n \in Nat : \E g : Judges(g, n, t)
<1> DEFINE S == {n \in Nat : \E g : Judges(g, n, t)}
<1>1. 0 \in S
  <2>1. SUBSET (1 .. 0) = {{}}
    OBVIOUS
  <2>2. Judges([x \in SUBSET (1 .. 0) |-> Unheard], 0, t)
    BY <2>1 DEF Judges
  <2> QED
    BY <2>2
<1>2. ASSUME NEW n \in Nat, n \in S
      PROVE  n + 1 \in S
  <2>1. PICK g : Judges(g, n, t)
    BY <1>2
  <2>2. \A x \in SUBSET (1 .. n) : g[x] = IF x = {} THEN Unheard ELSE Judge(g[x \ {Max(x)}], t[Max(x)])
    BY <2>1 DEF Judges
  <2> DEFINE h == [x \in SUBSET (1 .. n + 1) |->
                     IF n + 1 \in x THEN Judge(g[x \ {n + 1}], t[n + 1]) ELSE g[x]]
  <2>3. ASSUME NEW x \in SUBSET (1 .. n + 1)
        PROVE  h[x] = IF x = {} THEN Unheard ELSE Judge(h[x \ {Max(x)}], t[Max(x)])
    <3>1. CASE n + 1 \in x
      <4>1. Max(x) = n + 1
        <5>1. \A y \in x : y <= n + 1 /\ y \in Int
          OBVIOUS
        <5> QED
          BY <3>1, <5>1, MaxIs
      <4>2. x \ {n + 1} \in SUBSET (1 .. n + 1) /\ n + 1 \notin x \ {n + 1}
        OBVIOUS
      <4>3. h[x \ {n + 1}] = g[x \ {n + 1}]
        BY <4>2
      <4> QED
        BY <3>1, <4>1, <4>3
    <3>2. CASE n + 1 \notin x
      <4>1. x \in SUBSET (1 .. n) /\ x \ {Max(x)} \in SUBSET (1 .. n + 1) /\ n + 1 \notin x \ {Max(x)}
        <5>1. \A y \in x : y \in 1 .. n + 1 /\ y # n + 1
          BY <3>2
        <5>2. \A y \in 1 .. n + 1 : y # n + 1 => y \in 1 .. n
          OBVIOUS
        <5> QED
          BY <3>2, <5>1, <5>2
      <4>2. h[x] = g[x] /\ h[x \ {Max(x)}] = g[x \ {Max(x)}]
        BY <3>2, <4>1
      <4> QED
        BY <2>2, <4>1, <4>2
    <3> QED
      BY <3>1, <3>2
  <2>4. Judges(h, n + 1, t)
    <3>1. h = [x \in SUBSET (1 .. n + 1) |-> h[x]]
      OBVIOUS
    <3> HIDE DEF h
    <3> QED
      BY <2>3, <3>1 DEF Judges
  <2> HIDE DEF h
  <2> QED
    BY <2>4
<1> HIDE DEF S
<1>3. Nat \subseteq S
  BY <1>1, <1>2, SetInduction
<1> QED
  BY <1>3 DEF S

(* What Judged makes of the frames, one by one.                            *)
IsTrial(t, r) ==
  /\ r[0] = Unheard /\ r[Len(t)] = Judged(t)
  /\ \A i \in 1 .. Len(t) : r[i] = Judge(r[i - 1], t[i])

LEMMA TrialExists ==
  ASSUME NEW t, Len(t) \in Nat, DOMAIN t = 1 .. Len(t)
  PROVE  \E r : IsTrial(t, r)
<1>1. Len(t) \in Nat
  OBVIOUS
<1> DEFINE g == CHOOSE g : Judges(g, Len(t), t)
<1>2. Judges(g, Len(t), t)
  BY <1>1, JudgesExists
<1>3. Judged(t) = g[1 .. Len(t)]
  BY JudgedIsFold
<1> HIDE DEF g
<1>4. \A x \in SUBSET (1 .. Len(t)) : g[x] = IF x = {} THEN Unheard ELSE Judge(g[x \ {Max(x)}], t[Max(x)])
  BY <1>2 DEF Judges
<1>5. ASSUME NEW i \in 1 .. Len(t)
      PROVE  g[1 .. i] = Judge(g[1 .. i - 1], t[i])
  <2>1. i \in 1 .. i /\ 1 .. i \subseteq Int /\ \A y \in 1 .. i : y <= i
    OBVIOUS
  <2>2. Max(1 .. i) = i
    BY <2>1, MaxIs
  <2>3. (1 .. i) \ {i} = 1 .. i - 1
    OBVIOUS
  <2>4. 1 .. i \in SUBSET (1 .. Len(t)) /\ 1 .. i # {}
    <3>1. \A y \in 1 .. i : y \in 1 .. Len(t)
      BY <1>1
    <3> QED
      BY <2>1, <3>1
  <2>5. g[1 .. i] = Judge(g[(1 .. i) \ {Max(1 .. i)}], t[Max(1 .. i)])
    BY ONLY <1>4, <2>4
  <2> QED
    BY ONLY <2>2, <2>3, <2>5
<1>6. g[1 .. 0] = Unheard
  <2>1. 1 .. 0 \in SUBSET (1 .. Len(t)) /\ 1 .. 0 = {}
    OBVIOUS
  <2> QED
    BY ONLY <1>4, <2>1
<1> DEFINE r == [i \in 0 .. Len(t) |-> g[1 .. i]]
<1>7. r[0] = Unheard /\ r[Len(t)] = Judged(t)
  BY <1>1, <1>3, <1>6
<1>8. \A i \in 1 .. Len(t) : r[i] = Judge(r[i - 1], t[i])
  BY <1>1, <1>5
<1> HIDE DEF r
<1> QED
  BY <1>7, <1>8 DEF IsTrial

(* It agrees with consume up to a cut, and stops there.                    *)
Uncut(r) == [op |-> r.op, text |-> r.text, out |-> r.out, bad |-> r.bad, cut |-> FALSE]

Verdict == [op : Data \cup {"none"}, text : Seq(STRING), out : Seq(Message), bad : BOOLEAN, cut : BOOLEAN]

Agrees(q, r) ==
  \/ q = Uncut(r)
  \/ q \in Verdict /\ q.cut = TRUE /\ q.bad = TRUE /\ IsPrefix(q.out, r.out)

LEMMA StepGrows ==
  ASSUME NEW r, Known(r), NEW f \in AnyFrame
  PROVE  IsPrefix(r.out, Step(r, f).out)
<1>1. PICK x, z : x = r.out /\ z = Step(r, f).out
  OBVIOUS
<1>2. x \in Seq(Message)
  BY <1>1 DEF Known
<1>3. IsPrefix(x, x)
  BY <1>2 DEF IsPrefix
<1>4. z = x \/ \E m \in Message : z = Append(x, m)
  BY <1>1, StepKnown
<1>5. IsPrefix(x, z)
  BY ONLY <1>2, <1>3, <1>4, PrefixOfAppend
<1> QED
  BY <1>1, <1>5

LEMMA PassedStrictly ==
  ASSUME NEW r, NEW f \in AnyFrame
  PROVE  Passed(r, f) <=> Acceptable(r, f) /\ (f.op = "TEXT" /\ f.fin => ~EndsWithin(TextWith(r, f)))
<1>1. CASE f.op \in {"00", "JUNK"}
  <2>1. f.op # "TEXT"
    BY <1>1
  <2> QED
    BY ONLY <1>1, <2>1 DEF Passed, Acceptable
<1>2. CASE f.op \notin {"00", "JUNK"}
  <2>1. PICK text : text = TextWith(r, f)
    OBVIOUS
  <2>2. PICK op : op = IF f.op = "CONTINUATION" THEN r.op ELSE f.op
    OBVIOUS
  <2>3. PICK kind \in BOOLEAN : kind <=> CASE f.op \in Control -> f.fin /\ ~f.long
                                           [] f.op \in Data -> r.op = "none"
                                           [] f.op = "CONTINUATION" -> r.op # "none"
                                           [] OTHER -> FALSE
    <3>1. \E kind \in BOOLEAN : kind <=> CASE f.op \in Control -> f.fin /\ ~f.long
                                           [] f.op \in Data -> r.op = "none"
                                           [] f.op = "CONTINUATION" -> r.op # "none"
                                           [] OTHER -> FALSE
      OBVIOUS
    <3> QED
      BY ONLY <3>1
  <2>4. Acceptable(r, f) <=>
          /\ f.masked /\ f.rsv = 0
          /\ f.long => Len(f.payload) > MaxBasic
          /\ kind
          /\ f.op \notin Control => Len(text) <= MaxMessage
          /\ op = "TEXT" => WellFormed(text)
    BY ONLY <1>2, <2>1, <2>2, <2>3 DEF Acceptable, TextWith
  <2>5. Passed(r, f) <=>
          /\ f.masked /\ f.rsv = 0
          /\ f.long => Len(f.payload) > MaxBasic
          /\ kind
          /\ f.op \notin Control => Len(text) <= MaxMessage
          /\ op = "TEXT" => WellFormed(text)
          /\ f.op = "TEXT" /\ f.fin /\ text # <<>> => Last(text) # "lead"
    BY ONLY <1>2, <2>1, <2>2, <2>3 DEF Passed, TextWith
  <2>6. EndsWithin(TextWith(r, f)) <=> text # <<>> /\ Last(text) = "lead"
    BY ONLY <2>1 DEF EndsWithin
  <2> QED
    BY ONLY <2>4, <2>5, <2>6
<1> QED
  BY <1>1, <1>2

(* The same frame, judged by both.                                         *)
LEMMA JudgedAlike ==
  ASSUME NEW r, Known(r), NEW f \in AnyFrame, NEW q, q = Uncut(r)
  PROVE  Agrees(Judge(q, f), Step(r, f))
<1>1. /\ q.op = r.op /\ q.text = r.text /\ q.out = r.out /\ q.bad = r.bad /\ q.cut = FALSE
      /\ q \in Verdict
  BY DEF Uncut, Known, Verdict
<1>2. /\ OpOf(q, f) = OpOf(r, f) /\ TextWith(q, f) = TextWith(r, f) /\ MessageOf(q, f) = MessageOf(r, f)
      /\ EndsCut(q, f) = EndsCut(r, f)
  BY ONLY <1>1, Zenon DEF OpOf, TextWith, MessageOf, EndsCut
<1>3. Acceptable(q, f) = Acceptable(r, f)
  BY ONLY <1>1, Zenon DEF Acceptable
<1>4. Passed(r, f) <=> Acceptable(r, f) /\ (f.op = "TEXT" /\ f.fin => ~EndsWithin(TextWith(r, f)))
  BY PassedStrictly
<1>5. r = [op |-> r.op, text |-> r.text, out |-> r.out, bad |-> r.bad]
  BY DEF Known
<1>6. CASE r.bad \/ ~Acceptable(r, f)
  <2>1. Step(r, f) = [r EXCEPT !.bad = TRUE] /\ Judge(q, f) = [q EXCEPT !.bad = TRUE]
    BY <1>1, <1>3, <1>4, <1>6 DEF Step, Judge
  <2>2. Judge(q, f) = Uncut(Step(r, f))
    BY ONLY <1>5, <2>1, q = Uncut(r) DEF Uncut
  <2> QED
    BY <2>2 DEF Agrees
<1>7. CASE ~r.bad /\ Acceptable(r, f) /\ f.op \in Control
  <2>1. f.op # "TEXT"
    BY <1>7 DEF Control
  <2>2. PICK o : o = Append(r.out, MessageOf(r, f))
    OBVIOUS
  <2>3. Step(r, f) = [r EXCEPT !.out = o]
    BY ONLY <1>4, <1>7, <2>1, <2>2, Zenon DEF Step
  <2>4. Judge(q, f) = [q EXCEPT !.out = o]
    BY ONLY <1>1, <1>2, <1>3, <1>7, <2>2, Zenon DEF Judge
  <2>5. Judge(q, f) = Uncut(Step(r, f))
    BY ONLY <1>5, <2>3, <2>4, q = Uncut(r) DEF Uncut
  <2> QED
    BY <2>5 DEF Agrees
<1>8. CASE ~r.bad /\ Acceptable(r, f) /\ f.op \notin Control /\ EndsCut(r, f)
  <2>1. f.op # "00" /\ OpOf(r, f) = "TEXT" /\ f.fin /\ EndsWithin(TextWith(r, f))
    BY <1>8 DEF EndsCut
  <2>2. f.op = "TEXT" \/ f.op = "CONTINUATION"
    BY <2>1 DEF OpOf
  <2>3. Judge(q, f) = [q EXCEPT !.bad = TRUE, !.cut = (f.op = "CONTINUATION")]
    BY ONLY <1>1, <1>2, <1>3, <1>8, Zenon DEF Judge
  <2>4. CASE f.op = "TEXT"
    <3>1. Step(r, f) = [r EXCEPT !.bad = TRUE]
      BY ONLY <1>4, <2>1, <2>4, Zenon DEF Step
    <3>2. (f.op = "CONTINUATION") = FALSE
      BY ONLY <2>4
    <3>3. Judge(q, f) = Uncut(Step(r, f))
      BY ONLY <1>5, <2>3, <3>1, <3>2, q = Uncut(r) DEF Uncut
    <3> QED
      BY <3>3 DEF Agrees
  <2>5. CASE f.op = "CONTINUATION"
    <3>1. (f.op = "CONTINUATION") = TRUE
      BY ONLY <2>5
    <3>2. PICK v : v = Judge(q, f)
      OBVIOUS
    <3>3. v \in Verdict /\ v.cut = TRUE /\ v.bad = TRUE /\ v.out = r.out
      BY ONLY <1>1, <2>3, <3>1, <3>2 DEF Verdict
    <3>4. IsPrefix(r.out, Step(r, f).out)
      BY StepGrows
    <3> QED
      BY ONLY <3>2, <3>3, <3>4 DEF Agrees
  <2> QED
    BY <2>2, <2>4, <2>5
<1>9. CASE ~r.bad /\ Acceptable(r, f) /\ f.op \notin Control /\ ~EndsCut(r, f)
  <2>1. Passed(r, f)
    <3> SUFFICES ASSUME f.op = "TEXT", f.fin, EndsWithin(TextWith(r, f)) PROVE FALSE
      BY <1>4, <1>9
    <3>1. OpOf(r, f) = "TEXT" /\ f.op # "00"
      BY DEF OpOf
    <3> QED
      BY <1>9, <3>1 DEF EndsCut
  <2>2. PICK o, op, text : o = Append(r.out, MessageOf(r, f)) /\ op = OpOf(r, f) /\ text = TextWith(r, f)
    OBVIOUS
  <2>3. CASE f.op = "00" \/ f.fin
    <3>1. Step(r, f) = [r EXCEPT !.op = "none", !.text = <<>>, !.out = o]
      BY ONLY <1>9, <2>1, <2>2, <2>3, Zenon DEF Step
    <3>2. Judge(q, f) = [q EXCEPT !.op = "none", !.text = <<>>, !.out = o]
      BY ONLY <1>1, <1>2, <1>3, <1>9, <2>2, <2>3, Zenon DEF Judge
    <3>3. Judge(q, f) = Uncut(Step(r, f))
      BY ONLY <1>5, <3>1, <3>2, q = Uncut(r) DEF Uncut
    <3> QED
      BY <3>3 DEF Agrees
  <2>4. CASE ~(f.op = "00" \/ f.fin)
    <3>1. Step(r, f) = [r EXCEPT !.op = op, !.text = text]
      BY ONLY <1>9, <2>1, <2>2, <2>4, Zenon DEF Step
    <3>2. Judge(q, f) = [q EXCEPT !.op = op, !.text = text]
      BY ONLY <1>1, <1>2, <1>3, <1>9, <2>2, <2>4, Zenon DEF Judge
    <3>3. Judge(q, f) = Uncut(Step(r, f))
      BY ONLY <1>5, <3>1, <3>2, q = Uncut(r) DEF Uncut
    <3> QED
      BY <3>3 DEF Agrees
  <2> QED
    BY <2>3, <2>4
<1> QED
  BY <1>6, <1>7, <1>8, <1>9

LEMMA AgreesNext ==
  ASSUME NEW r, Known(r), NEW f \in AnyFrame, NEW q, Agrees(q, r)
  PROVE  Agrees(Judge(q, f), Step(r, f))
<1>1. CASE q = Uncut(r)
  BY <1>1, JudgedAlike
<1>2. CASE q \in Verdict /\ q.cut = TRUE /\ q.bad = TRUE /\ IsPrefix(q.out, r.out)
  <2>1. Judge(q, f) = [q EXCEPT !.bad = TRUE]
    BY <1>2 DEF Judge
  <2>2. Judge(q, f) = q
    BY ONLY <1>2, <2>1 DEF Verdict
  <2>3. PICK x, y, z : x = q.out /\ y = r.out /\ z = Step(r, f).out
    OBVIOUS
  <2>4. x \in Seq(Message) /\ y \in Seq(Message) /\ IsPrefix(x, y)
    BY <1>2, <2>3 DEF Verdict, Known
  <2>5. z = y \/ \E m \in Message : z = Append(y, m)
    BY <2>3, StepKnown
  <2>6. IsPrefix(x, z)
    BY ONLY <2>4, <2>5, PrefixOfAppend
  <2> QED
    BY ONLY <1>2, <2>2, <2>3, <2>6 DEF Agrees
<1> QED
  BY <1>1, <1>2 DEF Agrees

(* So, for all the frames, does Reference with Meaning.                    *)
LEMMA ReferenceAgrees ==
  ASSUME NEW t \in Seq(AnyFrame)
  PROVE  Agrees(Judged(t), Meaning(t))
<1>1. PICK n \in Nat : n = Len(t)
  OBVIOUS
<1>2. Len(t) \in Nat /\ DOMAIN t = 1 .. Len(t)
  OBVIOUS
<1>3. PICK r : IsRun(t, r)
  BY <1>2, RunExists
<1>4. PICK q : IsTrial(t, q)
  BY <1>2, TrialExists
<1>5. r[0] = Start /\ r[n] = Meaning(t) /\ \A i \in 1 .. n : r[i] = Step(r[i - 1], t[i]) /\ t[i] \in AnyFrame
  BY <1>1, <1>3 DEF IsRun
<1>6. q[0] = Unheard /\ q[n] = Judged(t) /\ \A i \in 1 .. n : q[i] = Judge(q[i - 1], t[i])
  BY <1>1, <1>4 DEF IsTrial
<1> DEFINE S == {i \in Nat : i <= n => Agrees(q[i], r[i])}
<1>7. 0 \in S
  <2>1. Unheard = Uncut(Start)
    BY DEF Unheard, Uncut, Start
  <2> QED
    BY <1>5, <1>6, <2>1 DEF Agrees
<1>8. ASSUME NEW i \in Nat, i \in S
      PROVE  i + 1 \in S
  <2> SUFFICES ASSUME i + 1 <= n PROVE Agrees(q[i + 1], r[i + 1])
    OBVIOUS
  <2>1. PICK j : j = i + 1
    OBVIOUS
  <2>2. j \in 1 .. n /\ j - 1 = i /\ i \in 0 .. Len(t) /\ Agrees(q[i], r[i])
    BY <1>1, <1>8, <2>1
  <2>3. q[j] = Judge(q[i], t[j]) /\ r[j] = Step(r[i], t[j]) /\ t[j] \in AnyFrame
    BY <1>5, <1>6, <2>2
  <2>4. Known(r[i])
    BY <1>3, <2>2, RunKnown
  <2> QED
    BY ONLY <2>1, <2>2, <2>3, <2>4, AgreesNext
<1> HIDE DEF S
<1>9. Nat \subseteq S
  BY <1>7, <1>8, SetInduction
<1> QED
  BY <1>5, <1>6, <1>9 DEF S
-----------------------------------------------------------------------------
(* Bytes one after the other.                                              *)
LEMMA Joined ==
  ASSUME NEW x \in Bytes0, NEW y \in Bytes0
  PROVE  /\ x \o y \in Bytes0 /\ Len(x \o y) = Len(x) + Len(y) /\ Len(x) \in Nat /\ Len(y) \in Nat
         /\ \A i \in 1 .. Len(x) : (x \o y)[i] = x[i]
         /\ \A i \in 1 .. Len(y) : (x \o y)[Len(x) + i] = y[i]
<1>1. x \in Seq(ByteType) /\ y \in Seq(ByteType)
  BY DEF Bytes0
<1>2. PICK w, m, n : w = x \o y /\ m = Len(x) /\ n = Len(y)
  OBVIOUS
<1>3. w \in Seq(ByteType) /\ Len(w) = m + n /\ m \in Nat /\ n \in Nat
      /\ \A i \in 1 .. m + n : w[i] = IF i <= m THEN x[i] ELSE y[i - m]
  BY ONLY <1>1, <1>2, ConcatProperties, LenProperties
<1>4. \A i \in 1 .. m : i \in 1 .. m + n /\ i <= m
  BY ONLY <1>3
<1>5. \A i \in 1 .. n : m + i \in 1 .. m + n /\ ~(m + i <= m) /\ m + i - m = i
  BY ONLY <1>3
<1>6. (\A i \in 1 .. m : w[i] = x[i]) /\ (\A i \in 1 .. n : w[m + i] = y[i])
  BY ONLY <1>3, <1>4, <1>5
<1> QED
  BY <1>2, <1>3, <1>6 DEF Bytes0

IsJoin(x, y, w, m, n) ==
  /\ w \in Bytes0 /\ Len(w) = m + n /\ m \in Nat /\ n \in Nat
  /\ \A i \in 1 .. m : w[i] = x[i]
  /\ \A i \in 1 .. n : w[m + i] = y[i]

LEMMA JoinedOf ==
  ASSUME NEW x \in Bytes0, NEW y \in Bytes0, NEW w, NEW m, NEW n, w = x \o y, m = Len(x), n = Len(y)
  PROVE  IsJoin(x, y, w, m, n)
BY Joined DEF IsJoin

(* How long the header of a frame is after its first two bytes.            *)
HeadSize(f) == (IF f.long THEN 1 ELSE 0) + (IF f.masked THEN KeyBytes ELSE 0)

(* What a client's frame says.                                             *)
LEMMA FrameSays ==
  ASSUME NEW f \in Frame13
  PROVE  LET b == FrameBytes(f)
             size == Len(f.payload)
             start == 2 + HeadSize(f)
         IN /\ b \in Bytes0 /\ Len(b) = start + size /\ HeadSize(f) \in Nat /\ size \in Nat
            /\ b[1].s = f.op /\ b[1].f = f.fin /\ b[1].n = f.rsv /\ b[2].f = f.masked
            /\ b[2].n = IF f.long THEN SizeCode ELSE size
            /\ f.long => b[3].n = size
            /\ f.masked => HeadSize(f) > 0 /\ b[start].key = f.key
            /\ \A i \in 1 .. size : b[start + i].s = f.payload[i] /\ b[start + i].key = f.key
                                    /\ b[start + i].n = (i - 1) % KeyBytes
<1> DEFINE byte(k, s, n, g) == [k |-> k, s |-> s, n |-> n, f |-> g, key |-> f.key]
<1>1. /\ f.payload \in Seq(STRING) /\ Len(f.payload) \in Nat /\ f.op \in STRING
      /\ f.fin \in BOOLEAN /\ f.rsv \in Nat /\ f.masked \in BOOLEAN /\ f.long \in BOOLEAN /\ f.key \in Nat
      /\ \A i \in 1 .. Len(f.payload) : f.payload[i] \in STRING
  BY DEF Frame13
<1>2. \A k \in {"b0", "b1", "size", "key", "data"}, s \in STRING, n \in Nat, g \in BOOLEAN : byte(k, s, n, g) \in ByteType
  BY <1>1, ByteRecord
<1> HIDE DEF byte
<1>3. PICK size \in Nat, keys \in Nat, code \in Nat, long \in Nat :
        /\ size = Len(f.payload) /\ keys = (IF f.masked THEN KeyBytes ELSE 0)
        /\ code = (IF f.long THEN SizeCode ELSE size) /\ long = (IF f.long THEN 1 ELSE 0)
  <2>1. Len(f.payload) \in Nat
    BY <1>1
  <2>2. (IF f.masked THEN KeyBytes ELSE 0) \in Nat
    BY FramesAssumption
  <2>3. (IF f.long THEN SizeCode ELSE Len(f.payload)) \in Nat
    BY <1>1, FramesAssumption DEF SizeCode
  <2>4. (IF f.long THEN 1 ELSE 0) \in Nat
    OBVIOUS
  <2> QED
    BY ONLY <2>1, <2>2, <2>3, <2>4, Zenon
<1>4. "none" \in STRING /\ FALSE \in BOOLEAN /\ 0 \in Nat
  BY StringsAssumption
<1>5. PICK a0, a1 : a0 = byte("b0", f.op, f.rsv, f.fin) /\ a1 = byte("b1", "none", code, f.masked)
  OBVIOUS
<1>6. a0 \in ByteType /\ a1 \in ByteType
  BY <1>1, <1>2, <1>3, <1>4, <1>5, Zenon
<1>7. PICK b0 : b0 = byte("size", "none", size, FALSE)
  OBVIOUS
<1>8. b0 \in ByteType
  BY <1>2, <1>3, <1>4, <1>7, Zenon
<1>9. PICK c0 : c0 = byte("key", "none", 0, FALSE)
  OBVIOUS
<1>10. c0 \in ByteType
  BY <1>2, <1>4, <1>9, Zenon
<1>11. PICK d : d = [i \in 1 .. size |-> byte("data", f.payload[i], (i - 1) % KeyBytes, FALSE)]
  OBVIOUS
<1>12. \A i \in 1 .. size : d[i] \in ByteType
  <2>1. ASSUME NEW i \in 1 .. size
        PROVE  byte("data", f.payload[i], (i - 1) % KeyBytes, FALSE) \in ByteType
    <3>1. (i - 1) % KeyBytes \in Nat
      BY FramesAssumption
    <3>2. f.payload[i] \in STRING
      BY <1>1, <1>3
    <3> QED
      BY <1>2, <1>4, <3>1, <3>2, Zenon
  <2>2. \A i \in 1 .. size : d[i] = byte("data", f.payload[i], (i - 1) % KeyBytes, FALSE)
    BY <1>11, Zenon
  <2> QED
    BY <2>1, <2>2, Zenon
<1>13. d \in Seq(ByteType) /\ Len(d) = size
  <2>1. DOMAIN d = 1 .. size /\ d = [i \in 1 .. size |-> d[i]]
    BY <1>11, Zenon
  <2> QED
    BY ONLY <1>12, <2>1, size \in Nat
<1>14. PICK a, b, c : a = <<a0, a1>> /\ b = (IF f.long THEN <<b0>> ELSE <<>>) /\ c = [i \in 1 .. keys |-> c0]
  OBVIOUS
<1>15. a \in Seq(ByteType) /\ Len(a) = 2 /\ a[1] = a0 /\ a[2] = a1
  <2>1. <<a0, a1>> \in Seq(ByteType) /\ Len(<<a0, a1>>) = 2 /\ <<a0, a1>>[1] = a0 /\ <<a0, a1>>[2] = a1
    BY ONLY <1>6
  <2> QED
    BY ONLY <1>14, <2>1
<1>16. b \in Seq(ByteType) /\ Len(b) = long /\ (f.long => b[1] = b0)
  <2>1. <<b0>> \in Seq(ByteType) /\ Len(<<b0>>) = 1 /\ <<b0>>[1] = b0
    BY ONLY <1>8
  <2>2. <<>> \in Seq(ByteType) /\ Len(<<>>) = 0
    BY EmptySeq
  <2>3. CASE f.long
    BY ONLY <1>3, <1>14, <2>1, <2>3
  <2>4. CASE ~f.long
    BY ONLY <1>3, <1>14, <2>2, <2>4
  <2> QED
    BY <2>3, <2>4
<1>17. c \in Seq(ByteType) /\ Len(c) = keys /\ \A i \in 1 .. keys : c[i] = c0
  BY ONLY <1>10, <1>14, keys \in Nat
<1>18. FrameBytes(f) = ((a \o b) \o c) \o d
  BY <1>3, <1>5, <1>7, <1>9, <1>11, <1>14, Zenon DEF FrameBytes, byte
<1>19. a \in Bytes0 /\ b \in Bytes0 /\ c \in Bytes0 /\ d \in Bytes0
  BY <1>13, <1>15, <1>16, <1>17 DEF Bytes0
<1>20. PICK u, v, w : u = a \o b /\ v = u \o c /\ w = v \o d
  OBVIOUS
<1>21. /\ u \in Bytes0 /\ Len(u) = 2 + long
       /\ \A i \in 1 .. 2 : u[i] = a[i]
       /\ \A i \in 1 .. long : u[2 + i] = b[i]
  <2>1. u = a \o b /\ 2 = Len(a) /\ long = Len(b)
    BY ONLY <1>15, <1>16, <1>20
  <2>2. a \in Bytes0 /\ b \in Bytes0
    BY ONLY <1>19
  <2>3. IsJoin(a, b, u, 2, long)
    BY ONLY JoinedOf, <2>1, <2>2, Zenon
  <2> QED
    BY ONLY <2>3 DEF IsJoin
<1>22. /\ v \in Bytes0 /\ Len(v) = 2 + long + keys
       /\ \A i \in 1 .. 2 + long : v[i] = u[i]
       /\ \A i \in 1 .. keys : v[2 + long + i] = c[i]
  <2>1. v = u \o c /\ 2 + long = Len(u) /\ keys = Len(c)
    BY ONLY <1>17, <1>21, <1>20
  <2>2. u \in Bytes0 /\ c \in Bytes0
    BY ONLY <1>19, <1>21
  <2>3. IsJoin(u, c, v, 2 + long, keys)
    BY ONLY JoinedOf, <2>1, <2>2, Zenon
  <2> QED
    BY ONLY <2>3 DEF IsJoin
<1>23. /\ w \in Bytes0 /\ Len(w) = 2 + long + keys + size
       /\ \A i \in 1 .. 2 + long + keys : w[i] = v[i]
       /\ \A i \in 1 .. size : w[2 + long + keys + i] = d[i]
  <2>1. w = v \o d /\ 2 + long + keys = Len(v) /\ size = Len(d)
    BY ONLY <1>13, <1>22, <1>20
  <2>2. v \in Bytes0 /\ d \in Bytes0
    BY ONLY <1>19, <1>22
  <2>3. IsJoin(v, d, w, 2 + long + keys, size)
    BY ONLY JoinedOf, <2>1, <2>2, Zenon
  <2> QED
    BY ONLY <2>3 DEF IsJoin
<1>24. w[1] = a0 /\ w[2] = a1
  <2>1. 1 \in 1 .. 2 + long + keys /\ 2 \in 1 .. 2 + long + keys /\ 1 \in 1 .. 2 + long /\ 2 \in 1 .. 2 + long /\ 1 \in 1 .. 2 /\ 2 \in 1 .. 2
    BY ONLY long \in Nat, keys \in Nat
  <2> QED
    BY ONLY <1>15, <1>21, <1>22, <1>23, <2>1
<1>25. f.long => w[3] = b0
  <2> SUFFICES ASSUME f.long PROVE w[3] = b0
    OBVIOUS
  <2>1. long = 1 /\ 3 \in 1 .. 2 + long + keys /\ 3 \in 1 .. 2 + long /\ 1 \in 1 .. long /\ 2 + 1 = 3
    BY <1>3
  <2> QED
    BY ONLY <1>16, <1>21, <1>22, <1>23, <2>1, f.long
<1>26. HeadSize(f) = long + keys
  BY <1>3 DEF HeadSize
<1>27. PICK start : start = 2 + HeadSize(f)
  OBVIOUS
<1>28. start = 2 + long + keys /\ HeadSize(f) \in Nat
  BY ONLY <1>26, <1>27, long \in Nat, keys \in Nat
<1>29. f.masked => HeadSize(f) > 0 /\ w[start] = c0
  <2> SUFFICES ASSUME f.masked PROVE HeadSize(f) > 0 /\ w[start] = c0
    OBVIOUS
  <2>1. keys \in Nat /\ keys > 0
    BY <1>3, FramesAssumption
  <2>2. start \in 1 .. 2 + long + keys /\ keys \in 1 .. keys /\ start = 2 + long + keys /\ HeadSize(f) > 0
    BY ONLY <1>26, <1>28, <2>1, long \in Nat
  <2> QED
    BY ONLY <1>17, <1>22, <1>23, <2>2
<1>30. ASSUME NEW i \in 1 .. size
       PROVE  w[start + i] = byte("data", f.payload[i], (i - 1) % KeyBytes, FALSE)
  <2>1. w[start + i] = d[i]
    BY ONLY <1>23, <1>28, i \in 1 .. size
  <2> QED
    BY <1>11, <2>1, Zenon
<1>31. /\ w[1].s = f.op /\ w[1].f = f.fin /\ w[1].n = f.rsv /\ w[2].f = f.masked /\ w[2].n = code
       /\ f.long => w[3].n = size
       /\ f.masked => HeadSize(f) > 0 /\ w[start].key = f.key
       /\ \A i \in 1 .. size : w[start + i].s = f.payload[i] /\ w[start + i].key = f.key
                               /\ w[start + i].n = (i - 1) % KeyBytes
  <2>1. w[1].s = f.op /\ w[1].f = f.fin /\ w[1].n = f.rsv /\ w[2].f = f.masked /\ w[2].n = code
    BY ONLY <1>5, <1>24 DEF byte
  <2>2. f.long => w[3].n = size
    BY ONLY <1>7, <1>25 DEF byte
  <2>3. f.masked => HeadSize(f) > 0 /\ w[start].key = f.key
    BY ONLY <1>9, <1>29 DEF byte
  <2>4. \A i \in 1 .. size : w[start + i].s = f.payload[i] /\ w[start + i].key = f.key
                               /\ w[start + i].n = (i - 1) % KeyBytes
    <3> SUFFICES ASSUME NEW i \in 1 .. size
                 PROVE  w[start + i].s = f.payload[i] /\ w[start + i].key = f.key
                        /\ w[start + i].n = (i - 1) % KeyBytes
      OBVIOUS
    <3>1. PICK x, y, z : x = w[start + i] /\ y = f.payload[i] /\ z = (i - 1) % KeyBytes
      OBVIOUS
    <3>2. x = byte("data", y, z, FALSE)
      BY ONLY <1>30, <3>1, i \in 1 .. size, Zenon
    <3>3. x.s = y /\ x.key = f.key /\ x.n = z
      BY ONLY <3>2 DEF byte
    <3> QED
      BY ONLY <3>1, <3>3, Zenon
  <2> QED
    BY ONLY <2>1, <2>2, <2>3, <2>4
<1>32. w = FrameBytes(f) /\ Len(w) = start + size
  BY <1>18, <1>20, <1>23, <1>28
<1> QED
  BY ONLY <1>3, <1>23, <1>27, <1>28, <1>31, <1>32, Zenon
-----------------------------------------------------------------------------
(* What a frame of hybi00 says.                                            *)
Tells00(f, b, size) ==
  /\ b \in Bytes0 /\ size = Len(f.payload) /\ size \in Nat /\ Len(b) \in Nat /\ Len(b) > 0
  /\ f.op # "00" => b[1] # Mark("00")
  /\ f.op = "00" => /\ Len(b) = size + 2 /\ b[1] = Mark("00") /\ b[size + 2] = Mark("ff")
                    /\ \A i \in 1 .. size : b[1 + i].s = f.payload[i] /\ b[1 + i] # Mark("ff")

LEMMA FrameSays00 ==
  ASSUME NEW f \in Frame00
  PROVE  Tells00(f, FrameBytes00(f), Len(f.payload))
<1>1. f.payload \in Seq(STRING) /\ f.op \in {"00", "JUNK"}
  BY DEF Frame00
<1>2. PICK t, m, u, v : t = f.payload /\ m = Payload(t) /\ u = Mark("00") /\ v = Mark("ff")
  OBVIOUS
<1>3. u \in ByteType /\ v \in ByteType /\ u # v
  BY <1>2, Marks
<1>4. PICK size : size = Len(t)
  OBVIOUS
<1>5. m \in Bytes0 /\ Len(m) = size /\ size \in Nat /\ \A i \in 1 .. size : m[i] = Character(t[i]) /\ t[i] \in STRING
  BY <1>1, <1>2, <1>4, PayloadType
<1>6. \A c \in STRING : Character(c) # v /\ Character(c) # u /\ Character(c).s = c
  <2>1. \A c \in STRING : Character(c) # v
    BY <1>2, Marks
  <2>2. \A c : Character(c).k = "data" /\ Character(c).s = c
    BY DEF Character, Byte
  <2>3. u.k = "mark"
    BY <1>2 DEF Mark, Byte
  <2>4. "data" # "mark"
    OBVIOUS
  <2> QED
    BY ONLY <2>1, <2>2, <2>3, <2>4
<1>7. PICK a, z, e : a = <<u>> /\ z = <<v>> /\ e = <<>>
  OBVIOUS
<1>8. a \in Seq(ByteType) /\ Len(a) = 1 /\ a[1] = u /\ z \in Seq(ByteType) /\ Len(z) = 1 /\ z[1] = v
  BY ONLY <1>3, <1>7
<1>9. e \in Bytes0 /\ Len(e) = 0
  BY ONLY <1>7, NothingRead
<1>10. a \in Bytes0 /\ z \in Bytes0
  BY <1>8 DEF Bytes0
<1> DEFINE Built(b, h, n) ==
             /\ b \in Bytes0 /\ n \in Nat /\ Len(b) = n + size + 1 /\ b[n + size + 1] = v
             /\ \A i \in 1 .. n : b[i] = h[i]
             /\ \A i \in 1 .. size : b[n + i] = m[i]
<1>11. ASSUME NEW h \in Bytes0, NEW n, n = Len(h), NEW b, b = (h \o m) \o z
       PROVE  Built(b, h, n)
  <2>1. PICK w : w = h \o m
    OBVIOUS
  <2>2. IsJoin(h, m, w, n, size)
    <3>1. size = Len(m)
      BY ONLY <1>5
    <3> QED
      BY ONLY <1>5, <2>1, <3>1, <1>11, JoinedOf, Zenon
  <2>3. w \in Bytes0 /\ Len(w) = n + size /\ n \in Nat /\ \A i \in 1 .. n : w[i] = h[i]
    BY ONLY <2>2 DEF IsJoin
  <2>4. \A i \in 1 .. size : w[n + i] = m[i]
    BY ONLY <2>2 DEF IsJoin
  <2>5. IsJoin(w, z, b, n + size, 1)
    <3>1. b = w \o z /\ n + size = Len(w) /\ 1 = Len(z)
      BY ONLY <1>8, <1>11, <2>1, <2>3
    <3> QED
      BY ONLY <1>10, <2>3, <3>1, JoinedOf, Zenon
  <2>6. b \in Bytes0 /\ Len(b) = n + size + 1 /\ \A i \in 1 .. n + size : b[i] = w[i]
    BY ONLY <2>5 DEF IsJoin
  <2>7. b[n + size + 1] = z[1]
    BY ONLY <2>5, 1 \in 1 .. 1 DEF IsJoin
  <2>8. \A i \in 1 .. n : i \in 1 .. n + size
    BY ONLY <2>3, <1>5
  <2>9. \A i \in 1 .. size : n + i \in 1 .. n + size
    BY ONLY <2>3, <1>5
  <2>10. \A i \in 1 .. n : b[i] = h[i]
    BY ONLY <2>3, <2>6, <2>8
  <2>11. \A i \in 1 .. size : b[n + i] = m[i]
    BY ONLY <2>4, <2>6, <2>9
  <2> QED
    BY ONLY <1>8, <2>3, <2>6, <2>7, <2>10, <2>11
<1> HIDE DEF Built
<1>12. CASE f.op = "00"
  <2>1. PICK b : b = FrameBytes00(f)
    OBVIOUS
  <2>2. b = (a \o m) \o z
    <3>1. f.op # "JUNK"
      BY <1>12
    <3> QED
      BY <3>1, <1>2, <1>7, <2>1, Zenon DEF FrameBytes00
  <2>3. 1 = Len(a)
    BY ONLY <1>8
  <2>4. /\ b \in Bytes0 /\ Len(b) = 1 + size + 1 /\ b[1 + size + 1] = v
        /\ \A i \in 1 .. 1 : b[i] = a[i]
        /\ \A i \in 1 .. size : b[1 + i] = m[i]
    <3>1. Built(b, a, 1)
      BY ONLY <1>10, <1>11, <2>2, <2>3, Zenon
    <3> QED
      BY ONLY <3>1 DEF Built
  <2>5. b[1] = u
    <3>1. 1 \in 1 .. 1
      OBVIOUS
    <3>2. b[1] = a[1]
      BY ONLY <2>4, <3>1, Zenon
    <3>3. a[1] = u
      BY ONLY <1>8
    <3> QED
      BY ONLY <3>2, <3>3
  <2>6. \A i \in 1 .. size : b[1 + i].s = t[i] /\ b[1 + i] # v
    <3>1. \A i \in 1 .. size : b[1 + i] = m[i]
      BY ONLY <2>4
    <3>2. \A i \in 1 .. size : m[i] = Character(t[i]) /\ t[i] \in STRING
      BY ONLY <1>5
    <3> QED
      BY ONLY <1>6, <3>1, <3>2, ZenonT(60)
  <2>7. 1 + size + 1 = size + 2 /\ size + 2 \in Nat /\ size + 2 > 0
    BY ONLY <1>5
  <2>8. Len(b) = size + 2 /\ b[size + 2] = v
    BY ONLY <2>4, <2>7
  <2>9. size \in Nat /\ Len(b) \in Nat /\ Len(b) > 0 /\ b \in Bytes0
    BY ONLY <1>5, <2>4, <2>7, <2>8
  <2>10. \A i \in 1 .. size : b[1 + i].s = f.payload[i] /\ b[1 + i] # Mark("ff")
    BY ONLY <1>2, <2>6
  <2>11. size = Len(f.payload) /\ b[1] = Mark("00") /\ b[size + 2] = Mark("ff")
    BY ONLY <1>2, <1>4, <2>5, <2>8
  <2>12. Tells00(f, b, size)
    BY ONLY <1>12, <2>8, <2>9, <2>10, <2>11 DEF Tells00
  <2> QED
    BY ONLY <2>1, <2>11, <2>12
<1>13. CASE f.op # "00"
  <2>1. PICK b : b = FrameBytes00(f)
    OBVIOUS
  <2>2. b = (e \o m) \o z
    <3>1. f.op = "JUNK"
      BY <1>1, <1>13
    <3> QED
      BY <3>1, <1>2, <1>7, <2>1, Zenon DEF FrameBytes00
  <2>3. 0 = Len(e)
    BY ONLY <1>9
  <2>4. /\ b \in Bytes0 /\ Len(b) = 0 + size + 1 /\ b[0 + size + 1] = v
        /\ \A i \in 1 .. size : b[0 + i] = m[i]
    <3>1. Built(b, e, 0)
      BY ONLY <1>9, <1>11, <2>2, <2>3, Zenon
    <3> QED
      BY ONLY <3>1 DEF Built
  <2>5. b[1] # u
    <3>1. CASE size = 0
      BY ONLY <1>3, <2>4, <3>1
    <3>2. CASE size # 0
      <4>1. 1 \in 1 .. size /\ 0 + 1 = 1
        BY ONLY <1>5, <3>2
      <4>2. b[1] = m[1] /\ m[1] = Character(t[1]) /\ t[1] \in STRING
        BY ONLY <1>5, <2>4, <4>1
      <4> QED
        BY ONLY <1>6, <4>2
    <3> QED
      BY <3>1, <3>2
  <2>6. Len(b) \in Nat /\ Len(b) > 0
    BY ONLY <1>5, <2>4
  <2>7. size = Len(f.payload) /\ size \in Nat /\ b[1] # Mark("00") /\ b \in Bytes0
    BY ONLY <1>2, <1>4, <1>5, <2>4, <2>5
  <2>8. Tells00(f, b, size)
    BY ONLY <1>13, <2>6, <2>7 DEF Tells00
  <2> QED
    BY ONLY <2>1, <2>7, <2>8
<1> QED
  BY ONLY <1>12, <1>13

(* A frame in the bytes of a client, from the byte after the x-th on.      *)
There(a, x, f) ==
  LET size == Len(f.payload)
      start == x + 2 + HeadSize(f)
  IN /\ x \in Nat /\ HeadSize(f) \in Nat /\ size \in Nat /\ start + size <= Len(a)
     /\ a[x + 1].s = f.op /\ a[x + 1].f = f.fin /\ a[x + 1].n = f.rsv /\ a[x + 2].f = f.masked
     /\ a[x + 2].n = IF f.long THEN SizeCode ELSE size
     /\ f.long => a[x + 3].n = size
     /\ f.masked => HeadSize(f) > 0 /\ a[start].key = f.key
     /\ \A i \in 1 .. size : a[start + i].s = f.payload[i] /\ a[start + i].key = f.key
                             /\ a[start + i].n = (i - 1) % KeyBytes
     /\ ~f.long => size <= MaxBasic

There00(a, x, f) ==
  LET size == Len(f.payload)
  IN /\ x \in Nat /\ size \in Nat /\ x < Len(a)
     /\ f.op # "00" => a[x + 1] # Mark("00")
     /\ f.op = "00" => /\ x + 2 + size <= Len(a) /\ a[x + 1] = Mark("00") /\ a[x + size + 2] = Mark("ff")
                       /\ \A i \in 1 .. size : a[x + 1 + i].s = f.payload[i] /\ a[x + 1 + i] # Mark("ff")

LEMMA ThereIs ==
  ASSUME NEW a \in Bytes0, NEW f \in Frame13, NEW x \in Nat, NEW n,
         n = Len(FrameBytes(f)), x + n <= Len(a), \A i \in 1 .. n : a[x + i] = FrameBytes(f)[i],
         ~f.long => Len(f.payload) <= MaxBasic
  PROVE  There(a, x, f) /\ n = 2 + HeadSize(f) + Len(f.payload)
<1>1. PICK b, size, head : b = FrameBytes(f) /\ size = Len(f.payload) /\ head = HeadSize(f)
  OBVIOUS
<1>2. PICK s : s = 2 + head
  OBVIOUS
<1>3. /\ b \in Bytes0 /\ Len(b) = s + size /\ head \in Nat /\ size \in Nat
      /\ b[1].s = f.op /\ b[1].f = f.fin /\ b[1].n = f.rsv /\ b[2].f = f.masked
      /\ b[2].n = (IF f.long THEN SizeCode ELSE size)
      /\ f.long => b[3].n = size
      /\ f.masked => head > 0 /\ b[s].key = f.key
      /\ \A i \in 1 .. size : b[s + i].s = f.payload[i] /\ b[s + i].key = f.key
                              /\ b[s + i].n = (i - 1) % KeyBytes
  <2>1. s = 2 + HeadSize(f)
    BY <1>1, <1>2
  <2> QED
    BY ONLY <1>1, <2>1, FrameSays, f \in Frame13
<1>4. \A i \in 1 .. s + size : a[x + i] = b[i]
  BY ONLY <1>1, <1>3, n = Len(FrameBytes(f)), \A i \in 1 .. n : a[x + i] = FrameBytes(f)[i]
<1>5. PICK m : m = Len(a)
  OBVIOUS
<1>6. n = s + size /\ x + n <= m
  BY ONLY <1>1, <1>3, <1>5, n = Len(FrameBytes(f)), x + n <= Len(a)
<1>7. PICK start : start = x + 2 + head
  OBVIOUS
<1>8. start = x + s /\ start + size <= m
  BY ONLY <1>2, <1>3, <1>5, <1>6, <1>7, x \in Nat
<1>9. 1 \in 1 .. s + size /\ 2 \in 1 .. s + size /\ s \in 1 .. s + size
  BY ONLY <1>2, <1>3
<1>10. /\ a[x + 1].s = f.op /\ a[x + 1].f = f.fin /\ a[x + 1].n = f.rsv /\ a[x + 2].f = f.masked
       /\ a[x + 2].n = (IF f.long THEN SizeCode ELSE size)
       /\ f.masked => head > 0 /\ a[start].key = f.key
  BY ONLY <1>3, <1>4, <1>8, <1>9
<1>11. f.long => a[x + 3].n = size
  <2> SUFFICES ASSUME f.long PROVE a[x + 3].n = size
    OBVIOUS
  <2>1. head > 0
    <3>1. (IF f.masked THEN KeyBytes ELSE 0) \in Nat
      BY FramesAssumption
    <3>2. head = 1 + (IF f.masked THEN KeyBytes ELSE 0)
      BY <1>1 DEF HeadSize
    <3> QED
      BY ONLY <3>1, <3>2
  <2>2. 3 \in 1 .. s + size
    BY ONLY <1>2, <1>3, <2>1
  <2> QED
    BY ONLY <1>3, <1>4, <2>2, f.long
<1>12. \A i \in 1 .. size : s + i \in 1 .. s + size /\ start + i = x + (s + i)
  BY ONLY <1>2, <1>3, <1>8, x \in Nat
<1>13. \A i \in 1 .. size : a[start + i] = b[s + i]
  BY ONLY <1>4, <1>12
<1>14. \A i \in 1 .. size : a[start + i].s = f.payload[i] /\ a[start + i].key = f.key
                            /\ a[start + i].n = (i - 1) % KeyBytes
  BY ONLY <1>3, <1>13, Zenon
<1>15. There(a, x, f)
  <2>1. ~f.long => size <= MaxBasic
    BY <1>1
  <2>2. start = x + 2 + HeadSize(f) /\ size = Len(f.payload) /\ head = HeadSize(f) /\ m = Len(a)
    BY ONLY <1>1, <1>5, <1>7
  <2> QED
    BY ONLY <1>3, <1>8, <1>10, <1>11, <1>14, <2>1, <2>2, x \in Nat, Zenon DEF There
<1> QED
  BY ONLY <1>1, <1>2, <1>6, <1>15

LEMMA There00Is ==
  ASSUME NEW a \in Bytes0, NEW f \in Frame00, NEW x \in Nat, NEW n,
         n = Len(FrameBytes00(f)), x + n <= Len(a), \A i \in 1 .. n : a[x + i] = FrameBytes00(f)[i]
  PROVE  There00(a, x, f) /\ n \in Nat /\ n > 0 /\ (f.op = "00" => n = 2 + Len(f.payload))
<1>1. PICK b, size, m : b = FrameBytes00(f) /\ size = Len(f.payload) /\ m = Len(a)
  OBVIOUS
<1>2. /\ b \in Bytes0 /\ size \in Nat /\ Len(b) \in Nat /\ Len(b) > 0
      /\ f.op # "00" => b[1] # Mark("00")
      /\ f.op = "00" => /\ Len(b) = size + 2 /\ b[1] = Mark("00") /\ b[size + 2] = Mark("ff")
                        /\ \A i \in 1 .. size : b[1 + i].s = f.payload[i] /\ b[1 + i] # Mark("ff")
  BY ONLY <1>1, FrameSays00, f \in Frame00 DEF Tells00
<1>3. n = Len(b) /\ x + n <= m /\ \A i \in 1 .. n : a[x + i] = b[i]
  BY ONLY <1>1, n = Len(FrameBytes00(f)), x + n <= Len(a), \A i \in 1 .. n : a[x + i] = FrameBytes00(f)[i]
<1>4. m \in Nat
  BY <1>1 DEF Bytes0
<1>5. x < m /\ n \in Nat /\ n > 0 /\ 1 \in 1 .. n
  BY ONLY <1>2, <1>3, <1>4, x \in Nat
<1>6. a[x + 1] = b[1]
  BY ONLY <1>3, <1>5
<1>7. CASE f.op # "00"
  BY ONLY <1>1, <1>2, <1>5, <1>6, <1>7, x \in Nat DEF There00
<1>8. CASE f.op = "00"
  <2>1. n = size + 2 /\ x + 2 + size <= m /\ size + 2 \in 1 .. n /\ x + (size + 2) = x + size + 2
    BY ONLY <1>2, <1>3, <1>4, <1>8, x \in Nat
  <2>2. \A i \in 1 .. size : 1 + i \in 1 .. n /\ x + (1 + i) = x + 1 + i
    BY ONLY <1>2, <2>1, x \in Nat
  <2>3. \A i \in 1 .. size : a[x + 1 + i] = b[1 + i]
    BY ONLY <1>3, <2>2
  <2>4. a[x + size + 2] = b[size + 2]
    BY ONLY <1>3, <2>1
  <2>5. n = 2 + size
    BY ONLY <1>2, <2>1
  <2> QED
    BY ONLY <1>1, <1>2, <1>5, <1>6, <1>8, <2>1, <2>3, <2>4, <2>5, x \in Nat DEF There00
<1> QED
  BY <1>7, <1>8
(* The bytes of a client are as its frames tell.                           *)
LEMMA FrameThere ==
  ASSUME NEW s \in Streams, NEW at, NEW from, IsPlan(s, at, from), NEW k \in Nat, k < Len(s.frames)
  PROVE  LET a == Bytes(s)
             f == s.frames[k + 1]
         IN /\ from[k] \in Nat /\ from[k + 1] \in Nat /\ from[k + 1] <= Len(a) /\ f \in AnyFrame
            /\ Says00(s) => /\ f \in Frame00 /\ There00(a, from[k], f) /\ from[k] < from[k + 1]
                            /\ f.op = "00" => from[k + 1] = from[k] + 2 + Len(f.payload)
            /\ ~Says00(s) => /\ f \in Frame13 /\ There(a, from[k], f)
                             /\ from[k + 1] = from[k] + 2 + HeadSize(f) + Len(f.payload)
<1>1. PICK a, f, x, y, n : a = Bytes(s) /\ f = s.frames[k + 1] /\ x = from[k] /\ y = from[k + 1] /\ n = Len(s.frames)
  OBVIOUS
<1>2. a \in Bytes0
  BY <1>1, StreamBytes DEF Bytes0
<1>3. n \in Nat /\ DOMAIN s.frames = 1 .. n /\ s.frames \in Seq(AnyFrame)
  <2>1. s.frames \in Seq(AnyFrame)
    BY StreamsAssumption DEF AnyFrame
  <2> QED
    BY <1>1, <2>1
<1>4. k + 1 \in 1 .. n
  BY ONLY <1>1, <1>3, k \in Nat, k < Len(s.frames)
<1>5. f \in AnyFrame
  BY ONLY <1>1, <1>3, <1>4
<1>6. PICK parts : parts = FramesOf(s)
  OBVIOUS
<1>7. parts \in Seq(Bytes0) /\ Len(parts) = n /\ Layout(from, parts, a)
  BY <1>1, <1>6, PartsOf DEF IsPlan
<1>8. k < Len(parts)
  BY ONLY <1>1, <1>7, k < Len(s.frames)
<1>9. PICK b, l : b = parts[k + 1] /\ l = Len(b)
  OBVIOUS
<1>10. /\ x \in Nat /\ y \in Nat /\ y = x + l /\ y <= Len(a)
       /\ \A i \in 1 .. l : a[x + i] = b[i]
  <2>1. Lies(parts[k + 1], a, from[k], from[k + 1])
    BY ONLY <1>2, <1>7, <1>8, k \in Nat, LayoutAt, Zenon
  <2>2. Lies(b, a, x, y)
    BY ONLY <1>1, <1>9, <2>1, Zenon
  <2> QED
    BY ONLY <1>9, <2>2 DEF Lies
<1>11. b = IF f.op \in {"00", "JUNK"} THEN FrameBytes00(f) ELSE FrameBytes(f)
  <2>1. parts = [i \in DOMAIN s.frames |->
                   IF s.frames[i].op \in {"00", "JUNK"} THEN FrameBytes00(s.frames[i]) ELSE FrameBytes(s.frames[i])]
    BY <1>6 DEF FramesOf
  <2>2. k + 1 \in DOMAIN s.frames
    BY ONLY <1>3, <1>4
  <2> QED
    BY ONLY <1>1, <1>9, <2>1, <2>2, Zenon
<1>12. x + l <= Len(a)
  BY ONLY <1>10
<1>13. CASE Says00(s)
  <2>1. s.frames \in Seq(Frame00)
    BY <1>13, RequestsAssumption
  <2>2. f \in Frame00
    BY ONLY <1>1, <1>3, <1>4, <2>1
  <2>3. b = FrameBytes00(f)
    BY <1>11, <2>2 DEF Frame00
  <2>4. There00(a, x, f) /\ l \in Nat /\ l > 0 /\ (f.op = "00" => l = 2 + Len(f.payload))
    <3>1. l = Len(FrameBytes00(f)) /\ \A i \in 1 .. l : a[x + i] = FrameBytes00(f)[i]
      BY ONLY <1>9, <1>10, <2>3
    <3>2. x \in Nat
      BY ONLY <1>10
    <3> QED
      BY ONLY There00Is, <1>2, <1>12, <2>2, <3>1, <3>2, Zenon
  <2>5. PICK size : size = Len(f.payload)
    OBVIOUS
  <2>6. size \in Nat
    BY <2>2, <2>5 DEF Frame00
  <2>7. x < y /\ (f.op = "00" => y = x + 2 + size)
    <3>1. x \in Nat /\ y = x + l
      BY ONLY <1>10
    <3>2. l > 0 /\ l \in Nat /\ (f.op = "00" => l = 2 + size)
      BY ONLY <2>4, <2>5
    <3> QED
      BY ONLY <2>6, <3>1, <3>2
  <2> QED
    BY ONLY <1>1, <1>5, <1>10, <1>13, <2>2, <2>4, <2>5, <2>7
<1>14. CASE ~Says00(s)
  <2>1. s.frames \in Seq(Frame13)
    BY <1>14, RequestsAssumption
  <2>2. f \in Frame13
    BY ONLY <1>1, <1>3, <1>4, <2>1
  <2>3. b = FrameBytes(f)
    BY <1>11, <2>2 DEF Frame13
  <2>4. ~f.long => Len(f.payload) <= MaxBasic
    BY <1>1, <1>3, <1>4, <1>14, RequestsAssumption
  <2>5. There(a, x, f) /\ l = 2 + HeadSize(f) + Len(f.payload)
    <3>1. l = Len(FrameBytes(f)) /\ \A i \in 1 .. l : a[x + i] = FrameBytes(f)[i]
      BY ONLY <1>9, <1>10, <2>3
    <3>2. x \in Nat
      BY ONLY <1>10
    <3> QED
      BY ONLY ThereIs, <1>2, <1>12, <2>2, <2>4, <3>1, <3>2, Zenon
  <2>6. PICK size, head : size = Len(f.payload) /\ head = HeadSize(f)
    OBVIOUS
  <2>7. size \in Nat /\ head \in Nat
    BY ONLY <2>5, <2>6 DEF There
  <2>8. y = x + 2 + head + size
    <3>1. x \in Nat /\ y = x + l
      BY ONLY <1>10
    <3>2. l = 2 + head + size
      BY ONLY <2>5, <2>6
    <3> QED
      BY ONLY <2>7, <3>1, <3>2
  <2> QED
    BY ONLY <1>1, <1>5, <1>10, <1>14, <2>2, <2>5, <2>6, <2>8
<1> QED
  BY <1>13, <1>14
-----------------------------------------------------------------------------
(* Where the server is in the bytes of a client: it has dealt with the     *)
(* first p, and read the first q.                                          *)
Position(a, p, q) ==
  /\ q \in 0 .. Len(a) /\ p \in 0 .. q
  /\ chunk = Window(a, p, q) /\ input = Window(a, q, Len(a))

LEMMA TakesFrom ==
  ASSUME NEW a \in Bytes0, NEW p, NEW q, Position(a, p, q), NEW n \in 0 .. Len(chunk)
  PROVE  /\ Len(chunk) = q - p /\ p \in Nat /\ q \in Nat /\ q <= Len(a) /\ p + n \in Nat /\ p + n <= q
         /\ Take(n) = Window(a, p, p + n)
         /\ Skip(n) /\ input' = input => Position(a, p + n, q)'
<1>1. q \in 0 .. Len(a) /\ p \in 0 .. q /\ Len(a) \in Nat
  BY DEF Position, Bytes0
<1>2. PICK c, m : c = Window(a, p, q) /\ m = Len(a)
  OBVIOUS
<1>3. chunk = c
  BY <1>2 DEF Position
<1>4. c \in Bytes0 /\ Len(c) = q - p
  BY <1>1, <1>2, WindowIs
<1>5. n \in 0 .. q - p /\ p + n \in 0 .. q /\ p \in Nat /\ q \in Nat /\ q <= m
  BY <1>1, <1>2, <1>3, <1>4
<1>6. SubSeq(c, 1, n) = Window(a, p, p + n) /\ SubSeq(c, n + 1, Len(c)) = Window(a, p + n, q)
  BY ONLY <1>1, <1>2, <1>5, WindowTake, a \in Bytes0
<1>7. Skip(n) /\ input' = input => Position(a, p + n, q)'
  BY <1>1, <1>3, <1>5, <1>6 DEF Position, Skip
<1>8. Take(n) = Window(a, p, p + n)
  BY <1>3, <1>6 DEF Take
<1>9. Len(chunk) = q - p
  BY ONLY <1>3, <1>4
<1> QED
  BY ONLY <1>1, <1>2, <1>5, <1>7, <1>8, <1>9

(* As many bytes as there are, or as are needed.                           *)
LEMMA TakesAvailable ==
  ASSUME NEW a \in Bytes0, NEW p, NEW q, Position(a, p, q), m_bytes_needed \in Nat
  PROVE  /\ p \in Nat /\ q \in Nat /\ q <= Len(a) /\ Len(a) \in Nat /\ p <= q
         /\ \E n \in Nat :
              /\ n = Available /\ n <= m_bytes_needed /\ p + n <= q /\ n \in {m_bytes_needed, q - p}
              /\ Take(n) = Window(a, p, p + n)
              /\ Skip(n) /\ input' = input => Position(a, p + n, q)'
<1>1. chunk = Window(a, p, q) /\ q \in 0 .. Len(a) /\ p \in 0 .. q
  BY DEF Position
<1>2. Len(chunk) = q - p
  BY <1>1, WindowIs
<1>3. PICK n : n = Available
  OBVIOUS
<1>4. PICK l : l = Len(chunk)
  OBVIOUS
<1>5. l \in Nat /\ l = q - p
  BY <1>1, <1>2, <1>4
<1>6. n \in Nat /\ n <= m_bytes_needed /\ n <= l /\ n \in {m_bytes_needed, l}
  BY <1>3, <1>4, <1>5, MinOfTwo DEF Available
<1>7. n \in 0 .. Len(chunk)
  BY ONLY <1>4, <1>5, <1>6
<1>8. /\ p \in Nat /\ q \in Nat /\ q <= Len(a) /\ p + n <= q
      /\ Take(n) = Window(a, p, p + n)
      /\ Skip(n) /\ input' = input => Position(a, p + n, q)'
  BY <1>7, TakesFrom
<1>9. Len(a) \in Nat
  BY DEF Bytes0
<1>10. p + n <= q /\ n \in {m_bytes_needed, q - p}
  BY ONLY <1>5, <1>6, <1>8
<1> QED
  BY ONLY <1>1, <1>3, <1>6, <1>8, <1>9, <1>10

(* The header of a frame, read as the client has written it.               *)
LEMMA HeadTells ==
  ASSUME NEW a \in Bytes0, NEW f \in Frame13, NEW x, There(a, x, f), NEW h, h = Window(a, x, x + 2)
  PROVE  /\ x \in Nat /\ HeadSize(f) \in Nat /\ Len(f.payload) \in Nat
         /\ x + 2 + HeadSize(f) + Len(f.payload) <= Len(a)
         /\ h \in Bytes0 /\ Len(h) = 2
         /\ GetOpcode(h) = f.op /\ GetFin(h) = f.fin /\ GetRsv(h) = f.rsv /\ GetMasked(h) = f.masked
         /\ GetBasicSize(h) > MaxBasic <=> f.long
         /\ GetBasicSize(h) = SizeCode <=> f.long
         /\ ~f.long => GetBasicSize(h) = Len(f.payload)
         /\ GetHeaderLen(h) = HeadSize(f)
<1>1. PICK head, size, m : head = HeadSize(f) /\ size = Len(f.payload) /\ m = Len(a)
  OBVIOUS
<1>2. x \in Nat /\ head \in Nat /\ size \in Nat /\ x + 2 + head + size <= m
  BY <1>1 DEF There
<1>3. m \in Nat
  BY <1>1 DEF Bytes0
<1>4. x + 2 \in 0 .. m /\ x \in 0 .. x + 2 /\ x + 2 - x = 2 /\ 1 \in 1 .. 2 /\ 2 \in 1 .. 2
  BY ONLY <1>2, <1>3
<1>5. PICK y : y = x + 2
  OBVIOUS
<1>6. h \in Bytes0 /\ Len(h) = y - x /\ \A i \in 1 .. y - x : h[i] = a[x + i]
  BY ONLY <1>1, <1>4, <1>5, WindowIs, a \in Bytes0, h = Window(a, x, x + 2)
<1>7. Len(h) = 2 /\ h[1] = a[x + 1] /\ h[2] = a[x + 2]
  BY ONLY <1>4, <1>5, <1>6
<1>8. a[x + 1].s = f.op /\ a[x + 1].f = f.fin /\ a[x + 1].n = f.rsv /\ a[x + 2].f = f.masked
  BY DEF There
<1>9. a[x + 2].n = IF f.long THEN SizeCode ELSE size
  BY <1>1 DEF There
<1>10. ~f.long => size <= MaxBasic
  BY <1>1 DEF There
<1>11. GetOpcode(h) = f.op /\ GetFin(h) = f.fin /\ GetRsv(h) = f.rsv /\ GetMasked(h) = f.masked
  BY ONLY <1>7, <1>8 DEF GetOpcode, GetFin, GetRsv, GetMasked
<1>12. PICK b : b = GetBasicSize(h)
  OBVIOUS
<1>13. b = IF f.long THEN SizeCode ELSE size
  BY ONLY <1>7, <1>9, <1>12 DEF GetBasicSize
<1>14. SizeCode = MaxBasic + 1 /\ MaxBasic \in Nat
  BY FramesAssumption DEF SizeCode
<1>15. (b > MaxBasic <=> f.long) /\ (b = SizeCode <=> f.long) /\ (~f.long => b = size)
  BY ONLY <1>2, <1>10, <1>13, <1>14
<1>16. GetHeaderLen(h) = head
  BY <1>1, <1>11, <1>12, <1>15 DEF GetHeaderLen, HeadSize
<1> QED
  BY ONLY <1>1, <1>2, <1>6, <1>7, <1>11, <1>12, <1>15, <1>16

LEMMA RestTells ==
  ASSUME NEW a \in Bytes0, NEW f \in Frame13, NEW x, There(a, x, f), NEW h, h = Window(a, x, x + 2),
         NEW e, e = Window(a, x + 2, x + 2 + HeadSize(f)), f.masked
  PROVE  /\ e \in Bytes0 /\ Len(e) = HeadSize(f) /\ HeadSize(f) > 0
         /\ GetPayloadSize(h, e) = Len(f.payload) /\ Last(e).key = f.key
         /\ f.long => e[1].n = Len(f.payload)
<1>1. PICK head, size, m, y, z : head = HeadSize(f) /\ size = Len(f.payload) /\ m = Len(a) /\ y = x + 2 /\ z = x + 2 + head
  OBVIOUS
<1>2. /\ x \in Nat /\ head \in Nat /\ size \in Nat /\ x + 2 + head + size <= m
      /\ (GetBasicSize(h) = SizeCode <=> f.long) /\ (~f.long => GetBasicSize(h) = size)
  BY <1>1, HeadTells, SMTT(60)
<1>3. m \in Nat
  BY <1>1 DEF Bytes0
<1>4. head > 0 /\ a[x + 2 + head].key = f.key
  BY <1>1 DEF There
<1>5. f.long => a[x + 3].n = size
  BY <1>1 DEF There
<1>6. /\ z \in 0 .. m /\ y \in 0 .. z /\ z - y = head /\ 1 \in 1 .. head /\ head \in 1 .. head
      /\ y + 1 = x + 3 /\ y + head = x + 2 + head
  <2>1. y = x + 2 /\ z = x + 2 + head
    BY <1>1
  <2>2. x \in Nat /\ head \in Nat /\ size \in Nat /\ x + 2 + head + size <= m /\ head > 0
    BY <1>2, <1>4
  <2> QED
    BY ONLY <1>3, <2>1, <2>2
<1>7. e \in Bytes0 /\ Len(e) = z - y /\ \A i \in 1 .. z - y : e[i] = a[y + i]
  BY ONLY <1>1, <1>6, WindowIs, a \in Bytes0, e = Window(a, x + 2, x + 2 + HeadSize(f))
<1>8. Len(e) = head /\ e[1] = a[x + 3] /\ e[head] = a[x + 2 + head]
  BY ONLY <1>6, <1>7
<1>9. Last(e).key = f.key
  BY <1>4, <1>8 DEF Last
<1>10. f.long => e[1].n = size
  BY ONLY <1>5, <1>8
<1>11. GetPayloadSize(h, e) = size
  BY ONLY <1>2, <1>10 DEF GetPayloadSize
<1>12. e \in Bytes0 /\ Len(e) = head /\ head > 0
  BY ONLY <1>4, <1>7, <1>8
<1> QED
  BY ONLY <1>1, <1>9, <1>10, <1>11, <1>12
-----------------------------------------------------------------------------
(* What is wrong with a frame shows in its first two bytes, ...            *)
Headed(r, f) ==
  /\ f.masked /\ f.rsv = 0 /\ f.op \in Data \cup Control \cup {"CONTINUATION"}
  /\ f.op \in Control => f.fin /\ ~f.long
  /\ f.op \in Data => r.op = "none"
  /\ f.op = "CONTINUATION" => r.op # "none"

(* ... in the rest of its header ...                                       *)
Sized(r, f) ==
  /\ f.long => Len(f.payload) > MaxBasic
  /\ f.op \notin Control => Len(TextWith(r, f)) <= MaxMessage

(* ... or in its text.                                                     *)
Readable(r, f) ==
  /\ OpOf(r, f) = "TEXT" => WellFormed(TextWith(r, f))
  /\ f.op = "TEXT" /\ f.fin /\ TextWith(r, f) # <<>> => Last(TextWith(r, f)) # "lead"

LEMMA PassedIs ==
  ASSUME NEW r, NEW f \in Frame13
  PROVE  Passed(r, f) <=> Headed(r, f) /\ Sized(r, f) /\ Readable(r, f)
<1>1. f.op \notin {"00", "JUNK"}
  BY DEF Frame13
<1>2. PICK text : text = TextWith(r, f)
  OBVIOUS
<1>3. PICK op : op = IF f.op = "CONTINUATION" THEN r.op ELSE f.op
  OBVIOUS
<1>4. op = OpOf(r, f)
  BY <1>1, <1>3 DEF OpOf
<1>5. Passed(r, f) <=>
        /\ f.masked /\ f.rsv = 0
        /\ f.long => Len(f.payload) > MaxBasic
        /\ CASE f.op \in Control -> f.fin /\ ~f.long
             [] f.op \in Data -> r.op = "none"
             [] f.op = "CONTINUATION" -> r.op # "none"
             [] OTHER -> FALSE
        /\ f.op \notin Control => Len(text) <= MaxMessage
        /\ op = "TEXT" => WellFormed(text)
        /\ f.op = "TEXT" /\ f.fin /\ text # <<>> => Last(text) # "lead"
  BY ONLY <1>1, <1>2, <1>3 DEF Passed, TextWith
<1>6. f.masked /\ f.rsv = 0 /\ (CASE f.op \in Control -> f.fin /\ ~f.long
                     [] f.op \in Data -> r.op = "none"
                     [] f.op = "CONTINUATION" -> r.op # "none"
                     [] OTHER -> FALSE) <=> Headed(r, f)
  BY DEF Headed, Control, Data
<1> QED
  BY ONLY <1>2, <1>4, <1>5, <1>6 DEF Sized, Readable
-----------------------------------------------------------------------------
(* The message m is what is known of one that is being read: its bytes     *)
(* have been decoded so far.                                               *)
Holds(m, op, text) ==
  /\ m.op = op /\ m.payload = text
  /\ m.utf8 = (IF op = "TEXT" THEN Decode("accept", text) ELSE "accept") /\ m.utf8 # "reject"

(* The message of which the frames before have brought a part, if there is *)
(* one.                                                                    *)
Held(r) == IF r.op = "none" THEN m_data_msg = NoMsg ELSE Holds(m_data_msg, r.op, r.text)

(* In the frame f, which starts after the x-th byte, in its first two      *)
(* bytes, in the rest of its header, in its payload; r is what the frames  *)
(* before it mean.                                                         *)
InTwo(a, x, r, p) ==
  /\ m_state = "HEADER_BASIC" /\ m_bytes_needed \in 1 .. 2 /\ p = x + 2 - m_bytes_needed
  /\ m_basic_header = Window(a, x, p) /\ Held(r)

InRest(a, x, f, r, p) ==
  /\ m_state = "HEADER_EXTENDED" /\ Headed(r, f)
  /\ m_bytes_needed \in 1 .. HeadSize(f) /\ p = x + 2 + HeadSize(f) - m_bytes_needed
  /\ m_basic_header = Window(a, x, x + 2) /\ m_extended_header = Window(a, x + 2, p) /\ Held(r)

Prior(r, f) == IF f.op \in Control THEN <<>> ELSE r.text

InText(a, x, f, r, p) ==
  /\ m_state \in {"APPLICATION", "READY"} /\ Headed(r, f) /\ Sized(r, f)
  /\ m_basic_header = Window(a, x, x + 2)
  /\ m_current_msg = IF f.op \in Control THEN "control" ELSE "data"
  /\ f.op \in Control => Held(r)
  /\ \E j \in 0 .. Len(f.payload) :
       /\ m_bytes_needed = Len(f.payload) - j /\ p = x + 2 + HeadSize(f) + j
       /\ Holds(CurrentMsg, OpOf(r, f), Prior(r, f) \o SubSeq(f.payload, 1, j))
       /\ CurrentMsg.key = [key |-> f.key, next |-> j % KeyBytes]
  /\ m_state = "READY" => m_bytes_needed = 0 /\ Readable(r, f) /\ f.fin
-----------------------------------------------------------------------------
(* Whether a message is being read.                                        *)
LEMMA HeldIs ==
  ASSUME NEW r, Known(r), Held(r)
  PROVE  /\ m_data_msg = NoMsg <=> r.op = "none"
         /\ m_data_msg.payload = r.text /\ r.text \in Seq(STRING) /\ r.op \in Data \cup {"none"}
<1>1. r.text \in Seq(STRING) /\ r.op \in Data \cup {"none"} /\ (r.op = "none" => r.text = <<>>)
  BY DEF Known
<1>2. NoMsg.payload = <<>> /\ NoMsg.op = "none"
  BY DEF NoMsg
<1>3. CASE r.op = "none"
  BY <1>1, <1>2, <1>3 DEF Held
<1>4. CASE r.op # "none"
  <2>1. m_data_msg.op = r.op /\ m_data_msg.payload = r.text
    BY <1>4 DEF Held, Holds
  <2>2. m_data_msg # NoMsg
    BY <1>2, <1>4, <2>1
  <2> QED
    BY <1>1, <1>4, <2>1, <2>2
<1> QED
  BY <1>3, <1>4

LEMMA BasicErrorTells ==
  ASSUME NEW r, Known(r), Held(r), NEW f \in Frame13, NEW h,
         GetOpcode(h) = f.op, GetFin(h) = f.fin, GetRsv(h) = f.rsv, GetMasked(h) = f.masked, GetBasicSize(h) > MaxBasic <=> f.long
  PROVE  BasicError(h) = "none" <=> Headed(r, f)
<1>1. (m_data_msg = NoMsg <=> r.op = "none") /\ r.op \in Data \cup {"none"}
  BY HeldIs
<1>2. BasicError(h) =
        IF f.op \in Control /\ f.long THEN "control_too_big"
        ELSE IF f.rsv # 0 THEN "invalid_rsv_bit"
        ELSE IF f.op \notin Data \cup Control \cup {"CONTINUATION"} THEN "invalid_opcode"
        ELSE IF f.op \in Control /\ ~f.fin THEN "fragmented_control"
        ELSE IF f.op = "CONTINUATION" /\ r.op = "none" THEN "invalid_continuation"
        ELSE IF f.op \in Data /\ r.op # "none" THEN "invalid_continuation"
        ELSE IF ~f.masked THEN "masking_required"
        ELSE "none"
  <2>1. f.op \in Control /\ GetBasicSize(h) > MaxBasic <=> f.op \in Control /\ f.long
    OBVIOUS
  <2>2. f.op \in Control /\ ~GetFin(h) <=> f.op \in Control /\ ~f.fin
    OBVIOUS
  <2>3. f.op = "CONTINUATION" /\ m_data_msg = NoMsg <=> f.op = "CONTINUATION" /\ r.op = "none"
    BY <1>1
  <2>4. f.op \in Data /\ m_data_msg # NoMsg <=> f.op \in Data /\ r.op # "none"
    BY <1>1
  <2>5. ~GetMasked(h) <=> ~f.masked
    OBVIOUS
  <2>6. BasicError(h) =
        IF f.op \in Control /\ GetBasicSize(h) > MaxBasic THEN "control_too_big"
        ELSE IF GetRsv(h) # 0 THEN "invalid_rsv_bit"
        ELSE IF f.op \notin Data \cup Control \cup {"CONTINUATION"} THEN "invalid_opcode"
        ELSE IF f.op \in Control /\ ~GetFin(h) THEN "fragmented_control"
        ELSE IF f.op = "CONTINUATION" /\ m_data_msg = NoMsg THEN "invalid_continuation"
        ELSE IF f.op \in Data /\ m_data_msg # NoMsg THEN "invalid_continuation"
        ELSE IF ~GetMasked(h) THEN "masking_required"
        ELSE "none"
    BY GetOpcode(h) = f.op, Zenon DEF BasicError
  <2>7. GetRsv(h) # 0 <=> f.rsv # 0
    OBVIOUS
  <2> QED
    BY ONLY <2>1, <2>2, <2>3, <2>4, <2>5, <2>6, <2>7
<1> QED
  BY ONLY <1>2 DEF Headed, Data, Control

(* The first two bytes of a frame: the frame is refused there, with        *)
(* reason, or what they announce is read next.                             *)
LEMMA TwoRead ==
  ASSUME MessageType, NEW a \in Bytes0, NEW p, NEW q, Position(a, p, q),
         NEW f \in Frame13, NEW x, There(a, x, f), NEW r, Known(r), InTwo(a, x, r, p),
         HeaderBasic, input' = input
  PROVE  /\ delivered' = delivered
         /\ \E p2 \in Nat : /\ Position(a, p2, q)'
                            /\ \/ ec' = "none" /\ (InTwo(a, x, r, p2)' \/ InRest(a, x, f, r, p2)')
                               \/ ec' # "none" /\ ~Passed(r, f)
<1>1. m_bytes_needed \in 1 .. 2 /\ p = x + 2 - m_bytes_needed /\ m_basic_header = Window(a, x, p) /\ Held(r)
      /\ m_state = "HEADER_BASIC"
  BY DEF InTwo
<1>2. PICK need : need = m_bytes_needed
  OBVIOUS
<1>3. need \in 1 .. 2 /\ p = x + 2 - need /\ need \in Nat
  BY <1>1, <1>2
<1>4. PICK n \in Nat :
        /\ n = Available /\ n <= need /\ p + n <= q /\ n \in {need, q - p}
        /\ Take(n) = Window(a, p, p + n)
        /\ Skip(n) /\ input' = input => Position(a, p + n, q)'
  BY <1>2, <1>3, TakesAvailable
<1>5. p \in Nat /\ q \in Nat /\ q <= Len(a) /\ Len(a) \in Nat /\ p <= q
  BY <1>2, <1>3, TakesAvailable
<1>6. PICK p2 : p2 = p + n
  OBVIOUS
<1>7. Position(a, p2, q)'
  BY <1>4, <1>6 DEF HeaderBasic
<1>8. PICK h : h = m_basic_header \o Take(n)
  OBVIOUS
<1>9. x \in Nat
  BY DEF There
<1>10. h = Window(a, x, p2)
  <2>1. p2 \in 0 .. Len(a) /\ p \in 0 .. p2 /\ x \in 0 .. p
    BY ONLY <1>3, <1>4, <1>5, <1>6, <1>9
  <2>2. Window(a, x, p) \o Window(a, p, p2) = Window(a, x, p2)
    BY ONLY <2>1, WindowJoin, a \in Bytes0
  <2> QED
    BY <1>1, <1>4, <1>6, <1>8, <2>2
<1>11. /\ m_basic_header' = h /\ UNCHANGED <<messages, delivered>>
       /\ ec' = IF n = need THEN BasicError(h) ELSE "none"
       /\ IF n = need /\ ec' = "none"
            THEN m_state' = "HEADER_EXTENDED" /\ m_extended_header' = <<>> /\ m_bytes_needed' = GetHeaderLen(h)
            ELSE m_bytes_needed' = need - n /\ UNCHANGED <<m_state, m_extended_header>>
  BY <1>2, <1>4, <1>8 DEF HeaderBasic
<1>12. Held(r)'
  BY <1>1, <1>11 DEF Held, messages
<1>13. p2 \in Nat
  BY ONLY <1>4, <1>5, <1>6
<1>14. CASE n = need
  <2>1. p2 = x + 2
    BY ONLY <1>3, <1>6, <1>9, <1>14
  <2>2. h = Window(a, x, x + 2)
    BY ONLY <1>10, <2>1
  <2>3. /\ HeadSize(f) \in Nat
        /\ GetOpcode(h) = f.op /\ GetFin(h) = f.fin /\ GetRsv(h) = f.rsv /\ GetMasked(h) = f.masked
        /\ (GetBasicSize(h) > MaxBasic <=> f.long) /\ GetHeaderLen(h) = HeadSize(f)
    BY <2>2, HeadTells
  <2>4. BasicError(h) = "none" <=> Headed(r, f)
    BY <1>1, <2>3, BasicErrorTells
  <2>5. CASE Headed(r, f)
    <3>1. f.masked
      BY <2>5 DEF Headed
    <3>2. HeadSize(f) > 0
      BY <3>1 DEF There
    <3>3. ec' = "none" /\ m_state' = "HEADER_EXTENDED" /\ m_extended_header' = <<>> /\ m_bytes_needed' = HeadSize(f)
      BY <1>11, <1>14, <2>3, <2>4, <2>5
    <3>4. PICK size : size = HeadSize(f)
      OBVIOUS
    <3>5. size \in 1 .. size /\ p2 = x + 2 + size - size
      BY ONLY <1>9, <2>1, <2>3, <3>2, <3>4
    <3>6. Window(a, x + 2, p2) = <<>>
      <4>1. p2 \in 0 .. Len(a) /\ p2 \in 0 .. p2
        BY ONLY <1>4, <1>5, <1>6, <1>13
      <4> QED
        BY ONLY <2>1, <4>1, WindowEmpty, a \in Bytes0
    <3>7. InRest(a, x, f, r, p2)'
      BY <1>11, <1>12, <2>2, <2>5, <3>3, <3>4, <3>5, <3>6 DEF InRest
    <3> QED
      BY <1>7, <1>11, <1>13, <3>3, <3>7
  <2>6. CASE ~Headed(r, f)
    <3>1. ~Passed(r, f)
      BY <2>6, PassedIs
    <3> QED
      BY <1>7, <1>11, <1>13, <1>14, <2>4, <2>6, <3>1
  <2> QED
    BY <2>5, <2>6
<1>15. CASE n # need
  <2>1. ec' = "none" /\ m_bytes_needed' = need - n /\ m_state' = "HEADER_BASIC" /\ m_basic_header' = Window(a, x, p2)
    BY <1>1, <1>10, <1>11, <1>15
  <2>2. need - n \in 1 .. 2 /\ p2 = x + 2 - (need - n)
    BY ONLY <1>3, <1>4, <1>6, <1>9, <1>15
  <2>3. InTwo(a, x, r, p2)'
    BY <1>12, <2>1, <2>2 DEF InTwo
  <2> QED
    BY <1>7, <1>11, <1>13, <2>1, <2>3
<1> QED
  BY <1>14, <1>15
-----------------------------------------------------------------------------
(* A payload that has come in part.                                        *)
LEMMA PartOf ==
  ASSUME NEW t \in Seq(STRING), NEW j \in 0 .. Len(t)
  PROVE  SubSeq(t, 1, j) \in Seq(STRING) /\ Len(SubSeq(t, 1, j)) = j /\ SubSeq(t, 1, 0) = <<>> /\ SubSeq(t, 1, Len(t)) = t
<1>1. Len(t) \in Nat
  OBVIOUS
<1>2. SubSeq(t, 1, j) \in Seq(STRING) /\ Len(SubSeq(t, 1, j)) = j
  BY TakeAndSkip
<1>3. SubSeq(t, 1, Len(t)) = t
  BY SubSeqFull
<1>4. SubSeq(t, 1, 0) = <<>>
  <2>1. 0 \in 0 .. Len(t)
    BY <1>1
  <2>2. PICK s : s = SubSeq(t, 1, 0)
    OBVIOUS
  <2>3. s \in Seq(STRING) /\ Len(s) = 0
    BY <2>1, <2>2, TakeAndSkip
  <2>4. s = <<>>
    BY ONLY <2>3, EmptySeq
  <2> QED
    BY <2>2, <2>4
<1> QED
  BY <1>2, <1>3, <1>4

(* Nothing decoded.                                                        *)
LEMMA DecodeNothing == Decode("accept", <<>>) = "accept"
<1>1. <<>> \in Seq(STRING) /\ Len(<<>>) = 0
  BY EmptySeq
<1>2. PICK d : d[0] = "accept" /\ d[Len(<<>>)] = Decode("accept", <<>>)
  BY <1>1, DecodeRun
<1> QED
  BY <1>1, <1>2

LEMMA PriorIs ==
  ASSUME NEW r, Known(r), NEW f \in Frame13
  PROVE  /\ Prior(r, f) \in Seq(STRING) /\ f.payload \in Seq(STRING)
         /\ TextWith(r, f) = Prior(r, f) \o f.payload /\ TextWith(r, f) \in Seq(STRING)
         /\ Len(TextWith(r, f)) = Len(Prior(r, f)) + Len(f.payload)
         /\ f.op \notin Control => Prior(r, f) = r.text
<1>1. <<>> \in Seq(STRING)
  BY EmptySeq
<1>2. PICK u, v : u = Prior(r, f) /\ v = f.payload
  OBVIOUS
<1>3. u \in Seq(STRING) /\ v \in Seq(STRING)
  BY <1>1, <1>2 DEF Prior, Known, Frame13
<1>4. u \o v \in Seq(STRING) /\ Len(u \o v) = Len(u) + Len(v)
  BY ONLY <1>3, ConcatProperties
<1>5. TextWith(r, f) = u \o v
  BY <1>2 DEF TextWith, Prior
<1>6. f.op \notin Control => u = r.text
  BY <1>2 DEF Prior
<1> QED
  BY ONLY <1>2, <1>3, <1>4, <1>5, <1>6

LEMMA ExtendedErrorTells ==
  ASSUME NEW r, Known(r), Held(r), NEW f \in Frame13, NEW h, NEW e,
         GetOpcode(h) = f.op, GetBasicSize(h) = SizeCode <=> f.long, f.long => e[1].n = Len(f.payload),
         GetPayloadSize(h, e) = Len(f.payload)
  PROVE  ExtendedError(h, e) = "none" <=> Sized(r, f)
<1>1. PICK size : size = Len(f.payload)
  OBVIOUS
<1>2. PICK prior : prior = Len(r.text)
  OBVIOUS
<1>3. size \in Nat /\ prior \in Nat /\ MaxBasic \in Nat /\ MaxMessage \in Nat
  <2>1. f.payload \in Seq(STRING) /\ r.text \in Seq(STRING)
    BY HeldIs, PriorIs
  <2> QED
    BY <1>1, <1>2, <2>1, FramesAssumption
<1>4. m_data_msg.payload = r.text
  BY HeldIs
<1>5. ExtendedError(h, e) =
        IF GetBasicSize(h) = SizeCode /\ e[1].n <= MaxBasic THEN "non_minimal_encoding"
        ELSE IF f.op \notin Control /\ prior + size > MaxMessage THEN "message_too_big"
        ELSE "none"
  BY <1>1, <1>2, <1>4, GetOpcode(h) = f.op, GetPayloadSize(h, e) = Len(f.payload), Zenon DEF ExtendedError, NonMinimal, TooBig
<1>6. GetBasicSize(h) = SizeCode /\ e[1].n <= MaxBasic <=> f.long /\ size <= MaxBasic
  BY <1>1
<1>7. f.op \notin Control => Len(TextWith(r, f)) = prior + size
  BY <1>1, <1>2, PriorIs
<1>8. Sized(r, f) <=> /\ f.long => size > MaxBasic
                      /\ f.op \notin Control => prior + size <= MaxMessage
  BY <1>1, <1>7 DEF Sized
<1>9. "non_minimal_encoding" # "none" /\ "message_too_big" # "none"
  OBVIOUS
<1> QED
  BY ONLY <1>3, <1>5, <1>6, <1>8, <1>9

(* A message begins.                                                       *)
LEMMA Begins ==
  ASSUME NEW key
  PROVE  /\ \A op : op # "TEXT" => Holds([NoMsg EXCEPT !.op = op, !.key = key], op, <<>>)
         /\ Holds([NoMsg EXCEPT !.op = "TEXT", !.key = key], "TEXT", <<>>)
         /\ \A op : [NoMsg EXCEPT !.op = op, !.key = key].key = key
<1>1. ASSUME NEW op
      PROVE  LET m == [NoMsg EXCEPT !.op = op, !.key = key]
             IN m.op = op /\ m.payload = <<>> /\ m.utf8 = "accept" /\ m.key = key
  BY DEF NoMsg
<1>2. Decode("accept", <<>>) = "accept" /\ "accept" # "reject"
  BY DecodeNothing
<1> QED
  BY <1>1, <1>2 DEF Holds

LEMMA Begun ==
  ASSUME NEW r, Known(r), Held(r), NEW f \in Frame13, Headed(r, f), m_data_msg \in MsgType,
         NEW h, NEW e, GetOpcode(h) = f.op, Last(e).key = f.key, BeginPayload(h, e)
  PROVE  /\ m_current_msg' = IF f.op \in Control THEN "control" ELSE "data"
         /\ f.op \in Control => Held(r)'
         /\ Holds(CurrentMsg, OpOf(r, f), Prior(r, f))'
         /\ (CurrentMsg.key = [key |-> f.key, next |-> 0])'
<1>1. PICK key : key = [key |-> f.key, next |-> 0]
  OBVIOUS
<1>2. GetMaskingKey(h, e) = key
  BY <1>1 DEF GetMaskingKey
<1>3. PICK new : new = [NoMsg EXCEPT !.op = f.op, !.key = key]
  OBVIOUS
<1>4. Holds(new, f.op, <<>>) /\ new.key = key
  BY <1>3, Begins
<1>5. CASE f.op \in Control
  <2>1. m_current_msg' = "control" /\ m_control_msg' = new /\ m_data_msg' = m_data_msg
    BY <1>2, <1>3, <1>5 DEF BeginPayload
  <2>2. CurrentMsg' = new
    BY <2>1 DEF CurrentMsg
  <2>3. OpOf(r, f) = f.op /\ Prior(r, f) = <<>>
    BY <1>5 DEF OpOf, Prior, Control
  <2>4. Held(r)'
    BY <2>1 DEF Held
  <2> QED
    BY <1>1, <1>4, <1>5, <2>1, <2>2, <2>3, <2>4 DEF Holds
<1>6. CASE f.op \notin Control
  <2>1. m_current_msg' = "data"
        /\ m_data_msg' = IF m_data_msg = NoMsg THEN new ELSE [m_data_msg EXCEPT !.key = key]
    BY <1>2, <1>3, <1>6 DEF BeginPayload
  <2>2. CurrentMsg' = m_data_msg'
    BY <2>1 DEF CurrentMsg
  <2>3. (m_data_msg = NoMsg <=> r.op = "none") /\ r.op \in Data \cup {"none"} /\ (r.op = "none" => r.text = <<>>)
    BY HeldIs DEF Known
  <2>4. Prior(r, f) = r.text
    BY <1>6 DEF Prior
  <2>5. CASE r.op = "none"
    <3>1. f.op \in Data
      BY <1>6, <2>5 DEF Headed
    <3>2. OpOf(r, f) = f.op
      BY <3>1 DEF OpOf, Data
    <3>3. m_data_msg' = new
      BY <2>1, <2>3, <2>5
    <3> QED
      BY <1>1, <1>4, <1>6, <2>1, <2>2, <2>3, <2>4, <2>5, <3>2, <3>3 DEF Holds
  <2>6. CASE r.op # "none"
    <3>1. f.op = "CONTINUATION"
      BY <1>6, <2>6 DEF Headed
    <3>2. OpOf(r, f) = r.op
      BY <3>1 DEF OpOf
    <3>3. m_data_msg' = [m_data_msg EXCEPT !.key = key]
      BY <2>1, <2>3, <2>6
    <3>4. Holds(m_data_msg, r.op, r.text)
      BY <2>6 DEF Held
    <3>5. /\ m_data_msg'.op = m_data_msg.op /\ m_data_msg'.payload = m_data_msg.payload
          /\ m_data_msg'.utf8 = m_data_msg.utf8 /\ m_data_msg'.key = key
      BY <3>3 DEF MsgType
    <3>6. Holds(m_data_msg, r.op, r.text)'
      BY <3>4, <3>5 DEF Holds
    <3> QED
      BY <1>1, <1>6, <2>1, <2>2, <2>4, <3>2, <3>5, <3>6 DEF Holds
  <2> QED
    BY <2>5, <2>6
<1> QED
  BY <1>5, <1>6

(* The rest of the header: the frame is refused, or its payload is next.   *)
LEMMA RestRead ==
  ASSUME MessageType, NEW a \in Bytes0, NEW p, NEW q, Position(a, p, q),
         NEW f \in Frame13, NEW x, There(a, x, f), NEW r, Known(r), InRest(a, x, f, r, p),
         HeaderExtended, input' = input
  PROVE  /\ delivered' = delivered
         /\ \E p2 \in Nat : /\ Position(a, p2, q)'
                            /\ \/ ec' = "none" /\ (InRest(a, x, f, r, p2)' \/ InText(a, x, f, r, p2)')
                               \/ ec' # "none" /\ ~Passed(r, f)
<1>1. /\ m_state = "HEADER_EXTENDED" /\ Headed(r, f)
      /\ m_bytes_needed \in 1 .. HeadSize(f) /\ p = x + 2 + HeadSize(f) - m_bytes_needed
      /\ m_basic_header = Window(a, x, x + 2) /\ m_extended_header = Window(a, x + 2, p) /\ Held(r)
  BY DEF InRest
<1>2. PICK need, head : need = m_bytes_needed /\ head = HeadSize(f)
  OBVIOUS
<1>3. x \in Nat /\ head \in Nat
  BY <1>2 DEF There
<1>20. need \in 1 .. head /\ p = x + 2 + head - need /\ need \in Nat
  BY <1>1, <1>2, <1>3
<1>4. PICK n \in Nat :
        /\ n = Available /\ n <= need /\ p + n <= q /\ n \in {need, q - p}
        /\ Take(n) = Window(a, p, p + n)
        /\ Skip(n) /\ input' = input => Position(a, p + n, q)'
  BY <1>2, <1>20, TakesAvailable
<1>5. p \in Nat /\ q \in Nat /\ q <= Len(a) /\ Len(a) \in Nat /\ p <= q
  BY <1>2, <1>20, TakesAvailable
<1>6. PICK p2 : p2 = p + n
  OBVIOUS
<1>7. Position(a, p2, q)'
  BY <1>4, <1>6 DEF HeaderExtended
<1>8. PICK h, e : h = m_basic_header /\ e = m_extended_header \o Take(n)
  OBVIOUS
<1>9. p2 \in Nat
  BY ONLY <1>4, <1>5, <1>6
<1>10. e = Window(a, x + 2, p2)
  <2>1. PICK y : y = x + 2
    OBVIOUS
  <2>2. p2 \in 0 .. Len(a) /\ p \in 0 .. p2 /\ y \in 0 .. p
    BY ONLY <1>3, <1>20, <1>4, <1>5, <1>6, <2>1
  <2>3. Window(a, y, p) \o Window(a, p, p2) = Window(a, y, p2)
    BY ONLY <2>2, WindowJoin, a \in Bytes0
  <2> QED
    BY <1>1, <1>4, <1>6, <1>8, <2>1, <2>3
<1>11. /\ m_extended_header' = e /\ m_basic_header' = h /\ delivered' = delivered
       /\ ec' = IF n = need THEN ExtendedError(h, e) ELSE "none"
       /\ IF n = need /\ ec' = "none"
            THEN m_state' = "APPLICATION" /\ m_bytes_needed' = GetPayloadSize(h, e) /\ BeginPayload(h, e)
            ELSE m_bytes_needed' = need - n /\ UNCHANGED <<m_state, messages>>
  BY <1>2, <1>4, <1>8 DEF HeaderExtended
<1>12. h = Window(a, x, x + 2)
  BY <1>1, <1>8
<1>13. f.masked
  BY <1>1 DEF Headed
<1>14. CASE n = need
  <2>1. p2 = x + 2 + head
    BY ONLY <1>3, <1>20, <1>4, <1>5, <1>6, <1>14
  <2>2. e = Window(a, x + 2, x + 2 + HeadSize(f))
    BY ONLY <1>2, <1>10, <2>1
  <2>3. GetOpcode(h) = f.op /\ (GetBasicSize(h) = SizeCode <=> f.long) /\ Len(f.payload) \in Nat
    BY <1>12, HeadTells
  <2>4. GetPayloadSize(h, e) = Len(f.payload) /\ Last(e).key = f.key /\ (f.long => e[1].n = Len(f.payload))
    BY <1>12, <1>13, <2>2, RestTells
  <2>5. ExtendedError(h, e) = "none" <=> Sized(r, f)
    BY <1>1, <2>3, <2>4, ExtendedErrorTells
  <2>6. CASE Sized(r, f)
    <3>1. ec' = "none" /\ m_state' = "APPLICATION" /\ m_bytes_needed' = Len(f.payload) /\ BeginPayload(h, e)
      BY <1>11, <1>14, <2>4, <2>5, <2>6
    <3>2. m_data_msg \in MsgType
      BY DEF MessageType
    <3>3. /\ m_current_msg' = IF f.op \in Control THEN "control" ELSE "data"
          /\ f.op \in Control => Held(r)'
          /\ Holds(CurrentMsg, OpOf(r, f), Prior(r, f))'
          /\ (CurrentMsg.key = [key |-> f.key, next |-> 0])'
      BY <1>1, <2>3, <2>4, <3>1, <3>2, Begun
    <3>4. PICK size : size = Len(f.payload)
      OBVIOUS
    <3>5. 0 \in 0 .. size /\ size = size - 0 /\ p2 = x + 2 + head + 0 /\ 0 % KeyBytes = 0
      BY <1>3, <2>1, <2>3, <3>4, FramesAssumption
    <3>6. Prior(r, f) \o SubSeq(f.payload, 1, 0) = Prior(r, f)
      <4>1. Prior(r, f) \in Seq(STRING) /\ f.payload \in Seq(STRING)
        BY PriorIs
      <4>2. 0 \in 0 .. Len(f.payload)
        BY <2>3
      <4>3. SubSeq(f.payload, 1, 0) = <<>>
        BY ONLY <4>1, <4>2, PartOf
      <4> QED
        BY ONLY <4>1, <4>3, ConcatEmptySeq
    <3>7. (\E j \in 0 .. Len(f.payload) :
             /\ m_bytes_needed = Len(f.payload) - j /\ p2 = x + 2 + HeadSize(f) + j
             /\ Holds(CurrentMsg, OpOf(r, f), Prior(r, f) \o SubSeq(f.payload, 1, j))
             /\ CurrentMsg.key = [key |-> f.key, next |-> j % KeyBytes])'
      BY <1>2, <3>1, <3>3, <3>4, <3>5, <3>6
    <3>8. m_basic_header' = Window(a, x, x + 2)
      BY <1>11, <1>12
    <3>9. InText(a, x, f, r, p2)'
      BY <1>1, <2>6, <3>1, <3>3, <3>7, <3>8 DEF InText
    <3> QED
      BY <1>7, <1>9, <1>11, <3>1, <3>9
  <2>7. CASE ~Sized(r, f)
    <3>1. ~Passed(r, f)
      BY <2>7, PassedIs
    <3> QED
      BY <1>7, <1>9, <1>11, <1>14, <2>5, <2>7, <3>1
  <2> QED
    BY <2>6, <2>7
<1>15. CASE n # need
  <2>1. ec' = "none" /\ m_bytes_needed' = need - n /\ m_state' = "HEADER_EXTENDED" /\ UNCHANGED messages
    BY <1>1, <1>11, <1>15
  <2>2. need - n \in 1 .. head /\ p2 = x + 2 + head - (need - n)
    BY ONLY <1>3, <1>20, <1>4, <1>6, <1>15
  <2>3. Held(r)'
    BY <1>1, <2>1 DEF Held, messages
  <2>4. m_basic_header' = Window(a, x, x + 2) /\ m_extended_header' = Window(a, x + 2, p2)
    BY <1>10, <1>11, <1>12
  <2>5. InRest(a, x, f, r, p2)'
    BY <1>1, <1>2, <2>1, <2>2, <2>3, <2>4 DEF InRest
  <2> QED
    BY <1>7, <1>9, <1>11, <2>1, <2>5
<1> QED
  BY <1>14, <1>15
-----------------------------------------------------------------------------
(* The next n characters of a payload, unmasked.                           *)
LEMMA Unmasked ==
  ASSUME NEW a \in Bytes0, NEW f \in Frame13, NEW x, There(a, x, f), NEW j \in Nat, NEW n \in Nat,
         j + n <= Len(f.payload), NEW p, p = x + 2 + HeadSize(f) + j
  PROVE  Unmask(Window(a, p, p + n), [key |-> f.key, next |-> j % KeyBytes]) = SubSeq(f.payload, j + 1, j + n)
<1>1. PICK t, size, head, m : t = f.payload /\ size = Len(t) /\ head = HeadSize(f) /\ m = Len(a)
  OBVIOUS
<1>2. x \in Nat /\ head \in Nat /\ size \in Nat /\ x + 2 + head + size <= m
  BY <1>1 DEF There
<1>3. m \in Nat
  BY <1>1 DEF Bytes0
<1>4. p = x + 2 + head + j /\ j + n <= size
  BY <1>1
<1>5. PICK p2, start : p2 = p + n /\ start = x + 2 + head
  OBVIOUS
<1>6. p2 \in 0 .. m /\ p \in 0 .. p2 /\ p2 - p = n
  BY ONLY <1>2, <1>3, <1>4, <1>5, j \in Nat, n \in Nat
<1>7. PICK b : b = Window(a, p, p2)
  OBVIOUS
<1>8. b \in Bytes0 /\ Len(b) = n /\ \A i \in 1 .. n : b[i] = a[p + i]
  BY ONLY <1>1, <1>6, <1>7, WindowIs, a \in Bytes0
<1>9. \A i \in 1 .. size : a[start + i].s = t[i] /\ a[start + i].key = f.key /\ a[start + i].n = (i - 1) % KeyBytes
  BY <1>1, <1>5 DEF There
<1>10. PICK next : next = j % KeyBytes
  OBVIOUS
<1>11. PICK key : key = [key |-> f.key, next |-> next]
  OBVIOUS
<1>12. key.key = f.key /\ key.next = next
  BY <1>11
<1>13. PICK u : u = Unmask(b, key)
  OBVIOUS
<1>14. t \in Seq(STRING)
  BY <1>1 DEF Frame13
<1>15. PICK v : v = SubSeq(t, j + 1, j + n)
  OBVIOUS
<1>16. v \in Seq(STRING) /\ Len(v) = n /\ \A i \in 1 .. n : v[i] = t[j + i]
  <2>1. PICK c, d : c = j + 1 /\ d = j + n
    OBVIOUS
  <2>2. \A i \in c .. d : i \in 1 .. size
    BY ONLY <1>2, <1>4, <2>1, j \in Nat, n \in Nat
  <2>3. \A i \in c .. d : t[i] \in STRING
    BY ONLY <1>1, <1>14, <2>2
  <2>4. c \in Int /\ d \in Int
    BY ONLY <2>1, j \in Nat, n \in Nat
  <2>5. /\ SubSeq(t, c, d) \in Seq(STRING)
        /\ Len(SubSeq(t, c, d)) = IF c <= d THEN d - c + 1 ELSE 0
        /\ \A i \in 1 .. d - c + 1 : SubSeq(t, c, d)[i] = t[c + i - 1]
    BY ONLY <2>3, <2>4, SubSeqProperties
  <2>6. v = SubSeq(t, c, d)
    BY ONLY <1>15, <2>1
  <2>7. (IF c <= d THEN d - c + 1 ELSE 0) = n /\ d - c + 1 = n /\ \A i \in 1 .. n : c + i - 1 = j + i
    BY ONLY <2>1, j \in Nat, n \in Nat
  <2> QED
    BY ONLY <2>5, <2>6, <2>7
<1>17. DOMAIN b = 1 .. n
  BY <1>8 DEF Bytes0
<1>18. u = [i \in 1 .. n |-> IF b[i].key = f.key /\ b[i].n = (next + i - 1) % KeyBytes THEN b[i].s ELSE "garbage"]
  BY ONLY <1>12, <1>13, <1>17 DEF Unmask
<1>19. ASSUME NEW i \in 1 .. n
       PROVE  u[i] = v[i]
  <2>1. PICK g : g = j + i
    OBVIOUS
  <2>2. g \in 1 .. size /\ p + i = start + g /\ g \in Nat /\ i - 1 \in Nat /\ g - 1 = j + (i - 1)
    BY ONLY <1>2, <1>4, <1>5, <2>1, j \in Nat, n \in Nat, i \in 1 .. n
  <2>3. b[i] = a[start + g]
    BY ONLY <1>8, <2>2, i \in 1 .. n
  <2>4. b[i].s = t[g] /\ b[i].key = f.key /\ b[i].n = (g - 1) % KeyBytes
    BY ONLY <1>9, <2>2, <2>3
  <2>5. PICK y : y = i - 1
    OBVIOUS
  <2>6. y \in Nat /\ g - 1 = j + y
    BY ONLY <2>2, <2>5
  <2>7. KeyBytes \in Nat \ {0}
    BY FramesAssumption
  <2>8. ((j % KeyBytes) + y) % KeyBytes = (j + y) % KeyBytes /\ j % KeyBytes \in Nat
    BY ONLY <2>6, <2>7, j \in Nat, ModPlus
  <2>9. next \in Nat
    BY ONLY <1>10, <2>8
  <2>10. next + i - 1 = next + y
    BY ONLY <2>5, <2>9, i \in 1 .. n, n \in Nat
  <2>11. b[i].n = (next + i - 1) % KeyBytes
    BY ONLY <1>10, <2>4, <2>6, <2>8, <2>10, Zenon
  <2>12. u[i] = b[i].s
    BY ONLY <1>18, <2>4, <2>11, i \in 1 .. n, Zenon
  <2>13. v[i] = t[g]
    BY ONLY <1>16, <2>1, i \in 1 .. n
  <2> QED
    BY ONLY <2>4, <2>12, <2>13
<1>20. \A i \in 1 .. n : v[i] \in STRING
  BY ONLY <1>16
<1>21. u \in Seq(STRING) /\ Len(u) = n
  <2>1. DOMAIN u = 1 .. n /\ u = [i \in 1 .. n |-> u[i]]
    BY ONLY <1>18, Zenon
  <2>2. \A i \in 1 .. n : u[i] \in STRING
    BY ONLY <1>19, <1>20
  <2> QED
    BY ONLY <2>1, <2>2, SeqEqual2, n \in Nat
<1>22. u = v
  BY ONLY <1>16, <1>19, <1>21, SeqEqual
<1> QED
  BY ONLY <1>1, <1>5, <1>7, <1>10, <1>11, <1>13, <1>15, <1>22

(* A part of a text, and what follows of it.                               *)
Grows(u, t, j, i) ==
  /\ (u \o SubSeq(t, 1, j)) \o SubSeq(t, j + 1, i) = u \o SubSeq(t, 1, i)
  /\ u \o SubSeq(t, 1, j) \in Seq(STRING) /\ SubSeq(t, j + 1, i) \in Seq(STRING)

LEMMA PartGrows ==
  ASSUME NEW u \in Seq(STRING), NEW t \in Seq(STRING), NEW j \in Nat, NEW n \in Nat, NEW i, i = j + n, i <= Len(t)
  PROVE  Grows(u, t, j, i)
<1>1. PICK size : size = Len(t)
  OBVIOUS
<1>2. size \in Nat /\ i <= size
  BY <1>1
<1>3. j \in 0 .. size /\ i \in 0 .. size /\ i \in j .. size /\ 1 \in 1 .. size + 1 /\ j \in 1 - 1 .. size
  BY ONLY <1>2, i = j + n, j \in Nat, n \in Nat
<1>4. SubSeq(t, 1, j) \o SubSeq(t, j + 1, i) = SubSeq(t, 1, i)
  BY ONLY <1>1, <1>3, ConcatAdjacentSubSeq, t \in Seq(STRING)
<1>5. SubSeq(t, 1, j) \in Seq(STRING)
  BY ONLY <1>1, <1>3, PartOf, t \in Seq(STRING)
<1>6. SubSeq(t, j + 1, i) \in Seq(STRING)
  <2>1. PICK c : c = j + 1
    OBVIOUS
  <2>2. c \in Int /\ i \in Int /\ \A k \in c .. i : k \in 1 .. size
    BY ONLY <1>2, <1>3, <2>1, j \in Nat
  <2>3. \A k \in c .. i : t[k] \in STRING
    BY ONLY <1>1, <2>2, t \in Seq(STRING)
  <2> QED
    BY ONLY <2>1, <2>2, <2>3, SubSeqProperties
<1>7. PICK v, w : v = SubSeq(t, 1, j) /\ w = SubSeq(t, j + 1, i)
  OBVIOUS
<1>8. (u \o v) \o w = u \o (v \o w) /\ u \o v \in Seq(STRING)
  <2>1. v \in Seq(STRING) /\ w \in Seq(STRING)
    BY ONLY <1>5, <1>6, <1>7
  <2>2. (u \o v) \o w = u \o (v \o w)
    BY ONLY <2>1, u \in Seq(STRING), ConcatAssociative
  <2>3. u \o v \in Seq(STRING)
    BY ONLY <2>1, u \in Seq(STRING), ConcatProperties
  <2> QED
    BY ONLY <2>2, <2>3
<1> QED
  BY ONLY <1>4, <1>6, <1>7, <1>8 DEF Grows

(* What is in a message after some more of a frame's payload.              *)
Took(m, op, text) ==
  m.op = op /\ m.payload = text /\ m.utf8 = (IF op = "TEXT" THEN Decode("accept", text) ELSE "accept")

HoldsPart(msg, op, u, f, j) ==
  msg \in MsgType /\ Holds(msg, op, u \o SubSeq(f.payload, 1, j)) /\ msg.key = [key |-> f.key, next |-> j % KeyBytes]

TookPart(msg, op, u, f, i) ==
  Took(msg, op, u \o SubSeq(f.payload, 1, i)) /\ msg.key = [key |-> f.key, next |-> i % KeyBytes]

LEMMA Takes13 ==
  ASSUME NEW a \in Bytes0, NEW f \in Frame13, NEW x, There(a, x, f), NEW j \in Nat, NEW n \in Nat,
         NEW i, i = j + n, i <= Len(f.payload), NEW p, p = x + 2 + HeadSize(f) + j,
         NEW u \in Seq(STRING), NEW op, NEW msg, HoldsPart(msg, op, u, f, j),
         Take(n) = Window(a, p, p + n)
  PROVE  TookPart(ProcessPayload(msg, n), op, u, f, i)
<1> SUFFICES /\ Took(ProcessPayload(msg, n), op, u \o SubSeq(f.payload, 1, i))
             /\ ProcessPayload(msg, n).key = [key |-> f.key, next |-> i % KeyBytes]
  BY DEF TookPart
<1>0. msg \in MsgType /\ Holds(msg, op, u \o SubSeq(f.payload, 1, j)) /\ msg.key = [key |-> f.key, next |-> j % KeyBytes]
  BY DEF HoldsPart
<1>1. PICK v, w : v = u \o SubSeq(f.payload, 1, j) /\ w = SubSeq(f.payload, j + 1, i)
  OBVIOUS
<1>2. f.payload \in Seq(STRING)
  BY DEF Frame13
<1>3. v \o w = u \o SubSeq(f.payload, 1, i) /\ v \in Seq(STRING) /\ w \in Seq(STRING)
  <2>1. PICK t : t = f.payload
    OBVIOUS
  <2>2. t \in Seq(STRING) /\ i <= Len(t)
    BY ONLY <1>2, <2>1, i <= Len(f.payload)
  <2>3. Grows(u, t, j, i)
    BY ONLY <2>2, PartGrows, u \in Seq(STRING), j \in Nat, n \in Nat, i = j + n, Zenon
  <2> QED
    BY ONLY <1>1, <2>1, <2>3 DEF Grows
<1>4. Unmask(Take(n), msg.key) = w
  <2>1. j + n <= Len(f.payload)
    BY ONLY i = j + n, i <= Len(f.payload)
  <2>2. Unmask(Window(a, p, p + n), [key |-> f.key, next |-> j % KeyBytes]) = SubSeq(f.payload, j + 1, j + n)
    BY <2>1, Unmasked
  <2> QED
    BY ONLY <1>1, <2>2, i = j + n, <1>0, Take(n) = Window(a, p, p + n)
<1>5. msg.op = op /\ msg.payload = v /\ msg.utf8 = (IF op = "TEXT" THEN Decode("accept", v) ELSE "accept")
  BY ONLY <1>0, <1>1 DEF Holds
<1>6. PICK state : state = IF op = "TEXT" THEN Decode("accept", v \o w) ELSE "accept"
  OBVIOUS
<1>7. (IF msg.op = "TEXT" THEN Decode(msg.utf8, w) ELSE msg.utf8) = state
  <2>1. Decode("accept", v \o w) = Decode(Decode("accept", v), w)
    BY ONLY <1>3, DecodeBoth
  <2> QED
    BY ONLY <1>5, <1>6, <2>1
<1>8. PICK next : next = i % KeyBytes
  OBVIOUS
<1>9. Rotate(msg.key, n) = [key |-> f.key, next |-> next]
  <2>1. ((j % KeyBytes) + n) % KeyBytes = (j + n) % KeyBytes
    BY ONLY FramesAssumption, ModPlus, j \in Nat, n \in Nat DEF FramesAssumption
  <2>2. PICK y : y = j % KeyBytes
    OBVIOUS
  <2>3. (y + n) % KeyBytes = next
    BY ONLY <1>8, <2>1, <2>2, i = j + n, Zenon
  <2>4. msg.key = [key |-> f.key, next |-> y]
    BY ONLY <2>2, <1>0
  <2> QED
    BY ONLY <2>3, <2>4 DEF Rotate
<1>10. PICK key : key = [key |-> f.key, next |-> next]
  OBVIOUS
<1>11. ProcessPayload(msg, n) = [msg EXCEPT !.payload = v \o w, !.key = key, !.utf8 = state]
  <2>1. ProcessPayload(msg, n) =
          [msg EXCEPT !.payload = msg.payload \o w, !.key = Rotate(msg.key, n),
                      !.utf8 = IF msg.op = "TEXT" THEN Decode(msg.utf8, w) ELSE msg.utf8]
    BY ONLY <1>4 DEF ProcessPayload
  <2> QED
    BY ONLY <1>5, <1>7, <1>9, <1>10, <2>1
<1>12. PICK new : new = ProcessPayload(msg, n)
  OBVIOUS
<1>13. new.op = msg.op /\ new.payload = v \o w /\ new.key = key /\ new.utf8 = state
  BY ONLY <1>11, <1>12, <1>0 DEF MsgType
<1>14. Took(new, op, v \o w)
  BY ONLY <1>5, <1>6, <1>13 DEF Took
<1> QED
  BY ONLY <1>3, <1>8, <1>10, <1>12, <1>13, <1>14
-----------------------------------------------------------------------------
(* A text that has been refused before its end is not well-formed, however *)
(* it ends.                                                                *)
LEMMA RefusedEarly ==
  ASSUME NEW t \in Seq(STRING), NEW u \in Seq(STRING), Decode("accept", t) = "reject"
  PROVE  ~WellFormed(t \o u)
<1>1. t \o u \in Seq(STRING)
  BY ConcatProperties
<1>2. Decode("accept", t \o u) = Decode("reject", u)
  BY DecodeBoth
<1>3. Decode("reject", u) = "reject"
  BY DecodeRejected
<1> QED
  BY <1>1, <1>2, <1>3, WellFormedDecodes

(* All the characters of a frame are its first i and the others.           *)
Splits(r, f, i) ==
  LET text == Prior(r, f) \o SubSeq(f.payload, 1, i)
  IN /\ text \in Seq(STRING)
     /\ \E u \in Seq(STRING) : TextWith(r, f) = text \o u
     /\ i = Len(f.payload) => TextWith(r, f) = text

LEMMA TextInTwo ==
  ASSUME NEW r, Known(r), NEW f \in Frame13, NEW i \in 0 .. Len(f.payload)
  PROVE  Splits(r, f, i)
<1> SUFFICES ASSUME NEW text, text = Prior(r, f) \o SubSeq(f.payload, 1, i)
             PROVE  /\ text \in Seq(STRING)
                    /\ \E u \in Seq(STRING) : TextWith(r, f) = text \o u
                    /\ i = Len(f.payload) => TextWith(r, f) = text
  BY DEF Splits
<1>1. PICK t, p, size : t = f.payload /\ p = Prior(r, f) /\ size = Len(t)
  OBVIOUS
<1>2. t \in Seq(STRING) /\ p \in Seq(STRING) /\ TextWith(r, f) = p \o t
  BY <1>1, PriorIs
<1>3. size \in Nat /\ i \in 0 .. size
  BY <1>1, <1>2
<1>4. PICK n : n = size - i
  OBVIOUS
<1>5. n \in Nat /\ size = i + n /\ size <= size /\ i \in Nat
  BY ONLY <1>3, <1>4
<1>6. Grows(p, t, i, size)
  BY ONLY <1>1, <1>2, <1>5, PartGrows
<1>7. SubSeq(t, 1, size) = t
  BY <1>1, <1>2, SubSeqFull
<1>8. text = p \o SubSeq(t, 1, i)
  BY <1>1
<1>9. PICK u : u = SubSeq(t, i + 1, size)
  OBVIOUS
<1>10. text \in Seq(STRING) /\ u \in Seq(STRING) /\ text \o u = p \o t
  BY ONLY <1>6, <1>7, <1>8, <1>9 DEF Grows
<1>11. i = size => text = p \o t
  BY ONLY <1>7, <1>8
<1> QED
  BY ONLY <1>1, <1>2, <1>10, <1>11

(* An error in what has come of the payload is one in the frame; a frame   *)
(* that has come as a whole without one can be read.                       *)
LEMMA PayloadErrorTells ==
  ASSUME NEW r, Known(r), NEW f \in Frame13, Headed(r, f), NEW i \in 0 .. Len(f.payload),
         NEW msg, Took(msg, OpOf(r, f), Prior(r, f) \o SubSeq(f.payload, 1, i)),
         NEW complete \in BOOLEAN, complete <=> i = Len(f.payload) /\ f.fin,
         GetOpcode(m_basic_header) = f.op
  PROVE  /\ PayloadError(msg, complete) # "none" => ~Readable(r, f)
         /\ PayloadError(msg, complete) = "none" =>
              /\ Holds(msg, OpOf(r, f), Prior(r, f) \o SubSeq(f.payload, 1, i))
              /\ i = Len(f.payload) => Readable(r, f)
<1>1. PICK text, op, whole : text = Prior(r, f) \o SubSeq(f.payload, 1, i) /\ op = OpOf(r, f) /\ whole = TextWith(r, f)
  OBVIOUS
<1>2. /\ text \in Seq(STRING) /\ whole \in Seq(STRING)
      /\ \E u \in Seq(STRING) : whole = text \o u
      /\ i = Len(f.payload) => whole = text
  <2>1. Splits(r, f, i)
    BY TextInTwo
  <2>2. TextWith(r, f) \in Seq(STRING)
    BY ONLY PriorIs, Known(r), f \in Frame13
  <2> QED
    BY ONLY <1>1, <2>1, <2>2 DEF Splits
<1>3. msg.op = op /\ msg.payload = text /\ msg.utf8 = (IF op = "TEXT" THEN Decode("accept", text) ELSE "accept")
  BY <1>1 DEF Took
<1>4. Readable(r, f) <=> /\ op = "TEXT" => WellFormed(whole)
                         /\ f.op = "TEXT" /\ f.fin /\ whole # <<>> => Last(whole) # "lead"
  BY <1>1 DEF Readable
<1>5. f.op = "TEXT" => op = "TEXT"
  BY <1>1 DEF OpOf
<1>6. PayloadError(msg, complete) = IF msg.utf8 = "reject" \/ (complete /\ f.op = "TEXT" /\ msg.utf8 # "accept")
                                      THEN "invalid_utf8" ELSE "none"
  BY DEF PayloadError
<1>7. "accept" # "reject" /\ "invalid_utf8" # "none"
  OBVIOUS
<1>8. msg.utf8 = "reject" => ~Readable(r, f)
  <2> SUFFICES ASSUME msg.utf8 = "reject" PROVE ~Readable(r, f)
    OBVIOUS
  <2>1. op = "TEXT" /\ Decode("accept", text) = "reject"
    BY <1>3, <1>7
  <2>2. ~WellFormed(whole)
    BY <1>2, <2>1, RefusedEarly
  <2> QED
    BY <1>4, <2>1, <2>2
<1>9. complete /\ f.op = "TEXT" /\ msg.utf8 # "accept" => ~Readable(r, f)
  <2> SUFFICES ASSUME complete, f.op = "TEXT", msg.utf8 # "accept", Readable(r, f) PROVE FALSE
    OBVIOUS
  <2>1. whole = text /\ op = "TEXT" /\ f.fin
    BY <1>2, <1>5
  <2>2. WellFormed(text) /\ (text # <<>> => Last(text) # "lead")
    BY <1>4, <2>1
  <2>3. IsUtf8(text)
    BY <1>2, <2>2, WellFormedDecodes
  <2> QED
    BY <1>3, <2>1, <2>3 DEF IsUtf8
<1>10. ASSUME PayloadError(msg, complete) = "none"
       PROVE  /\ Holds(msg, op, text)
              /\ i = Len(f.payload) => Readable(r, f)
  <2>1. msg.utf8 # "reject" /\ ~(complete /\ f.op = "TEXT" /\ msg.utf8 # "accept")
    BY <1>6, <1>7, <1>10
  <2>2. Holds(msg, op, text)
    BY <1>3, <2>1 DEF Holds
  <2>3. ASSUME i = Len(f.payload)
        PROVE  Readable(r, f)
    <3>1. whole = text
      BY <1>2, <2>3
    <3>2. op = "TEXT" => WellFormed(whole)
      <4>1. op = "TEXT" => Decode("accept", text) # "reject"
        BY <1>3, <2>1
      <4> QED
        BY <1>2, <3>1, <4>1, DecodedWellFormed
    <3>3. f.op = "TEXT" /\ f.fin /\ whole # <<>> => Last(whole) # "lead"
      <4> SUFFICES ASSUME f.op = "TEXT", f.fin, whole # <<>> PROVE Last(whole) # "lead"
        OBVIOUS
      <4>1. complete
        BY <2>3
      <4>2. Decode("accept", text) = "accept"
        BY <1>3, <1>5, <2>1, <4>1
      <4>3. IsUtf8(text) /\ Decode("accept", text) # "reject"
        BY <1>7, <4>2 DEF IsUtf8
      <4> QED
        BY <1>2, <3>1, <4>3, DecodedWellFormed
    <3> QED
      BY <1>4, <3>2, <3>3
  <2> QED
    BY <2>2, <2>3
<1> QED
  BY <1>1, <1>6, <1>7, <1>8, <1>9, <1>10

(* Where the frame f, which starts after the x-th byte, ends.              *)
EndOf(x, f) == x + 2 + HeadSize(f) + Len(f.payload)

(* Some of the payload: if the frame ends without ending its message, the  *)
(* next one is read.                                                       *)
LEMMA TextRead ==
  ASSUME MessageType, NEW a \in Bytes0, NEW p, NEW q, Position(a, p, q),
         NEW f \in Frame13, NEW x, There(a, x, f), NEW r, Known(r), ~r.bad, InText(a, x, f, r, p),
         Application, input' = input
  PROVE  /\ delivered' = delivered
         /\ \E p2 \in Nat : /\ Position(a, p2, q)'
                            /\ \/ ec' = "none" /\ InText(a, x, f, r, p2)'
                               \/ /\ ec' = "none" /\ Passed(r, f) /\ f.op \notin Control /\ ~f.fin
                                  /\ InTwo(a, EndOf(x, f), Step(r, f), p2)'
                               \/ ec' # "none" /\ ~Passed(r, f)
<1>1. m_state = "APPLICATION" /\ ec = "none"
  BY DEF Application, Turn
<1>2. /\ Headed(r, f) /\ Sized(r, f)
      /\ m_basic_header = Window(a, x, x + 2)
      /\ m_current_msg = IF f.op \in Control THEN "control" ELSE "data"
      /\ f.op \in Control => Held(r)
  BY DEF InText
<1>3. PICK j \in 0 .. Len(f.payload) :
       /\ m_bytes_needed = Len(f.payload) - j /\ p = x + 2 + HeadSize(f) + j
       /\ Holds(CurrentMsg, OpOf(r, f), Prior(r, f) \o SubSeq(f.payload, 1, j))
       /\ CurrentMsg.key = [key |-> f.key, next |-> j % KeyBytes]
  BY DEF InText
<1>4. PICK need, head, size : need = m_bytes_needed /\ head = HeadSize(f) /\ size = Len(f.payload)
  OBVIOUS
<1>5. x \in Nat /\ head \in Nat /\ size \in Nat
  BY <1>4 DEF There
<1>6. j \in 0 .. size /\ need = size - j /\ p = x + 2 + head + j /\ need \in Nat /\ j \in Nat
  BY <1>3, <1>4, <1>5
<1>7. PICK n \in Nat :
        /\ n = Available /\ n <= need /\ p + n <= q /\ n \in {need, q - p}
        /\ Take(n) = Window(a, p, p + n)
        /\ Skip(n) /\ input' = input => Position(a, p + n, q)'
  BY <1>4, <1>6, TakesAvailable
<1>8. p \in Nat /\ q \in Nat /\ q <= Len(a) /\ Len(a) \in Nat /\ p <= q
  BY <1>4, <1>6, TakesAvailable
<1>9. PICK p2, i : p2 = p + n /\ i = j + n
  OBVIOUS
<1>10. Position(a, p2, q)'
  BY <1>7, <1>9 DEF Application
<1>11. p2 \in Nat /\ i \in 0 .. size /\ size - i = need - n /\ p2 = x + 2 + head + i /\ i <= size
       /\ (n = need <=> i = size) /\ i \in Nat
  BY ONLY <1>5, <1>6, <1>7, <1>8, <1>9
<1>12. CurrentMsg \in MsgType
  BY DEF CurrentMsg, MessageType
<1>13. PICK old, u, op : old = CurrentMsg /\ u = Prior(r, f) /\ op = OpOf(r, f)
  OBVIOUS
<1>14. PICK msg : msg = ProcessPayload(old, n)
  OBVIOUS
<1>15. u \in Seq(STRING)
  BY <1>13, PriorIs
<1>16. Took(msg, op, u \o SubSeq(f.payload, 1, i)) /\ msg.key = [key |-> f.key, next |-> i % KeyBytes]
  <2>1. i = j + n /\ i <= Len(f.payload) /\ p = x + 2 + HeadSize(f) + j
    BY <1>3, <1>4, <1>9, <1>11
  <2>2. old \in MsgType /\ Holds(old, op, u \o SubSeq(f.payload, 1, j)) /\ old.key = [key |-> f.key, next |-> j % KeyBytes]
    BY <1>3, <1>12, <1>13
  <2>3. Take(n) = Window(a, p, p + n)
    BY <1>7
  <2>4. j \in Nat /\ n \in Nat
    BY <1>6
  <2>5. HoldsPart(old, op, u, f, j)
    BY <2>2 DEF HoldsPart
  <2>6. TookPart(ProcessPayload(old, n), op, u, f, i)
    BY ONLY <1>15, <2>1, <2>3, <2>4, <2>5, Takes13, a \in Bytes0, f \in Frame13, There(a, x, f), Zenon
  <2> QED
    BY ONLY <1>14, <2>6 DEF TookPart
<1>17. PICK ends, complete : ends = (n = need) /\ complete = (n = need /\ f.fin)
  OBVIOUS
<1>18. GetOpcode(m_basic_header) = f.op /\ GetFin(m_basic_header) = f.fin
  BY <1>2, HeadTells
<1>19. f.fin \in BOOLEAN
  BY DEF Frame13
<1>20. ends \in BOOLEAN /\ complete \in BOOLEAN /\ (ends <=> i = size) /\ (complete <=> i = Len(f.payload) /\ f.fin)
  BY <1>4, <1>11, <1>17, <1>19
<1>21. /\ IF m_current_msg = "data" THEN m_data_msg' = msg /\ UNCHANGED m_control_msg
                                    ELSE m_control_msg' = msg /\ UNCHANGED m_data_msg
       /\ ec' = PayloadError(msg, complete)
       /\ IF ends /\ ~complete
            THEN ResetHeaders
            ELSE /\ m_bytes_needed' = need - n
                 /\ m_state' = IF complete /\ ec' = "none" THEN "READY" ELSE m_state
                 /\ UNCHANGED <<m_basic_header, m_extended_header>>
       /\ UNCHANGED <<m_current_msg, delivered>>
  BY <1>4, <1>7, <1>13, <1>14, <1>17, <1>18 DEF Application
<1>22. /\ ec' # "none" => ~Readable(r, f)
       /\ ec' = "none" => /\ Holds(msg, op, u \o SubSeq(f.payload, 1, i))
                          /\ i = size => Readable(r, f)
  <2>1. i \in 0 .. Len(f.payload) /\ Took(msg, OpOf(r, f), Prior(r, f) \o SubSeq(f.payload, 1, i))
    BY <1>4, <1>11, <1>13, <1>16
  <2>2. /\ PayloadError(msg, complete) # "none" => ~Readable(r, f)
        /\ PayloadError(msg, complete) = "none" =>
              /\ Holds(msg, OpOf(r, f), Prior(r, f) \o SubSeq(f.payload, 1, i))
              /\ i = Len(f.payload) => Readable(r, f)
    BY <1>2, <1>18, <1>20, <2>1, PayloadErrorTells
  <2>3. ec' = PayloadError(msg, complete)
    BY <1>21
  <2> QED
    BY ONLY <1>4, <1>13, <2>2, <2>3
<1>23. CurrentMsg' = msg /\ m_current_msg' = m_current_msg
       /\ (f.op \in Control => m_data_msg' = m_data_msg)
       /\ (f.op \notin Control => m_data_msg' = msg)
  BY <1>2, <1>21 DEF CurrentMsg
<1>24. CASE ec' # "none"
  <2>1. ~Passed(r, f)
    BY <1>22, <1>24, PassedIs
  <2> QED
    BY <1>10, <1>11, <1>21, <1>24, <2>1
<1>25. CASE ec' = "none" /\ ~(ends /\ ~complete)
  <2>1. /\ m_bytes_needed' = need - n /\ m_basic_header' = m_basic_header
        /\ m_state' = IF complete THEN "READY" ELSE "APPLICATION"
    BY <1>1, <1>21, <1>25
  <2>2. m_bytes_needed' = size - i
    BY ONLY <1>11, <2>1
  <2>3. (\E k \in 0 .. Len(f.payload) :
           /\ m_bytes_needed = Len(f.payload) - k /\ p2 = x + 2 + HeadSize(f) + k
           /\ Holds(CurrentMsg, OpOf(r, f), Prior(r, f) \o SubSeq(f.payload, 1, k))
           /\ CurrentMsg.key = [key |-> f.key, next |-> k % KeyBytes])'
    BY <1>4, <1>11, <1>13, <1>16, <1>22, <1>23, <1>25, <2>2
  <2>4. f.op \in Control => Held(r)'
    BY <1>2, <1>23 DEF Held
  <2>5. m_state' = "READY" => m_bytes_needed' = 0 /\ Readable(r, f) /\ f.fin
    <3>1. ASSUME m_state' = "READY"
          PROVE  complete
      BY <2>1, <3>1
    <3>2. complete => i = size /\ f.fin
      BY <1>4, <1>20
    <3>3. i = size => size - i = 0
      BY ONLY <1>5
    <3> QED
      BY <1>22, <1>25, <2>2, <3>1, <3>2, <3>3
  <2>6. InText(a, x, f, r, p2)'
    BY <1>2, <1>23, <2>1, <2>3, <2>4, <2>5 DEF InText
  <2> QED
    BY <1>10, <1>11, <1>21, <1>25, <2>6
<1>26. CASE ec' = "none" /\ ends /\ ~complete
  <2>1. i = size /\ ~f.fin
    BY <1>17, <1>20, <1>26
  <2>2. ResetHeaders
    BY <1>21, <1>26
  <2>3. f.op \notin Control
    BY <1>2, <2>1 DEF Headed
  <2>4. Passed(r, f)
    BY <1>2, <1>22, <1>26, <2>1, PassedIs
  <2>5. f \in AnyFrame /\ f.op # "00"
    BY DEF AnyFrame, Frame13
  <2>6. Step(r, f).op = OpOf(r, f) /\ Step(r, f).text = TextWith(r, f)
    BY <2>1, <2>3, <2>4, <2>5, StepPart
  <2>7. OpOf(r, f) \in Data
    BY <2>3, <2>4, <2>5, AcceptedOp
  <2>8. TextWith(r, f) = u \o SubSeq(f.payload, 1, i)
    <3>1. i \in 0 .. Len(f.payload)
      BY <1>4, <1>11
    <3>2. Splits(r, f, i)
      BY ONLY <3>1, TextInTwo, Known(r), f \in Frame13
    <3> QED
      BY ONLY <1>4, <1>13, <2>1, <3>2 DEF Splits
  <2>9. Holds(m_data_msg, OpOf(r, f), TextWith(r, f))'
    BY <1>13, <1>22, <1>23, <1>26, <2>3, <2>8 DEF Holds
  <2>10. OpOf(r, f) # "none"
    BY <2>7 DEF Data
  <2>11. Held(Step(r, f))'
    BY <2>6, <2>9, <2>10 DEF Held, Holds
  <2>12. p2 = EndOf(x, f) /\ p2 = p2 + 2 - 2 /\ 2 \in 1 .. 2
    BY <1>4, <1>11, <2>1 DEF EndOf
  <2>13. Window(a, p2, p2) = <<>>
    <3>1. p2 \in 0 .. Len(a) /\ p2 \in 0 .. p2
      BY ONLY <1>7, <1>8, <1>9
    <3> QED
      BY ONLY <3>1, WindowEmpty, a \in Bytes0
  <2>14. InTwo(a, EndOf(x, f), Step(r, f), p2)'
    BY <2>2, <2>11, <2>12, <2>13 DEF InTwo, ResetHeaders
  <2> QED
    BY <1>10, <1>11, <1>21, <1>26, <2>1, <2>3, <2>4, <2>14
<1> QED
  BY <1>24, <1>25, <1>26
-----------------------------------------------------------------------------
(* What is done with a frame that has come as a whole.                     *)
LEMMA ControlDone ==
  ASSUME NEW r, Known(r), ~r.bad, NEW f \in Frame13, Passed(r, f), f.op \in Control, Held(r),
         Holds(m_control_msg, OpOf(r, f), TextWith(r, f)), m_current_msg = "control", delivered = r.out, GetMessage
  PROVE  delivered' = Step(r, f).out /\ Held(Step(r, f))'
<1>1. f \in AnyFrame
  BY DEF AnyFrame
<1>2. /\ Step(r, f).out = Append(r.out, [op |-> f.op, payload |-> f.payload])
      /\ Step(r, f).op = r.op /\ Step(r, f).text = r.text
  BY <1>1, StepControl
<1>3. OpOf(r, f) = f.op
  BY DEF OpOf, Control
<1>4. TextWith(r, f) = f.payload
  <2>1. f.payload \in Seq(STRING)
    BY DEF Frame13
  <2>2. TextWith(r, f) = <<>> \o f.payload
    BY DEF TextWith
  <2> QED
    BY <2>1, <2>2, ConcatEmptySeq
<1>5. m_control_msg.op = f.op /\ m_control_msg.payload = f.payload
  BY <1>3, <1>4 DEF Holds
<1>6. delivered' = Append(delivered, [op |-> m_control_msg.op, payload |-> m_control_msg.payload]) /\ m_data_msg' = m_data_msg
  BY DEF GetMessage, CurrentMsg
<1>7. Held(Step(r, f))'
  BY <1>2, <1>6 DEF Held
<1> QED
  BY <1>2, <1>5, <1>6, <1>7

LEMMA MessageDone ==
  ASSUME NEW r, Known(r), ~r.bad, NEW f \in Frame13, Passed(r, f), f.op \notin Control, f.fin,
         Holds(m_data_msg, OpOf(r, f), TextWith(r, f)), m_current_msg = "data", delivered = r.out, GetMessage
  PROVE  delivered' = Step(r, f).out /\ Held(Step(r, f))'
<1>1. f \in AnyFrame
  BY DEF AnyFrame
<1>2. /\ Step(r, f).out = Append(r.out, [op |-> OpOf(r, f), payload |-> TextWith(r, f)])
      /\ Step(r, f).op = "none"
  BY <1>1, StepWhole
<1>3. m_data_msg.op = OpOf(r, f) /\ m_data_msg.payload = TextWith(r, f)
  BY DEF Holds
<1>4. delivered' = Append(delivered, [op |-> m_data_msg.op, payload |-> m_data_msg.payload]) /\ m_data_msg' = NoMsg
  BY DEF GetMessage, CurrentMsg
<1>5. Held(Step(r, f))'
  BY <1>2, <1>4 DEF Held
<1> QED
  BY <1>2, <1>3, <1>4, <1>5

(* A whole message is given to the connection, and the next frame is read. *)
LEMMA WholeRead ==
  ASSUME NEW a \in Bytes0, NEW p, NEW q, Position(a, p, q),
         NEW f \in Frame13, NEW x, There(a, x, f), NEW r, Known(r), ~r.bad, InText(a, x, f, r, p),
         delivered = r.out, GetMessage, input' = input
  PROVE  /\ delivered' = Step(r, f).out /\ Passed(r, f) /\ ec' = ec
         /\ Position(a, p, q)' /\ InTwo(a, EndOf(x, f), Step(r, f), p)'
<1>1. m_state = "READY" /\ ResetHeaders /\ chunk' = chunk /\ ec' = ec
  BY DEF GetMessage
<1>2. /\ Headed(r, f) /\ Sized(r, f) /\ Readable(r, f) /\ f.fin /\ m_bytes_needed = 0
      /\ m_current_msg = IF f.op \in Control THEN "control" ELSE "data"
      /\ f.op \in Control => Held(r)
  BY <1>1 DEF InText
<1>3. Passed(r, f)
  BY <1>2, PassedIs
<1>4. PICK j \in 0 .. Len(f.payload) :
       /\ m_bytes_needed = Len(f.payload) - j /\ p = x + 2 + HeadSize(f) + j
       /\ Holds(CurrentMsg, OpOf(r, f), Prior(r, f) \o SubSeq(f.payload, 1, j))
  BY DEF InText
<1>5. PICK head, size : head = HeadSize(f) /\ size = Len(f.payload)
  OBVIOUS
<1>6. x \in Nat /\ head \in Nat /\ size \in Nat
  BY <1>5 DEF There
<1>7. j = size
  BY ONLY <1>2, <1>4, <1>5, <1>6
<1>8. Holds(CurrentMsg, OpOf(r, f), TextWith(r, f))
  <2>1. size \in 0 .. Len(f.payload)
    BY <1>5, <1>6
  <2>2. Splits(r, f, size)
    BY ONLY <2>1, TextInTwo, Known(r), f \in Frame13
  <2> QED
    BY ONLY <1>4, <1>5, <1>7, <2>2 DEF Splits
<1>9. delivered' = Step(r, f).out /\ Held(Step(r, f))'
  <2>1. CASE f.op \in Control
    <3>1. CurrentMsg = m_control_msg
      BY <1>2, <2>1 DEF CurrentMsg
    <3> QED
      BY <1>2, <1>3, <1>8, <2>1, <3>1, ControlDone
  <2>2. CASE f.op \notin Control
    <3>1. CurrentMsg = m_data_msg
      BY <1>2, <2>2 DEF CurrentMsg
    <3> QED
      BY <1>2, <1>3, <1>8, <2>2, <3>1, MessageDone
  <2> QED
    BY <2>1, <2>2
<1>10. Position(a, p, q)'
  BY <1>1 DEF Position
<1>11. p = EndOf(x, f) /\ p = p + 2 - 2 /\ 2 \in 1 .. 2
  BY ONLY <1>4, <1>5, <1>6, <1>7 DEF EndOf
<1>12. Window(a, p, p) = <<>>
  <2>1. q \in 0 .. Len(a) /\ p \in 0 .. q /\ Len(a) \in Nat
    BY DEF Position, Bytes0
  <2>2. p \in 0 .. Len(a) /\ p \in 0 .. p
    BY ONLY <2>1
  <2> QED
    BY ONLY <2>2, WindowEmpty, a \in Bytes0
<1>13. InTwo(a, EndOf(x, f), Step(r, f), p)'
  BY <1>1, <1>9, <1>11, <1>12 DEF InTwo, ResetHeaders
<1> QED
  BY <1>1, <1>3, <1>9, <1>10, <1>13
-----------------------------------------------------------------------------
(* How far the frames t of a stream a have been read: the first p bytes,   *)
(* which are k frames and what of the next one m_state tells.              *)
At13(a, t, from, r, k, p) ==
  /\ ec = "none" /\ ~r[k].bad /\ delivered = r[k].out
  /\ \/ InTwo(a, from[k], r[k], p)
     \/ k < Len(t) /\ (InRest(a, from[k], t[k + 1], r[k], p) \/ InText(a, from[k], t[k + 1], r[k], p))

(* Or one of them has broken the protocol.                                 *)
Broken(t) == ec # "none" /\ Meaning(t).bad /\ delivered = Meaning(t).out

Framed13(a, t, from, r) ==
  \E p, q \in Nat : /\ Position(a, p, q)
                    /\ Broken(t) \/ \E k \in 0 .. Len(t) : At13(a, t, from, r, k, p)

(* The frames t lie in a from from[0] on.                                  *)
Plan13(a, t, from, r) ==
  /\ a \in Bytes0 /\ t \in Seq(AnyFrame) /\ IsRun(t, r) /\ from[Len(t)] = Len(a)
  /\ \A k \in 0 .. Len(t) - 1 : /\ t[k + 1] \in Frame13 /\ There(a, from[k], t[k + 1])
                                /\ from[k + 1] = EndOf(from[k], t[k + 1]) /\ from[k + 1] \in Nat

(* When all frames have been read there is nothing left.                   *)
LEMMA AfterFrames ==
  ASSUME NEW a \in Bytes0, NEW p, NEW q, Position(a, p, q), NEW r, InTwo(a, Len(a), r, p)
  PROVE  chunk = <<>> /\ m_bytes_needed = 2 /\ m_state = "HEADER_BASIC"
<1>1. q \in 0 .. Len(a) /\ p \in 0 .. q /\ Len(a) \in Nat /\ chunk = Window(a, p, q)
  BY DEF Position, Bytes0
<1>2. m_bytes_needed \in 1 .. 2 /\ p = Len(a) + 2 - m_bytes_needed /\ m_state = "HEADER_BASIC"
  BY DEF InTwo
<1>3. p = q /\ m_bytes_needed = 2
  BY ONLY <1>1, <1>2
<1>4. Window(a, p, q) = <<>>
  BY ONLY <1>1, <1>3, WindowEmpty, a \in Bytes0
<1> QED
  BY <1>1, <1>2, <1>3, <1>4

(* A turn of the loop, before that.                                        *)
LEMMA FrameRead ==
  ASSUME MessageType, NEW a \in Bytes0, NEW p, NEW q, Position(a, p, q),
         NEW f \in Frame13, NEW x, There(a, x, f), NEW r, Known(r), ~r.bad, delivered = r.out, ec = "none",
         InTwo(a, x, r, p) \/ InRest(a, x, f, r, p) \/ InText(a, x, f, r, p),
         ConsumeFrames, input' = input
  PROVE  \E p2 : /\ Position(a, p2, q)'
                 /\ \/ /\ ec' = "none" /\ delivered' = delivered
                       /\ (InTwo(a, x, r, p2) \/ InRest(a, x, f, r, p2) \/ InText(a, x, f, r, p2))'
                    \/ /\ ec' = "none" /\ Passed(r, f) /\ delivered' = Step(r, f).out
                       /\ InTwo(a, EndOf(x, f), Step(r, f), p2)'
                    \/ ec' # "none" /\ ~Passed(r, f) /\ delivered' = delivered
<1>1. CASE InTwo(a, x, r, p)
  <2>1. m_state = "HEADER_BASIC"
    BY <1>1 DEF InTwo
  <2>2. HeaderBasic
    BY <2>1 DEF ConsumeFrames, HeaderExtended, Application, GetMessage, Turn
  <2> QED
    BY <1>1, <2>2, TwoRead
<1>2. CASE InRest(a, x, f, r, p)
  <2>1. m_state = "HEADER_EXTENDED"
    BY <1>2 DEF InRest
  <2>2. HeaderExtended
    BY <2>1 DEF ConsumeFrames, HeaderBasic, Application, GetMessage, Turn
  <2> QED
    BY <1>2, <2>2, RestRead
<1>3. CASE InText(a, x, f, r, p) /\ m_state = "APPLICATION"
  <2>1. Application
    BY <1>3 DEF ConsumeFrames, HeaderBasic, HeaderExtended, GetMessage, Turn
  <2>2. PICK p2 \in Nat :
          /\ Position(a, p2, q)' /\ delivered' = delivered
          /\ \/ ec' = "none" /\ InText(a, x, f, r, p2)'
             \/ /\ ec' = "none" /\ Passed(r, f) /\ f.op \notin Control /\ ~f.fin
                /\ InTwo(a, EndOf(x, f), Step(r, f), p2)'
             \/ ec' # "none" /\ ~Passed(r, f)
    BY <1>3, <2>1, TextRead
  <2>3. ASSUME Passed(r, f), f.op \notin Control, ~f.fin
        PROVE  Step(r, f).out = r.out
    <3>1. f \in AnyFrame /\ f.op # "00"
      BY DEF AnyFrame, Frame13
    <3> QED
      BY <2>3, <3>1, StepPart
  <2> QED
    BY <2>2, <2>3
<1>4. CASE InText(a, x, f, r, p) /\ m_state = "READY"
  <2>1. GetMessage
    BY <1>4 DEF ConsumeFrames, HeaderBasic, HeaderExtended, Application, Turn
  <2> QED
    BY <1>4, <2>1, WholeRead
<1>5. InText(a, x, f, r, p) => m_state \in {"APPLICATION", "READY"}
  BY DEF InText
<1> QED
  BY <1>1, <1>2, <1>3, <1>4, <1>5

(* An acceptable frame does not end the run of frames.                     *)
LEMMA StepGood ==
  ASSUME NEW r, Known(r), ~r.bad, NEW f \in AnyFrame, Passed(r, f)
  PROVE  ~Step(r, f).bad
<1>1. CASE f.op \in Control
  BY <1>1, StepControl
<1>2. CASE f.op \notin Control /\ (f.op = "00" \/ f.fin)
  BY <1>2, StepWhole
<1>3. CASE f.op \notin Control /\ ~(f.op = "00" \/ f.fin)
  BY <1>3, StepPart
<1> QED
  BY <1>1, <1>2, <1>3

LEMMA FramesRead ==
  ASSUME MessageType, NEW a, NEW t, NEW from, NEW r, Plan13(a, t, from, r), Framed13(a, t, from, r), ec = "none",
         ConsumeFrames, input' = input
  PROVE  Framed13(a, t, from, r)'
<1>1. a \in Bytes0 /\ t \in Seq(AnyFrame) /\ IsRun(t, r) /\ from[Len(t)] = Len(a)
  BY DEF Plan13
<1>2. PICK p, q \in Nat : Position(a, p, q) /\ \E k \in 0 .. Len(t) : At13(a, t, from, r, k, p)
  BY DEF Framed13, Broken
<1>3. PICK k \in 0 .. Len(t) : At13(a, t, from, r, k, p)
  BY <1>2
<1>4. PICK n : n = Len(t)
  OBVIOUS
<1>5. n \in Nat /\ k \in 0 .. n /\ k \in Nat
  BY <1>1, <1>4
<1>6. ~r[k].bad /\ delivered = r[k].out
  BY <1>3 DEF At13
<1>7. k # n
  <2> SUFFICES ASSUME k = n PROVE FALSE
    OBVIOUS
  <2>1. InTwo(a, from[k], r[k], p)
    BY <1>3, <1>4, <1>5 DEF At13
  <2>2. from[k] = Len(a)
    BY <1>1, <1>4
  <2>3. chunk = <<>> /\ m_bytes_needed = 2 /\ m_state = "HEADER_BASIC"
    BY <1>1, <1>2, <2>1, <2>2, AfterFrames
  <2> QED
    BY <2>3 DEF ConsumeFrames, HeaderBasic, HeaderExtended, Application, GetMessage, Turn
<1>8. k < n /\ k + 1 \in 0 .. n /\ k \in 0 .. n - 1
  BY ONLY <1>5, <1>7
<1>9. PICK f, x : f = t[k + 1] /\ x = from[k]
  OBVIOUS
<1>10. f \in Frame13 /\ There(a, x, f) /\ from[k + 1] = EndOf(x, f) /\ f \in AnyFrame
  BY <1>4, <1>8, <1>9 DEF Plan13, AnyFrame
<1>11. Known(r[k])
  BY <1>1, <1>3, RunKnown
<1>12. r[k + 1] = Step(r[k], f)
  <2>1. \A i \in 1 .. Len(t) : r[i] = Step(r[i - 1], t[i])
    BY <1>1 DEF IsRun
  <2>2. k + 1 \in 1 .. n /\ (k + 1) - 1 = k
    BY ONLY <1>5, <1>8
  <2> QED
    BY <1>4, <1>9, <2>1, <2>2
<1>13. InTwo(a, x, r[k], p) \/ InRest(a, x, f, r[k], p) \/ InText(a, x, f, r[k], p)
  BY <1>3, <1>9 DEF At13
<1>14. PICK p2 :
         /\ Position(a, p2, q)'
         /\ \/ /\ ec' = "none" /\ delivered' = delivered
               /\ (InTwo(a, x, r[k], p2) \/ InRest(a, x, f, r[k], p2) \/ InText(a, x, f, r[k], p2))'
            \/ /\ ec' = "none" /\ Passed(r[k], f) /\ delivered' = Step(r[k], f).out
               /\ InTwo(a, EndOf(x, f), Step(r[k], f), p2)'
            \/ ec' # "none" /\ ~Passed(r[k], f) /\ delivered' = delivered
  <2>1. PICK rk : rk = r[k]
    OBVIOUS
  <2>2. Known(rk) /\ ~rk.bad /\ delivered = rk.out /\ (InTwo(a, x, rk, p) \/ InRest(a, x, f, rk, p) \/ InText(a, x, f, rk, p))
    BY <1>6, <1>11, <1>13, <2>1
  <2> QED
    BY <1>1, <1>2, <1>10, <2>1, <2>2, FrameRead
<1>15. p2 \in Nat
  BY <1>14 DEF Position
<1>16. Broken(t)' \/ \E i \in 0 .. Len(t) : At13(a, t, from, r, i, p2)'
  <2>1. CASE ec' = "none" /\ delivered' = delivered
             /\ (InTwo(a, x, r[k], p2) \/ InRest(a, x, f, r[k], p2) \/ InText(a, x, f, r[k], p2))'
    <3>1. At13(a, t, from, r, k, p2)'
      BY <1>4, <1>6, <1>8, <1>9, <2>1 DEF At13
    <3> QED
      BY <3>1
  <2>2. CASE ec' = "none" /\ Passed(r[k], f) /\ delivered' = Step(r[k], f).out
             /\ InTwo(a, EndOf(x, f), Step(r[k], f), p2)'
    <3>1. ~Step(r[k], f).bad
      BY <1>6, <1>10, <1>11, <2>2, StepGood
    <3>2. InTwo(a, from[k + 1], r[k + 1], p2)'
      BY <1>10, <1>12, <2>2
    <3>3. At13(a, t, from, r, k + 1, p2)'
      BY <1>12, <2>2, <3>1, <3>2 DEF At13
    <3> QED
      BY <1>4, <1>8, <3>3
  <2>3. CASE ec' # "none" /\ ~Passed(r[k], f) /\ delivered' = delivered
    <3>1. Meaning(t).bad /\ Meaning(t).out = r[k].out
      BY <1>1, <1>4, <1>5, <1>8, <1>9, <2>3, Spoils
    <3> QED
      BY <1>6, <2>3, <3>1 DEF Broken
  <2> QED
    BY <1>14, <2>1, <2>2, <2>3
<1> QED
  BY <1>2, <1>14, <1>15, <1>16 DEF Framed13
-----------------------------------------------------------------------------
(* The next read brings the next bytes.                                    *)
LEMMA Brought ==
  ASSUME NEW a \in Bytes0, NEW p, NEW q, Position(a, p, q), NEW n \in 1 .. Len(input), Receive(n)
  PROVE  p = q /\ q + n \in Nat /\ chunk' = Window(a, p, q + n) /\ Position(a, p, q + n)'
<1>1. q \in 0 .. Len(a) /\ p \in 0 .. q /\ Len(a) \in Nat /\ chunk = Window(a, p, q) /\ input = Window(a, q, Len(a))
  BY DEF Position, Bytes0
<1>2. chunk = <<>> /\ chunk' = SubSeq(input, 1, n) /\ input' = SubSeq(input, n + 1, Len(input))
  BY DEF Receive
<1>3. p = q
  BY ONLY <1>1, <1>2, WindowEmpty, a \in Bytes0
<1>4. Len(a) \in 0 .. Len(a) /\ q \in 0 .. Len(a)
  BY <1>1
<1>5. Len(input) = Len(a) - q
  BY ONLY <1>1, <1>4, WindowIs, a \in Bytes0
<1>6. n \in 0 .. Len(a) - q /\ q + n \in 0 .. Len(a) /\ q + n \in Nat /\ p \in 0 .. q + n
  BY ONLY <1>1, <1>3, <1>5, n \in 1 .. Len(input)
<1>7. chunk' = Window(a, q, q + n) /\ input' = Window(a, q + n, Len(a))
  BY ONLY <1>1, <1>2, <1>4, <1>6, WindowTake, a \in Bytes0
<1>8. Position(a, p, q + n)'
  BY <1>3, <1>6, <1>7 DEF Position
<1> QED
  BY <1>3, <1>6, <1>7, <1>8

LEMMA FramesBrought ==
  ASSUME NEW a, NEW t, NEW from, NEW r, Plan13(a, t, from, r), Framed13(a, t, from, r),
         NEW n \in 1 .. Len(input), Receive(n), UNCHANGED framing
  PROVE  Framed13(a, t, from, r)'
<1>1. a \in Bytes0
  BY DEF Plan13
<1>2. PICK p, q \in Nat : Position(a, p, q) /\ (Broken(t) \/ \E k \in 0 .. Len(t) : At13(a, t, from, r, k, p))
  BY DEF Framed13
<1>3. q + n \in Nat /\ Position(a, p, q + n)'
  BY <1>1, <1>2, Brought
<1>4. UNCHANGED <<m_state, m_bytes_needed, m_basic_header, m_extended_header, m_data_msg, m_control_msg,
                  m_current_msg, delivered, ec>>
  BY DEF framing, headers, messages
<1>5. CASE Broken(t)
  <2>1. Broken(t)'
    BY <1>4, <1>5 DEF Broken
  <2> QED
    BY <1>3, <2>1 DEF Framed13
<1>6. ASSUME NEW k \in 0 .. Len(t), At13(a, t, from, r, k, p)
      PROVE  Framed13(a, t, from, r)'
  <2>1. At13(a, t, from, r, k, p)'
    BY <1>4, <1>6 DEF At13, InTwo, InRest, InText, Held, CurrentMsg
  <2> QED
    BY <1>3, <2>1 DEF Framed13
<1> QED
  BY <1>2, <1>5, <1>6

(* A frame that has not been read to its end lacks some byte of it.        *)
LEMMA SomeLeft ==
  ASSUME NEW a, NEW f, NEW x, There(a, x, f), NEW r, NEW p, m_bytes_needed \in Nat, m_bytes_needed > 0,
         InTwo(a, x, r, p) \/ InRest(a, x, f, r, p) \/ InText(a, x, f, r, p)
  PROVE  p < EndOf(x, f)
<1>1. PICK need, head, size : need = m_bytes_needed /\ head = HeadSize(f) /\ size = Len(f.payload)
  OBVIOUS
<1>2. x \in Nat /\ head \in Nat /\ size \in Nat /\ need \in Nat /\ need > 0
  BY <1>1 DEF There
<1>3. EndOf(x, f) = x + 2 + head + size
  BY <1>1 DEF EndOf
<1>4. CASE InTwo(a, x, r, p)
  <2>1. p = x + 2 - need
    BY <1>1, <1>4 DEF InTwo
  <2> QED
    BY ONLY <1>2, <1>3, <2>1
<1>5. CASE InRest(a, x, f, r, p)
  <2>1. p = x + 2 + head - need
    BY <1>1, <1>5 DEF InRest
  <2> QED
    BY ONLY <1>2, <1>3, <2>1
<1>6. CASE InText(a, x, f, r, p)
  <2>1. PICK j \in 0 .. size : need = size - j /\ p = x + 2 + head + j
    BY <1>1, <1>6 DEF InText
  <2> QED
    BY ONLY <1>2, <1>3, <2>1
<1> QED
  BY <1>4, <1>5, <1>6

(* So much is delivered at any time, and so much at the end.               *)
Told(t) ==
  /\ IsPrefix(delivered, Meaning(t).out)
  /\ ec # "none" => Meaning(t).bad /\ delivered = Meaning(t).out
  /\ Exhausted /\ ec = "none" => ~Meaning(t).bad /\ delivered = Meaning(t).out

LEMMA PrefixOfItself ==
  ASSUME NEW T, NEW s \in Seq(T)
  PROVE  IsPrefix(s, s)
BY SubSeqFull DEF IsPrefix

LEMMA FramesTold ==
  ASSUME MessageType, NEW a, NEW t, NEW from, NEW r, Plan13(a, t, from, r), Framed13(a, t, from, r)
  PROVE  Told(t)
<1>1. a \in Bytes0 /\ t \in Seq(AnyFrame) /\ IsRun(t, r) /\ from[Len(t)] = Len(a)
  BY DEF Plan13
<1>2. PICK p, q \in Nat : Position(a, p, q) /\ (Broken(t) \/ \E k \in 0 .. Len(t) : At13(a, t, from, r, k, p))
  BY DEF Framed13
<1>3. CASE Broken(t)
  <2>1. IsPrefix(delivered, delivered)
    BY PrefixOfItself DEF MessageType
  <2> QED
    BY <1>3, <2>1 DEF Broken, Told
<1>4. ASSUME NEW k \in 0 .. Len(t), At13(a, t, from, r, k, p)
      PROVE  Told(t)
  <2>1. ec = "none" /\ ~r[k].bad /\ delivered = r[k].out
    BY <1>4 DEF At13
  <2>2. IsPrefix(delivered, Meaning(t).out)
    BY <1>1, <1>4, <2>1, RunGrows
  <2>3. ASSUME Exhausted
        PROVE  ~Meaning(t).bad /\ delivered = Meaning(t).out
    <3>1. m_bytes_needed > 0 /\ m_bytes_needed \in Nat /\ chunk = <<>> /\ input = <<>>
      BY <2>3 DEF Exhausted, MessageType
    <3>2. p = Len(a)
      <4>1. q \in 0 .. Len(a) /\ p \in 0 .. q /\ Len(a) \in Nat /\ chunk = Window(a, p, q) /\ input = Window(a, q, Len(a))
        BY <1>1, <1>2 DEF Position, Bytes0
      <4>2. p = q /\ q = Len(a)
        <5>1. Len(a) \in 0 .. Len(a)
          BY <4>1
        <5> QED
          BY ONLY <3>1, <4>1, <5>1, <1>1, WindowEmpty
      <4> QED
        BY ONLY <4>2
    <3>3. PICK n : n = Len(t)
      OBVIOUS
    <3>4. n \in Nat /\ k \in 0 .. n
      BY <1>1, <1>4, <3>3
    <3>5. CASE k = n
      <4>1. r[k] = Meaning(t)
        BY <1>1, <3>3, <3>5 DEF IsRun
      <4> QED
        BY <2>1, <4>1
    <3>6. CASE k # n
      <4>1. k \in 0 .. n - 1 /\ k + 1 \in 0 .. n /\ k < n
        BY ONLY <3>4, <3>6
      <4>2. PICK f, x : f = t[k + 1] /\ x = from[k]
        OBVIOUS
      <4>3. There(a, x, f) /\ f \in Frame13
        BY <3>3, <4>1, <4>2 DEF Plan13
      <4>4. InTwo(a, x, r[k], p) \/ InRest(a, x, f, r[k], p) \/ InText(a, x, f, r[k], p)
        BY <1>4, <4>2 DEF At13
      <4>5. p < EndOf(x, f)
        BY <3>1, <4>3, <4>4, SomeLeft
      <4>6. EndOf(x, f) <= Len(a) /\ EndOf(x, f) \in Int /\ Len(a) \in Nat
        <5>1. x + 2 + HeadSize(f) + Len(f.payload) <= Len(a) /\ x \in Nat /\ HeadSize(f) \in Nat /\ Len(f.payload) \in Nat
          BY <4>3 DEF There
        <5> QED
          BY <1>1, <5>1 DEF EndOf, Bytes0
      <4> QED
        BY ONLY <3>2, <4>5, <4>6
    <3> QED
      BY <3>5, <3>6
  <2> QED
    BY <2>1, <2>2, <2>3 DEF Told
<1> QED
  BY <1>2, <1>3, <1>4
-----------------------------------------------------------------------------
(* The same for hybi00: between two frames, and within one.                *)
Between(x, p) == m_state = "HEADER" /\ p = x

Within(x, f, p) ==
  /\ f.op = "00" /\ m_data_msg.op = "TEXT"
  /\ \E j \in 0 .. Len(f.payload) :
       /\ m_data_msg.payload = SubSeq(f.payload, 1, j)
       /\ \/ m_state = "PAYLOAD" /\ p = x + 1 + j
          \/ m_state = "READY" /\ j = Len(f.payload) /\ p = x + 2 + j

(* What is acceptable to it, and what comes of it.                         *)
LEMMA Step00 ==
  ASSUME NEW r, Known(r), ~r.bad, r.op = "none", NEW f \in Frame00
  PROVE  /\ Passed(r, f) <=> f.op = "00"
         /\ f.op = "00" => /\ Step(r, f).out = Append(r.out, [op |-> "TEXT", payload |-> f.payload])
                           /\ Step(r, f).bad = FALSE /\ Step(r, f).op = "none"
<1>1. f.op \in {"00", "JUNK"} /\ f.payload \in Seq(STRING) /\ f \in AnyFrame
  BY DEF Frame00, AnyFrame
<1>2. Passed(r, f) <=> f.op = "00"
  BY <1>1 DEF Passed
<1>3. ASSUME f.op = "00"
      PROVE  /\ Step(r, f).out = Append(r.out, [op |-> "TEXT", payload |-> f.payload])
             /\ Step(r, f).bad = FALSE /\ Step(r, f).op = "none"
  <2>1. f.op \notin Control
    BY <1>3 DEF Control
  <2>2. /\ Step(r, f).out = Append(r.out, [op |-> OpOf(r, f), payload |-> TextWith(r, f)])
        /\ Step(r, f).bad = FALSE /\ Step(r, f).op = "none"
    BY <1>1, <1>2, <1>3, <2>1, StepWhole
  <2>3. OpOf(r, f) = "TEXT"
    BY <1>3 DEF OpOf
  <2>4. r.text = <<>>
    BY DEF Known
  <2>5. TextWith(r, f) = <<>> \o f.payload
    BY <2>1, <2>4 DEF TextWith
  <2>6. TextWith(r, f) = f.payload
    BY ONLY <1>1, <2>5, ConcatEmptySeq
  <2> QED
    BY ONLY <2>2, <2>3, <2>6
<1> QED
  BY <1>2, <1>3

(* The first mark.                                                         *)
LEMMA MarkRead ==
  ASSUME NEW a \in Bytes0, NEW p, NEW q, Position(a, p, q), NEW f \in Frame00, NEW x, There00(a, x, f),
         Between(x, p), Header00, input' = input
  PROVE  \E p2 : /\ Position(a, p2, q)' /\ delivered' = delivered
                 /\ \/ ec' = "none" /\ Within(x, f, p2)'
                    \/ ec' # "none" /\ f.op # "00"
<1>1. chunk # <<>> /\ ec = "none" /\ delivered' = delivered
  BY DEF Header00, Hybi00Turn
<1>2. p = x
  BY DEF Between
<1>3. q \in 0 .. Len(a) /\ p \in 0 .. q /\ Len(a) \in Nat /\ chunk = Window(a, p, q)
  BY DEF Position, Bytes0
<1>4. p # q
  BY ONLY <1>1, <1>3, WindowEmpty, a \in Bytes0
<1>5. 1 \in 1 .. q - p /\ p + 1 \in Nat
  BY ONLY <1>3, <1>4
<1>6. Len(chunk) = q - p /\ chunk[1] = a[p + 1]
  BY ONLY <1>3, <1>5, WindowIs, a \in Bytes0
<1>7. 1 \in 0 .. Len(chunk)
  BY ONLY <1>5, <1>6
<1>8. CASE f.op = "00"
  <2>1. chunk[1] = Mark("00")
    BY <1>2, <1>6, <1>8 DEF There00
  <2>2. Skip(1) /\ m_data_msg' = [NoMsg EXCEPT !.op = "TEXT"] /\ m_state' = "PAYLOAD" /\ ec' = ec
    BY <2>1 DEF Header00
  <2>3. Position(a, p + 1, q)'
    BY <1>7, <2>2, TakesFrom
  <2>4. f.payload \in Seq(STRING)
    BY DEF Frame00
  <2>5. SubSeq(f.payload, 1, 0) = <<>> /\ 0 \in 0 .. Len(f.payload)
    <3>1. 0 \in 0 .. Len(f.payload)
      BY <2>4
    <3> QED
      BY ONLY <2>4, <3>1, PartOf
  <2>6. m_data_msg'.op = "TEXT" /\ m_data_msg'.payload = <<>>
    BY <2>2 DEF NoMsg
  <2>7. p + 1 = x + 1 + 0
    BY ONLY <1>2, <1>3
  <2>8. Within(x, f, p + 1)'
    BY <1>8, <2>2, <2>5, <2>6, <2>7 DEF Within
  <2> QED
    BY <1>1, <2>2, <2>3, <2>8
<1>9. CASE f.op # "00"
  <2>1. chunk[1] # Mark("00")
    BY <1>2, <1>6, <1>9 DEF There00
  <2>2. ec' = "protocol_violation" /\ chunk' = chunk
    BY <2>1 DEF Header00
  <2>3. Position(a, p, q)'
    BY <2>2 DEF Position
  <2> QED
    BY <1>1, <1>9, <2>2, <2>3
<1> QED
  BY <1>8, <1>9

(* A message that is complete.                                             *)
LEMMA MarkedDone ==
  ASSUME NEW a \in Bytes0, NEW p, NEW q, Position(a, p, q), NEW f \in Frame00, NEW x, There00(a, x, f),
         NEW r, Known(r), ~r.bad, r.op = "none", delivered = r.out, Within(x, f, p), GetMessage00, input' = input
  PROVE  /\ Position(a, p, q)' /\ delivered' = Step(r, f).out /\ ec' = ec /\ f.op = "00"
         /\ m_state' = "HEADER" /\ p = x + 2 + Len(f.payload)
<1>1. m_state = "READY" /\ m_state' = "HEADER" /\ ec' = ec /\ chunk' = chunk
  BY DEF GetMessage00
<1>2. delivered' = Append(delivered, [op |-> m_data_msg.op, payload |-> m_data_msg.payload])
  BY DEF GetMessage00
<1>3. PICK j \in 0 .. Len(f.payload) :
        /\ m_data_msg.payload = SubSeq(f.payload, 1, j)
        /\ \/ m_state = "PAYLOAD" /\ p = x + 1 + j
           \/ m_state = "READY" /\ j = Len(f.payload) /\ p = x + 2 + j
  BY DEF Within
<1>4. j = Len(f.payload) /\ p = x + 2 + j
  BY <1>1, <1>3
<1>5. f.payload \in Seq(STRING)
  BY DEF Frame00
<1>6. SubSeq(f.payload, 1, Len(f.payload)) = f.payload
  BY ONLY <1>5, SubSeqFull
<1>7. m_data_msg.op = "TEXT" /\ f.op = "00" /\ m_data_msg.payload = f.payload
  BY <1>3, <1>4, <1>6 DEF Within
<1>8. delivered' = Append(r.out, [op |-> "TEXT", payload |-> f.payload])
  BY <1>2, <1>7
<1>9. Step(r, f).out = Append(r.out, [op |-> "TEXT", payload |-> f.payload])
  BY <1>7, Step00
<1>10. Position(a, p, q)'
  BY <1>1 DEF Position
<1> QED
  BY <1>1, <1>4, <1>7, <1>8, <1>9, <1>10
-----------------------------------------------------------------------------
Stops(b) == {i \in DOMAIN b : b[i] = Mark("ff")}

Upto(b) == IF Stops(b) = {} THEN Len(b) ELSE Min(Stops(b)) - 1

(* Payload00 in these words.                                               *)
LEMMA Payload00Is ==
  ASSUME Payload00
  PROVE  /\ m_state = "PAYLOAD" /\ delivered' = delivered /\ ec' = ec /\ ec = "none"
         /\ m_data_msg' = [m_data_msg EXCEPT !.payload = @ \o [i \in 1 .. Upto(chunk) |-> chunk[i].s]]
         /\ IF Stops(chunk) = {} THEN Skip(Upto(chunk)) /\ m_state' = m_state
                                 ELSE Skip(Upto(chunk) + 1) /\ m_state' = "READY"
BY DEF Payload00, Hybi00Turn, Stops, Upto

StopsIn(b, room, left) ==
  /\ room <= left => Stops(b) = {} /\ Upto(b) = room
  /\ room > left => Stops(b) # {} /\ Upto(b) = left

(* The end of the message, if it is in the bytes from p to q.              *)
LEMMA StopsAt ==
  ASSUME NEW a \in Bytes0, NEW p \in Nat, NEW q \in Nat, p <= q, q <= Len(a), NEW size \in Nat, NEW j \in 0 .. size,
         NEW x, p = x + 1 + j, x \in Nat, x + 2 + size <= Len(a), a[x + size + 2] = Mark("ff"),
         \A i \in 1 .. size : a[x + 1 + i] # Mark("ff"),
         NEW b, b = Window(a, p, q)
  PROVE  StopsIn(b, q - p, size - j)
<1>1. q \in 0 .. Len(a) /\ p \in 0 .. q /\ Len(a) \in Nat
  BY DEF Bytes0
<1>2. b \in Bytes0 /\ Len(b) = q - p /\ \A i \in 1 .. q - p : b[i] = a[p + i]
  BY <1>1, WindowIs
<1>3. DOMAIN b = 1 .. q - p
  BY <1>2 DEF Bytes0
<1>4. ASSUME NEW i \in 1 .. q - p, i <= size - j
      PROVE  b[i] # Mark("ff")
  <2>1. p + i = x + 1 + (j + i) /\ j + i \in 1 .. size
    BY ONLY <1>4, i \in 1 .. q - p, p = x + 1 + j, x \in Nat, size \in Nat, j \in 0 .. size, p \in Nat, q \in Nat
  <2> QED
    BY <1>2, <2>1
<1>5. PICK n : n = size - j
  OBVIOUS
<1>6. n \in Nat
  BY <1>5
<1>7. ASSUME q - p <= n
      PROVE  Stops(b) = {} /\ Upto(b) = q - p
  <2>1. \A i \in 1 .. q - p : b[i] # Mark("ff")
    BY <1>4, <1>5, <1>6, <1>7
  <2>2. Stops(b) = {}
    BY <1>3, <2>1 DEF Stops
  <2> QED
    BY <1>2, <2>2 DEF Upto
<1>8. ASSUME q - p > n
      PROVE  Stops(b) # {} /\ Upto(b) = n
  <2>1. n + 1 \in 1 .. q - p /\ p + (n + 1) = x + size + 2
    BY ONLY <1>5, <1>6, <1>8, p = x + 1 + j, x \in Nat, size \in Nat, j \in 0 .. size, p \in Nat, q \in Nat
  <2>2. b[n + 1] = Mark("ff")
    BY <1>2, <2>1
  <2>3. n + 1 \in Stops(b)
    BY <1>3, <2>1, <2>2 DEF Stops
  <2>4. Stops(b) \subseteq Int
    BY <1>3 DEF Stops
  <2>5. \A i \in Stops(b) : n + 1 <= i
    <3> SUFFICES ASSUME NEW i \in Stops(b), ~(n + 1 <= i) PROVE FALSE
      OBVIOUS
    <3>1. i \in 1 .. q - p /\ b[i] = Mark("ff")
      BY <1>3 DEF Stops
    <3>2. i <= n
      BY <1>6, <3>1
    <3> QED
      BY <1>4, <1>5, <3>1, <3>2
  <2>6. Min(Stops(b)) = n + 1
    <3>1. n + 1 \in Int
      BY <1>6
    <3> QED
      BY ONLY <2>3, <2>4, <2>5, <3>1, MinIs
  <2> QED
    BY <1>6, <2>3, <2>6 DEF Upto
<1> QED
  BY <1>5, <1>7, <1>8 DEF StopsIn

(* The characters of n of the bytes.                                       *)
MoreOf(t, j, n, b) == SubSeq(t, 1, j) \o [i \in 1 .. n |-> b[i].s] = SubSeq(t, 1, j + n)

LEMMA TextHere ==
  ASSUME NEW a \in Bytes0, NEW p \in Nat, NEW q \in Nat, p <= q, q <= Len(a), NEW t \in Seq(STRING),
         NEW size, size = Len(t), NEW j \in 0 .. size, NEW n \in Nat, n <= size - j, n <= q - p,
         NEW x \in Nat, p = x + 1 + j, \A i \in 1 .. size : a[x + 1 + i].s = t[i],
         NEW b, b = Window(a, p, q)
  PROVE  MoreOf(t, j, n, b)
<1>1. q \in 0 .. Len(a) /\ p \in 0 .. q /\ Len(a) \in Nat
  BY DEF Bytes0
<1>2. b \in Bytes0 /\ Len(b) = q - p /\ \A i \in 1 .. q - p : b[i] = a[p + i]
  BY <1>1, WindowIs
<1>3. size \in Nat
  OBVIOUS
<1>4. j \in Nat /\ j + n \in Nat /\ j + n <= size /\ j + 1 \in Nat
  BY ONLY <1>3, j \in 0 .. size, n \in Nat, n <= size - j
<1>5. \A i \in 1 .. n : i \in 1 .. q - p /\ p + i = x + 1 + (j + i) /\ j + i \in 1 .. size
  BY ONLY <1>3, <1>4, j \in 0 .. size, n \in Nat, n <= q - p, x \in Nat, p = x + 1 + j, p \in Nat, q \in Nat
<1>6. \A i \in 1 .. n : b[i].s = t[j + i]
  BY <1>2, <1>5
<1>7. PICK w : w = [i \in 1 .. n |-> b[i].s]
  OBVIOUS
<1>8. w = [i \in 1 .. n |-> t[j + i]]
  BY <1>6, <1>7
<1>9. SubSeq(t, j + 1, j + n) = w
  <2>1. PICK v : v = SubSeq(t, j + 1, j + n)
    OBVIOUS
  <2>2. v \in Seq(STRING) /\ Len(v) = n /\ \A i \in 1 .. n : v[i] = t[j + i]
    <3>1. \A i \in j + 1 .. j + n : t[i] \in STRING
      BY ONLY <1>3, <1>4, j \in Nat, n \in Nat, t \in Seq(STRING), size = Len(t)
    <3>2. /\ v \in Seq(STRING) /\ Len(v) = IF j + 1 <= j + n THEN (j + n) - (j + 1) + 1 ELSE 0
          /\ \A i \in 1 .. (j + n) - (j + 1) + 1 : v[i] = t[(j + 1) + i - 1]
      BY ONLY <1>4, <2>1, <3>1, SubSeqProperties, n \in Nat, t \in Seq(STRING), size = Len(t)
    <3>3. (j + n) - (j + 1) + 1 = n /\ (IF j + 1 <= j + n THEN (j + n) - (j + 1) + 1 ELSE 0) = n
          /\ \A i \in 1 .. n : (j + 1) + i - 1 = j + i
      BY ONLY <1>4, n \in Nat
    <3> QED
      BY ONLY <3>2, <3>3
  <2>3. v = [i \in 1 .. n |-> t[j + i]]
    BY ONLY <2>2, n \in Nat
  <2> QED
    BY ONLY <1>8, <2>1, <2>3
<1>10. SubSeq(t, 1, j) \o SubSeq(t, j + 1, j + n) = SubSeq(t, 1, j + n)
  <2>0. PICK empty : empty = <<>>
    OBVIOUS
  <2>1. empty = <<>> /\ empty \in Seq(STRING)
    BY ONLY <2>0
  <2>2. PICK i : i = j + n
    OBVIOUS
  <2>3. Grows(empty, t, j, i)
    BY ONLY <1>4, <2>1, <2>2, PartGrows, n \in Nat, t \in Seq(STRING), size = Len(t)
  <2>4. SubSeq(t, 1, j) \in Seq(STRING) /\ SubSeq(t, 1, i) \in Seq(STRING)
    BY ONLY <1>3, <1>4, <2>2, PartOf, t \in Seq(STRING), size = Len(t)
  <2>5. empty \o SubSeq(t, 1, j) = SubSeq(t, 1, j) /\ empty \o SubSeq(t, 1, i) = SubSeq(t, 1, i)
    BY ONLY <2>1, <2>4, ConcatEmptySeq
  <2> QED
    BY ONLY <2>2, <2>3, <2>5 DEF Grows
<1> QED
  BY ONLY <1>7, <1>9, <1>10 DEF MoreOf

(* Some more characters, up to the second mark if it is there.             *)
LEMMA TextRead00 ==
  ASSUME MessageType, NEW a \in Bytes0, NEW p, NEW q, Position(a, p, q), NEW f \in Frame00, NEW x, There00(a, x, f),
         Within(x, f, p), Payload00, input' = input
  PROVE  /\ delivered' = delivered /\ ec' = "none"
         /\ \E p2 : Position(a, p2, q)' /\ Within(x, f, p2)'
<1>1. /\ m_state = "PAYLOAD" /\ delivered' = delivered /\ ec' = ec /\ ec = "none"
      /\ m_data_msg' = [m_data_msg EXCEPT !.payload = @ \o [i \in 1 .. Upto(chunk) |-> chunk[i].s]]
      /\ IF Stops(chunk) = {} THEN Skip(Upto(chunk)) /\ m_state' = m_state
                              ELSE Skip(Upto(chunk) + 1) /\ m_state' = "READY"
  BY Payload00Is
<1>2. f.op = "00" /\ m_data_msg.op = "TEXT"
  BY DEF Within
<1>3. PICK j \in 0 .. Len(f.payload) : m_data_msg.payload = SubSeq(f.payload, 1, j) /\ p = x + 1 + j
  BY <1>1 DEF Within
<1>4. PICK t, size : t = f.payload /\ size = Len(t)
  OBVIOUS
<1>5. t \in Seq(STRING) /\ size \in Nat /\ j \in 0 .. size /\ j \in Nat
  BY <1>4 DEF Frame00
<1>6. /\ x \in Nat /\ x + 2 + size <= Len(a) /\ a[x + size + 2] = Mark("ff")
      /\ \A i \in 1 .. size : a[x + 1 + i].s = t[i] /\ a[x + 1 + i] # Mark("ff")
  BY <1>2, <1>4 DEF There00
<1>7. q \in 0 .. Len(a) /\ p \in 0 .. q /\ Len(a) \in Nat
  BY DEF Position, Bytes0
<1>8. p \in Nat /\ q \in Nat /\ p <= q /\ q <= Len(a)
  BY ONLY <1>7
<1>9. PICK b : b = chunk
  OBVIOUS
<1>10. b = Window(a, p, q)
  BY <1>9 DEF Position
<1>11. /\ q - p <= size - j => Stops(b) = {} /\ Upto(b) = q - p
       /\ q - p > size - j => Stops(b) # {} /\ Upto(b) = size - j
  <2>1. \A i \in 1 .. size : a[x + 1 + i] # Mark("ff")
    BY ONLY <1>6
  <2>2. p = x + 1 + j /\ size \in Nat /\ j \in 0 .. size /\ x \in Nat /\ x + 2 + size <= Len(a) /\ a[x + size + 2] = Mark("ff")
    BY ONLY <1>3, <1>5, <1>6
  <2>3. StopsIn(b, q - p, size - j)
    BY ONLY <1>8, <1>10, <2>1, <2>2, StopsAt, a \in Bytes0, Zenon
  <2> QED
    BY ONLY <2>3 DEF StopsIn
<1>12. PICK n : n = Upto(b)
  OBVIOUS
<1>13. n \in Nat /\ n <= size - j /\ n <= q - p
  BY ONLY <1>5, <1>8, <1>11, <1>12
<1>14. SubSeq(t, 1, j) \o [i \in 1 .. n |-> b[i].s] = SubSeq(t, 1, j + n)
  <2>1. \A i \in 1 .. size : a[x + 1 + i].s = t[i]
    BY ONLY <1>6
  <2>2. p = x + 1 + j /\ size = Len(t) /\ t \in Seq(STRING) /\ j \in 0 .. size /\ x \in Nat
    BY ONLY <1>3, <1>4, <1>5, <1>6
  <2>3. MoreOf(t, j, n, b)
    BY ONLY <1>8, <1>10, <1>13, <2>1, <2>2, TextHere, a \in Bytes0, Zenon
  <2> QED
    BY ONLY <2>3 DEF MoreOf
<1>15. Len(chunk) = q - p
  BY ONLY <1>7, <1>9, <1>10, WindowIs, a \in Bytes0
<1>16. m_data_msg'.op = "TEXT" /\ m_data_msg'.payload = SubSeq(t, 1, j + n)
  <2>1. m_data_msg' = [m_data_msg EXCEPT !.payload = @ \o [i \in 1 .. n |-> b[i].s]]
    BY <1>1, <1>9, <1>12
  <2>2. DOMAIN m_data_msg = {"op", "payload", "utf8", "key"}
    BY DEF MessageType, MsgType
  <2>3. m_data_msg'.op = m_data_msg.op /\ m_data_msg'.payload = m_data_msg.payload \o [i \in 1 .. n |-> b[i].s]
    BY ONLY <2>1, <2>2
  <2> QED
    BY <1>2, <1>3, <1>4, <1>14, <2>3
<1>17. j + n \in 0 .. size
  BY ONLY <1>5, <1>13
<1>18. CASE q - p <= size - j
  <2>1. Skip(n) /\ m_state' = "PAYLOAD"
    BY <1>1, <1>9, <1>11, <1>12, <1>18
  <2>2. n \in 0 .. Len(chunk)
    BY ONLY <1>13, <1>15, <1>8
  <2>3. Position(a, p + n, q)'
    BY <2>1, <2>2, TakesFrom
  <2>4. p + n = x + 1 + (j + n)
    BY ONLY <1>3, <1>5, <1>6, <1>13
  <2>5. Within(x, f, p + n)'
    BY <1>2, <1>4, <1>16, <1>17, <2>1, <2>4 DEF Within
  <2> QED
    BY <1>1, <2>3, <2>5
<1>19. CASE q - p > size - j
  <2>1. Skip(n + 1) /\ m_state' = "READY" /\ n = size - j
    BY <1>1, <1>9, <1>11, <1>12, <1>19
  <2>2. n + 1 \in 0 .. Len(chunk)
    BY ONLY <1>13, <1>15, <1>8, <1>19, <2>1, <1>5
  <2>3. Position(a, p + (n + 1), q)'
    BY <2>1, <2>2, TakesFrom
  <2>4. p + (n + 1) = x + 2 + (j + n) /\ j + n = size
    BY ONLY <1>3, <1>5, <1>6, <1>13, <2>1
  <2>5. Within(x, f, p + (n + 1))'
    BY <1>2, <1>4, <1>16, <1>17, <2>1, <2>4 DEF Within
  <2> QED
    BY <1>1, <2>3, <2>5
<1> QED
  BY ONLY <1>5, <1>8, <1>18, <1>19
-----------------------------------------------------------------------------
(* How far the hybi00 frames t of a stream a have been read.               *)
At00(t, from, r, k, p) ==
  /\ ec = "none" /\ ~r[k].bad /\ r[k].op = "none" /\ delivered = r[k].out
  /\ Between(from[k], p) \/ (k < Len(t) /\ Within(from[k], t[k + 1], p))

Framed00(a, t, from, r) ==
  \E p, q \in Nat : /\ Position(a, p, q)
                    /\ Broken(t) \/ \E k \in 0 .. Len(t) : At00(t, from, r, k, p)

Plan00(a, t, from, r) ==
  /\ a \in Bytes0 /\ t \in Seq(AnyFrame) /\ IsRun(t, r) /\ from[Len(t)] = Len(a)
  /\ \A k \in 0 .. Len(t) - 1 : /\ t[k + 1] \in Frame00 /\ There00(a, from[k], t[k + 1])
                                /\ t[k + 1].op = "00" => from[k + 1] = from[k] + 2 + Len(t[k + 1].payload)

LEMMA FrameRead00 ==
  ASSUME MessageType, NEW a \in Bytes0, NEW p, NEW q, Position(a, p, q),
         NEW f \in Frame00, NEW x, There00(a, x, f), NEW r, Known(r), ~r.bad, r.op = "none", delivered = r.out,
         ec = "none", Between(x, p) \/ Within(x, f, p), ConsumeHybi00, input' = input
  PROVE  \E p2 : /\ Position(a, p2, q)'
                 /\ \/ ec' = "none" /\ delivered' = delivered /\ Within(x, f, p2)'
                    \/ /\ ec' = "none" /\ f.op = "00" /\ delivered' = Step(r, f).out
                       /\ m_state' = "HEADER" /\ p2 = x + 2 + Len(f.payload)
                    \/ ec' # "none" /\ f.op # "00" /\ delivered' = delivered
<1>1. CASE Between(x, p)
  <2>1. Header00
    BY <1>1 DEF Between, ConsumeHybi00, Payload00, GetMessage00, Hybi00Turn
  <2> QED
    BY <1>1, <2>1, MarkRead
<1>2. CASE Within(x, f, p) /\ m_state = "PAYLOAD"
  <2>1. Payload00
    BY <1>2 DEF ConsumeHybi00, Header00, GetMessage00, Hybi00Turn
  <2> QED
    BY <1>2, <2>1, TextRead00
<1>3. CASE Within(x, f, p) /\ m_state = "READY"
  <2>1. GetMessage00
    BY <1>3 DEF ConsumeHybi00, Header00, Payload00, Hybi00Turn
  <2> QED
    BY <1>3, <2>1, MarkedDone
<1>4. Within(x, f, p) => m_state \in {"PAYLOAD", "READY"}
  BY DEF Within
<1> QED
  BY <1>1, <1>2, <1>3, <1>4

LEMMA FramesRead00 ==
  ASSUME MessageType, NEW a, NEW t, NEW from, NEW r, Plan00(a, t, from, r), Framed00(a, t, from, r), ec = "none",
         ConsumeHybi00, input' = input
  PROVE  Framed00(a, t, from, r)'
<1>1. a \in Bytes0 /\ t \in Seq(AnyFrame) /\ IsRun(t, r) /\ from[Len(t)] = Len(a)
  BY DEF Plan00
<1>2. PICK p, q \in Nat : Position(a, p, q) /\ \E k \in 0 .. Len(t) : At00(t, from, r, k, p)
  BY DEF Framed00, Broken
<1>3. PICK k \in 0 .. Len(t) : At00(t, from, r, k, p)
  BY <1>2
<1>4. PICK n : n = Len(t)
  OBVIOUS
<1>5. n \in Nat /\ k \in 0 .. n /\ k \in Nat
  BY <1>1, <1>4
<1>6. ~r[k].bad /\ r[k].op = "none" /\ delivered = r[k].out
  BY <1>3 DEF At00
<1>7. k # n
  <2> SUFFICES ASSUME k = n PROVE FALSE
    OBVIOUS
  <2>1. m_state = "HEADER" /\ p = Len(a)
    BY <1>1, <1>3, <1>4, <1>5 DEF At00, Between
  <2>2. chunk # <<>>
    BY <2>1 DEF ConsumeHybi00, Header00, Payload00, GetMessage00, Hybi00Turn
  <2>3. q \in 0 .. Len(a) /\ p \in 0 .. q /\ Len(a) \in Nat /\ chunk = Window(a, p, q)
    BY <1>1, <1>2 DEF Position, Bytes0
  <2>4. p = q
    BY ONLY <2>1, <2>3
  <2> QED
    BY ONLY <1>1, <2>2, <2>3, <2>4, WindowEmpty
<1>8. k < n /\ k + 1 \in 0 .. n /\ k \in 0 .. n - 1
  BY ONLY <1>5, <1>7
<1>9. PICK f, x : f = t[k + 1] /\ x = from[k]
  OBVIOUS
<1>10. f \in Frame00 /\ There00(a, x, f) /\ (f.op = "00" => from[k + 1] = x + 2 + Len(f.payload)) /\ f \in AnyFrame
  BY <1>4, <1>8, <1>9 DEF Plan00, AnyFrame
<1>11. Known(r[k])
  BY <1>1, <1>3, RunKnown
<1>12. r[k + 1] = Step(r[k], f)
  <2>1. \A i \in 1 .. Len(t) : r[i] = Step(r[i - 1], t[i])
    BY <1>1 DEF IsRun
  <2>2. k + 1 \in 1 .. n /\ (k + 1) - 1 = k
    BY ONLY <1>5, <1>8
  <2> QED
    BY <1>4, <1>9, <2>1, <2>2
<1>13. Between(x, p) \/ Within(x, f, p)
  BY <1>3, <1>9 DEF At00
<1>14. PICK p2 :
         /\ Position(a, p2, q)'
         /\ \/ ec' = "none" /\ delivered' = delivered /\ Within(x, f, p2)'
            \/ /\ ec' = "none" /\ f.op = "00" /\ delivered' = Step(r[k], f).out
               /\ m_state' = "HEADER" /\ p2 = x + 2 + Len(f.payload)
            \/ ec' # "none" /\ f.op # "00" /\ delivered' = delivered
  <2>1. PICK rk : rk = r[k]
    OBVIOUS
  <2>2. Known(rk) /\ ~rk.bad /\ rk.op = "none" /\ delivered = rk.out
    BY <1>6, <1>11, <2>1
  <2> QED
    BY <1>1, <1>2, <1>10, <1>13, <2>1, <2>2, FrameRead00
<1>15. p2 \in Nat
  BY <1>14 DEF Position
<1>16. /\ Passed(r[k], f) <=> f.op = "00"
       /\ f.op = "00" => Step(r[k], f).bad = FALSE /\ Step(r[k], f).op = "none"
  BY <1>6, <1>10, <1>11, Step00, ZenonT(60)
<1>17. Broken(t)' \/ \E i \in 0 .. Len(t) : At00(t, from, r, i, p2)'
  <2>1. CASE ec' = "none" /\ delivered' = delivered /\ Within(x, f, p2)'
    <3>1. At00(t, from, r, k, p2)'
      BY <1>4, <1>6, <1>8, <1>9, <2>1 DEF At00
    <3> QED
      BY <3>1
  <2>2. CASE ec' = "none" /\ f.op = "00" /\ delivered' = Step(r[k], f).out
             /\ m_state' = "HEADER" /\ p2 = x + 2 + Len(f.payload)
    <3>1. Between(from[k + 1], p2)'
      BY <1>10, <2>2 DEF Between
    <3>2. At00(t, from, r, k + 1, p2)'
      BY <1>12, <1>16, <2>2, <3>1 DEF At00
    <3> QED
      BY <1>4, <1>8, <3>2
  <2>3. CASE ec' # "none" /\ f.op # "00" /\ delivered' = delivered
    <3>0. ~Passed(r[k], t[k + 1])
      BY <1>9, <1>16, <2>3
    <3>1. Meaning(t).bad /\ Meaning(t).out = r[k].out
      BY <1>1, <1>4, <1>5, <1>8, <3>0, Spoils
    <3> QED
      BY <1>6, <2>3, <3>1 DEF Broken
  <2> QED
    BY <1>14, <2>1, <2>2, <2>3
<1> QED
  BY <1>2, <1>14, <1>15, <1>17 DEF Framed00

LEMMA FramesBrought00 ==
  ASSUME NEW a, NEW t, NEW from, NEW r, Plan00(a, t, from, r), Framed00(a, t, from, r),
         NEW n \in 1 .. Len(input), Receive(n), UNCHANGED framing
  PROVE  Framed00(a, t, from, r)'
<1>1. a \in Bytes0
  BY DEF Plan00
<1>2. PICK p, q \in Nat : Position(a, p, q) /\ (Broken(t) \/ \E k \in 0 .. Len(t) : At00(t, from, r, k, p))
  BY DEF Framed00
<1>3. q + n \in Nat /\ Position(a, p, q + n)'
  BY <1>1, <1>2, Brought
<1>4. UNCHANGED <<m_state, m_bytes_needed, m_basic_header, m_extended_header, m_data_msg, m_control_msg,
                  m_current_msg, delivered, ec>>
  BY DEF framing, headers, messages
<1>5. CASE Broken(t)
  <2>1. Broken(t)'
    BY <1>4, <1>5 DEF Broken
  <2> QED
    BY <1>3, <2>1 DEF Framed00
<1>6. ASSUME NEW k \in 0 .. Len(t), At00(t, from, r, k, p)
      PROVE  Framed00(a, t, from, r)'
  <2>1. At00(t, from, r, k, p)'
    BY <1>4, <1>6 DEF At00, Between, Within
  <2> QED
    BY <1>3, <2>1 DEF Framed00
<1> QED
  BY <1>2, <1>5, <1>6

LEMMA SomeLeft00 ==
  ASSUME NEW a \in Bytes0, NEW f, NEW x, There00(a, x, f), NEW p, m_state # "READY", Between(x, p) \/ Within(x, f, p)
  PROVE  p < Len(a)
<1>1. PICK size, l : size = Len(f.payload) /\ l = Len(a)
  OBVIOUS
<1>2. x \in Nat /\ size \in Nat /\ l \in Nat /\ x < l /\ (f.op = "00" => x + 2 + size <= l)
  BY <1>1 DEF There00, Bytes0
<1>3. CASE Between(x, p)
  BY <1>1, <1>2, <1>3 DEF Between
<1>4. CASE Within(x, f, p)
  <2>1. PICK j \in 0 .. size : p = x + 1 + j /\ f.op = "00"
    BY <1>1, <1>4 DEF Within
  <2>2. x + 2 + size <= l
    BY <1>2, <2>1
  <2>3. p < l
    BY ONLY <1>2, <2>1, <2>2
  <2> QED
    BY <1>1, <2>3
<1> QED
  BY <1>3, <1>4

LEMMA FramesTold00 ==
  ASSUME MessageType, NEW a, NEW t, NEW from, NEW r, Plan00(a, t, from, r), Framed00(a, t, from, r)
  PROVE  Told(t)
<1>1. a \in Bytes0 /\ t \in Seq(AnyFrame) /\ IsRun(t, r) /\ from[Len(t)] = Len(a)
  BY DEF Plan00
<1>2. PICK p, q \in Nat : Position(a, p, q) /\ (Broken(t) \/ \E k \in 0 .. Len(t) : At00(t, from, r, k, p))
  BY DEF Framed00
<1>3. CASE Broken(t)
  <2>1. IsPrefix(delivered, delivered)
    BY PrefixOfItself DEF MessageType
  <2> QED
    BY <1>3, <2>1 DEF Broken, Told
<1>4. ASSUME NEW k \in 0 .. Len(t), At00(t, from, r, k, p)
      PROVE  Told(t)
  <2>1. ec = "none" /\ ~r[k].bad /\ delivered = r[k].out
    BY <1>4 DEF At00
  <2>2. IsPrefix(delivered, Meaning(t).out)
    BY <1>1, <1>4, <2>1, RunGrows
  <2>3. ASSUME Exhausted
        PROVE  ~Meaning(t).bad /\ delivered = Meaning(t).out
    <3>1. m_state # "READY" /\ chunk = <<>> /\ input = <<>>
      BY <2>3 DEF Exhausted
    <3>2. p = Len(a) /\ p \in Nat
      <4>1. q \in 0 .. Len(a) /\ p \in 0 .. q /\ Len(a) \in Nat /\ chunk = Window(a, p, q) /\ input = Window(a, q, Len(a))
        BY <1>1, <1>2 DEF Position, Bytes0
      <4>2. p = q /\ q = Len(a)
        <5>1. Len(a) \in 0 .. Len(a)
          BY <4>1
        <5> QED
          BY ONLY <3>1, <4>1, <5>1, <1>1, WindowEmpty
      <4> QED
        BY ONLY <4>1, <4>2
    <3>3. PICK n : n = Len(t)
      OBVIOUS
    <3>4. n \in Nat /\ k \in 0 .. n
      BY <1>1, <1>4, <3>3
    <3>5. CASE k = n
      <4>1. r[k] = Meaning(t)
        BY <1>1, <3>3, <3>5 DEF IsRun
      <4> QED
        BY <2>1, <4>1
    <3>6. CASE k # n
      <4>1. k \in 0 .. n - 1 /\ k + 1 \in 0 .. n /\ k < n
        BY ONLY <3>4, <3>6
      <4>2. PICK f, x : f = t[k + 1] /\ x = from[k]
        OBVIOUS
      <4>3. There00(a, x, f)
        BY <3>3, <4>1, <4>2 DEF Plan00
      <4>4. Between(x, p) \/ Within(x, f, p)
        BY <1>4, <4>2 DEF At00
      <4>5. p < Len(a)
        BY <1>1, <3>1, <4>3, <4>4, SomeLeft00
      <4> QED
        BY ONLY <3>2, <4>5
    <3> QED
      BY <3>5, <3>6
  <2> QED
    BY <2>1, <2>2, <2>3 DEF Told
<1> QED
  BY <1>2, <1>3, <1>4
-----------------------------------------------------------------------------
(* The bytes of a line.                                                    *)
IsLine(b, line, size) ==
  /\ b \in Bytes0 /\ size = Len(line) /\ size \in Nat /\ Len(b) = size + 2
  /\ \A i \in 1 .. size : b[i].s = line[i]
  /\ b[size + 1].s = "CR" /\ b[size + 2].s = "LF"

LEMMA LineSays ==
  ASSUME NEW line \in Seq(STRING)
  PROVE  IsLine(LineBytes(line), line, Len(line))
<1>1. PICK size \in Nat : size = Len(line) /\ DOMAIN line = 1 .. size /\ \A i \in 1 .. size : line[i] \in STRING
  OBVIOUS
<1>2. "CR" \in STRING /\ "LF" \in STRING
  BY StringsAssumption
<1>3. Http("CR") \in ByteType /\ Http("LF") \in ByteType /\ Http("CR").s = "CR" /\ Http("LF").s = "LF"
  <2>1. Http("CR") \in ByteType /\ Http("LF") \in ByteType
    BY <1>2, HttpType
  <2> QED
    BY <2>1 DEF Http
<1>4. PICK u, v, w, b : u = [i \in 1 .. size |-> Http(line[i])] /\ v = Http("CR") /\ w = Http("LF") /\ b = LineBytes(line)
  OBVIOUS
<1>5. u \in Bytes0 /\ Len(u) = size
  <2>1. \A i \in 1 .. size : Http(line[i]) \in ByteType
    BY <1>1, HttpType
  <2>2. u \in Seq(ByteType) /\ Len(u) = size
    BY ONLY <1>4, <2>1, size \in Nat
  <2> QED
    BY <2>2 DEF Bytes0
<1>6. <<v, w>> \in Bytes0 /\ Len(<<v, w>>) = 2 /\ <<v, w>>[1] = v /\ <<v, w>>[2] = w
  <2>1. v \in ByteType /\ w \in ByteType
    BY <1>3, <1>4
  <2>2. <<v, w>> \in Seq(ByteType)
    BY ONLY <2>1, Pair
  <2> QED
    BY <2>2 DEF Bytes0
<1>7. b = u \o <<v, w>>
  BY <1>1, <1>4 DEF LineBytes
<1>8. IsJoin(u, <<v, w>>, b, size, 2)
  BY ONLY <1>5, <1>6, <1>7, JoinedOf
<1>9. b \in Bytes0 /\ Len(b) = size + 2 /\ (\A i \in 1 .. size : b[i] = u[i]) /\ (\A i \in 1 .. 2 : b[size + i] = <<v, w>>[i])
  BY ONLY <1>8 DEF IsJoin
<1>10. b[size + 1] = v /\ b[size + 2] = w
  <2>1. 1 \in 1 .. 2 /\ 2 \in 1 .. 2
    OBVIOUS
  <2>2. b[size + 1] = <<v, w>>[1] /\ b[size + 2] = <<v, w>>[2]
    BY ONLY <1>9, <2>1
  <2> QED
    BY ONLY <1>6, <2>2
<1>11. \A i \in 1 .. size : b[i].s = line[i]
  <2>1. \A i \in 1 .. size : u[i] = Http(line[i])
    BY ONLY <1>4
  <2>2. \A i \in 1 .. size : Http(line[i]).s = line[i]
    BY DEF Http
  <2> QED
    BY ONLY <1>9, <2>1, <2>2
<1> QED
  BY <1>1, <1>3, <1>4, <1>9, <1>10, <1>11 DEF IsLine

(* A line in the bytes a, from the x-th on.                                *)
HasLine(a, x, line, y) ==
  LET size == Len(line)
  IN /\ x \in Nat /\ size \in Nat /\ y = x + size + 2 /\ y <= Len(a)
     /\ \A i \in 1 .. size : a[x + i].s = line[i]
     /\ a[x + size + 1].s = "CR" /\ a[x + size + 2].s = "LF"
     /\ \A j \in 1 .. size - 1 : ~(line[j] = "CR" /\ line[j + 1] = "LF")

LEMMA LineThere ==
  ASSUME NEW s \in Streams, NEW at, NEW from, IsPlan(s, at, from), NEW k \in Nat, k < Len(s.lines)
  PROVE  /\ HasLine(Bytes(s), at[k], s.lines[k + 1], at[k + 1]) /\ s.lines[k + 1] \in Seq(STRING)
         /\ s.lines[k + 1] = <<>> <=> k + 1 = Len(s.lines)
<1>1. PICK a, x, y, n, line, size : a = Bytes(s) /\ x = at[k] /\ y = at[k + 1] /\ n = Len(s.lines)
                                     /\ line = s.lines[k + 1] /\ size = Len(line)
  OBVIOUS
<1>2. a \in Bytes0
  BY <1>1, StreamBytes DEF Bytes0
<1>3. n \in Nat /\ DOMAIN s.lines = 1 .. n /\ s.lines \in Seq(Seq(STRING))
  BY <1>1, StreamsAssumption
<1>4. k + 1 \in 1 .. n
  BY ONLY <1>1, <1>3, k \in Nat, k < Len(s.lines)
<1>5. line \in Seq(STRING)
  BY ONLY <1>1, <1>3, <1>4
<1>6. PICK parts : parts = LinesOf(s)
  OBVIOUS
<1>7. parts \in Seq(Bytes0) /\ Len(parts) = n /\ Layout(at, parts, a)
  BY <1>1, <1>6, PartsOf DEF IsPlan
<1>8. k < Len(parts)
  BY ONLY <1>1, <1>7, k < Len(s.lines)
<1>9. PICK b : b = parts[k + 1]
  OBVIOUS
<1>10. b = LineBytes(line)
  <2>1. parts = [i \in DOMAIN s.lines |-> LineBytes(s.lines[i])]
    BY <1>6 DEF LinesOf
  <2> QED
    BY <1>1, <1>3, <1>4, <1>9, <2>1
<1>11. IsLine(b, line, size)
  BY <1>1, <1>5, <1>10, LineSays
<1>12. Lies(b, a, x, y)
  <2>1. Lies(parts[k + 1], a, at[k], at[k + 1])
    BY ONLY <1>2, <1>7, <1>8, k \in Nat, LayoutAt, Zenon
  <2> QED
    BY ONLY <1>1, <1>9, <2>1, Zenon
<1>13. PICK l : l = Len(b)
  OBVIOUS
<1>14. /\ size \in Nat /\ l = size + 2 /\ size = Len(line)
       /\ \A i \in 1 .. size : b[i].s = line[i]
       /\ b[size + 1].s = "CR" /\ b[size + 2].s = "LF"
  BY ONLY <1>11, <1>13 DEF IsLine
<1>15. /\ x \in Nat /\ y \in Nat /\ y = x + l /\ y <= Len(a)
       /\ \A i \in 1 .. l : a[x + i] = b[i]
  BY ONLY <1>12, <1>13 DEF Lies
<1>16. y = x + size + 2 /\ size + 1 \in 1 .. l /\ size + 2 \in 1 .. l
  <2>1. size \in Nat /\ l = size + 2 /\ x \in Nat /\ y = x + l
    BY ONLY <1>14, <1>15
  <2> QED
    BY ONLY <2>1
<1>17. \A i \in 1 .. size : i \in 1 .. l
  BY ONLY <1>14
<1>18. x + size + 1 = x + (size + 1) /\ x + size + 2 = x + (size + 2)
  BY ONLY <1>14, <1>15
<1>19. a[x + size + 1].s = "CR" /\ a[x + size + 2].s = "LF"
  BY ONLY <1>14, <1>15, <1>16, <1>18
<1>20. \A i \in 1 .. size : a[x + i].s = line[i]
  BY ONLY <1>14, <1>15, <1>17
<1>21. \A j \in 1 .. size - 1 : ~(line[j] = "CR" /\ line[j + 1] = "LF")
  BY <1>1, <1>3, <1>4, RequestsAssumption
<1>22. HasLine(a, x, line, y)
  BY ONLY <1>1, <1>14, <1>15, <1>16, <1>19, <1>20, <1>21 DEF HasLine
<1>23. line = <<>> <=> k + 1 = n
  BY <1>1, <1>3, <1>4, RequestsAssumption
<1> QED
  BY <1>1, <1>5, <1>22, <1>23

(* The first delimiter that read finds is the end of the line.             *)
LEMMA FirstEnd ==
  ASSUME NEW a \in Bytes0, NEW x, NEW line, NEW y, HasLine(a, x, line, y), NEW q \in 0 .. Len(a), x <= q,
         m_buf = Window(a, x, q), LineEnds # {}
  PROVE  Min(LineEnds) = Len(line) + 1 /\ y <= q
<1>1. PICK size : size = Len(line)
  OBVIOUS
<1>2. /\ x \in Nat /\ size \in Nat /\ y = x + size + 2 /\ y <= Len(a)
      /\ \A i \in 1 .. size : a[x + i].s = line[i]
      /\ a[x + size + 1].s = "CR" /\ a[x + size + 2].s = "LF"
      /\ \A j \in 1 .. size - 1 : ~(line[j] = "CR" /\ line[j + 1] = "LF")
  BY <1>1 DEF HasLine
<1>3. x \in 0 .. q /\ q \in Nat /\ Len(a) \in Nat
  BY <1>2 DEF Bytes0
<1>4. PICK b, l : b = m_buf /\ l = q - x
  OBVIOUS
<1>5. l \in Nat /\ Len(b) = l /\ \A i \in 1 .. l : b[i] = a[x + i]
  <2>1. b = Window(a, x, q)
    BY <1>4
  <2>2. Len(b) = q - x /\ \A i \in 1 .. q - x : b[i] = a[x + i]
    BY <1>3, <2>1, WindowIs
  <2> QED
    BY ONLY <1>3, <1>4, <2>2
<1>6. LineEnds = {i \in 1 .. l - 1 : b[i].s = "CR" /\ b[i + 1].s = "LF"}
  BY <1>4, <1>5 DEF LineEnds, Delimiter
<1>7. ASSUME NEW i \in LineEnds
      PROVE  size + 1 <= i
  <2> SUFFICES ASSUME ~(size + 1 <= i) PROVE FALSE
    OBVIOUS
  <2>1. i \in 1 .. l - 1 /\ b[i].s = "CR" /\ b[i + 1].s = "LF"
    BY <1>6
  <2>2. i \in 1 .. size /\ i \in 1 .. l /\ i + 1 \in 1 .. l
    BY ONLY <1>2, <1>5, <2>1, ~(size + 1 <= i)
  <2>3. a[x + i].s = "CR" /\ a[x + (i + 1)].s = "LF" /\ line[i] = "CR"
    BY ONLY <1>2, <1>5, <2>1, <2>2
  <2>4. CASE i = size
    <3>1. x + (i + 1) = x + size + 1
      BY ONLY <1>2, <2>4
    <3>2. "CR" # "LF"
      OBVIOUS
    <3> QED
      BY ONLY <1>2, <2>3, <3>1, <3>2
  <2>5. CASE i # size
    <3>1. i \in 1 .. size - 1 /\ i + 1 \in 1 .. size
      BY ONLY <1>2, <2>2, <2>5
    <3>2. line[i + 1] = "LF"
      BY ONLY <1>2, <2>3, <3>1
    <3> QED
      BY ONLY <1>2, <2>3, <3>1, <3>2
  <2> QED
    BY <2>4, <2>5
<1>8. PICK e \in LineEnds : TRUE
  OBVIOUS
<1>9. size + 1 \in 1 .. l - 1 /\ size + 1 \in 1 .. l /\ (size + 1) + 1 \in 1 .. l /\ y <= q
  <2>1. e \in 1 .. l - 1
    BY <1>6
  <2>2. size + 1 <= e
    BY <1>7
  <2> QED
    BY ONLY <1>2, <1>3, <1>4, <1>5, <2>1, <2>2
<1>10. size + 1 \in LineEnds
  <2>1. x + (size + 1) = x + size + 1 /\ x + ((size + 1) + 1) = x + size + 2
    BY ONLY <1>2
  <2>2. b[size + 1].s = "CR" /\ b[(size + 1) + 1].s = "LF"
    BY ONLY <1>2, <1>5, <1>9, <2>1
  <2> QED
    BY <1>6, <1>9, <2>2
<1>11. LineEnds \subseteq Int /\ size + 1 \in Int
  BY <1>2, <1>6
<1>12. Min(LineEnds) = size + 1
  BY ONLY <1>7, <1>10, <1>11, MinIs
<1> QED
  BY <1>1, <1>9, <1>12
-----------------------------------------------------------------------------
(* The headers that the first k lines bring, the first being the request's. *)
Collected(s, k) == UNION {HeadersOf(s.lines[i][1]) : i \in 2 .. k}

LEMMA Headers ==
  /\ \A w : "Length" \in HeadersOf(w) <=> w = "Length"
  /\ \A w : HeadersOf(w) \cap DOMAIN Versions # {} <=> w \in DOMAIN Versions \cup {"Handshake"}
  /\ \A v \in DOMAIN Versions : Versions[v] # 0
  /\ RequestLines \cap (DOMAIN Versions \cup {"Handshake", "Length"}) = {}
<1>1. DOMAIN Versions = {"Version7", "Version8", "Version9", "Version13", "VersionX"}
  BY DEF Versions
<1>2. \A w : "Length" \in HeadersOf(w) <=> w = "Length"
  BY DEF HeadersOf
<1>3. ASSUME NEW w
      PROVE  HeadersOf(w) \cap DOMAIN Versions # {} <=> w \in DOMAIN Versions \cup {"Handshake"}
  <2>1. CASE w = "Handshake"
    <3>1. "Version13" \in HeadersOf(w) /\ "Version13" \in DOMAIN Versions
      BY <1>1, <2>1 DEF HeadersOf
    <3> QED
      BY <2>1, <3>1
  <2>2. CASE w # "Handshake"
    <3>1. HeadersOf(w) = {w}
      BY <2>2 DEF HeadersOf
    <3> QED
      BY <2>2, <3>1
  <2> QED
    BY <2>1, <2>2
<1>4. \A v \in DOMAIN Versions : Versions[v] # 0
  BY <1>1 DEF Versions
<1>5. RequestLines \cap (DOMAIN Versions \cup {"Handshake", "Length"}) = {}
  BY <1>1 DEF RequestLines
<1> QED
  BY <1>2, <1>3, <1>4, <1>5

(* A request begins with a request line that is known.                     *)
Begun1(s) == Len(s.lines) > 1 /\ s.lines[1][1] \in RequestLines

LEMMA SaysLater ==
  ASSUME NEW s \in Streams, Begun1(s), NEW words, words \cap RequestLines = {}
  PROVE  Says(s, words) <=> \E i \in 2 .. Len(s.lines) - 1 : s.lines[i][1] \in words
<1>1. PICK n, lines : n = Len(s.lines) /\ lines = s.lines
  OBVIOUS
<1>2. n \in Nat /\ n > 1 /\ DOMAIN lines = 1 .. n /\ lines[1][1] \in RequestLines
  BY <1>1, StreamsAssumption DEF Begun1
<1>3. \A i \in 1 .. n : lines[i] = <<>> <=> i = n
  BY <1>1, <1>2, RequestsAssumption
<1>4. \A i : i \in 1 .. n /\ i # n <=> i = 1 \/ i \in 2 .. n - 1
  BY ONLY <1>2
<1>5. Says(s, words) <=> \E i \in 1 .. n : lines[i] # <<>> /\ lines[i][1] \in words
  BY <1>1, <1>2 DEF Says
<1> QED
  BY ONLY <1>1, <1>2, <1>3, <1>4, <1>5, words \cap RequestLines = {}

(* What the server knows of them at the end of the request.                *)
LEMMA HeadersTell ==
  ASSUME NEW s \in Streams, Begun1(s), m_headers = Collected(s, Len(s.lines) - 1)
  PROVE  /\ "Length" \in m_headers <=> Says(s, {"Length"})
         /\ GetWebsocketVersion = 0 <=> Says00(s)
<1>1. \A x : x \in m_headers <=> \E i \in 2 .. Len(s.lines) - 1 : x \in HeadersOf(s.lines[i][1])
  BY DEF Collected
<1>2. "Length" \in m_headers <=> Says(s, {"Length"})
  <2>1. {"Length"} \cap RequestLines = {}
    BY Headers
  <2>2. Says(s, {"Length"}) <=> \E i \in 2 .. Len(s.lines) - 1 : s.lines[i][1] \in {"Length"}
    BY <2>1, SaysLater
  <2> QED
    BY <1>1, <2>2, Headers
<1>3. PICK words : words = DOMAIN Versions \cup {"Handshake"}
  OBVIOUS
<1>4. Says(s, words) <=> \E i \in 2 .. Len(s.lines) - 1 : s.lines[i][1] \in words
  <2>1. words \cap RequestLines = {}
    BY <1>3, Headers
  <2> QED
    BY <2>1, SaysLater
<1>5. m_headers \cap DOMAIN Versions # {} <=> \E i \in 2 .. Len(s.lines) - 1 : s.lines[i][1] \in words
  <2>1. ASSUME NEW x \in m_headers, x \in DOMAIN Versions
        PROVE  \E i \in 2 .. Len(s.lines) - 1 : s.lines[i][1] \in words
    <3>1. PICK i \in 2 .. Len(s.lines) - 1 : x \in HeadersOf(s.lines[i][1])
      BY <1>1, <2>1
    <3>2. HeadersOf(s.lines[i][1]) \cap DOMAIN Versions # {}
      BY <2>1, <3>1
    <3> QED
      BY <1>3, <3>2, Headers
  <2>2. ASSUME NEW i \in 2 .. Len(s.lines) - 1, s.lines[i][1] \in words
        PROVE  m_headers \cap DOMAIN Versions # {}
    <3>1. HeadersOf(s.lines[i][1]) \cap DOMAIN Versions # {}
      BY <1>3, <2>2, Headers
    <3> QED
      BY <1>1, <3>1
  <2> QED
    BY <2>1, <2>2
<1>6. GetWebsocketVersion = 0 <=> m_headers \cap DOMAIN Versions = {}
  <2>1. PICK version : version = m_headers \cap DOMAIN Versions
    OBVIOUS
  <2>2. GetWebsocketVersion = IF version = {} THEN 0 ELSE Versions[CHOOSE v \in version : TRUE]
    BY <2>1 DEF GetWebsocketVersion
  <2>3. version # {} => (CHOOSE v \in version : TRUE) \in DOMAIN Versions
    BY <2>1
  <2> QED
    BY <2>1, <2>2, <2>3, Headers
<1>7. Says00(s) <=> ~Says(s, words)
  BY <1>3 DEF Says00
<1> QED
  BY <1>2, <1>4, <1>5, <1>6, <1>7
-----------------------------------------------------------------------------
(* The first k lines of a request are in order, and all of them are, with  *)
(* nothing missing.                                                        *)
Orderly(s, k) ==
  \A i \in 1 .. k : /\ Len(s.lines[i]) + 2 <= MaxHeader
                    /\ s.lines[i][1] \in IF i = 1 THEN RequestLines ELSE HeaderLines

Complete(s) ==
  LET named == Collected(s, Len(s.lines) - 1)
  IN /\ Orderly(s, Len(s.lines) - 1) /\ 2 <= MaxHeader
     /\ "TooLong" \notin named /\ "Host" \in named /\ StripLws(s.values["Host"]) # <<>>

Method(s, k) == IF k = 0 THEN "" ELSE s.lines[1][1]

(* How far a request has been read: k lines of it ...                      *)
InLines(s, a, at, k) ==
  /\ k \in Nat /\ k < Len(s.lines) /\ at[k] \in Nat
  /\ ~m_ready /\ m_body_bytes_needed = 0
  /\ \E q \in 0 .. Len(a) : at[k] <= q /\ m_buf = Window(a, at[k], q) /\ input = Window(a, q, Len(a))
  /\ Len(m_buf) <= MaxHeader /\ m_method = Method(s, k)
  /\ Orderly(s, k) /\ (k > 0 => Begun1(s))
  /\ m_headers = Collected(s, k)

(* ... or all of them, and some of its body.                               *)
InBody(s, a, at) ==
  /\ Begun1(s) /\ Complete(s)
  /\ m_method = s.lines[1][1] /\ m_headers = Collected(s, Len(s.lines) - 1)
  /\ m_ready \/ m_body_bytes_needed > 0
  /\ m_body + m_body_bytes_needed = IF "Length" \in m_headers THEN BodyLength ELSE 0
  /\ \E q \in Nat : Position(a, at[Len(s.lines)] + m_body, q)

Requested(s, a, at) == m_response = 0 => InBody(s, a, at) \/ \E k \in Nat : InLines(s, a, at, k)

(* A read.                                                                 *)
LEMMA LinesBrought ==
  ASSUME NEW s, NEW a \in Bytes0, NEW at, Requested(s, a, at), Body, NEW n \in 1 .. Len(input), ReadRequest(n)
  PROVE  Requested(s, a, at)'
<1>1. /\ Receive(n) /\ m_response = 0 /\ ~m_ready /\ m_body_bytes_needed = 0
      /\ UNCHANGED <<m_method, m_headers, m_body_bytes_needed, m_ready>>
      /\ m_response' # 0 \/ (m_buf' = m_buf \o chunk' /\ ~(Len(m_buf) + n > MaxHeader))
  BY DEF ReadRequest
<1>2. ~InBody(s, a, at)
  BY <1>1 DEF InBody
<1>3. PICK k \in Nat : InLines(s, a, at, k)
  BY <1>1, <1>2 DEF Requested
<1>4. PICK q \in 0 .. Len(a) : at[k] <= q /\ m_buf = Window(a, at[k], q) /\ input = Window(a, q, Len(a))
  BY <1>3 DEF InLines
<1>5. at[k] \in Nat /\ Len(a) \in Nat /\ q \in Nat
  <2>1. at[k] \in Nat
    BY <1>3 DEF InLines
  <2>2. Len(a) \in Nat
    BY ONLY a \in Bytes0 DEF Bytes0
  <2> QED
    BY ONLY <2>1, <2>2, q \in 0 .. Len(a)
<1>6. PICK x : x = at[k]
  OBVIOUS
<1>7. Len(input) = Len(a) - q
  <2>1. Len(a) \in 0 .. Len(a) /\ q \in 0 .. Len(a)
    BY <1>5
  <2> QED
    BY ONLY <1>4, <2>1, WindowIs, a \in Bytes0
<1>8. PICK q2 : q2 = q + n
  OBVIOUS
<1>9. n \in 0 .. Len(a) - q /\ q2 \in 0 .. Len(a) /\ x \in 0 .. q /\ q \in 0 .. q2 /\ x <= q2 /\ Len(a) \in 0 .. Len(a)
  BY ONLY <1>4, <1>5, <1>6, <1>7, <1>8, n \in 1 .. Len(input)
<1>10. chunk' = Window(a, q, q2) /\ input' = Window(a, q2, Len(a))
  <2>1. chunk' = SubSeq(input, 1, n) /\ input' = SubSeq(input, n + 1, Len(input))
    BY <1>1 DEF Receive
  <2> QED
    BY ONLY <1>4, <1>8, <1>9, <2>1, WindowTake, a \in Bytes0
<1>11. CASE m_response' # 0
  BY <1>11 DEF Requested
<1>12. CASE m_buf' = m_buf \o chunk' /\ ~(Len(m_buf) + n > MaxHeader)
  <2>1. Window(a, x, q) \o Window(a, q, q2) = Window(a, x, q2)
    BY ONLY <1>9, WindowJoin, a \in Bytes0
  <2>2. m_buf' = Window(a, x, q2)
    BY <1>4, <1>6, <1>10, <1>12, <2>1
  <2>3. Len(m_buf') <= MaxHeader
    <3>1. Len(m_buf) = q - x /\ Len(m_buf') = q2 - x
      <4>1. m_buf = Window(a, x, q) /\ q2 \in 0 .. Len(a) /\ x \in 0 .. q2 /\ x \in 0 .. q
        BY <1>4, <1>5, <1>6, <1>8, <1>9
      <4> QED
        BY ONLY <2>2, <4>1, WindowIs, a \in Bytes0, q \in 0 .. Len(a)
    <3>2. MaxHeader \in Int
      BY InboundAssumption
    <3> QED
      BY ONLY <1>5, <1>6, <1>8, <1>12, <3>1, <3>2, n \in 1 .. Len(input), <1>7
  <2>4. InLines(s, a, at, k)'
    BY <1>1, <1>3, <1>6, <1>9, <1>10, <2>2, <2>3 DEF InLines
  <2> QED
    BY <2>4 DEF Requested
<1> QED
  BY <1>1, <1>11, <1>12

LEMMA BodyBrought ==
  ASSUME NEW s, NEW a \in Bytes0, NEW at, Requested(s, a, at), Body, NEW n \in 1 .. Len(input), ReadBody(n)
  PROVE  Requested(s, a, at)'
<1>1. Receive(n) /\ m_response = 0 /\ m_body_bytes_needed > 0 /\ UNCHANGED request
  BY DEF ReadBody
<1>2. UNCHANGED <<m_method, m_headers, m_body_bytes_needed, m_body, m_ready, m_response>>
  BY <1>1 DEF request
<1>3. m_body_bytes_needed # 0
  BY <1>1 DEF Body
<1>4. InBody(s, a, at)
  BY <1>1, <1>3 DEF Requested, InLines
<1>5. PICK q \in Nat : Position(a, at[Len(s.lines)] + m_body, q)
  BY <1>4 DEF InBody
<1>6. PICK p : p = at[Len(s.lines)] + m_body
  OBVIOUS
<1>7. q + n \in Nat /\ Position(a, p, q + n)'
  BY <1>1, <1>5, <1>6, Brought
<1>8. InBody(s, a, at)'
  BY <1>2, <1>4, <1>6, <1>7 DEF InBody
<1> QED
  BY <1>8 DEF Requested
-----------------------------------------------------------------------------
(* What is true of the next line when there is one in the buffer.          *)
NextLine(s, a, at, k, line) ==
  /\ Min(LineEnds) = Len(line) + 1 /\ line \in Seq(STRING)
  /\ \E q \in 0 .. Len(a) : /\ at[k + 1] <= q /\ input = Window(a, q, Len(a))
                            /\ SubSeq(m_buf, Len(line) + 3, Len(m_buf)) = Window(a, at[k + 1], q)
  /\ at[k + 1] \in Nat /\ a \in Bytes0 /\ Len(line) + 2 <= MaxHeader
  /\ line # <<>> => m_buf[1].s = line[1] /\ k + 1 < Len(s.lines)
  /\ line = <<>> => k + 1 = Len(s.lines)

LEMMA LineComes ==
  ASSUME NEW s \in Streams, NEW at, NEW from, IsPlan(s, at, from), NEW a, a = Bytes(s),
         NEW k \in Nat, InLines(s, a, at, k), LineEnds # {}
  PROVE  NextLine(s, a, at, k, s.lines[k + 1])
<1>1. PICK x, y, line, size, n : x = at[k] /\ y = at[k + 1] /\ line = s.lines[k + 1] /\ size = Len(line) /\ n = Len(s.lines)
  OBVIOUS
<1>2. a \in Bytes0
  BY StreamBytes DEF Bytes0
<1>3. k < n /\ n \in Nat
  <2>1. k < n
    BY <1>1 DEF InLines
  <2>2. n \in Nat
    BY <1>1, StreamsAssumption
  <2> QED
    BY <2>1, <2>2
<1>4. HasLine(a, x, line, y) /\ line \in Seq(STRING) /\ (line = <<>> <=> k + 1 = n)
  BY <1>1, <1>3, LineThere
<1>5. PICK q \in 0 .. Len(a) : x <= q /\ m_buf = Window(a, x, q) /\ input = Window(a, q, Len(a))
  BY <1>1 DEF InLines
<1>6. Min(LineEnds) = size + 1 /\ y <= q
  BY <1>1, <1>2, <1>4, <1>5, FirstEnd
<1>7. x \in Nat /\ size \in Nat /\ y = x + size + 2 /\ \A i \in 1 .. size : a[x + i].s = line[i]
  BY <1>1, <1>4 DEF HasLine
<1>8. q \in Nat
  BY ONLY <1>2, <1>5 DEF Bytes0
<1>9. x \in 0 .. q /\ size + 2 \in 0 .. q - x /\ x + (size + 2) = y /\ y \in Nat /\ (size + 2) + 1 = size + 3 /\ q \in 0 .. Len(a)
  <2>1. x \in Nat /\ size \in Nat /\ y = x + size + 2
    BY ONLY <1>7
  <2> QED
    BY ONLY <1>5, <1>6, <1>8, <2>1
<1>10. SubSeq(m_buf, size + 3, Len(m_buf)) = Window(a, y, q)
  <2>1. SubSeq(Window(a, x, q), (size + 2) + 1, Len(Window(a, x, q))) = Window(a, x + (size + 2), q)
    BY ONLY <1>9, WindowTake, <1>2
  <2> QED
    BY ONLY <1>5, <1>9, <2>1
<1>11. ASSUME line # <<>>
       PROVE  m_buf[1].s = line[1] /\ k + 1 < n
  <2>1. size # 0
    BY <1>1, <1>4, <1>11
  <2>2. 1 \in 1 .. size /\ 1 \in 1 .. q - x
    BY ONLY <1>9, <1>7, <2>1
  <2>3. m_buf[1] = a[x + 1]
    BY ONLY <1>2, <1>5, <1>9, <2>2, WindowIs
  <2>4. k + 1 < n
    BY <1>3, <1>4, <1>11
  <2> QED
    BY <1>7, <2>2, <2>3, <2>4
<1>14. Len(line) + 2 <= MaxHeader
  <2>1. Len(m_buf) <= MaxHeader
    BY DEF InLines
  <2>2. Len(m_buf) = q - x
    BY <1>2, <1>5, <1>9, WindowIs
  <2>3. MaxHeader \in Int
    BY InboundAssumption
  <2> QED
    BY ONLY <1>1, <1>9, <2>1, <2>2, <2>3, SMTT(60)
<1>12. /\ Min(LineEnds) = Len(line) + 1 /\ line \in Seq(STRING) /\ at[k + 1] \in Nat
       /\ line # <<>> => m_buf[1].s = line[1] /\ k + 1 < Len(s.lines)
       /\ line = <<>> => k + 1 = Len(s.lines)
  BY ONLY <1>1, <1>4, <1>6, <1>9, <1>11
<1>13. /\ at[k + 1] <= q /\ input = Window(a, q, Len(a))
       /\ SubSeq(m_buf, Len(line) + 3, Len(m_buf)) = Window(a, at[k + 1], q)
  BY ONLY <1>1, <1>5, <1>6, <1>10
<1> QED
  BY ONLY <1>1, <1>2, <1>12, <1>13, <1>14, q \in 0 .. Len(a) DEF NextLine

(* One more line brings the headers it says.                               *)
LEMMA CollectedMore ==
  ASSUME NEW s, NEW k \in Nat, k > 0
  PROVE  Collected(s, k + 1) = Collected(s, k) \cup HeadersOf(s.lines[k + 1][1])
<1>1. 2 .. k + 1 = (2 .. k) \cup {k + 1}
  OBVIOUS
<1> QED
  BY ONLY <1>1 DEF Collected

LEMMA CollectedFirst ==
  ASSUME NEW s
  PROVE  Collected(s, 0) = {} /\ Collected(s, 1) = {}
<1>1. 2 .. 0 = {} /\ 2 .. 1 = {}
  OBVIOUS
<1> QED
  BY ONLY <1>1 DEF Collected

(* There is a method as soon as there is a line.                           *)
LEMMA MethodIs ==
  ASSUME NEW s, NEW k \in Nat, Orderly(s, k)
  PROVE  Method(s, k) = "" <=> k = 0
<1>1. "" \notin RequestLines
  BY DEF RequestLines
<1>2. ASSUME k # 0
      PROVE  s.lines[1][1] \in RequestLines
  <2>1. 1 \in 1 .. k
    BY <1>2
  <2> QED
    BY <2>1 DEF Orderly
<1> QED
  BY <1>1, <1>2 DEF Method

LEMMA OneMore ==
  ASSUME NEW s, NEW k \in Nat, Orderly(s, k), Len(s.lines[k + 1]) + 2 <= MaxHeader,
         s.lines[k + 1][1] \in IF k = 0 THEN RequestLines ELSE HeaderLines
  PROVE  /\ Orderly(s, k + 1)
         /\ Method(s, k + 1) = IF k = 0 THEN s.lines[k + 1][1] ELSE Method(s, k)
<1>1. /\ \A i \in 1 .. k + 1 : i \in 1 .. k \/ i = k + 1
      /\ k + 1 = 1 <=> k = 0
      /\ k + 1 # 0
  OBVIOUS
<1>2. Orderly(s, k + 1)
  BY <1>1 DEF Orderly
<1>3. Method(s, k + 1) = IF k = 0 THEN s.lines[k + 1][1] ELSE Method(s, k)
  BY <1>1 DEF Method
<1> QED
  BY <1>2, <1>3

LEMMA NoLine ==
  ASSUME NEW s, NEW a, NEW at, Requested(s, a, at), OutOfBytes
  PROVE  Requested(s, a, at)'
<1>1. /\ m_response' = 0 /\ m_response = 0 /\ m_body_bytes_needed = 0 /\ ~m_ready
      /\ UNCHANGED <<input, m_buf, m_method, m_headers, m_body_bytes_needed, m_ready>>
  BY DEF OutOfBytes, Request, request
<1>2. ~InBody(s, a, at)
  BY <1>1 DEF InBody
<1>3. PICK k \in Nat : InLines(s, a, at, k)
  BY <1>1, <1>2 DEF Requested
<1>4. InLines(s, a, at, k)'
  BY <1>1, <1>3 DEF InLines
<1> QED
  BY <1>4 DEF Requested

(* The request line, or a header.                                          *)
LEMMA LineTaken ==
  ASSUME NEW s \in Streams, NEW at, NEW from, IsPlan(s, at, from), NEW a, a = Bytes(s),
         NEW k \in Nat, InLines(s, a, at, k), Line
  PROVE  /\ \E q \in 0 .. Len(a) : at[k + 1] <= q /\ m_buf' = Window(a, at[k + 1], q) /\ input' = Window(a, q, Len(a))
         /\ at[k + 1] \in Nat /\ k + 1 < Len(s.lines) /\ m_buf[1].s = s.lines[k + 1][1]
         /\ Len(s.lines[k + 1]) + 2 <= MaxHeader /\ Len(m_buf') <= MaxHeader
<1>1. PICK line, size : line = s.lines[k + 1] /\ size = Len(line)
  OBVIOUS
<1>2. LineEnds # {} /\ Min(LineEnds) > 1 /\ m_buf' = SubSeq(m_buf, Min(LineEnds) + 2, Len(m_buf)) /\ input' = input
  BY DEF Line, Request
<1>3. /\ Min(LineEnds) = size + 1 /\ line \in Seq(STRING)
      /\ \E q \in 0 .. Len(a) : /\ at[k + 1] <= q /\ input = Window(a, q, Len(a))
                                /\ SubSeq(m_buf, size + 3, Len(m_buf)) = Window(a, at[k + 1], q)
      /\ at[k + 1] \in Nat /\ size + 2 <= MaxHeader /\ a \in Bytes0
      /\ line # <<>> => m_buf[1].s = line[1] /\ k + 1 < Len(s.lines)
  <2>1. NextLine(s, a, at, k, line)
    BY <1>1, <1>2, LineComes
  <2> QED
    BY ONLY <1>1, <2>1 DEF NextLine
<1>4. size \in Nat /\ (size + 1) + 2 = size + 3
  BY <1>1, <1>3
<1>5. line # <<>>
  <2>1. size # 0
    BY ONLY <1>2, <1>3, <1>4
  <2> QED
    BY ONLY <1>1, <2>1
<1>6. m_buf' = SubSeq(m_buf, size + 3, Len(m_buf))
  BY ONLY <1>2, <1>3, <1>4
<1>7. Len(m_buf') <= MaxHeader
  <2>1. PICK q \in 0 .. Len(a) : at[k] <= q /\ m_buf = Window(a, at[k], q)
    BY DEF InLines
  <2>2. at[k] \in Nat /\ Len(m_buf) <= MaxHeader
    BY DEF InLines
  <2>3. Len(a) \in Nat /\ at[k] \in 0 .. q
    BY <1>3, <2>1, <2>2 DEF Bytes0
  <2>4. PICK b : b = m_buf
    OBVIOUS
  <2>5. b \in Bytes0
    BY ONLY <1>3, <2>1, <2>3, <2>4, WindowIs
  <2>6. Len(b) \in Nat
    BY ONLY <2>5 DEF Bytes0
  <2>7. CASE size + 2 <= Len(b)
    <3>1. size + 2 \in 0 .. Len(b) /\ (size + 2) + 1 = size + 3
      BY ONLY <1>4, <2>6, <2>7
    <3>2. Len(SubSeq(b, (size + 2) + 1, Len(b))) = Len(b) - (size + 2)
      BY ONLY <2>5, <3>1, TakeAndSkip DEF Bytes0
    <3>3. MaxHeader \in Int
      BY InboundAssumption
    <3> QED
      BY ONLY <1>4, <1>6, <2>2, <2>4, <2>6, <3>1, <3>2, <3>3
  <2>8. CASE ~(size + 2 <= Len(b))
    <3>1. LineEnds = {i \in 1 .. Len(b) - 1 : b[i].s = "CR" /\ b[i + 1].s = "LF"}
      BY <2>4 DEF LineEnds, Delimiter
    <3>2. size + 1 \in LineEnds
      <4>1. LineEnds # {} /\ LineEnds \subseteq Nat
        BY <1>2, <2>6, <3>1
      <4>2. Min(LineEnds) \in LineEnds
        BY <4>1, MinExists
      <4> QED
        BY <1>3, <4>2
    <3> QED
      BY ONLY <1>4, <2>6, <2>8, <3>1, <3>2
  <2> QED
    BY <2>7, <2>8
<1> QED
  BY ONLY <1>1, <1>2, <1>3, <1>5, <1>6, <1>7

LEMMA LineProcessed ==
  ASSUME NEW s \in Streams, NEW at, NEW from, IsPlan(s, at, from), NEW a, a = Bytes(s),
         Requested(s, a, at), Process \/ ProcessHeader
  PROVE  Requested(s, a, at)'
<1>1. Line /\ m_response = 0 /\ m_body_bytes_needed = 0 /\ ~m_ready /\ m_body_bytes_needed' = 0 /\ ~m_ready'
  <2>1. Line
    BY DEF Process, ProcessHeader
  <2>2. m_response = 0 /\ m_body_bytes_needed = 0 /\ ~m_ready
    BY <2>1 DEF Line, Request
  <2>3. m_body_bytes_needed' = m_body_bytes_needed /\ m_ready' = m_ready
    BY <2>1 DEF Line
  <2> QED
    BY <2>1, <2>2, <2>3
<1>2. ~InBody(s, a, at)
  BY <1>1 DEF InBody
<1>3. PICK k \in Nat : InLines(s, a, at, k)
  BY <1>1, <1>2 DEF Requested
<1>4. /\ \E q \in 0 .. Len(a) : at[k + 1] <= q /\ m_buf' = Window(a, at[k + 1], q) /\ input' = Window(a, q, Len(a))
      /\ at[k + 1] \in Nat /\ k + 1 < Len(s.lines) /\ m_buf[1].s = s.lines[k + 1][1]
      /\ Len(s.lines[k + 1]) + 2 <= MaxHeader /\ Len(m_buf') <= MaxHeader
  BY <1>1, <1>3, LineTaken
<1>5. m_method = Method(s, k) /\ Orderly(s, k) /\ m_headers = Collected(s, k) /\ (k > 0 => Begun1(s))
  BY <1>3 DEF InLines
<1>11. m_method = "" <=> k = 0
  BY <1>5, MethodIs
<1>6. k + 1 \in Nat /\ k + 1 > 0 /\ k + 1 # 0
  OBVIOUS
<1>7. CASE m_response' # 0
  BY ONLY <1>7 DEF Requested
<1>8. ASSUME m_response' = 0
      PROVE  /\ m_method' = Method(s, k + 1) /\ Orderly(s, k + 1)
             /\ Begun1(s) /\ m_headers' = Collected(s, k + 1)
  <2>1. m_response' # 400
    BY ONLY <1>8
  <2>2. CASE Process
    <3>1. m_method = "" /\ m_headers' = m_headers
      BY ONLY <2>2 DEF Process
    <3>2. k = 0
      BY ONLY <1>11, <3>1
    <3>3. k + 1 = 1
      BY ONLY <3>2
    <3>4. m_buf[1].s \in RequestLines /\ m_method' = m_buf[1].s
      BY ONLY <2>1, <2>2 DEF Process
    <3>5. m_method' = Method(s, k + 1) /\ Orderly(s, k + 1)
      BY ONLY <1>4, <1>5, <1>6, <3>2, <3>3, <3>4, k \in Nat, OneMore
    <3>6. Begun1(s)
      BY ONLY <1>4, <3>3, <3>4 DEF Begun1
    <3>7. m_headers' = Collected(s, k + 1)
      BY ONLY <1>5, <3>1, <3>2, <3>3, CollectedFirst
    <3> QED
      BY ONLY <1>6, <3>5, <3>6, <3>7
  <2>3. CASE ProcessHeader
    <3>1. m_method # "" /\ m_method' = m_method
      BY ONLY <2>3 DEF ProcessHeader
    <3>2. k # 0
      BY ONLY <1>11, <3>1
    <3>3. k > 0
      BY ONLY <3>2, k \in Nat
    <3>4. m_headers' = m_headers \cup HeadersOf(m_buf[1].s) /\ m_buf[1].s \in HeaderLines
      BY ONLY <2>1, <2>3 DEF ProcessHeader
    <3>6. m_method' = Method(s, k + 1) /\ Orderly(s, k + 1)
      BY ONLY <1>4, <1>5, <1>6, <3>1, <3>2, <3>4, k \in Nat, OneMore
    <3>5. Collected(s, k + 1) = Collected(s, k) \cup HeadersOf(s.lines[k + 1][1])
      BY ONLY <3>3, k \in Nat, CollectedMore
    <3> QED
      BY ONLY <1>4, <1>5, <3>3, <3>4, <3>5, <3>6
  <2> QED
    BY ONLY <2>2, <2>3, Process \/ ProcessHeader
<1>9. ASSUME m_response' = 0
      PROVE  InLines(s, a, at, k + 1)'
  <2>1. Begun1(s) /\ m_headers' = Collected(s, k + 1) /\ m_method' = Method(s, k + 1) /\ Orderly(s, k + 1)
    BY <1>8, <1>9
  <2> QED
    BY ONLY <1>1, <1>4, <1>6, <2>1 DEF InLines
<1>10. CASE m_response' = 0
  <2>1. InLines(s, a, at, k + 1)'
    BY <1>9, <1>10
  <2> QED
    BY ONLY <1>6, <2>1 DEF Requested
<1> QED
  BY <1>7, <1>10
-----------------------------------------------------------------------------
(* What the server makes of the value of a header.                         *)
LEMMA ValueIs ==
  ASSUME NEW s \in Streams, NEW name \in {"Host", "Extensions", "Subprotocols"}
  PROVE  Values[s.values[name]] = StripLws(s.values[name]) /\ StripLws(s.values[name]) \in Range(Values)
<1>1. PICK v, t : v = s.values /\ t = v[name]
  OBVIOUS
<1>2. DOMAIN v = {"Host", "Extensions", "Subprotocols"}
  BY <1>1, StreamsAssumption
<1>3. t \in Range(v)
  BY <1>1, <1>2 DEF Range
<1>4. t \in UNION {Range(c.values) : c \in Streams}
  BY <1>1, <1>3
<1>5. t \in DOMAIN Values /\ Values[t] = StripLws(t)
  BY <1>4 DEF Values
<1>6. Values[t] \in Range(Values)
  BY <1>5 DEF Range
<1> QED
  BY <1>1, <1>5, <1>6

(* The blank line, after which the body comes.                             *)
LEMMA LineEnded ==
  ASSUME NEW s \in Streams, NEW at, NEW from, IsPlan(s, at, from), NEW a, a = Bytes(s),
         Requested(s, a, at), Body, BlankLine, stream = s
  PROVE  Requested(s, a, at)'
<1>1. /\ m_response = 0 /\ m_body_bytes_needed = 0 /\ ~m_ready /\ LineEnds # {} /\ Min(LineEnds) = 1
      /\ input' = input /\ m_headers' = m_headers /\ m_body' = m_body
  BY DEF BlankLine, Request
<1>2. m_body' = 0
  BY <1>1 DEF Body
<1>3. ~InBody(s, a, at)
  BY <1>1 DEF InBody
<1>4. PICK k \in Nat : InLines(s, a, at, k)
  BY <1>1, <1>3 DEF Requested
<1>5. PICK line, size, n : line = s.lines[k + 1] /\ size = Len(line) /\ n = Len(s.lines)
  OBVIOUS
<1>6. NextLine(s, a, at, k, line)
  BY <1>1, <1>4, <1>5, LineComes
<1>7. /\ Min(LineEnds) = size + 1 /\ line \in Seq(STRING) /\ at[k + 1] \in Nat /\ a \in Bytes0
      /\ line = <<>> => k + 1 = n
      /\ size + 2 <= MaxHeader
  BY ONLY <1>5, <1>6 DEF NextLine
<1>8. PICK q \in 0 .. Len(a) : /\ at[k + 1] <= q /\ input = Window(a, q, Len(a))
                               /\ SubSeq(m_buf, size + 3, Len(m_buf)) = Window(a, at[k + 1], q)
  BY ONLY <1>5, <1>6 DEF NextLine
<1>9. size = 0 /\ size + 3 = 3
  <2>1. size \in Nat
    BY ONLY <1>5, <1>7
  <2> QED
    BY ONLY <1>1, <1>7, <2>1
<1>10. k + 1 = n
  <2>1. line = <<>>
    BY ONLY <1>5, <1>7, <1>9, EmptySeq
  <2> QED
    BY ONLY <1>7, <2>1
<1>11. CASE RequestError # 0
  <2>1. m_response' # 0
    BY ONLY <1>11, BlankLine DEF BlankLine
  <2> QED
    BY ONLY <2>1 DEF Requested
<1>12. CASE RequestError = 0
  <2>1. /\ chunk' = SubSeq(m_buf, 3, Len(m_buf)) /\ m_response' = 0
        /\ IF "Length" \in m_headers THEN m_body_bytes_needed' = BodyLength /\ m_ready' = (BodyLength = 0)
                                     ELSE m_ready' = TRUE /\ m_body_bytes_needed' = m_body_bytes_needed
    BY <1>1, <1>12 DEF BlankLine
  <2>2. m_method # ""
    <3>1. m_method = "" => RequestError = 400
      BY ONLY DEF RequestError
    <3>2. 400 # 0
      OBVIOUS
    <3> QED
      BY ONLY <1>12, <3>1, <3>2
  <2>3. k # 0
    BY <1>4, <2>2, MethodIs DEF InLines
  <2>4. k > 0 /\ k = n - 1
    BY ONLY <1>10, <2>3, k \in Nat
  <2>5. Begun1(s) /\ m_headers' = Collected(s, n - 1) /\ m_method' = s.lines[1][1]
    <3>1. m_method' = m_method
      BY DEF BlankLine
    <3> QED
      BY <1>1, <1>4, <2>3, <2>4, <3>1 DEF InLines, Method
  <2>13. Complete(s)
    <3>1. Orderly(s, n - 1) /\ m_headers = Collected(s, n - 1)
      BY <1>4, <2>4 DEF InLines
    <3>2. 2 <= MaxHeader
      BY <1>7, <1>9
    <3>3. GetHeader("Host") # <<>> /\ "TooLong" \notin m_headers
      <4>1. GetHeader("Host") = <<>> => RequestError = 400
        BY ONLY Zenon DEF RequestError
      <4>2. "TooLong" \in m_headers => RequestError = 400 \/ RequestError = 413
        <5>1. CASE m_method = "" \/ GetHeader("Host") = <<>>
          BY ONLY <5>1, Zenon DEF RequestError
        <5>2. CASE ~(m_method = "" \/ GetHeader("Host") = <<>>)
          <6>1. RequestError = IF "TooLong" \in m_headers THEN 413 ELSE 0
            BY ONLY <5>2, Zenon DEF RequestError
          <6> QED
            BY ONLY <6>1
        <5> QED
          BY <5>1, <5>2
      <4>3. RequestError # 400 /\ RequestError # 413
        BY ONLY <1>12
      <4> QED
        BY ONLY <4>1, <4>2, <4>3
    <3>4. "Host" \in m_headers /\ Values[s.values["Host"]] # <<>>
      BY <3>3 DEF GetHeader
    <3>5. Values[s.values["Host"]] = StripLws(s.values["Host"])
      BY ValueIs
    <3> QED
      BY <1>5, <3>1, <3>2, <3>3, <3>4, <3>5 DEF Complete
  <2>6. chunk' = Window(a, at[n], q) /\ input' = Window(a, q, Len(a))
    BY ONLY <1>1, <1>8, <1>9, <1>10, <2>1
  <2>7. PICK x : x = at[n]
    OBVIOUS
  <2>8. x \in Nat /\ x <= q /\ x + 0 = x /\ q \in Nat /\ x \in 0 .. q
    <3>1. Len(a) \in Nat
      BY ONLY <1>7 DEF Bytes0
    <3>2. x \in Nat /\ x <= q
      BY ONLY <1>7, <1>8, <1>10, <2>7, Zenon
    <3> QED
      BY ONLY <3>1, <3>2, q \in 0 .. Len(a)
  <2>9. Position(a, x + 0, q)'
    BY ONLY <2>6, <2>7, <2>8, q \in 0 .. Len(a) DEF Position
  <2>10. (m_ready' \/ m_body_bytes_needed' > 0) /\ 0 + m_body_bytes_needed' = IF "Length" \in m_headers THEN BodyLength ELSE 0
    <3>1. BodyLength \in Nat
      BY InboundAssumption
    <3>2. CASE "Length" \in m_headers
      <4>1. m_body_bytes_needed' = BodyLength /\ (BodyLength = 0 => m_ready')
        BY ONLY <2>1, <3>2
      <4>2. BodyLength # 0 => BodyLength > 0
        BY ONLY <3>1
      <4> QED
        BY ONLY <3>1, <3>2, <4>1, <4>2
    <3>3. CASE "Length" \notin m_headers
      BY ONLY <1>1, <2>1, <3>3
    <3> QED
      BY ONLY <3>2, <3>3
  <2>11. \E y \in Nat : Position(a, at[n] + 0, y)'
    BY ONLY <2>7, <2>8, <2>9
  <2>12. InBody(s, a, at)'
    BY ONLY <1>1, <1>2, <1>5, <2>5, <2>10, <2>11, <2>13 DEF InBody
  <2> QED
    BY ONLY <2>12 DEF Requested
<1> QED
  BY ONLY <1>11, <1>12

(* Some of the body.                                                       *)
LEMMA BodyTaken ==
  ASSUME NEW s, NEW a \in Bytes0, NEW at, Requested(s, a, at), Body, ProcessBody, at[Len(s.lines)] \in Nat
  PROVE  Requested(s, a, at)'
<1>1. PICK n : n = Min({m_body_bytes_needed, Len(chunk)})
  OBVIOUS
<1>2. /\ m_response = 0 /\ m_response' = 0 /\ m_body_bytes_needed > 0
      /\ Skip(n) /\ m_body' = m_body + n /\ m_body_bytes_needed' = m_body_bytes_needed - n
      /\ m_ready' = (n = m_body_bytes_needed) /\ input' = input
      /\ m_headers' = m_headers /\ m_method' = m_method
  BY <1>1 DEF ProcessBody
<1>3. m_body \in Nat /\ m_body_bytes_needed \in Nat
  BY DEF Body
<1>4. InBody(s, a, at)
  <2>1. m_body_bytes_needed # 0
    BY ONLY <1>2, <1>3
  <2> QED
    BY <1>2, <2>1 DEF Requested, InLines
<1>5. PICK x : x = at[Len(s.lines)]
  OBVIOUS
<1>6. PICK q \in Nat : Position(a, x + m_body, q)
  BY ONLY <1>4, <1>5 DEF InBody
<1>7. Len(chunk) \in Nat
  <2>1. PICK p : p = x + m_body
    OBVIOUS
  <2>2. p \in Nat /\ p <= q
    <3>1. p \in 0 .. q
      BY ONLY <1>6, <2>1 DEF Position
    <3> QED
      BY ONLY <3>1, q \in Nat
  <2>3. Len(chunk) = q - p
    <3>1. q \in 0 .. Len(a) /\ p \in 0 .. q /\ chunk = Window(a, p, q)
      BY ONLY <1>6, <2>1 DEF Position
    <3> QED
      BY ONLY <3>1, WindowIs, a \in Bytes0
  <2> QED
    BY ONLY <2>2, <2>3, q \in Nat
<1>8. n \in Nat /\ n <= m_body_bytes_needed /\ n <= Len(chunk) /\ n \in 0 .. Len(chunk)
  <2>1. n \in Nat /\ n <= m_body_bytes_needed /\ n <= Len(chunk)
    BY ONLY <1>1, <1>3, <1>7, MinOfTwo
  <2> QED
    BY ONLY <1>7, <2>1
<1>9. PICK p : p = x + m_body
  OBVIOUS
<1>10. Position(a, p + n, q)' /\ p + n = x + m_body'
  <2>1. Position(a, p, q)
    BY <1>6, <1>9
  <2>2. Skip(n) /\ input' = input => Position(a, p + n, q)'
    BY ONLY <1>8, <2>1, TakesFrom, a \in Bytes0, Zenon
  <2>3. p + n = x + m_body'
    BY ONLY <1>2, <1>3, <1>5, <1>8, <1>9, at[Len(s.lines)] \in Nat
  <2> QED
    BY ONLY <1>2, <2>2, <2>3
<1>11. (m_ready' \/ m_body_bytes_needed' > 0) /\ m_body' + m_body_bytes_needed' = m_body + m_body_bytes_needed
  <2>1. m_body' + m_body_bytes_needed' = m_body + m_body_bytes_needed
    BY ONLY <1>2, <1>3, <1>8
  <2>2. n # m_body_bytes_needed => m_body_bytes_needed' > 0
    BY ONLY <1>2, <1>3, <1>8
  <2> QED
    BY ONLY <1>2, <2>1, <2>2
<1>12. (\E y \in Nat : Position(a, at[Len(s.lines)] + m_body, y))'
  BY ONLY <1>5, <1>10, q \in Nat
<1>13. /\ Begun1(s) /\ Complete(s)
       /\ m_method = s.lines[1][1] /\ m_headers = Collected(s, Len(s.lines) - 1)
       /\ m_body + m_body_bytes_needed = IF "Length" \in m_headers THEN BodyLength ELSE 0
  BY ONLY <1>4 DEF InBody
<1>14. InBody(s, a, at)'
  BY ONLY <1>2, <1>11, <1>12, <1>13 DEF InBody
<1> QED
  BY ONLY <1>14 DEF Requested

(* At first nothing has been read.                                         *)
LEMMA InitRequested ==
  ASSUME ConversationInit, NEW at, NEW from, IsPlan(stream, at, from)
  PROVE  Requested(stream, Bytes(stream), at)
<1>1. /\ stream \in Streams /\ input = Bytes(stream) /\ m_buf = <<>> /\ m_method = "" /\ m_headers = {}
      /\ m_body_bytes_needed = 0 /\ m_ready = FALSE
  BY DEF ConversationInit, Init
<1>2. PICK a, n : a = Bytes(stream) /\ n = Len(stream.lines)
  OBVIOUS
<1>3. a \in Bytes0 /\ Len(a) \in Nat
  <2>1. Bytes(stream) \in Bytes0
    BY ONLY <1>1, StreamBytes DEF Bytes0
  <2> QED
    BY ONLY <1>2, <2>1 DEF Bytes0
<1>4. n \in Nat /\ n # 0
  <2>1. PICK s : s = stream
    OBVIOUS
  <2>2. s.lines \in Seq(Seq(STRING)) /\ s.lines # <<>>
    BY ONLY <1>1, <2>1, StreamsAssumption, RequestsAssumption
  <2> QED
    BY ONLY <1>2, <2>1, <2>2, EmptySeq
<1>5. at[0] = 0
  BY DEF IsPlan
<1>6. 0 \in 0 .. Len(a) /\ 0 \in 0 .. 0 /\ 0 \in Nat /\ 0 < n /\ 0 <= 0
  BY ONLY <1>3, <1>4
<1>7. m_buf = Window(a, 0, 0) /\ input = Window(a, 0, Len(a))
  <2>1. Window(a, 0, 0) = <<>>
    BY ONLY <1>3, <1>6, WindowEmpty
  <2>2. Window(a, 0, Len(a)) = a
    BY ONLY <1>3, WindowAll
  <2> QED
    BY ONLY <1>1, <1>2, <2>1, <2>2
<1>8. m_headers = Collected(stream, 0)
  BY <1>1, CollectedFirst
<1>9. ~(0 > 0)
  BY SMTT(60)
<1>10. InLines(stream, a, at, 0)
  <2>1. \E q \in 0 .. Len(a) : at[0] <= q /\ m_buf = Window(a, at[0], q) /\ input = Window(a, q, Len(a))
    BY ONLY <1>5, <1>6, <1>7
  <2>2. Len(m_buf) <= MaxHeader
    <3>1. Len(m_buf) = 0
      BY ONLY <1>1
    <3>2. MaxHeader \in Nat
      BY InboundAssumption
    <3> QED
      BY ONLY <3>1, <3>2
  <2>3. m_method = Method(stream, 0) /\ Orderly(stream, 0)
    <3>1. m_method = ""
      BY ONLY <1>1
    <3>2. 1 .. 0 = {}
      OBVIOUS
    <3> QED
      BY ONLY <3>1, <3>2, Zenon DEF Method, Orderly
  <2> QED
    BY ONLY <1>1, <1>2, <1>5, <1>6, <1>8, <1>9, <2>1, <2>2, <2>3 DEF InLines
<1> QED
  BY <1>2, <1>6, <1>10 DEF Requested
-----------------------------------------------------------------------------
(* The frames of a client are those of the protocol it has asked for.      *)
LEMMA PlanFits ==
  ASSUME NEW s \in Streams, NEW at, NEW from, IsPlan(s, at, from), NEW r, IsRun(s.frames, r), NEW a, a = Bytes(s)
  PROVE  IF Says00(s) THEN Plan00(a, s.frames, from, r) ELSE Plan13(a, s.frames, from, r)
<1>1. PICK t, n : t = s.frames /\ n = Len(t)
  OBVIOUS
<1>2. a \in Bytes0
  BY StreamBytes DEF Bytes0
<1>3. t \in Seq(AnyFrame) /\ n \in Nat
  <2>1. s.frames \in Seq(AnyFrame)
    BY StreamsAssumption DEF AnyFrame
  <2> QED
    BY <1>1, <2>1
<1>4. from[n] = Len(a)
  BY <1>1 DEF IsPlan
<1>5. ASSUME NEW k \in 0 .. n - 1
      PROVE  /\ from[k + 1] \in Nat
             /\ Says00(s) => /\ t[k + 1] \in Frame00 /\ There00(a, from[k], t[k + 1])
                             /\ t[k + 1].op = "00" => from[k + 1] = from[k] + 2 + Len(t[k + 1].payload)
             /\ ~Says00(s) => /\ t[k + 1] \in Frame13 /\ There(a, from[k], t[k + 1])
                              /\ from[k + 1] = EndOf(from[k], t[k + 1])
  <2>1. k \in Nat /\ k < Len(s.frames)
    BY <1>1, <1>3
  <2> QED
    BY <1>1, <2>1, FrameThere DEF EndOf
<1>6. CASE Says00(s)
  <2>1. \A k \in 0 .. n - 1 : /\ t[k + 1] \in Frame00 /\ There00(a, from[k], t[k + 1])
                              /\ t[k + 1].op = "00" => from[k + 1] = from[k] + 2 + Len(t[k + 1].payload)
    BY ONLY <1>5, <1>6
  <2>2. Plan00(a, t, from, r)
    BY ONLY <1>1, <1>2, <1>3, <1>4, <2>1, IsRun(s.frames, r) DEF Plan00
  <2> QED
    BY ONLY <1>1, <1>6, <2>2
<1>7. CASE ~Says00(s)
  <2>1. \A k \in 0 .. n - 1 : /\ t[k + 1] \in Frame13 /\ There(a, from[k], t[k + 1])
                              /\ from[k + 1] = EndOf(from[k], t[k + 1]) /\ from[k + 1] \in Nat
    BY ONLY <1>5, <1>7
  <2>2. Plan13(a, t, from, r)
    BY ONLY <1>1, <1>2, <1>3, <1>4, <2>1, IsRun(s.frames, r) DEF Plan13
  <2> QED
    BY ONLY <1>1, <1>7, <2>2
<1> QED
  BY <1>6, <1>7

(* Where the request ends, the frames begin.                               *)
LEMMA FramesBegin ==
  ASSUME NEW s \in Streams, NEW at, NEW from, IsPlan(s, at, from), NEW a, a = Bytes(s),
         NEW p, p = at[Len(s.lines)] + BodyOf(s), NEW q \in 0 .. Len(a), p \in 0 .. q
  PROVE  from[0] = p
<1>1. PICK x, body, whole, m, size : /\ x = at[Len(s.lines)] /\ body = s.body /\ whole = BodyOf(s)
                                     /\ m = Len(s.frames) /\ size = Len(a)
  OBVIOUS
<1>2. x \in Nat /\ from[0] = x + body /\ from[m] = size
  BY <1>1 DEF IsPlan
<1>3. a \in Bytes0
  BY StreamBytes DEF Bytes0
<1>4. size \in Nat
  BY ONLY <1>1, <1>3 DEF Bytes0
<1>5. body \in Nat /\ s.frames \in Seq(AnyFrame) /\ body <= whole /\ (s.frames # <<>> => body = whole)
  <2>1. body \in Nat /\ s.frames \in Seq(AnyFrame)
    BY <1>1, StreamsAssumption DEF AnyFrame
  <2>2. body <= whole /\ (s.frames # <<>> => body = whole)
    BY <1>1, RequestsAssumption
  <2> QED
    BY <2>1, <2>2
<1>6. whole \in Nat
  <2>1. BodyLength \in Nat /\ Key3Bytes \in Nat
    BY InboundAssumption
  <2>2. PICK n1, n2 : n1 = (IF Says(s, {"Length"}) THEN BodyLength ELSE 0) /\ n2 = (IF Says00(s) THEN Key3Bytes ELSE 0)
    OBVIOUS
  <2>3. n1 \in Nat /\ n2 \in Nat
    BY ONLY <2>1, <2>2
  <2>4. whole = n1 + n2
    BY ONLY <1>1, <2>2 DEF BodyOf
  <2> QED
    BY ONLY <2>3, <2>4
<1>7. CASE s.frames # <<>>
  BY <1>1, <1>2, <1>5, <1>7
<1>8. CASE s.frames = <<>>
  <2>1. m = 0
    BY ONLY <1>1, <1>8, EmptySeq
  <2>2. x + body = size
    BY ONLY <1>2, <2>1
  <2>3. p = x + whole /\ p <= size
    <3>1. p = x + whole
      BY <1>1
    <3> QED
      BY ONLY <1>1, <1>2, <1>4, <1>6, <3>1, q \in 0 .. Len(a), p \in 0 .. q
  <2>4. body = whole
    BY ONLY <1>2, <1>4, <1>5, <1>6, <2>2, <2>3
  <2> QED
    BY ONLY <1>2, <2>3, <2>4
<1> QED
  BY <1>7, <1>8
-----------------------------------------------------------------------------
(* At the answer the whole request has been read.                          *)
LEMMA RequestOver ==
  ASSUME NEW s \in Streams, NEW a \in Bytes0, NEW at, Requested(s, a, at), Body, m_ready, m_response = 0
  PROVE  /\ Begun1(s) /\ (GetWebsocketVersion = 0 <=> Says00(s))
         /\ \E q \in Nat : Position(a, at[Len(s.lines)] + (IF Says(s, {"Length"}) THEN BodyLength ELSE 0), q)
<1>1. InBody(s, a, at)
  BY DEF Requested, InLines
<1>2. Begun1(s) /\ m_headers = Collected(s, Len(s.lines) - 1)
  BY ONLY <1>1 DEF InBody
<1>3. ("Length" \in m_headers <=> Says(s, {"Length"})) /\ (GetWebsocketVersion = 0 <=> Says00(s))
  BY ONLY <1>2, s \in Streams, HeadersTell, Zenon
<1>4. m_body = IF "Length" \in m_headers THEN BodyLength ELSE 0
  <2>1. m_body + m_body_bytes_needed = IF "Length" \in m_headers THEN BodyLength ELSE 0
    BY ONLY <1>1 DEF InBody
  <2>2. m_body \in Nat /\ m_body_bytes_needed = 0
    BY DEF Body
  <2>3. m_body + 0 = m_body
    BY ONLY <2>2
  <2> QED
    BY ONLY <2>1, <2>2, <2>3
<1>5. m_body = IF Says(s, {"Length"}) THEN BodyLength ELSE 0
  BY ONLY <1>3, <1>4
<1>6. PICK q \in Nat : Position(a, at[Len(s.lines)] + m_body, q)
  BY ONLY <1>1 DEF InBody
<1> QED
  BY ONLY <1>2, <1>3, <1>5, <1>6

(* With the key of hybi00 it has been dealt with.                          *)
LEMMA KeyTaken ==
  ASSUME NEW s \in Streams, NEW a \in Bytes0, NEW at, Requested(s, a, at), Body, at[Len(s.lines)] \in Nat,
         Respond, m_response' = 101
  PROVE  /\ GetWebsocketVersion = 0 <=> Says00(s)
         /\ \E q \in Nat : Position(a, at[Len(s.lines)] + BodyOf(s), q)'
<1>1. ProcessorError = 0 /\ IsWebsocketHandshake
  BY Accepts
<1>2. m_ready /\ m_response = 0 /\ input' = input
      /\ chunk' = IF GetWebsocketVersion = 0 THEN SubSeq(chunk, Key3Bytes + 1, Len(chunk)) ELSE chunk
  BY <1>1 DEF Respond
<1>3. GetWebsocketVersion = 0 <=> Says00(s)
  BY <1>2, RequestOver
<1>4. PICK x, n1, n2, p : /\ x = at[Len(s.lines)] /\ n1 = (IF Says(s, {"Length"}) THEN BodyLength ELSE 0)
                          /\ n2 = (IF Says00(s) THEN Key3Bytes ELSE 0) /\ p = x + n1
  OBVIOUS
<1>5. \E q \in Nat : Position(a, p, q)
  BY <1>2, <1>4, RequestOver
<1>6. PICK q \in Nat : Position(a, p, q)
  BY <1>5
<1>7. x \in Nat /\ n1 \in Nat /\ n2 \in Nat
  <2>1. BodyLength \in Nat /\ Key3Bytes \in Nat
    BY InboundAssumption
  <2> QED
    BY ONLY <1>4, <2>1, at[Len(s.lines)] \in Nat
<1>8. p + n2 = x + BodyOf(s)
  <2>1. BodyOf(s) = n1 + n2
    BY ONLY <1>4 DEF BodyOf
  <2>2. p + n2 = x + (n1 + n2)
    BY ONLY <1>4, <1>7
  <2> QED
    BY ONLY <2>1, <2>2
<1>9. Position(a, p + n2, q)'
  <2>1. CASE Says00(s)
    <3>1. n2 = Key3Bytes /\ Skip(n2)
      BY <1>2, <1>3, <1>4, <2>1 DEF Skip
    <3>2. ~(Len(chunk) < n2)
      BY <1>1, <1>3, <2>1, <3>1 DEF ProcessorError
    <3>3. Len(chunk) \in Nat
      <4>1. q \in 0 .. Len(a) /\ p \in 0 .. q /\ chunk = Window(a, p, q)
        BY ONLY <1>6 DEF Position
      <4>2. chunk \in Bytes0
        BY ONLY <4>1, WindowIs, a \in Bytes0
      <4> QED
        BY ONLY <4>2 DEF Bytes0
    <3>4. n2 \in 0 .. Len(chunk)
      BY ONLY <1>7, <3>2, <3>3
    <3>5. Skip(n2) /\ input' = input => Position(a, p + n2, q)'
      BY ONLY <1>6, <3>4, TakesFrom, a \in Bytes0, Zenon
    <3> QED
      BY ONLY <1>2, <3>1, <3>5
  <2>2. CASE ~Says00(s)
    <3>1. chunk' = chunk
      BY <1>2, <1>3, <2>2
    <3>2. p + n2 = p
      BY ONLY <1>4, <1>7, <2>2
    <3> QED
      BY ONLY <1>2, <1>6, <3>1, <3>2 DEF Position
  <2> QED
    BY ONLY <2>1, <2>2
<1>10. \E y \in Nat : Position(a, x + BodyOf(s), y)'
  BY ONLY <1>8, <1>9, q \in Nat
<1> QED
  BY <1>3, <1>4, <1>10
-----------------------------------------------------------------------------
(* The first frame is to come.                                             *)
LEMMA FramesStart ==
  ASSUME NEW a \in Bytes0, NEW t, Len(t) \in Nat, NEW from, NEW r, r[0] = Start,
         NEW q, Position(a, from[0], q)',
         m_bytes_needed' = 2, m_basic_header' = <<>>, m_data_msg' = NoMsg, delivered' = <<>>, ec' = "none"
  PROVE  /\ m_state' = "HEADER_BASIC" => Framed13(a, t, from, r)'
         /\ m_state' = "HEADER" => Framed00(a, t, from, r)'
<1>1. PICK x : x = from[0]
  OBVIOUS
<1>2. q \in 0 .. Len(a) /\ x \in 0 .. q
  BY ONLY <1>1, Position(a, from[0], q)' DEF Position
<1>3. Len(a) \in Nat
  BY DEF Bytes0
<1>4. q \in Nat /\ x \in Nat /\ x \in 0 .. Len(a) /\ x \in 0 .. x /\ x = x + 2 - 2 /\ 2 \in 1 .. 2 /\ 0 \in 0 .. Len(t)
  BY ONLY <1>2, <1>3, Len(t) \in Nat
<1>5. Start.op = "none" /\ ~Start.bad /\ Start.out = <<>>
  BY DEF Start
<1>6. ASSUME m_state' = "HEADER_BASIC"
      PROVE  Framed13(a, t, from, r)'
  <2>1. Window(a, x, x) = <<>>
    BY <1>4, WindowEmpty
  <2>2. InTwo(a, from[0], r[0], x)'
    BY <1>1, <1>4, <1>5, <1>6, <2>1 DEF InTwo, Held
  <2>3. At13(a, t, from, r, 0, x)'
    BY <1>5, <2>2 DEF At13
  <2> QED
    BY <1>1, <1>4, <2>3 DEF Framed13
<1>7. ASSUME m_state' = "HEADER"
      PROVE  Framed00(a, t, from, r)'
  <2>1. Between(from[0], x)'
    BY <1>1, <1>7 DEF Between
  <2>2. At00(t, from, r, 0, x)'
    BY <1>5, <2>1 DEF At00
  <2> QED
    BY <1>1, <1>4, <2>2 DEF Framed00
<1> QED
  BY <1>6, <1>7

(* How far the frames have been read, whichever they are.                  *)
Framed(s, a, from, r) ==
  /\ GetWebsocketVersion = 0 <=> Says00(s)
  /\ IF Says00(s) THEN Framed00(a, s.frames, from, r) ELSE Framed13(a, s.frames, from, r)

LEMMA AnswerGiven ==
  ASSUME NEW s \in Streams, NEW at, NEW from, IsPlan(s, at, from), NEW r, IsRun(s.frames, r), NEW a, a = Bytes(s),
         Requested(s, a, at), Body, Untouched, Respond, m_response' = 101
  PROVE  Framed(s, a, from, r)'
<1>1. a \in Bytes0
  BY StreamBytes DEF Bytes0
<1>2. at[Len(s.lines)] \in Nat
  BY DEF IsPlan
<1>3. PICK p : p = at[Len(s.lines)] + BodyOf(s)
  OBVIOUS
<1>4. (GetWebsocketVersion = 0 <=> Says00(s)) /\ \E q \in Nat : Position(a, p, q)'
  BY <1>1, <1>2, <1>3, KeyTaken
<1>5. PICK q \in Nat : Position(a, p, q)'
  BY <1>4
<1>6. from[0] = p
  <2>1. q \in 0 .. Len(a) /\ p \in 0 .. q
    BY ONLY <1>5 DEF Position
  <2> QED
    BY <1>3, <2>1, FramesBegin
<1>7. ProcessorError = 0 /\ IsWebsocketHandshake
  BY Accepts
<1>8. /\ m_state' = IF GetWebsocketVersion = 0 THEN "HEADER" ELSE "HEADER_BASIC"
      /\ m_bytes_needed' = 2 /\ m_basic_header' = <<>> /\ m_data_msg' = NoMsg /\ delivered' = <<>> /\ ec' = "none"
      /\ m_headers' = m_headers
  BY <1>7 DEF Respond, Untouched, messages
<1>9. PICK t : t = s.frames
  OBVIOUS
<1>10. Len(t) \in Nat /\ r[0] = Start
  <2>1. s.frames \in Seq(AnyFrame)
    BY StreamsAssumption DEF AnyFrame
  <2> QED
    BY <1>9, <2>1 DEF IsRun
<1>11. /\ m_state' = "HEADER_BASIC" => Framed13(a, t, from, r)'
       /\ m_state' = "HEADER" => Framed00(a, t, from, r)'
  BY ONLY <1>1, <1>5, <1>6, <1>8, <1>10, FramesStart, Zenon
<1>12. GetWebsocketVersion' = GetWebsocketVersion
  BY <1>8 DEF GetWebsocketVersion
<1>13. CASE Says00(s)
  BY <1>4, <1>8, <1>9, <1>11, <1>12, <1>13 DEF Framed
<1>14. CASE ~Says00(s)
  BY <1>4, <1>8, <1>9, <1>11, <1>12, <1>14 DEF Framed
<1> QED
  BY <1>13, <1>14
-----------------------------------------------------------------------------
(* How far the bytes of a client have been read.                           *)
Progress(s, at, from, r) ==
  /\ Requested(s, Bytes(s), at)
  /\ m_response = 101 => Framed(s, Bytes(s), from, r)

(* Another read, or none.                                                  *)
LEMMA FramedStays ==
  ASSUME NEW s, NEW a, NEW from, NEW r, Framed(s, a, from, r),
         UNCHANGED <<input, chunk, framing, m_headers>>
  PROVE  Framed(s, a, from, r)'
<1>1. GetWebsocketVersion' = GetWebsocketVersion
  BY DEF GetWebsocketVersion
<1>2. UNCHANGED <<m_state, m_bytes_needed, m_basic_header, m_extended_header, m_data_msg, m_control_msg,
                  m_current_msg, delivered, ec, chunk, input>>
  BY DEF framing, headers, messages
<1>3. ASSUME NEW t, Framed13(a, t, from, r)
      PROVE  Framed13(a, t, from, r)'
  BY <1>2, <1>3 DEF Framed13, Position, Broken, At13, InTwo, InRest, InText, Held, CurrentMsg
<1>4. ASSUME NEW t, Framed00(a, t, from, r)
      PROVE  Framed00(a, t, from, r)'
  BY <1>2, <1>4 DEF Framed00, Position, Broken, At00, Between, Within
<1>5. CASE Says00(s)
  BY <1>1, <1>4, <1>5 DEF Framed
<1>6. CASE ~Says00(s)
  BY <1>1, <1>3, <1>6 DEF Framed
<1> QED
  BY <1>5, <1>6

LEMMA FramedMore ==
  ASSUME NEW s \in Streams, NEW at, NEW from, IsPlan(s, at, from), NEW r, IsRun(s.frames, r), NEW a, a = Bytes(s),
         Framed(s, a, from, r), NEW n \in 1 .. Len(input), Receive(n), UNCHANGED <<framing, m_headers>>
  PROVE  Framed(s, a, from, r)'
<1>1. GetWebsocketVersion' = GetWebsocketVersion
  BY DEF GetWebsocketVersion
<1>2. PICK t : t = s.frames
  OBVIOUS
<1>3. IF Says00(s) THEN Plan00(a, t, from, r) ELSE Plan13(a, t, from, r)
  BY <1>2, PlanFits
<1>4. CASE Says00(s)
  <2>1. Framed00(a, t, from, r)
    BY <1>2, <1>4 DEF Framed
  <2>2. Framed00(a, t, from, r)'
    BY <1>3, <1>4, <2>1, FramesBrought00
  <2> QED
    BY <1>1, <1>2, <1>4, <2>2 DEF Framed
<1>5. CASE ~Says00(s)
  <2>1. Framed13(a, t, from, r)
    BY <1>2, <1>5 DEF Framed
  <2>2. Framed13(a, t, from, r)'
    BY <1>3, <1>5, <2>1, FramesBrought
  <2> QED
    BY <1>1, <1>2, <1>5, <2>2 DEF Framed
<1> QED
  BY <1>4, <1>5

(* A turn of the loop.                                                     *)
LEMMA FramedStep ==
  ASSUME NEW s \in Streams, NEW at, NEW from, IsPlan(s, at, from), NEW r, IsRun(s.frames, r), NEW a, a = Bytes(s),
         Framed(s, a, from, r), MessageType, Quiet, Frame
  PROVE  Framed(s, a, from, r)'
<1>1. input' = input /\ m_headers' = m_headers /\ IF GetWebsocketVersion = 0 THEN ConsumeHybi00 ELSE ConsumeFrames
  BY DEF Frame, request
<1>2. GetWebsocketVersion' = GetWebsocketVersion
  BY <1>1 DEF GetWebsocketVersion
<1>3. ec = "none"
  BY NoErrorYet
<1>4. PICK t : t = s.frames
  OBVIOUS
<1>5. IF Says00(s) THEN Plan00(a, t, from, r) ELSE Plan13(a, t, from, r)
  BY <1>4, PlanFits
<1>6. CASE Says00(s)
  <2>1. Framed00(a, t, from, r) /\ GetWebsocketVersion = 0
    BY <1>4, <1>6 DEF Framed
  <2>2. Framed00(a, t, from, r)'
    BY <1>1, <1>3, <1>5, <1>6, <2>1, FramesRead00
  <2> QED
    BY <1>2, <1>4, <1>6, <2>1, <2>2 DEF Framed
<1>7. CASE ~Says00(s)
  <2>1. Framed13(a, t, from, r) /\ GetWebsocketVersion # 0
    BY <1>4, <1>7 DEF Framed
  <2>2. Framed13(a, t, from, r)'
    BY <1>1, <1>3, <1>5, <1>7, <2>1, FramesRead
  <2> QED
    BY <1>2, <1>4, <1>7, <2>1, <2>2 DEF Framed
<1> QED
  BY <1>6, <1>7

(* The answer is given once.                                               *)
LEMMA AnsweredNow ==
  ASSUME Respond
  PROVE  m_response' # 0
<1>1. ProcessHandshakeRequest # 0
  BY DEF ProcessHandshakeRequest
<1> QED
  BY <1>1 DEF Respond

(* Every step.                                                             *)
LEMMA ProgressNext ==
  ASSUME NEW s \in Streams, NEW at, NEW from, IsPlan(s, at, from), NEW r, IsRun(s.frames, r),
         stream = s, FramesIInv, Body, ReplyIInv, Progress(s, at, from, r), [ConversationNext]_<<vars, conversation>>
  PROVE  Progress(s, at, from, r)'
<1>1. PICK a : a = Bytes(s)
  OBVIOUS
<1>2. a \in Bytes0 /\ at[Len(s.lines)] \in Nat
  BY <1>1, StreamBytes DEF Bytes0, IsPlan
<1>3. Requested(s, a, at) /\ (m_response = 101 => Framed(s, a, from, r))
  BY <1>1 DEF Progress
<1>4. SUFFICES Requested(s, a, at)' /\ (m_response' = 101 => Framed(s, a, from, r)')
  BY <1>1 DEF Progress
<1>5. CASE UNCHANGED vars
  <2>1. UNCHANGED <<input, chunk, framing, m_headers, m_response>>
    BY <1>5 DEF vars, request
  <2>2. Requested(s, a, at)'
    BY <1>3, <1>5 DEF Requested, InLines, InBody, Position, vars, request
  <2> QED
    BY <1>3, <2>1, <2>2, FramedStays
<1>6. ASSUME NEW n \in 1 .. Min({MaxRead, Len(input)})
      PROVE  n \in 1 .. Len(input)
  <2>1. Len(input) \in Nat /\ MaxRead \in Nat
    BY InboundAssumption DEF FramesIInv, BytesType, Bytes0
  <2> QED
    BY <1>6, <2>1, MinOfTwo
<1>7. ASSUME NEW n \in 1 .. Min({MaxRead, Len(input)}), ReadRequest(n) \/ ReadBody(n)
      PROVE  Requested(s, a, at)' /\ m_response' # 101
  <2>1. m_response' # 101
    BY <1>7, ReadStep
  <2>2. n \in 1 .. Len(input)
    BY <1>6
  <2> QED
    BY <1>2, <1>3, <1>7, <2>1, <2>2, LinesBrought, BodyBrought
<1>8. ASSUME NEW n \in 1 .. Min({MaxRead, Len(input)}), ReadMore(n)
      PROVE  Requested(s, a, at)' /\ Framed(s, a, from, r)'
  <2>1. Receive(n) /\ m_response = 101 /\ m_response' = 101 /\ UNCHANGED <<framing, m_headers>>
    BY <1>8 DEF ReadMore, ReadFrames, request
  <2>2. n \in 1 .. Len(input)
    BY <1>6
  <2>3. Framed(s, a, from, r)'
    BY <1>1, <1>3, <2>1, <2>2, FramedMore
  <2> QED
    BY <2>1, <2>3 DEF Requested
<1>9. CASE OutOfBytes \/ Process \/ ProcessHeader
  <2>1. m_response' # 101
    BY <1>9, LineStep
  <2>2. Requested(s, a, at)'
    BY <1>1, <1>3, <1>9, NoLine, LineProcessed
  <2> QED
    BY <2>1, <2>2
<1>10. CASE BlankLine
  <2>1. m_response' # 101
    BY <1>10, BlankLineStep
  <2>2. Requested(s, a, at)'
    BY <1>1, <1>3, <1>10, LineEnded
  <2> QED
    BY <2>1, <2>2
<1>11. CASE ProcessBody
  <2>1. m_response' # 101
    BY <1>11, ProcessBodyStep
  <2>2. Requested(s, a, at)'
    BY <1>2, <1>3, <1>11, BodyTaken
  <2> QED
    BY <2>1, <2>2
<1>12. CASE Respond
  <2>1. Requested(s, a, at)'
    BY <1>12, AnsweredNow DEF Requested
  <2>2. m_response' = 101 => Framed(s, a, from, r)'
    BY <1>1, <1>3, <1>12, AnswerGiven DEF FramesIInv
  <2> QED
    BY <2>1, <2>2
<1>13. CASE FrameStep
  <2>1. Frame /\ m_response = 101 /\ m_response' = 101
    BY <1>13 DEF FrameStep, Frame, request
  <2>2. Framed(s, a, from, r)'
    BY <1>1, <1>3, <2>1, FramedStep DEF FramesIInv, ReplyIInv
  <2> QED
    BY <2>1, <2>2 DEF Requested
<1>14. CASE Drop
  BY <1>5, <1>14 DEF Drop
<1>15. CASE ConversationNext
  BY <1>7, <1>8, <1>9, <1>10, <1>11, <1>12, <1>13, <1>14, <1>15 DEF ConversationNext, OfRequest
<1>16. CASE UNCHANGED <<vars, conversation>>
  BY <1>5, <1>16
<1> QED
  BY <1>15, <1>16
-----------------------------------------------------------------------------
(* What is left of a client's bytes is always what it has sent from some   *)
(* place on, and what the server holds is what comes before that place.    *)
ProgressIInv ==
  /\ stream \in Streams
  /\ \E at, from, r : IsPlan(stream, at, from) /\ IsRun(stream.frames, r) /\ Progress(stream, at, from, r)

LEMMA InitProgress ==
  ASSUME ConversationInit
  PROVE  ProgressIInv
<1>1. stream \in Streams /\ m_response = 0
  BY DEF ConversationInit, Init
<1>2. PICK at, from : IsPlan(stream, at, from)
  BY ONLY <1>1, PlanExists, Zenon
<1>3. PICK r : IsRun(stream.frames, r)
  <2>1. PICK s, t : s = stream /\ t = s.frames
    OBVIOUS
  <2>2. t \in Seq(AnyFrame)
    BY <1>1, <2>1, StreamsAssumption DEF AnyFrame
  <2>3. Len(t) \in Nat /\ DOMAIN t = 1 .. Len(t)
    BY ONLY <2>2
  <2> QED
    BY ONLY <2>1, <2>3, RunExists
<1>4. Requested(stream, Bytes(stream), at)
  BY ONLY ConversationInit, <1>2, InitRequested, Zenon
<1> QED
  BY ONLY <1>1, <1>2, <1>3, <1>4 DEF ProgressIInv, Progress

LEMMA StreamStays ==
  ASSUME [ConversationNext]_<<vars, conversation>>
  PROVE  stream' = stream
<1>1. CASE UNCHANGED vars
  BY <1>1 DEF vars, asked
<1>2. CASE \/ \E n \in 1 .. Min({MaxRead, Len(input)}) : ReadRequest(n) \/ ReadBody(n) \/ ReadMore(n)
           \/ OutOfBytes \/ Process \/ ProcessHeader \/ BlankLine \/ ProcessBody \/ Respond \/ FrameStep
  BY <1>2 DEF ReadRequest, ReadBody, ReadMore, ReadFrames, OutOfBytes, Process, ProcessHeader, Line, BlankLine,
              ProcessBody, Respond, FrameStep, Frame, asked
<1>3. CASE Drop
  BY <1>1, <1>3 DEF Drop
<1> QED
  BY <1>1, <1>2, <1>3 DEF ConversationNext, OfRequest

LEMMA ProgressKept ==
  ASSUME FramesIInv, Body, ReplyIInv, ProgressIInv, [ConversationNext]_<<vars, conversation>>
  PROVE  ProgressIInv'
<1>1. PICK s \in Streams : s = stream
  BY DEF ProgressIInv
<1>2. stream' = s
  BY <1>1, StreamStays
<1>3. PICK at, from, r : IsPlan(s, at, from) /\ IsRun(s.frames, r) /\ Progress(s, at, from, r)
  BY <1>1 DEF ProgressIInv
<1>4. Progress(s, at, from, r)'
  BY <1>1, <1>3, ProgressNext
<1>5. \E at1, from1, r1 : IsPlan(s, at1, from1) /\ IsRun(s.frames, r1) /\ Progress(s, at1, from1, r1)'
  BY ONLY <1>3, <1>4
<1> QED
  BY ONLY <1>2, <1>5, s \in Streams DEF ProgressIInv

(* In every behaviour.                                                     *)
LEMMA ProgressInvariant == Spec => [](FramesIInv /\ ProgressIInv)
<1>1. ConversationInit => FramesIInv /\ Body /\ TalkIInv /\ ReplyIInv /\ ProgressIInv
  BY InitFrames, InitBody, InitTalk, InitReply, InitProgress
<1>2. FramesIInv /\ Body /\ TalkIInv /\ ReplyIInv /\ ProgressIInv /\ [ConversationNext]_<<vars, conversation>>
        => (FramesIInv /\ Body /\ TalkIInv /\ ReplyIInv /\ ProgressIInv)'
  BY FramesNext, TalkNext, ReplyNext, ProgressKept
<1> QED
  BY <1>1, <1>2, PTL DEF Spec

(* Two beginnings of the same are one the beginning of the other.          *)
LEMMA Beginning ==
  ASSUME NEW T, NEW x \in Seq(T), NEW z \in Seq(T), IsPrefix(x, z)
  PROVE  Len(x) <= Len(z) /\ \A i \in 1 .. Len(x) : x[i] = z[i]
<1>1. PICK k \in Nat, n \in Nat : k = Len(x) /\ n = Len(z)
  OBVIOUS
<1>2. k <= n /\ SubSeq(x, 1, k) = SubSeq(z, 1, k)
  BY <1>1 DEF IsPrefix
<1>3. ASSUME NEW i \in 1 .. k
      PROVE  x[i] = z[i]
  <2>1. /\ \A j \in 1 .. k : x[j] \in T /\ z[j] \in T
        /\ i \in 1 .. k - 1 + 1 /\ 1 + i - 1 = i
    BY <1>1, <1>2
  <2>2. SubSeq(x, 1, k)[i] = x[1 + i - 1] /\ SubSeq(z, 1, k)[i] = z[1 + i - 1]
    BY <2>1, SubSeqProperties
  <2> QED
    BY ONLY <1>2, <2>1, <2>2
<1> QED
  BY <1>1, <1>2, <1>3

LEMMA IsBeginning ==
  ASSUME NEW T, NEW x \in Seq(T), NEW z \in Seq(T), Len(x) <= Len(z), \A i \in 1 .. Len(x) : x[i] = z[i]
  PROVE  IsPrefix(x, z)
<1>1. PICK k \in Nat : k = Len(x)
  OBVIOUS
<1>2. \A i \in 1 .. k : x[i] \in T /\ z[i] \in T
  BY <1>1
<1>3. /\ SubSeq(x, 1, k) \in Seq(T) /\ SubSeq(z, 1, k) \in Seq(T)
      /\ Len(SubSeq(x, 1, k)) = (IF 1 <= k THEN k - 1 + 1 ELSE 0) /\ Len(SubSeq(z, 1, k)) = (IF 1 <= k THEN k - 1 + 1 ELSE 0)
      /\ \A i \in 1 .. k - 1 + 1 : SubSeq(x, 1, k)[i] = x[1 + i - 1] /\ SubSeq(z, 1, k)[i] = z[1 + i - 1]
  BY <1>2, SubSeqProperties
<1>4. PICK u, v : u = SubSeq(x, 1, k) /\ v = SubSeq(z, 1, k)
  OBVIOUS
<1>5. \A i \in 1 .. k : i \in 1 .. k - 1 + 1 /\ 1 + i - 1 = i
  OBVIOUS
<1>6. u \in Seq(T) /\ v \in Seq(T) /\ Len(u) = k /\ Len(v) = k
  BY <1>3, <1>4
<1>7. \A i \in 1 .. k : u[i] = v[i]
  BY <1>1, <1>3, <1>4, <1>5
<1>8. u = v
  BY ONLY <1>6, <1>7, SeqEqual
<1> QED
  BY <1>1, <1>4, <1>8 DEF IsPrefix

LEMMA BeginningsCompare ==
  ASSUME NEW T, NEW x \in Seq(T), NEW y \in Seq(T), NEW z \in Seq(T), IsPrefix(x, z), IsPrefix(y, z)
  PROVE  IsPrefix(x, y) \/ IsPrefix(y, x)
<1>1. \A i \in 1 .. Len(x) : x[i] = z[i]
  BY Beginning
<1>2. \A i \in 1 .. Len(y) : y[i] = z[i]
  BY Beginning
<1>3. PICK k \in Nat, l \in Nat : k = Len(x) /\ l = Len(y)
  OBVIOUS
<1>4. CASE k <= l
  <2>1. \A i \in 1 .. k : x[i] = y[i]
    BY ONLY <1>1, <1>2, <1>3, <1>4
  <2> QED
    BY <1>3, <1>4, <2>1, IsBeginning
<1>5. CASE l <= k
  <2>1. \A i \in 1 .. l : y[i] = x[i]
    BY ONLY <1>1, <1>2, <1>3, <1>5
  <2> QED
    BY <1>3, <1>5, <2>1, IsBeginning
<1> QED
  BY <1>4, <1>5

(* What consume makes of the frames is what they mean, but for a cut.      *)
LEMMA MeantIs ==
  ASSUME NEW t \in Seq(AnyFrame), stream.frames = t
  PROVE  LET meant == Reference
         IN /\ meant.out \in Seq(Message) /\ Meaning(t).out \in Seq(Message)
            /\ ~meant.cut => meant.out = Meaning(t).out /\ meant.bad = Meaning(t).bad
            /\ meant.cut => IsPrefix(meant.out, Meaning(t).out)
<1>1. PICK q, r : q = Reference /\ r = Meaning(t)
  OBVIOUS
<1>2. Agrees(q, r)
  BY <1>1, ReferenceIs, ReferenceAgrees
<1>3. Known(r)
  <2>1. PICK run : IsRun(t, run)
    <3>1. Len(t) \in Nat /\ DOMAIN t = 1 .. Len(t)
      OBVIOUS
    <3> QED
      BY ONLY <3>1, RunExists
  <2>2. Len(t) \in 0 .. Len(t) /\ run[Len(t)] = r
    BY <1>1, <2>1 DEF IsRun
  <2> QED
    BY <2>1, <2>2, RunKnown
<1>4. r.out \in Seq(Message) /\ r.bad \in BOOLEAN
  BY <1>3 DEF Known
<1>5. CASE q = Uncut(r)
  <2>1. q.out = r.out /\ q.bad = r.bad /\ q.cut = FALSE
    BY <1>5 DEF Uncut
  <2> QED
    BY ONLY <1>1, <1>4, <2>1
<1>6. CASE q \in Verdict /\ q.cut = TRUE /\ q.bad = TRUE /\ IsPrefix(q.out, r.out)
  <2>1. q.out \in Seq(Message)
    BY <1>6 DEF Verdict
  <2> QED
    BY ONLY <1>1, <1>4, <1>6, <2>1
<1> QED
  BY <1>2, <1>5, <1>6 DEF Agrees

LEMMA ToldStrictly ==
  ASSUME NEW t \in Seq(AnyFrame), stream.frames = t, Told(t), MessageType
  PROVE  Decoded
<1>1. PICK q, r : q = Reference /\ r = Meaning(t)
  OBVIOUS
<1>2. /\ q.out \in Seq(Message) /\ r.out \in Seq(Message)
      /\ ~q.cut => q.out = r.out /\ q.bad = r.bad
      /\ q.cut => IsPrefix(q.out, r.out)
  BY <1>1, MeantIs
<1>3. /\ IsPrefix(delivered, r.out)
      /\ ec # "none" => r.bad /\ delivered = r.out
      /\ Exhausted /\ ec = "none" => ~r.bad /\ delivered = r.out
  BY <1>1 DEF Told
<1>4. delivered \in Seq(Message)
  BY DEF MessageType
<1>5. IsPrefix(delivered, q.out) \/ (q.cut /\ IsPrefix(q.out, delivered))
  <2>1. CASE q.cut
    <3>1. IsPrefix(q.out, delivered) \/ IsPrefix(delivered, q.out)
      <4>1. PICK d, x, y : d = delivered /\ x = q.out /\ y = r.out
        OBVIOUS
      <4>2. d \in Seq(Message) /\ x \in Seq(Message) /\ y \in Seq(Message) /\ IsPrefix(d, y) /\ IsPrefix(x, y)
        BY ONLY <1>2, <1>3, <1>4, <2>1, <4>1
      <4>3. IsPrefix(x, d) \/ IsPrefix(d, x)
        BY ONLY <4>2, BeginningsCompare
      <4> QED
        BY ONLY <4>1, <4>3
    <3> QED
      BY ONLY <2>1, <3>1
  <2>2. CASE ~q.cut
    BY ONLY <1>2, <1>3, <2>2
  <2> QED
    BY <2>1, <2>2
<1>6. Exhausted \/ ec # "none" =>
        IF q.cut THEN IsPrefix(q.out, delivered) ELSE delivered = q.out /\ (ec # "none" <=> q.bad)
  BY ONLY <1>2, <1>3
<1> QED
  BY ONLY <1>1, <1>5, <1>6, Zenon DEF Decoded

LEMMA NothingToldStrictly ==
  ASSUME NEW t \in Seq(AnyFrame), stream.frames = t, delivered = <<>>, m_response # 101
  PROVE  Decoded
<1>1. PICK q : q = Reference
  OBVIOUS
<1>2. q.out \in Seq(Message)
  BY <1>1, MeantIs
<1>3. <<>> \in Seq(Message) /\ Len(<<>>) = 0
  BY EmptySeq
<1>4. IsPrefix(<<>>, q.out)
  <2>1. PICK e, o : e = <<>> /\ o = q.out
    OBVIOUS
  <2>2. e \in Seq(Message) /\ o \in Seq(Message) /\ Len(e) = 0
    BY <1>2, <1>3, <2>1
  <2>3. Len(e) <= Len(o) /\ \A i \in 1 .. Len(e) : e[i] = o[i]
    BY ONLY <2>2
  <2>4. IsPrefix(e, o)
    BY ONLY <2>2, <2>3, IsBeginning
  <2> QED
    BY ONLY <2>1, <2>4
<1> QED
  BY <1>1, <1>4 DEF Decoded

(* consume's promise, of hybi13's and of hybi00's: however a client's      *)
(* request and frames are cut into reads, in the middle of a line, of a    *)
(* header or of a character, the messages are those that its frames mean   *)
(* one by one, in their order, up to the first frame that breaks the       *)
(* protocol, and that frame is noticed, except for a text of several       *)
(* frames that ends within a character: it is delivered as it is.          *)
THEOREM FramesDecoded == Spec => []Decoded
<1>1. FramesIInv /\ ProgressIInv => Decoded
  <2> SUFFICES ASSUME FramesIInv, ProgressIInv
               PROVE  Decoded
    OBVIOUS
  <2>1. PICK s \in Streams : s = stream
    BY DEF ProgressIInv
  <2>2. PICK at, from, r : IsPlan(s, at, from) /\ IsRun(s.frames, r) /\ Progress(s, at, from, r)
    BY <2>1 DEF ProgressIInv
  <2>3. PICK a, t : a = Bytes(s) /\ t = s.frames
    OBVIOUS
  <2>4. t \in Seq(AnyFrame)
    BY <2>3, StreamsAssumption DEF AnyFrame
  <2>5. IF Says00(s) THEN Plan00(a, t, from, r) ELSE Plan13(a, t, from, r)
    BY <2>2, <2>3, PlanFits
  <2>6. MessageType
    BY DEF FramesIInv
  <2>7. CASE m_response = 101
    <3>1. Framed(s, a, from, r)
      BY <2>2, <2>3, <2>7 DEF Progress
    <3>2. Told(t)
      <4>1. CASE Says00(s)
        BY <2>3, <2>5, <2>6, <3>1, <4>1, FramesTold00 DEF Framed
      <4>2. CASE ~Says00(s)
        BY <2>3, <2>5, <2>6, <3>1, <4>2, FramesTold DEF Framed
      <4> QED
        BY <4>1, <4>2
    <3> QED
      BY <2>1, <2>3, <2>4, <2>6, <3>2, ToldStrictly
  <2>8. CASE m_response # 101
    <3>1. delivered = <<>>
      BY <2>8 DEF FramesIInv, Untouched
    <3> QED
      BY <2>1, <2>3, <2>4, <2>8, <3>1, NothingToldStrictly
  <2> QED
    BY <2>7, <2>8
<1> QED
  BY <1>1, ProgressInvariant, PTL
-----------------------------------------------------------------------------
(* What AnswerTo makes of the lines t of a request.                        *)
Outcome(s, t) == FoldLeft(LAMBDA r, line : ReadLine(s, r, line), Unread, t)

LEMMA AnswerIs ==
  ASSUME NEW s
  PROVE  AnswerTo(s) = Outcome(s, s.lines).status
BY Zenon DEF AnswerTo, Outcome

(* g is the fold of t, on all subsets of 1 .. n.                           *)
Lines(g, n, s, t) ==
  g = [x \in SUBSET (1 .. n) |-> IF x = {} THEN Unread ELSE ReadLine(s, g[x \ {Max(x)}], t[Max(x)])]

(* The fold behind Outcome, written out.                                   *)
LEMMA AnswerIsFold ==
  ASSUME NEW s, NEW t, Len(t) \in Nat, DOMAIN t = 1 .. Len(t)
  PROVE  Outcome(s, t) = (CHOOSE g : Lines(g, Len(t), s, t))[1 .. Len(t)]
<1>1. DOMAIN t = 1 .. Len(t)
  OBVIOUS
<1>2. Outcome(s, t) = (CHOOSE g : g = [x \in SUBSET DOMAIN t |->
                         IF x = {} THEN Unread ELSE ReadLine(s, g[x \ {Max(x)}], t[Max(x)])])[DOMAIN t]
  BY Zenon DEF Outcome, FoldLeft, MapThenFoldSet
<1> QED
  BY <1>1, <1>2, Zenon DEF Lines

(* That fold exists, for every length: by induction on the length.         *)
LEMMA LinesExist ==
  ASSUME NEW s, NEW t
  PROVE  \A n \in Nat : \E g : Lines(g, n, s, t)
<1> DEFINE S == {n \in Nat : \E g : Lines(g, n, s, t)}
<1>1. 0 \in S
  <2>1. SUBSET (1 .. 0) = {{}}
    OBVIOUS
  <2>2. Lines([x \in SUBSET (1 .. 0) |-> Unread], 0, s, t)
    BY <2>1 DEF Lines
  <2> QED
    BY <2>2
<1>2. ASSUME NEW n \in Nat, n \in S
      PROVE  n + 1 \in S
  <2>1. PICK g : Lines(g, n, s, t)
    BY <1>2
  <2>2. \A x \in SUBSET (1 .. n) : g[x] = IF x = {} THEN Unread ELSE ReadLine(s, g[x \ {Max(x)}], t[Max(x)])
    BY <2>1 DEF Lines
  <2> DEFINE h == [x \in SUBSET (1 .. n + 1) |->
                     IF n + 1 \in x THEN ReadLine(s, g[x \ {n + 1}], t[n + 1]) ELSE g[x]]
  <2>3. ASSUME NEW x \in SUBSET (1 .. n + 1)
        PROVE  h[x] = IF x = {} THEN Unread ELSE ReadLine(s, h[x \ {Max(x)}], t[Max(x)])
    <3>1. CASE n + 1 \in x
      <4>1. Max(x) = n + 1
        <5>1. \A y \in x : y <= n + 1 /\ y \in Int
          OBVIOUS
        <5> QED
          BY <3>1, <5>1, MaxIs
      <4>2. x \ {n + 1} \in SUBSET (1 .. n + 1) /\ n + 1 \notin x \ {n + 1}
        OBVIOUS
      <4>3. h[x \ {n + 1}] = g[x \ {n + 1}]
        BY <4>2
      <4> QED
        BY <3>1, <4>1, <4>3
    <3>2. CASE n + 1 \notin x
      <4>1. x \in SUBSET (1 .. n) /\ x \ {Max(x)} \in SUBSET (1 .. n + 1) /\ n + 1 \notin x \ {Max(x)}
        <5>1. \A y \in x : y \in 1 .. n + 1 /\ y # n + 1
          BY <3>2
        <5>2. \A y \in 1 .. n + 1 : y # n + 1 => y \in 1 .. n
          OBVIOUS
        <5> QED
          BY <3>2, <5>1, <5>2
      <4>2. h[x] = g[x] /\ h[x \ {Max(x)}] = g[x \ {Max(x)}]
        BY <3>2, <4>1
      <4> QED
        BY <2>2, <4>1, <4>2
    <3> QED
      BY <3>1, <3>2
  <2>4. Lines(h, n + 1, s, t)
    <3>1. h = [x \in SUBSET (1 .. n + 1) |-> h[x]]
      OBVIOUS
    <3> HIDE DEF h
    <3> QED
      BY <2>3, <3>1 DEF Lines
  <2> HIDE DEF h
  <2> QED
    BY <2>4
<1> HIDE DEF S
<1>3. Nat \subseteq S
  BY <1>1, <1>2, SetInduction
<1> QED
  BY <1>3 DEF S

(* What AnswerTo makes of the lines, one by one.                           *)
IsReading(s, t, r) ==
  /\ r[0] = Unread /\ r[Len(t)] = Outcome(s, t)
  /\ \A i \in 1 .. Len(t) : r[i] = ReadLine(s, r[i - 1], t[i])

LEMMA ReadingExists ==
  ASSUME NEW s, NEW t, Len(t) \in Nat, DOMAIN t = 1 .. Len(t)
  PROVE  \E r : IsReading(s, t, r)
<1>1. Len(t) \in Nat
  OBVIOUS
<1> DEFINE g == CHOOSE g : Lines(g, Len(t), s, t)
<1>2. Lines(g, Len(t), s, t)
  BY <1>1, LinesExist
<1>3. Outcome(s, t) = g[1 .. Len(t)]
  BY AnswerIsFold
<1> HIDE DEF g
<1>4. \A x \in SUBSET (1 .. Len(t)) : g[x] = IF x = {} THEN Unread ELSE ReadLine(s, g[x \ {Max(x)}], t[Max(x)])
  BY <1>2 DEF Lines
<1>5. ASSUME NEW i \in 1 .. Len(t)
      PROVE  g[1 .. i] = ReadLine(s, g[1 .. i - 1], t[i])
  <2>1. i \in 1 .. i /\ 1 .. i \subseteq Int /\ \A y \in 1 .. i : y <= i
    OBVIOUS
  <2>2. Max(1 .. i) = i
    BY <2>1, MaxIs
  <2>3. (1 .. i) \ {i} = 1 .. i - 1
    OBVIOUS
  <2>4. 1 .. i \in SUBSET (1 .. Len(t)) /\ 1 .. i # {}
    <3>1. \A y \in 1 .. i : y \in 1 .. Len(t)
      BY <1>1
    <3> QED
      BY <2>1, <3>1
  <2>5. g[1 .. i] = ReadLine(s, g[(1 .. i) \ {Max(1 .. i)}], t[Max(1 .. i)])
    BY ONLY <1>4, <2>4
  <2> QED
    BY ONLY <2>2, <2>3, <2>5
<1>6. g[1 .. 0] = Unread
  <2>1. 1 .. 0 \in SUBSET (1 .. Len(t)) /\ 1 .. 0 = {}
    OBVIOUS
  <2> QED
    BY ONLY <1>4, <2>1
<1> DEFINE r == [i \in 0 .. Len(t) |-> g[1 .. i]]
<1>7. r[0] = Unread /\ r[Len(t)] = Outcome(s, t)
  BY <1>1, <1>3, <1>6
<1>8. \A i \in 1 .. Len(t) : r[i] = ReadLine(s, r[i - 1], t[i])
  BY <1>1, <1>5
<1> HIDE DEF r
<1> QED
  BY <1>7, <1>8 DEF IsReading
-----------------------------------------------------------------------------
(* What one line does.                                                     *)
LEMMA LineBlank ==
  ASSUME NEW s, NEW r, NEW line, r.status = 0, ~(Len(line) + 2 > MaxHeader), line = <<>>
  PROVE  ReadLine(s, r, line) = [r EXCEPT !.status = Status(s, r)]
BY Zenon DEF ReadLine

LEMMA LineIgnored ==
  ASSUME NEW s, NEW r, NEW line, r.status # 0
  PROVE  ReadLine(s, r, line) = r
BY Zenon DEF ReadLine

(* Once there is an answer, it stays.                                      *)
LEMMA ReadingEnds ==
  ASSUME NEW s, Len(s.lines) \in Nat, NEW q, IsReading(s, s.lines, q), NEW k \in 0 .. Len(s.lines), q[k].status # 0
  PROVE  AnswerTo(s) = q[k].status
<1>1. PICK n, t : n = Len(s.lines) /\ t = s.lines
  OBVIOUS
<1>2. n \in Nat /\ k \in Nat /\ k <= n
  BY <1>1
<1>3. q[n] = Outcome(s, t) /\ \A i \in 1 .. n : q[i] = ReadLine(s, q[i - 1], t[i])
  BY <1>1 DEF IsReading
<1> DEFINE S == {j \in Nat : k + j <= n => q[k + j] = q[k]}
<1>4. 0 \in S
  BY <1>2
<1>5. ASSUME NEW j \in Nat, j \in S
      PROVE  j + 1 \in S
  <2> SUFFICES ASSUME k + (j + 1) <= n PROVE q[k + (j + 1)] = q[k]
    OBVIOUS
  <2>1. k + j <= n /\ k + (j + 1) \in 1 .. n /\ k + (j + 1) - 1 = k + j
    BY <1>2
  <2>2. q[k + j] = q[k]
    BY <1>5, <2>1
  <2>3. q[k + (j + 1)] = ReadLine(s, q[k], t[k + (j + 1)])
    BY <1>3, <2>1, <2>2
  <2> QED
    BY ONLY <2>3, LineIgnored, q[k].status # 0
<1> HIDE DEF S
<1>6. Nat \subseteq S
  BY <1>4, <1>5, SetInduction
<1>7. n - k \in Nat /\ k + (n - k) = n
  BY <1>2
<1>8. q[n] = q[k]
  BY <1>6, <1>7 DEF S
<1> QED
  BY ONLY <1>1, <1>3, <1>8, AnswerIs

(* What has been read of lines that are in order.                          *)
LEMMA ReadingOrderly ==
  ASSUME NEW s \in Streams, NEW q, IsReading(s, s.lines, q), NEW k \in Nat, k < Len(s.lines), Orderly(s, k)
  PROVE  q[k] = [method |-> Method(s, k), headers |-> Collected(s, k), status |-> 0]
<1>1. PICK n, t : n = Len(s.lines) /\ t = s.lines
  OBVIOUS
<1>2. n \in Nat /\ \A i \in 1 .. n : t[i] = <<>> <=> i = n
  <2>1. t \in Seq(Seq(STRING)) /\ DOMAIN t = 1 .. n
    BY <1>1, StreamsAssumption
  <2> QED
    BY <1>1, <2>1, RequestsAssumption
<1>3. q[0] = Unread /\ \A i \in 1 .. n : q[i] = ReadLine(s, q[i - 1], t[i])
  BY <1>1 DEF IsReading
<1> DEFINE Right(j) == q[j] = [method |-> Method(s, j), headers |-> Collected(s, j), status |-> 0]
           S == {j \in Nat : j <= k => Right(j)}
<1>4. 0 \in S
  <2>1. Right(0)
    BY <1>3, CollectedFirst DEF Unread, Method
  <2> QED
    BY <2>1
<1>5. ASSUME NEW j \in Nat, j \in S
      PROVE  j + 1 \in S
  <2> SUFFICES ASSUME j + 1 <= k PROVE Right(j + 1)
    OBVIOUS
  <2>1. j <= k /\ j + 1 \in 1 .. n /\ j + 1 - 1 = j /\ j + 1 # n /\ j + 1 \in 1 .. k /\ (j + 1 = 1 <=> j = 0)
    BY <1>1, <1>2
  <2>2. Right(j)
    BY <1>5, <2>1
  <2>3. PICK line : line = t[j + 1]
    OBVIOUS
  <2>4. line # <<>> /\ q[j + 1] = ReadLine(s, q[j], line)
    BY <1>2, <1>3, <2>1, <2>3
  <2>5. Len(line) + 2 <= MaxHeader /\ line[1] \in IF j = 0 THEN RequestLines ELSE HeaderLines
    BY <1>1, <2>1, <2>3 DEF Orderly
  <2>6. ~(Len(line) + 2 > MaxHeader)
    <3>1. t \in Seq(Seq(STRING))
      BY <1>1, StreamsAssumption
    <3>2. Len(line) \in Nat
      BY <1>1, <2>1, <2>3, <3>1
    <3>3. MaxHeader \in Nat
      BY InboundAssumption
    <3> QED
      BY ONLY <2>5, <3>2, <3>3
  <2>7. Orderly(s, j)
    <3>1. \A i \in 1 .. j : i \in 1 .. k
      BY <2>1
    <3> QED
      BY <3>1 DEF Orderly
  <2>8. (Method(s, j) = "" <=> j = 0) /\ Method(s, j + 1) = IF j = 0 THEN line[1] ELSE Method(s, j)
    <3>1. Len(s.lines[j + 1]) + 2 <= MaxHeader /\ s.lines[j + 1][1] \in IF j = 0 THEN RequestLines ELSE HeaderLines
      BY <1>1, <2>3, <2>5
    <3> QED
      BY <1>1, <2>3, <2>7, <3>1, MethodIs, OneMore
  <2>11. PICK r, method, collected : r = q[j] /\ method = Method(s, j) /\ collected = Collected(s, j)
    OBVIOUS
  <2>12. r = [method |-> method, headers |-> collected, status |-> 0] /\ r.status = 0 /\ r.method = method
    BY <2>2, <2>11
  <2>13. r.status = 0 /\ line # <<>>
    BY ONLY <2>4, <2>12, Zenon
  <2>9. CASE j = 0
    <3>1. Collected(s, j) = {} /\ Collected(s, j + 1) = {}
      BY <2>9, CollectedFirst
    <3>2. r.method = "" /\ line[1] \in RequestLines
      <4>1. line[1] \in RequestLines
        BY ONLY <2>5, <2>9, Zenon
      <4>2. Method(s, j) = ""
        BY ONLY <2>8, <2>9, Zenon
      <4>3. r.method = ""
        BY ONLY <4>2, <2>11, <2>12, Zenon
      <4> QED
        BY ONLY <4>1, <4>3, Zenon
    <3>3. ReadLine(s, r, line) = [r EXCEPT !.method = line[1]]
      BY ONLY <2>6, <2>13, <3>2, Zenon DEF ReadLine
    <3>4. [r EXCEPT !.method = line[1]] = [method |-> line[1], headers |-> collected, status |-> 0]
      BY ONLY <2>12
    <3>5. collected = Collected(s, j + 1) /\ Method(s, j + 1) = line[1]
      BY ONLY <2>8, <2>9, <2>11, <3>1
    <3> QED
      BY ONLY <2>4, <2>11, <3>3, <3>4, <3>5
  <2>10. CASE j # 0
    <3>1. Collected(s, j + 1) = Collected(s, j) \cup HeadersOf(line[1])
      <4>1. j > 0
        BY <2>10
      <4> QED
        BY <1>1, <2>3, <4>1, CollectedMore
    <3>2. r.method # "" /\ line[1] \in HeaderLines
      <4>1. line[1] \in HeaderLines
        BY ONLY <2>5, <2>10, Zenon
      <4>2. Method(s, j) # ""
        BY ONLY <2>8, <2>10, Zenon
      <4>3. r.method # ""
        BY ONLY <4>2, <2>11, <2>12, Zenon
      <4> QED
        BY ONLY <4>1, <4>3, Zenon
    <3>3. ReadLine(s, r, line) = [r EXCEPT !.headers = r.headers \cup HeadersOf(line[1])]
      BY ONLY <2>6, <2>13, <3>2, Zenon DEF ReadLine
    <3>6. PICK more : more = HeadersOf(line[1])
      OBVIOUS
    <3>4. [r EXCEPT !.headers = r.headers \cup more] = [method |-> method, headers |-> collected \cup more, status |-> 0]
      BY ONLY <2>12
    <3>5. collected \cup more = Collected(s, j + 1) /\ Method(s, j + 1) = method
      BY ONLY <2>8, <2>10, <2>11, <3>1, <3>6
    <3> QED
      BY ONLY <2>4, <2>11, <3>3, <3>4, <3>5, <3>6
  <2> QED
    BY <2>9, <2>10
<1> HIDE DEF S
<1>6. Nat \subseteq S
  BY <1>4, <1>5, SetInduction
<1> QED
  BY <1>6 DEF S

(* The next line of them that is not in order decides the answer, ...      *)
LEMMA AnswerBad ==
  ASSUME NEW s \in Streams, NEW k \in Nat, k + 1 < Len(s.lines), Orderly(s, k), Len(s.lines[k + 1]) + 2 <= MaxHeader,
         s.lines[k + 1][1] \notin IF k = 0 THEN RequestLines ELSE HeaderLines
  PROVE  AnswerTo(s) = 400
<1>1. PICK n, t, line : n = Len(s.lines) /\ t = s.lines /\ line = t[k + 1]
  OBVIOUS
<1>2. t \in Seq(Seq(STRING)) /\ DOMAIN t = 1 .. n /\ n \in Nat
  BY <1>1, StreamsAssumption
<1>3. k < n /\ k + 1 \in 1 .. n /\ k + 1 \in 0 .. n /\ k + 1 # n /\ k + 1 - 1 = k
  BY <1>1, <1>2
<1>4. PICK q : IsReading(s, t, q)
  BY <1>1, <1>2, ReadingExists
<1>5. q[k] = [method |-> Method(s, k), headers |-> Collected(s, k), status |-> 0]
  BY <1>1, <1>3, <1>4, ReadingOrderly
<1>6. q[k + 1] = ReadLine(s, q[k], line)
  BY <1>1, <1>3, <1>4 DEF IsReading
<1>7. line # <<>>
  BY <1>1, <1>2, <1>3, RequestsAssumption
<1>8. ~(Len(line) + 2 > MaxHeader)
  <2>1. Len(line) \in Nat
    BY <1>1, <1>2, <1>3
  <2>2. MaxHeader \in Nat
    BY InboundAssumption
  <2>3. Len(line) + 2 <= MaxHeader
    BY <1>1
  <2> QED
    BY ONLY <2>1, <2>2, <2>3
<1>9. Method(s, k) = "" <=> k = 0
  BY MethodIs
<1>10. PICK r : r = q[k]
  OBVIOUS
<1>12. r.status = 0 /\ r.method = Method(s, k) /\ [r EXCEPT !.status = 400].status = 400
  BY <1>5, <1>10
<1>13. (r.method = "" => line[1] \notin RequestLines) /\ (r.method # "" => line[1] \notin HeaderLines)
  <2>1. line[1] \notin IF k = 0 THEN RequestLines ELSE HeaderLines
    BY <1>1
  <2>2. r.method = "" <=> k = 0
    BY ONLY <1>9, <1>12, Zenon
  <2> QED
    BY ONLY <2>1, <2>2, Zenon
<1>14. q[k + 1] = [r EXCEPT !.status = 400]
  <2>1. ReadLine(s, r, line) = [r EXCEPT !.status = 400]
    BY ONLY <1>7, <1>8, <1>12, <1>13, Zenon DEF ReadLine
  <2> QED
    BY ONLY <1>6, <1>10, <2>1
<1>11. q[k + 1].status = 400
  BY ONLY <1>12, <1>14
<1> QED
  BY ONLY <1>1, <1>2, <1>3, <1>4, <1>11, ReadingEnds

(* ... and if all are, their meaning.                                      *)
LEMMA AnswerWhole ==
  ASSUME NEW s \in Streams, NEW k \in Nat, k + 1 = Len(s.lines), Orderly(s, k), 2 <= MaxHeader
  PROVE  AnswerTo(s) = Status(s, [method |-> Method(s, k), headers |-> Collected(s, k), status |-> 0])
<1>1. PICK n, t, line : n = Len(s.lines) /\ t = s.lines /\ line = t[k + 1]
  OBVIOUS
<1>2. t \in Seq(Seq(STRING)) /\ DOMAIN t = 1 .. n /\ n \in Nat
  BY <1>1, StreamsAssumption
<1>3. k < n /\ k + 1 \in 1 .. n /\ k + 1 = n /\ k + 1 - 1 = k
  BY <1>1, <1>2
<1>4. PICK q : IsReading(s, t, q)
  BY <1>1, <1>2, ReadingExists
<1>5. q[k] = [method |-> Method(s, k), headers |-> Collected(s, k), status |-> 0]
  BY <1>1, <1>3, <1>4, ReadingOrderly
<1>6. q[n] = ReadLine(s, q[k], line)
  BY <1>1, <1>3, <1>4 DEF IsReading
<1>7. line = <<>>
  BY <1>1, <1>2, <1>3, RequestsAssumption
<1>8. ~(Len(line) + 2 > MaxHeader)
  <2>1. Len(line) = 0
    BY <1>7
  <2>2. MaxHeader \in Nat
    BY InboundAssumption
  <2> QED
    BY ONLY <2>1, <2>2, 2 <= MaxHeader
<1>11. PICK r : r = q[k]
  OBVIOUS
<1>12. r.status = 0 /\ [r EXCEPT !.status = Status(s, r)].status = Status(s, r)
  BY <1>5, <1>11
<1>9. q[n].status = Status(s, q[k])
  <2>1. ReadLine(s, r, line) = [r EXCEPT !.status = Status(s, r)]
    BY ONLY <1>7, <1>8, <1>12, LineBlank
  <2> QED
    BY ONLY <1>6, <1>11, <1>12, <2>1
<1>10. q[n].status = AnswerTo(s)
  BY <1>1, <1>4, AnswerIs DEF IsReading
<1> QED
  BY <1>5, <1>9, <1>10
-----------------------------------------------------------------------------
(* What a whole request means, in its method and its headers.              *)
Accepted(s, method, named) ==
  LET version == named \cap DOMAIN Versions
      keys == IF version = {} THEN {"Key1", "Key2"} ELSE {"Key"}
  IN /\ method = "GET" /\ keys \subseteq named
     /\ version \subseteq {"Version7", "Version8", "Version13"}
     /\ version # {} /\ "Extensions" \in named => s.meant.extensions

Hosted(s, named) == "Host" \in named /\ s.meant.host # "none"

Decision(s, method, named) ==
  IF method = "" \/ ~Hosted(s, named) THEN 400
  ELSE IF "TooLong" \in named THEN 413
  ELSE IF "Length" \in named /\ s.body < BodyLength THEN 0
  ELSE IF s.meant.host # "valid" \/ ({"Upgrade", "Connection"} \subseteq named /\ ~Accepted(s, method, named))
    THEN 400
  ELSE IF {"Upgrade", "Connection"} \subseteq named THEN 101 ELSE 426

LEMMA StatusIs ==
  ASSUME NEW s, NEW method, NEW named
  PROVE  Status(s, [method |-> method, headers |-> named, status |-> 0]) = Decision(s, method, named)
<1>1. PICK r : r = [method |-> method, headers |-> named, status |-> 0]
  OBVIOUS
<1>2. r.method = method
  BY ONLY <1>1
<1>3. r.headers = named
  BY ONLY <1>1
<1>4. Status(s, r) = Decision(s, r.method, r.headers)
  BY ONLY Zenon DEF Status, Decision, Accepted, Hosted
<1> QED
  BY ONLY <1>1, <1>2, <1>3, <1>4, Zenon

(* What the server makes of the host, and of a list.                       *)
LEMMA HostIs ==
  ASSUME NEW s \in Streams, stream = s, Meant(s)
  PROVE  /\ GetHeader("Host") = <<>> <=> ~Hosted(s, m_headers)
         /\ Hosted(s, m_headers) => (Uris[GetHeader("Host")].valid <=> s.meant.host = "valid")
<1>1. PICK value : value = StripLws(s.values["Host"])
  OBVIOUS
<1>2. Values[s.values["Host"]] = value /\ value \in Range(Values)
  BY <1>1, ValueIs
<1>3. /\ s.meant.host = "none" <=> value = <<>>
      /\ s.meant.host = "valid" <=> value # <<>> /\ GetUriFromHost(value).valid
  BY <1>1 DEF Meant
<1>4. Uris[value] = GetUriFromHost(value)
  BY <1>2 DEF Uris
<1>5. GetHeader("Host") = IF "Host" \in m_headers THEN value ELSE <<>>
  BY <1>2 DEF GetHeader
<1>6. CASE "Host" \in m_headers
  BY ONLY <1>3, <1>4, <1>5, <1>6, Zenon DEF Hosted
<1>7. CASE "Host" \notin m_headers
  BY ONLY <1>5, <1>7, Zenon DEF Hosted
<1> QED
  BY <1>6, <1>7

LEMMA EmptyList == ParseParameterList(<<>>) = [ok |-> TRUE, names |-> <<>>]
<1>1. <<>> \in Chars /\ Len(<<>>) = 0
  BY EmptySeq DEF Chars
<1>2. ExtractAllLws(<<>>) \in Chars /\ Len(ExtractAllLws(<<>>)) <= 0 /\ Len(ExtractAllLws(<<>>)) \in Nat
  BY <1>1, LwsGives
<1>3. ExtractAllLws(<<>>) = <<>>
  <2>1. Len(ExtractAllLws(<<>>)) = 0
    BY <1>2
  <2> QED
    BY <1>2, <2>1, EmptySeq DEF Chars
<1> QED
  BY <1>1, <1>3, ParametersType

LEMMA ListIs ==
  ASSUME NEW s \in Streams, stream = s, NEW name \in {"Extensions", "Subprotocols"}
  PROVE  ParameterLists[GetHeader(name)] =
           IF name \in m_headers THEN ParseParameterList(StripLws(s.values[name]))
                                 ELSE [ok |-> TRUE, names |-> <<>>]
<1>1. PICK value : value = StripLws(s.values[name])
  OBVIOUS
<1>2. Values[s.values[name]] = value /\ value \in Range(Values)
  <2>1. name \in {"Host", "Extensions", "Subprotocols"}
    OBVIOUS
  <2> QED
    BY <1>1, <2>1, ValueIs
<1>3. ParameterLists[value] = ParseParameterList(value) /\ ParameterLists[<<>>] = ParseParameterList(<<>>)
  BY <1>2 DEF ParameterLists
<1>4. GetHeader(name) = IF name \in m_headers THEN value ELSE <<>>
  BY <1>2 DEF GetHeader
<1> QED
  BY ONLY <1>1, <1>3, <1>4, EmptyList, Zenon

(* The words of a request that begins well.                                *)
LEMMA NamedIs ==
  ASSUME NEW s \in Streams, Begun1(s), NEW named, named = Collected(s, Len(s.lines) - 1)
  PROVE  named \subseteq Named(s) /\ ("Subprotocols" \in Named(s) <=> "Subprotocols" \in named)
<1>1. PICK n, t : n = Len(s.lines) /\ t = s.lines
  OBVIOUS
<1>2. n \in Nat /\ n > 1 /\ DOMAIN t = 1 .. n /\ t[1][1] \in RequestLines
  BY <1>1, StreamsAssumption DEF Begun1
<1>3. \A i \in 1 .. n : t[i] = <<>> <=> i = n
  BY <1>1, <1>2, RequestsAssumption
<1>4. \A x : x \in Named(s) <=> \E i \in 1 .. n : t[i] # <<>> /\ x \in HeadersOf(t[i][1])
  BY <1>1, <1>2 DEF Named
<1>5. \A i : i \in 1 .. n /\ i # n <=> i = 1 \/ i \in 2 .. n - 1
  BY ONLY <1>2
<1>6. \A x : x \in Named(s) <=> x \in HeadersOf(t[1][1]) \/ \E i \in 2 .. n - 1 : x \in HeadersOf(t[i][1])
  BY ONLY <1>3, <1>4, <1>5
<1>7. \A x : x \in named <=> \E i \in 2 .. n - 1 : x \in HeadersOf(t[i][1])
  BY <1>1 DEF Collected
<1>8. "Subprotocols" \notin HeadersOf(t[1][1])
  BY <1>2 DEF RequestLines, HeadersOf
<1> QED
  BY ONLY <1>6, <1>7, <1>8
-----------------------------------------------------------------------------
(* A line that has no end in the buffer is not all there.                  *)
LEMMA LineWaits ==
  ASSUME NEW s \in Streams, NEW at, NEW from, IsPlan(s, at, from), NEW a, a = Bytes(s),
         NEW k \in Nat, InLines(s, a, at, k), LineEnds = {}
  PROVE  /\ Len(m_buf) <= Len(s.lines[k + 1]) + 1 /\ Len(s.lines[k + 1]) \in Nat /\ k + 1 \in DOMAIN s.lines
         /\ Len(m_buf) \in Nat /\ input # <<>>
<1>1. PICK x, y, line, size, n : x = at[k] /\ y = at[k + 1] /\ line = s.lines[k + 1] /\ size = Len(line) /\ n = Len(s.lines)
  OBVIOUS
<1>2. a \in Bytes0 /\ Len(a) \in Nat
  BY StreamBytes DEF Bytes0
<1>3. k < n /\ n \in Nat /\ DOMAIN s.lines = 1 .. n
  <2>1. k < n
    BY <1>1 DEF InLines
  <2>2. n \in Nat /\ DOMAIN s.lines = 1 .. n
    BY <1>1, StreamsAssumption
  <2> QED
    BY <2>1, <2>2
<1>4. HasLine(a, x, line, y)
  BY <1>1, <1>3, LineThere
<1>5. /\ x \in Nat /\ size \in Nat /\ y = x + size + 2 /\ y <= Len(a)
      /\ a[x + size + 1].s = "CR" /\ a[x + size + 2].s = "LF"
  BY ONLY <1>1, <1>4 DEF HasLine
<1>6. PICK q \in 0 .. Len(a) : x <= q /\ m_buf = Window(a, x, q) /\ input = Window(a, q, Len(a))
  BY <1>1 DEF InLines
<1>7. q \in Nat /\ x \in 0 .. q /\ Len(a) \in 0 .. Len(a) /\ q \in 0 .. Len(a)
  BY ONLY <1>2, <1>5, <1>6
<1>8. Len(m_buf) = q - x /\ \A i \in 1 .. q - x : m_buf[i] = a[x + i]
  BY ONLY <1>2, <1>6, <1>7, WindowIs
<1>9. q < y
  <2> SUFFICES ASSUME ~(q < y)
               PROVE  LineEnds # {}
    OBVIOUS
  <2>1. size + 1 \in 1 .. q - x /\ size + 2 \in 1 .. q - x /\ x + (size + 1) = x + size + 1 /\ x + (size + 2) = x + size + 2
        /\ size + 1 \in 1 .. Len(m_buf) - 1 /\ size + 1 + 1 = size + 2
    BY ONLY <1>5, <1>7, <1>8, ~(q < y)
  <2>2. m_buf[size + 1].s = "CR" /\ m_buf[size + 2].s = "LF"
    BY ONLY <1>5, <1>8, <2>1
  <2>3. Delimiter(size + 1)
    BY ONLY <2>1, <2>2 DEF Delimiter
  <2> QED
    BY ONLY <2>1, <2>3 DEF LineEnds
<1>10. Len(input) = Len(a) - q
  BY ONLY <1>2, <1>6, <1>7, WindowIs
<1>11. input # <<>>
  <2>1. Len(input) # 0
    BY ONLY <1>2, <1>5, <1>7, <1>9, <1>10
  <2> QED
    BY ONLY <2>1
<1>12. Len(m_buf) <= size + 1 /\ Len(m_buf) \in Nat
  BY ONLY <1>5, <1>7, <1>8, <1>9
<1>13. k + 1 \in DOMAIN s.lines
  BY ONLY <1>3, k \in Nat
<1> QED
  BY ONLY <1>1, <1>5, <1>11, <1>12, <1>13

(* Whether a body that has been announced is all there.                    *)
LEMMA BodyThere ==
  ASSUME NEW s \in Streams, NEW at, NEW from, IsPlan(s, at, from), NEW a, a = Bytes(s),
         InBody(s, a, at), Body, "Length" \in m_headers
  PROVE  /\ m_ready => ~(s.body < BodyLength)
         /\ ~m_ready /\ input = <<>> /\ chunk = <<>> => s.body < BodyLength
<1>1. PICK x, body, m, size : x = at[Len(s.lines)] /\ body = s.body /\ m = Len(s.frames) /\ size = Len(a)
  OBVIOUS
<1>2. x \in Nat /\ from[0] = x + body /\ from[m] = size
  BY <1>1 DEF IsPlan
<1>3. a \in Bytes0 /\ size \in Nat
  BY <1>1, StreamBytes DEF Bytes0
<1>4. body \in Nat /\ m \in Nat /\ (m # 0 => body = BodyOf(s)) /\ BodyLength \in Nat
  <2>1. body \in Nat /\ s.frames \in Seq(AnyFrame)
    BY <1>1, StreamsAssumption DEF AnyFrame
  <2>2. s.frames # <<>> => body = BodyOf(s)
    BY <1>1, RequestsAssumption
  <2>3. m # 0 => s.frames # <<>>
    BY <1>1
  <2> QED
    BY <1>1, <2>1, <2>2, <2>3, InboundAssumption
<1>5. BodyOf(s) \in Nat /\ BodyOf(s) >= BodyLength
  <2>1. Begun1(s) /\ m_headers = Collected(s, Len(s.lines) - 1)
    BY ONLY InBody(s, a, at) DEF InBody
  <2>2. "Length" \in m_headers <=> Says(s, {"Length"})
    BY ONLY <2>1, s \in Streams, HeadersTell, Zenon
  <2>3. Says(s, {"Length"})
    BY <2>2
  <2>4. BodyOf(s) = BodyLength + IF Says00(s) THEN Key3Bytes ELSE 0
    BY ONLY <2>3 DEF BodyOf
  <2>5. Key3Bytes \in Nat /\ BodyLength \in Nat
    BY InboundAssumption
  <2> QED
    BY ONLY <2>4, <2>5
<1>6. m # 0 => from[0] <= size
  <2> SUFFICES ASSUME m # 0
               PROVE  from[0] <= size
    OBVIOUS
  <2>1. 0 \in Nat /\ 0 < m
    BY ONLY <1>4, m # 0
  <2>2. 0 < Len(s.frames)
    BY <1>1, <2>1
  <2>3. PICK f : f = s.frames[0 + 1]
    OBVIOUS
  <2>4. /\ Says00(s) => There00(a, from[0], f)
        /\ ~Says00(s) => There(a, from[0], f)
    BY <2>1, <2>2, <2>3, FrameThere
  <2>5. Says00(s) => from[0] < size
    BY ONLY <1>1, <2>4 DEF There00
  <2>6. ASSUME ~Says00(s)
        PROVE  from[0] <= size
    <3>1. PICK h, l : h = HeadSize(f) /\ l = Len(f.payload)
      OBVIOUS
    <3>2. from[0] \in Nat /\ h \in Nat /\ l \in Nat /\ from[0] + 2 + h + l <= size
      BY ONLY <1>1, <2>4, <2>6, <3>1 DEF There
    <3> QED
      BY ONLY <1>3, <3>2
  <2> QED
    BY ONLY <1>2, <1>3, <1>4, <2>5, <2>6
<1>7. m_body + m_body_bytes_needed = BodyLength
  BY DEF InBody
<1>8. PICK q \in Nat : Position(a, x + m_body, q)
  BY <1>1 DEF InBody
<1>9. x + m_body \in 0 .. q /\ q \in 0 .. size /\ chunk = Window(a, x + m_body, q) /\ input = Window(a, q, size)
  BY ONLY <1>1, <1>8 DEF Position
<1>10. m_body \in Nat /\ m_body_bytes_needed \in Nat
  BY DEF Body
<1>11. x + body <= size /\ (m = 0 => x + body = size)
  BY ONLY <1>2, <1>3, <1>4, <1>6
<1>12. CASE m_ready
  <2>1. m_body_bytes_needed = 0
    BY <1>12 DEF Body
  <2>2. m_body = BodyLength
    BY ONLY <1>7, <1>10, <2>1
  <2>3. x + BodyLength <= size
    BY ONLY <1>2, <1>3, <1>4, <1>9, <2>2
  <2>4. ~(body < BodyLength)
    BY ONLY <1>2, <1>3, <1>4, <1>5, <1>11, <2>3
  <2> QED
    BY <1>1, <1>12, <2>4
<1>13. CASE ~m_ready /\ input = <<>> /\ chunk = <<>>
  <2>1. m_body_bytes_needed > 0
    BY ONLY <1>13, InBody(s, a, at) DEF InBody
  <2>2. PICK p : p = x + m_body
    OBVIOUS
  <2>3. size \in 0 .. size /\ q \in 0 .. size /\ p \in 0 .. q
    BY ONLY <1>3, <1>9, <2>2
  <2>4. Len(chunk) = q - p /\ Len(input) = size - q
    BY ONLY <1>1, <1>3, <1>9, <2>2, <2>3, WindowIs
  <2>5. Len(chunk) = 0 /\ Len(input) = 0
    BY ONLY <1>13
  <2>6. x + m_body = size
    BY ONLY <1>2, <1>3, <1>10, <2>2, <2>3, <2>4, <2>5
  <2>7. body < BodyLength
    BY ONLY <1>2, <1>3, <1>4, <1>5, <1>7, <1>10, <1>11, <2>1, <2>6
  <2> QED
    BY ONLY <1>1, <1>13, <2>7
<1> QED
  BY <1>12, <1>13
-----------------------------------------------------------------------------
(* The answer to a request that is all there, but perhaps for its body.    *)
LEMMA AnswerToWhole ==
  ASSUME NEW s \in Streams, stream = s, Meant(s), NEW a, NEW at, InBody(s, a, at)
  PROVE  /\ AnswerTo(s) = Decision(s, m_method, m_headers)
         /\ m_method # "" /\ Hosted(s, m_headers) /\ "TooLong" \notin m_headers
<1>1. PICK n : n = Len(s.lines)
  OBVIOUS
<1>2. n \in Nat /\ n > 1
  <2>1. Begun1(s)
    BY DEF InBody
  <2> QED
    BY <1>1, <2>1, StreamsAssumption DEF Begun1
<1>3. PICK k \in Nat : k + 1 = n /\ k = n - 1 /\ k # 0
  <2>1. n - 1 \in Nat /\ n - 1 + 1 = n /\ n - 1 # 0
    BY ONLY <1>2
  <2> QED
    BY ONLY <2>1
<1>4. /\ m_method = s.lines[1][1] /\ m_headers = Collected(s, k) /\ Orderly(s, k) /\ 2 <= MaxHeader
      /\ "TooLong" \notin m_headers /\ "Host" \in m_headers /\ StripLws(s.values["Host"]) # <<>>
  BY ONLY <1>1, <1>3, InBody(s, a, at), Zenon DEF InBody, Complete
<1>5. Method(s, k) = m_method /\ m_method # ""
  <2>1. Method(s, k) = m_method
    BY ONLY <1>3, <1>4 DEF Method
  <2>2. Method(s, k) = "" <=> k = 0
    BY ONLY <1>4, k \in Nat, MethodIs
  <2> QED
    BY ONLY <1>3, <2>1, <2>2
<1>6. AnswerTo(s) = Status(s, [method |-> Method(s, k), headers |-> Collected(s, k), status |-> 0])
  BY ONLY <1>1, <1>3, <1>4, s \in Streams, k \in Nat, AnswerWhole, Zenon
<1>8. AnswerTo(s) = Decision(s, m_method, m_headers)
  BY ONLY <1>4, <1>5, <1>6, StatusIs, Zenon
<1>7. Hosted(s, m_headers)
  <2>1. s.meant.host = "none" <=> StripLws(s.values["Host"]) = <<>>
    BY Zenon DEF Meant
  <2> QED
    BY ONLY <1>4, <2>1, Zenon DEF Hosted
<1> QED
  BY ONLY <1>4, <1>5, <1>7, <1>8, Zenon

(* It names one version, or none.                                          *)
LEMMA VersionIs ==
  ASSUME NEW s \in Streams, Meant(s), Begun1(s), m_headers = Collected(s, Len(s.lines) - 1)
  PROVE  LET version == m_headers \cap DOMAIN Versions
         IN \/ version = {} /\ GetWebsocketVersion = 0
            \/ \E v \in DOMAIN Versions : version = {v} /\ GetWebsocketVersion = Versions[v]
<1>1. PICK version : version = m_headers \cap DOMAIN Versions
  OBVIOUS
<1>2. GetWebsocketVersion = IF version = {} THEN 0 ELSE Versions[CHOOSE v \in version : TRUE]
  BY <1>1 DEF GetWebsocketVersion
<1>3. \A v, w \in Named(s) \cap DOMAIN Versions : v = w
  BY Zenon DEF Meant
<1>4. m_headers \subseteq Named(s)
  BY NamedIs
<1>5. CASE version = {}
  BY <1>1, <1>2, <1>5
<1>6. CASE version # {}
  <2>1. PICK v : v = CHOOSE x \in version : TRUE
    OBVIOUS
  <2>2. v \in version
    BY <1>6, <2>1
  <2>3. \A w \in version : w = v
    BY ONLY <1>1, <1>3, <1>4, <2>2
  <2>4. version = {v} /\ v \in DOMAIN Versions /\ GetWebsocketVersion = Versions[v]
    BY ONLY <1>1, <1>2, <1>6, <2>1, <2>2, <2>3
  <2> QED
    BY <1>1, <2>4
<1> QED
  BY <1>5, <1>6

LEMMA VersionsAre ==
  ASSUME NEW v \in DOMAIN Versions
  PROVE  Versions[v] # 0 /\ (Versions[v] \in VersionsSupported <=> v \in {"Version7", "Version8", "Version13"})
BY DEF Versions, VersionsSupported

(* A handshake is accepted if it may be, unless the key is cut off.        *)
LEMMA HandshakeIs ==
  ASSUME NEW s \in Streams, stream = s, Meant(s), Begun1(s), m_headers = Collected(s, Len(s.lines) - 1),
         IsWebsocketHandshake
  PROVE  \/ ProcessorError = 500 /\ GetWebsocketVersion = 0
         \/ ProcessorError = 400 /\ ~Accepted(s, m_method, m_headers)
         \/ ProcessorError = 0 /\ (Accepted(s, m_method, m_headers) <=> ValidateHandshake /\ NegotiateExtensions)
<1>1. PICK version : version = m_headers \cap DOMAIN Versions
  OBVIOUS
<1>2. \/ version = {} /\ GetWebsocketVersion = 0
      \/ \E v \in DOMAIN Versions : version = {v} /\ GetWebsocketVersion = Versions[v]
  BY <1>1, VersionIs
<1>3. CASE version = {} /\ GetWebsocketVersion = 0
  <2>1. Accepted(s, m_method, m_headers) <=> m_method = "GET" /\ {"Key1", "Key2"} \subseteq m_headers
    BY ONLY <1>1, <1>3 DEF Accepted
  <2>2. ValidateHandshake <=> m_method = "GET" /\ {"Key1", "Key2"} \subseteq m_headers
    BY ONLY <1>3 DEF ValidateHandshake
  <2>3. NegotiateExtensions
    BY ONLY <1>3 DEF NegotiateExtensions
  <2>4. 0 \in VersionsSupported
    BY ONLY DEF VersionsSupported
  <2>5. ProcessorError = 500 \/ ProcessorError = 0
    BY ONLY <1>3, <2>4, IsWebsocketHandshake DEF ProcessorError
  <2> QED
    BY ONLY <1>3, <2>1, <2>2, <2>3, <2>5
<1>4. ASSUME NEW v \in DOMAIN Versions, version = {v}, GetWebsocketVersion = Versions[v]
      PROVE  \/ ProcessorError = 400 /\ ~Accepted(s, m_method, m_headers)
             \/ /\ ProcessorError = 0
                /\ Accepted(s, m_method, m_headers) <=> ValidateHandshake /\ NegotiateExtensions
  <2>1. /\ GetWebsocketVersion # 0
        /\ GetWebsocketVersion \in VersionsSupported <=> v \in {"Version7", "Version8", "Version13"}
    BY <1>4, VersionsAre
  <2>2. ProcessorError = IF GetWebsocketVersion \in VersionsSupported THEN 0 ELSE 400
    BY ONLY <2>1, IsWebsocketHandshake DEF ProcessorError
  <2>3. version # {} /\ (version \subseteq {"Version7", "Version8", "Version13"} <=> v \in {"Version7", "Version8", "Version13"})
    BY ONLY <1>4
  <2>4. PICK supported : supported = {"Version7", "Version8", "Version13"}
    OBVIOUS
  <2>5. Accepted(s, m_method, m_headers)
          <=> /\ m_method = "GET" /\ {"Key"} \subseteq m_headers /\ version \subseteq supported
              /\ "Extensions" \in m_headers => s.meant.extensions
    BY ONLY <1>1, <2>3, <2>4, Zenon DEF Accepted
  <2>6. ValidateHandshake <=> m_method = "GET" /\ "Key" \in m_headers
    BY ONLY <2>1, Zenon DEF ValidateHandshake
  <2>7. NegotiateExtensions <=> ("Extensions" \in m_headers => s.meant.extensions)
    <3>1. PICK list : list = ParseParameterList(StripLws(s.values["Extensions"]))
      OBVIOUS
    <3>2. s.meant.extensions = list.ok
      BY ONLY <3>1, Meant(s), Zenon DEF Meant
    <3>3. ParameterLists[GetHeader("Extensions")] = IF "Extensions" \in m_headers THEN list ELSE [ok |-> TRUE, names |-> <<>>]
      BY <3>1, ListIs
    <3>4. PICK known : known = ParameterLists[GetHeader("Extensions")]
      OBVIOUS
    <3>5. NegotiateExtensions <=> known.ok
      BY ONLY <2>1, <3>4, Zenon DEF NegotiateExtensions
    <3>6. CASE "Extensions" \in m_headers
      <4>1. known = list
        BY ONLY <3>3, <3>4, <3>6, Zenon
      <4> QED
        BY ONLY <3>2, <3>5, <3>6, <4>1, Zenon
    <3>7. CASE "Extensions" \notin m_headers
      <4>1. known = [ok |-> TRUE, names |-> <<>>]
        BY ONLY <3>3, <3>4, <3>7, Zenon
      <4>2. known.ok
        BY ONLY <4>1
      <4> QED
        BY ONLY <3>5, <3>7, <4>2, Zenon
    <3> QED
      BY <3>6, <3>7
  <2>8. {"Key"} \subseteq m_headers <=> "Key" \in m_headers
    OBVIOUS
  <2>9. CASE v \in supported
    <3>1. ProcessorError = 0 /\ version \subseteq supported
      BY ONLY <2>1, <2>2, <2>3, <2>4, <2>9
    <3>2. Accepted(s, m_method, m_headers) <=> ValidateHandshake /\ NegotiateExtensions
      BY ONLY <2>5, <2>6, <2>7, <2>8, <3>1, Zenon
    <3> QED
      BY ONLY <3>1, <3>2
  <2>10. CASE v \notin supported
    <3>1. ProcessorError = 400 /\ ~(version \subseteq supported)
      BY ONLY <2>1, <2>2, <2>3, <2>4, <2>10
    <3> QED
      BY ONLY <2>5, <3>1, Zenon
  <2> QED
    BY <2>9, <2>10
<1> QED
  BY <1>2, <1>3, <1>4

(* The answer is the right one, unless the key is cut off, ...             *)
LEMMA AnswerRight ==
  ASSUME NEW s \in Streams, stream = s, Meant(s), NEW at, NEW from, IsPlan(s, at, from), NEW a, a = Bytes(s),
         InBody(s, a, at), Body, m_ready,
         NEW given, given = IF ProcessorError # 0 THEN ProcessorError ELSE ProcessHandshakeRequest
  PROVE  given = AnswerTo(s) \/ (given = 500 /\ GetWebsocketVersion = 0 /\ IsWebsocketHandshake)
<1>3. /\ AnswerTo(s) = Decision(s, m_method, m_headers)
      /\ m_method # "" /\ Hosted(s, m_headers) /\ "TooLong" \notin m_headers
  BY AnswerToWhole
<1>4. ~("Length" \in m_headers /\ s.body < BodyLength)
  BY BodyThere
<1>5. PICK method, named : method = m_method /\ named = m_headers
  OBVIOUS
<1>6. PICK valid, accepted : valid = (s.meant.host = "valid") /\ accepted = Accepted(s, method, named)
  OBVIOUS
<1>7. AnswerTo(s) = IF ~valid \/ (IsWebsocketHandshake /\ ~accepted) THEN 400
                    ELSE IF IsWebsocketHandshake THEN 101 ELSE 426
  <2>0. AnswerTo(s) = Decision(s, method, named)
    BY ONLY <1>3, <1>5, Zenon
  <2>1. AnswerTo(s) =
           IF method = "" \/ ~Hosted(s, named) THEN 400
           ELSE IF "TooLong" \in named THEN 413
           ELSE IF "Length" \in named /\ s.body < BodyLength THEN 0
           ELSE IF s.meant.host # "valid" \/ ({"Upgrade", "Connection"} \subseteq named /\ ~Accepted(s, method, named))
             THEN 400
           ELSE IF {"Upgrade", "Connection"} \subseteq named THEN 101 ELSE 426
    BY ONLY <2>0, ZenonT(60) DEF Decision
  <2>2. AnswerTo(s) =
           IF "TooLong" \in named THEN 413
           ELSE IF "Length" \in named /\ s.body < BodyLength THEN 0
           ELSE IF s.meant.host # "valid" \/ ({"Upgrade", "Connection"} \subseteq named /\ ~Accepted(s, method, named))
             THEN 400
           ELSE IF {"Upgrade", "Connection"} \subseteq named THEN 101 ELSE 426
    BY ONLY <1>3, <1>5, <2>1, Zenon
  <2>3. AnswerTo(s) =
           IF s.meant.host # "valid" \/ ({"Upgrade", "Connection"} \subseteq named /\ ~Accepted(s, method, named))
             THEN 400
           ELSE IF {"Upgrade", "Connection"} \subseteq named THEN 101 ELSE 426
    BY ONLY <1>3, <1>4, <1>5, <2>2, ZenonT(60)
  <2>4. IsWebsocketHandshake <=> {"Upgrade", "Connection"} \subseteq named
    BY ONLY <1>5 DEF IsWebsocketHandshake
  <2> QED
    BY ONLY <1>6, <2>3, <2>4, Zenon
<1>8. Uris[GetHeader("Host")].valid <=> valid
  BY <1>3, <1>6, HostIs
<1>9. CASE ~IsWebsocketHandshake
  <2>1. ProcessorError = 0
    BY ONLY <1>9 DEF ProcessorError
  <2>2. ProcessHandshakeRequest = IF valid THEN 426 ELSE 400
    BY ONLY <1>8, <1>9 DEF ProcessHandshakeRequest
  <2> QED
    BY <1>7, <1>9, <2>1, <2>2
<1>10. CASE IsWebsocketHandshake
  <2>1. Begun1(s) /\ m_headers = Collected(s, Len(s.lines) - 1)
    BY ONLY InBody(s, a, at) DEF InBody
  <2>2. \/ ProcessorError = 500 /\ GetWebsocketVersion = 0
        \/ ProcessorError = 400 /\ ~accepted
        \/ ProcessorError = 0 /\ (accepted <=> ValidateHandshake /\ NegotiateExtensions)
    BY <1>5, <1>6, <1>10, <2>1, HandshakeIs
  <2>3. ProcessHandshakeRequest = IF valid /\ ValidateHandshake /\ NegotiateExtensions THEN 101 ELSE 400
    BY ONLY <1>8, <1>10 DEF ProcessHandshakeRequest
  <2>4. CASE ProcessorError = 500 /\ GetWebsocketVersion = 0
    BY <1>10, <2>4
  <2>5. CASE ProcessorError = 400 /\ ~accepted
    BY <1>7, <1>10, <2>5
  <2>6. CASE ProcessorError = 0 /\ (accepted <=> ValidateHandshake /\ NegotiateExtensions)
    <3>1. given = ProcessHandshakeRequest
      BY <2>6
    <3> QED
      BY ONLY <1>7, <1>10, <2>3, <2>6, <3>1
  <2> QED
    BY ONLY <2>2, <2>4, <2>5, <2>6
<1> QED
  BY <1>9, <1>10

(* ... and so are the subprotocols.                                        *)
LEMMA SubprotocolsRight ==
  ASSUME NEW s \in Streams, stream = s, Meant(s), Begun1(s), m_headers = Collected(s, Len(s.lines) - 1)
  PROVE  ExtractSubprotocols = s.meant.subprotocols
<1>1. PICK list : list = ParseParameterList(StripLws(s.values["Subprotocols"]))
  OBVIOUS
<1>2. s.meant.subprotocols = IF "Subprotocols" \in Named(s) /\ ~Says00(s) THEN list.names ELSE <<>>
  BY ONLY <1>1, Meant(s), Zenon DEF Meant
<1>3. "Subprotocols" \in Named(s) <=> "Subprotocols" \in m_headers
  BY NamedIs
<1>4. GetWebsocketVersion = 0 <=> Says00(s)
  BY HeadersTell, Zenon
<1>5. ParameterLists[GetHeader("Subprotocols")] = IF "Subprotocols" \in m_headers THEN list ELSE [ok |-> TRUE, names |-> <<>>]
  BY <1>1, ListIs
<1>6. PICK known : known = ParameterLists[GetHeader("Subprotocols")]
  OBVIOUS
<1>7. ExtractSubprotocols = IF GetWebsocketVersion = 0 THEN <<>> ELSE known.names
  BY ONLY <1>6, Zenon DEF ExtractSubprotocols
<1>8. CASE "Subprotocols" \in m_headers
  <2>1. known = list
    BY ONLY <1>5, <1>6, <1>8, Zenon
  <2> QED
    BY ONLY <1>2, <1>3, <1>4, <1>7, <1>8, <2>1, Zenon
<1>9. CASE "Subprotocols" \notin m_headers
  <2>1. known = [ok |-> TRUE, names |-> <<>>]
    BY ONLY <1>5, <1>6, <1>9, Zenon
  <2>2. known.names = <<>>
    BY ONLY <2>1
  <2> QED
    BY ONLY <1>2, <1>3, <1>4, <1>7, <1>9, <2>2, Zenon
<1> QED
  BY <1>8, <1>9
-----------------------------------------------------------------------------
(* An answer that has been given is the right one, ...                     *)
Justified(s) ==
  /\ \/ m_response \in {0, AnswerTo(s)}
     \/ KeyCutOff
     \/ m_response = 431 /\ MayBeRefused(s)
  /\ m_response = 101 => m_requested_subprotocols = s.meant.subprotocols

(* ... and no line is left in the buffer before a read.                    *)
Scanned == m_response = 0 /\ ~m_ready /\ m_body_bytes_needed = 0 /\ chunk = <<>> => LineEnds = {}

Settled(s) == Scanned /\ Justified(s)

LEMMA NoAnswerYet ==
  ASSUME NEW s, m_response' = 0, Scanned'
  PROVE  Settled(s)'
BY DEF Settled, Justified

LEMMA RightRefusal ==
  ASSUME NEW s, m_response' # 0, m_response' # 101, m_response' = AnswerTo(s)
  PROVE  Settled(s)'
BY DEF Settled, Justified, Scanned

LEMMA AnswerStays ==
  ASSUME NEW s, Settled(s), m_response # 0, UNCHANGED <<m_response, m_headers, m_requested_subprotocols>>
  PROVE  Settled(s)'
<1>1. KeyCutOff' = KeyCutOff
  BY DEF KeyCutOff, GetWebsocketVersion, IsWebsocketHandshake
<1>2. Justified(s)'
  BY <1>1, Zenon DEF Settled, Justified
<1>3. Scanned'
  BY DEF Scanned
<1> QED
  BY <1>2, <1>3 DEF Settled

(* What follows the beginning of a line.                                   *)
LEMMA FollowingIs ==
  ASSUME NEW s \in Streams, NEW at, NEW from, IsPlan(s, at, from), NEW k \in Nat, k < Len(s.lines)
  PROVE  Following(s, k + 1) = Len(Bytes(s)) - at[k]
<1>1. PICK parts, n : parts = LinesOf(s) /\ n = Len(s.lines)
  OBVIOUS
<1>2. parts \in Seq(Bytes0) /\ Len(parts) = n /\ n \in Nat /\ DOMAIN s.lines = 1 .. n
  <2>1. s.lines \in Seq(Seq(STRING))
    BY StreamsAssumption
  <2>2. n \in Nat /\ DOMAIN s.lines = 1 .. n
    BY ONLY <1>1, <2>1
  <2>3. parts \in Seq(Bytes0) /\ Len(parts) = n
    BY <1>1, PartsOf
  <2> QED
    BY ONLY <2>2, <2>3
<1>3. at[0] = 0 /\ \A j \in 1 .. n : at[j] = at[j - 1] + Len(parts[j])
  BY <1>1, <1>2 DEF IsPlan, Layout
<1>4. PICK first : first = [j \in 1 .. (k + 1) - 1 |-> LineBytes(s.lines[j])]
  OBVIOUS
<1>5. (k + 1) - 1 = k /\ k < n /\ \A j \in 1 .. k : j \in 1 .. n
  BY ONLY <1>1, <1>2, k \in Nat, k < Len(s.lines)
<1>6. first = [j \in 1 .. k |-> parts[j]]
  <2>1. \A j \in 1 .. n : parts[j] = LineBytes(s.lines[j])
    BY ONLY <1>1, <1>2 DEF LinesOf
  <2> QED
    BY ONLY <1>4, <1>5, <2>1
<1>7. first \in Seq(Bytes0) /\ Len(first) = k /\ \A j \in 1 .. k : first[j] = parts[j]
  BY ONLY <1>2, <1>5, <1>6, k \in Nat
<1>8. PICK to : to[0] = 0 /\ to[k] = Len(FlattenSeq(first)) /\ Layout(to, first, FlattenSeq(first))
  BY ONLY <1>7, FlattenLayout
<1>9. \A j \in 1 .. k : to[j] = to[j - 1] + Len(first[j])
  BY ONLY <1>7, <1>8 DEF Layout
<1> DEFINE S == {j \in Nat : j <= k => to[j] = at[j]}
<1>10. 0 \in S
  BY <1>3, <1>8
<1>11. ASSUME NEW i \in Nat, i \in S
       PROVE  i + 1 \in S
  <2> SUFFICES ASSUME i + 1 <= k PROVE to[i + 1] = at[i + 1]
    OBVIOUS
  <2>1. PICK j : j = i + 1
    OBVIOUS
  <2>2. j \in 1 .. k /\ j - 1 = i /\ to[i] = at[i]
    BY <1>11, <2>1
  <2>3. j \in 1 .. n /\ first[j] = parts[j]
    BY ONLY <1>5, <1>7, <2>2
  <2>4. to[j] = to[j - 1] + Len(first[j]) /\ at[j] = at[j - 1] + Len(parts[j])
    BY ONLY <1>3, <1>9, <2>2, <2>3
  <2> QED
    BY ONLY <2>1, <2>2, <2>3, <2>4
<1> HIDE DEF S
<1>12. Nat \subseteq S
  BY <1>10, <1>11, SetInduction
<1>13. Len(FlattenSeq(first)) = at[k]
  <2>1. k \in S
    BY <1>12
  <2>2. k <= k
    BY ONLY k \in Nat
  <2>3. to[k] = at[k]
    BY ONLY <2>1, <2>2 DEF S
  <2> QED
    BY ONLY <1>8, <2>3
<1>14. Following(s, k + 1) = Len(Bytes(s)) - Len(FlattenSeq(first))
  BY ONLY <1>4, Zenon DEF Following
<1> QED
  BY ONLY <1>13, <1>14

(* What waits of a line, and a read, are bytes that follow its beginning.  *)
LEMMA WaitsBefore ==
  ASSUME NEW s \in Streams, NEW at, NEW from, IsPlan(s, at, from), NEW a, a = Bytes(s),
         NEW k \in Nat, InLines(s, a, at, k), NEW n \in 1 .. Len(input)
  PROVE  Len(m_buf) + n <= Following(s, k + 1)
<1>1. a \in Bytes0 /\ Len(a) \in Nat
  BY StreamBytes DEF Bytes0
<1>2. PICK x, size : x = at[k] /\ size = Len(a)
  OBVIOUS
<1>3. x \in Nat /\ k < Len(s.lines)
  BY <1>2 DEF InLines
<1>4. PICK q \in 0 .. size : x <= q /\ m_buf = Window(a, x, q) /\ input = Window(a, q, size)
  BY <1>2 DEF InLines
<1>5. size \in Nat /\ size \in 0 .. size /\ x \in 0 .. q /\ q \in 0 .. size
  BY ONLY <1>1, <1>2, <1>3, <1>4
<1>6. Len(m_buf) = q - x /\ Len(input) = size - q
  BY ONLY <1>1, <1>2, <1>4, <1>5, WindowIs
<1>7. Following(s, k + 1) = size - x
  BY <1>2, <1>3, FollowingIs
<1> QED
  BY ONLY <1>3, <1>4, <1>5, <1>6, <1>7, n \in 1 .. Len(input)

(* A read.                                                                 *)
LEMMA SettledReads ==
  ASSUME NEW s \in Streams, NEW at, NEW from, IsPlan(s, at, from), NEW a, a = Bytes(s),
         Requested(s, a, at), Body, Settled(s), NEW n \in 1 .. Len(input), n <= MaxRead,
         Len(input) \in Nat, input \in Bytes0, ReadRequest(n) \/ ReadBody(n)
  PROVE  Settled(s)'
<1>1. Receive(n) /\ m_response = 0
  BY DEF ReadRequest, ReadBody
<1>2. chunk = <<>> /\ chunk' # <<>>
  <2>1. chunk = <<>> /\ chunk' = SubSeq(input, 1, n)
    BY <1>1 DEF Receive
  <2>2. n \in 0 .. Len(input)
    BY ONLY n \in 1 .. Len(input), Len(input) \in Nat
  <2>3. Len(chunk') = n
    BY ONLY <2>1, <2>2, TakeAndSkip, input \in Bytes0 DEF Bytes0
  <2>4. n # 0
    BY ONLY n \in 1 .. Len(input)
  <2> QED
    BY ONLY <2>1, <2>3, <2>4
<1>3. Scanned'
  BY ONLY <1>2 DEF Scanned
<1>4. CASE m_response' = 0
  BY ONLY <1>3, <1>4, NoAnswerYet
<1>5. CASE m_response' # 0
  <2>1. /\ m_response' = 431 /\ ~m_ready /\ m_body_bytes_needed = 0 /\ Len(m_buf) + n > MaxHeader
    <3>1. ~ReadBody(n)
      BY <1>1, <1>5 DEF ReadBody, request
    <3>2. ReadRequest(n)
      BY <3>1
    <3> QED
      BY ONLY <1>1, <1>5, <3>2 DEF ReadRequest
  <2>2. ~InBody(s, a, at)
    BY <2>1 DEF InBody
  <2>3. PICK k \in Nat : InLines(s, a, at, k)
    BY <1>1, <2>2 DEF Requested
  <2>4. LineEnds = {}
    BY <1>1, <1>2, <2>1 DEF Settled, Scanned
  <2>5. PICK size, l : size = Len(s.lines[k + 1]) /\ l = Len(m_buf)
    OBVIOUS
  <2>6. l <= size + 1 /\ size \in Nat /\ l \in Nat /\ k + 1 \in DOMAIN s.lines
    BY <2>3, <2>4, <2>5, LineWaits
  <2>7. size + 1 + MaxRead > MaxHeader
    <3>1. MaxRead \in Nat /\ MaxHeader \in Nat
      BY InboundAssumption
    <3>2. n \in Nat
      BY ONLY n \in 1 .. Len(input)
    <3> QED
      BY ONLY <2>1, <2>5, <2>6, <3>1, <3>2, n <= MaxRead
  <2>8. MayBeRefused(s)
    <3>1. PICK ahead : ahead = Following(s, k + 1)
      OBVIOUS
    <3>2. l + n <= ahead
      BY <2>3, <2>5, <3>1, WaitsBefore
    <3>3. ahead \in Int
      <4>1. a \in Bytes0 /\ Len(a) \in Nat
        BY StreamBytes DEF Bytes0
      <4>2. k < Len(s.lines) /\ at[k] \in Nat
        BY <2>3 DEF InLines
      <4>3. ahead = Len(a) - at[k]
        BY <3>1, <4>2, FollowingIs
      <4> QED
        BY ONLY <4>1, <4>2, <4>3
    <3>4. ahead > MaxHeader
      <4>1. MaxHeader \in Nat
        BY InboundAssumption
      <4>2. n \in Nat
        BY ONLY n \in 1 .. Len(input)
      <4> QED
        BY ONLY <2>1, <2>5, <2>6, <3>2, <3>3, <4>1, <4>2
    <3> QED
      BY ONLY <2>5, <2>6, <2>7, <3>1, <3>4, Zenon DEF MayBeRefused
  <2>9. m_response' # 101
    BY ONLY <2>1
  <2> QED
    BY ONLY <1>3, <2>1, <2>8, <2>9 DEF Settled, Justified
<1> QED
  BY <1>4, <1>5

(* A line.                                                                 *)
LEMMA SettledLine ==
  ASSUME NEW s \in Streams, NEW at, NEW from, IsPlan(s, at, from), NEW a, a = Bytes(s),
         Requested(s, a, at), Process \/ ProcessHeader
  PROVE  Settled(s)'
<1>1. Line /\ m_response = 0 /\ m_body_bytes_needed = 0 /\ ~m_ready /\ chunk # <<>> /\ chunk' = chunk
  <2>1. Line
    BY DEF Process, ProcessHeader
  <2>2. m_response = 0 /\ m_body_bytes_needed = 0 /\ ~m_ready /\ chunk # <<>>
    BY <2>1 DEF Line, Request
  <2>3. chunk' = chunk
    BY <2>1 DEF Line
  <2> QED
    BY <2>1, <2>2, <2>3
<1>2. Scanned'
  BY ONLY <1>1 DEF Scanned
<1>3. CASE m_response' = 0
  BY ONLY <1>2, <1>3, NoAnswerYet
<1>4. CASE m_response' # 0
  <2>1. ~InBody(s, a, at)
    BY <1>1 DEF InBody
  <2>2. PICK k \in Nat : InLines(s, a, at, k)
    BY <1>1, <2>1 DEF Requested
  <2>3. k + 1 < Len(s.lines) /\ m_buf[1].s = s.lines[k + 1][1] /\ Len(s.lines[k + 1]) + 2 <= MaxHeader
    BY <1>1, <2>2, LineTaken
  <2>4. m_method = Method(s, k) /\ Orderly(s, k)
    BY ONLY <2>2 DEF InLines
  <2>5. m_method = "" <=> k = 0
    BY ONLY <2>4, k \in Nat, MethodIs
  <2>6. m_response' = 400 /\ m_buf[1].s \notin IF k = 0 THEN RequestLines ELSE HeaderLines
    <3>1. CASE Process
      <4>1. m_method = "" /\ m_buf[1].s \notin RequestLines /\ m_response' = 400
        BY ONLY <1>1, <1>4, <3>1 DEF Process
      <4> QED
        BY ONLY <2>5, <4>1, Zenon
    <3>2. CASE ProcessHeader
      <4>1. m_method # "" /\ m_buf[1].s \notin HeaderLines /\ m_response' = 400
        BY ONLY <1>1, <1>4, <3>2 DEF ProcessHeader
      <4> QED
        BY ONLY <2>5, <4>1, Zenon
    <3> QED
      BY <3>1, <3>2
  <2>7. AnswerTo(s) = 400
    <3>1. s.lines[k + 1][1] \notin IF k = 0 THEN RequestLines ELSE HeaderLines
      BY ONLY <2>3, <2>6, Zenon
    <3> QED
      BY <2>3, <2>4, <3>1, AnswerBad
  <2>8. m_response' # 0 /\ m_response' # 101 /\ m_response' = AnswerTo(s)
    BY ONLY <2>6, <2>7
  <2> QED
    BY ONLY <2>8, RightRefusal
<1> QED
  BY <1>3, <1>4

(* The blank line.                                                         *)
LEMMA SettledBlank ==
  ASSUME NEW s \in Streams, stream = s, Meant(s), NEW at, NEW from, IsPlan(s, at, from), NEW a, a = Bytes(s),
         Requested(s, a, at), BlankLine
  PROVE  Settled(s)'
<1>1. m_response = 0 /\ m_body_bytes_needed = 0 /\ ~m_ready /\ LineEnds # {} /\ Min(LineEnds) = 1
  BY DEF BlankLine, Request
<1>2. CASE RequestError = 0
  <2>1. /\ m_response' = 0
        /\ IF "Length" \in m_headers THEN m_body_bytes_needed' = BodyLength /\ m_ready' = (BodyLength = 0)
                                     ELSE m_ready' = TRUE
    BY <1>1, <1>2 DEF BlankLine
  <2>2. m_ready' \/ m_body_bytes_needed' # 0
    <3>1. CASE "Length" \in m_headers
      <4>1. m_body_bytes_needed' = BodyLength /\ m_ready' = (BodyLength = 0)
        BY ONLY <2>1, <3>1, Zenon
      <4> QED
        BY ONLY <4>1, Zenon
    <3>2. CASE "Length" \notin m_headers
      BY ONLY <2>1, <3>2, Zenon
    <3> QED
      BY <3>1, <3>2
  <2>3. Scanned'
    BY ONLY <2>2, Zenon DEF Scanned
  <2> QED
    BY ONLY <2>1, <2>3, NoAnswerYet
<1>3. CASE RequestError # 0
  <2>1. m_response' = RequestError
    BY <1>3 DEF BlankLine
  <2>2. ~InBody(s, a, at)
    BY <1>1 DEF InBody
  <2>3. PICK k \in Nat : InLines(s, a, at, k)
    BY <1>1, <2>2 DEF Requested
  <2>4. PICK line, size : line = s.lines[k + 1] /\ size = Len(line)
    OBVIOUS
  <2>5. NextLine(s, a, at, k, line)
    BY <1>1, <2>3, <2>4, LineComes
  <2>6. Min(LineEnds) = size + 1 /\ line \in Seq(STRING) /\ (line = <<>> => k + 1 = Len(s.lines)) /\ size + 2 <= MaxHeader
    BY ONLY <2>4, <2>5 DEF NextLine
  <2>7. size = 0 /\ 2 <= MaxHeader
    <3>1. size \in Nat
      BY ONLY <2>4, <2>6
    <3>2. size = 0
      BY ONLY <1>1, <2>6, <3>1
    <3> QED
      BY ONLY <2>6, <3>2
  <2>8. k + 1 = Len(s.lines)
    <3>1. line = <<>>
      BY ONLY <2>4, <2>6, <2>7, EmptySeq
    <3> QED
      BY ONLY <2>6, <3>1
  <2>9. m_method = Method(s, k) /\ Orderly(s, k) /\ m_headers = Collected(s, k)
    BY ONLY <2>3 DEF InLines
  <2>12. AnswerTo(s) = Decision(s, m_method, m_headers)
    <3>1. AnswerTo(s) = Status(s, [method |-> Method(s, k), headers |-> Collected(s, k), status |-> 0])
      BY ONLY <2>7, <2>8, <2>9, s \in Streams, k \in Nat, AnswerWhole, Zenon
    <3> QED
      BY ONLY <2>9, <3>1, StatusIs, Zenon
  <2>13. GetHeader("Host") = <<>> <=> ~Hosted(s, m_headers)
    BY HostIs
  <2>14. RequestError = IF m_method = "" \/ ~Hosted(s, m_headers) THEN 400
                        ELSE IF "TooLong" \in m_headers THEN 413 ELSE 0
    BY ONLY <2>13, ZenonT(60) DEF RequestError
  <2>15. PICK more : more = IF "Length" \in m_headers /\ s.body < BodyLength THEN 0
             ELSE IF s.meant.host # "valid"
                     \/ ({"Upgrade", "Connection"} \subseteq m_headers /\ ~Accepted(s, m_method, m_headers))
               THEN 400
             ELSE IF {"Upgrade", "Connection"} \subseteq m_headers THEN 101 ELSE 426
    OBVIOUS
  <2>16. AnswerTo(s) = IF m_method = "" \/ ~Hosted(s, m_headers) THEN 400
                       ELSE IF "TooLong" \in m_headers THEN 413 ELSE more
    BY ONLY <2>12, <2>15, Zenon DEF Decision
  <2>17. CASE m_method = "" \/ ~Hosted(s, m_headers)
    <3>1. RequestError = 400 /\ AnswerTo(s) = 400
      BY ONLY <2>14, <2>16, <2>17, Zenon
    <3> QED
      BY ONLY <2>1, <3>1, RightRefusal
  <2>18. CASE ~(m_method = "" \/ ~Hosted(s, m_headers))
    <3>1. /\ RequestError = IF "TooLong" \in m_headers THEN 413 ELSE 0
          /\ AnswerTo(s) = IF "TooLong" \in m_headers THEN 413 ELSE more
      BY ONLY <2>14, <2>16, <2>18, Zenon
    <3>2. "TooLong" \in m_headers
      BY ONLY <1>3, <3>1, Zenon
    <3>3. RequestError = 413 /\ AnswerTo(s) = 413
      BY ONLY <3>1, <3>2, Zenon
    <3> QED
      BY ONLY <2>1, <3>3, RightRefusal
  <2> QED
    BY <2>17, <2>18
<1> QED
  BY <1>2, <1>3

(* The answer to a whole request.                                          *)
LEMMA SettledNow ==
  ASSUME NEW s \in Streams, stream = s, Meant(s), NEW at, NEW from, IsPlan(s, at, from), NEW a, a = Bytes(s),
         Requested(s, a, at), Body, Respond
  PROVE  Settled(s)'
<1>1. m_ready /\ m_response = 0 /\ m_headers' = m_headers
  BY DEF Respond
<1>2. InBody(s, a, at)
  BY <1>1 DEF Requested, InLines
<1>3. PICK given : given = IF ProcessorError # 0 THEN ProcessorError ELSE ProcessHandshakeRequest
  OBVIOUS
<1>4. m_response' = given /\ m_requested_subprotocols' = IF m_response' = 101 THEN ExtractSubprotocols ELSE <<>>
  BY <1>3 DEF Respond
<1>5. given = AnswerTo(s) \/ (given = 500 /\ GetWebsocketVersion = 0 /\ IsWebsocketHandshake)
  BY <1>1, <1>2, <1>3, AnswerRight
<1>6. ExtractSubprotocols = s.meant.subprotocols
  <2>1. Begun1(s) /\ m_headers = Collected(s, Len(s.lines) - 1)
    BY ONLY <1>2 DEF InBody
  <2> QED
    BY <2>1, SubprotocolsRight
<1>7. m_response' # 0
  BY AnsweredNow
<1>8. (GetWebsocketVersion = 0)' = (GetWebsocketVersion = 0) /\ IsWebsocketHandshake' = IsWebsocketHandshake
  BY <1>1 DEF GetWebsocketVersion, IsWebsocketHandshake
<1>9. m_response' \in {0, AnswerTo(s)} \/ KeyCutOff'
  BY ONLY <1>4, <1>5, <1>8, Zenon DEF KeyCutOff
<1>10. m_response' = 101 => m_requested_subprotocols' = s.meant.subprotocols
  BY ONLY <1>4, <1>6
<1> QED
  BY ONLY <1>7, <1>9, <1>10, Zenon DEF Settled, Justified, Scanned
-----------------------------------------------------------------------------
(* Nothing but the rest of the body is read after the request.             *)
LEMMA SettledBody ==
  ASSUME NEW s \in Streams, NEW at, NEW from, IsPlan(s, at, from), NEW a, a = Bytes(s),
         Requested(s, a, at), Body, ProcessBody, chunk \in Bytes0
  PROVE  Settled(s)'
<1>1. PICK n : n = Min({m_body_bytes_needed, Len(chunk)})
  OBVIOUS
<1>2. /\ m_response' = 0 /\ m_body_bytes_needed' = m_body_bytes_needed - n
      /\ m_ready' = (n = m_body_bytes_needed)
  BY <1>1 DEF ProcessBody
<1>3. m_body_bytes_needed \in Nat /\ n \in Nat
  <2>1. m_body_bytes_needed \in Nat
    BY DEF Body
  <2>2. Len(chunk) \in Nat
    BY ONLY chunk \in Bytes0 DEF Bytes0
  <2> QED
    BY ONLY <1>1, <2>1, <2>2, MinOfTwo
<1>4. m_ready' \/ m_body_bytes_needed' # 0
  <2>1. n # m_body_bytes_needed => m_body_bytes_needed' # 0
    BY ONLY <1>2, <1>3
  <2> QED
    BY ONLY <1>2, <2>1
<1>5. Scanned'
  BY ONLY <1>4, Zenon DEF Scanned
<1> QED
  BY ONLY <1>2, <1>5, NoAnswerYet

(* Every step.                                                             *)
LEMMA SettledNext ==
  ASSUME NEW s \in Streams, Meant(s), NEW at, NEW from, IsPlan(s, at, from), Requested(s, Bytes(s), at),
         stream = s, FramesIInv, Body, Settled(s), [ConversationNext]_<<vars, conversation>>
  PROVE  Settled(s)'
<1>1. PICK a : a = Bytes(s)
  OBVIOUS
<1>2. Requested(s, a, at)
  BY <1>1
<1>3. input \in Bytes0 /\ chunk \in Bytes0
  BY DEF FramesIInv, BytesType
<1>4. Len(input) \in Nat
  BY ONLY <1>3 DEF Bytes0
<1>5. CASE UNCHANGED vars
  <2>1. UNCHANGED <<m_response, m_headers, m_requested_subprotocols, m_ready, m_body_bytes_needed, chunk, m_buf>>
    BY <1>5 DEF vars, asked, request
  <2>2. CASE m_response = 0
    <3>1. LineEnds' = LineEnds
      BY <2>1 DEF LineEnds, Delimiter
    <3>2. Scanned'
      BY <2>1, <3>1 DEF Settled, Scanned
    <3> QED
      BY ONLY <2>1, <2>2, <3>2, NoAnswerYet
  <2>3. CASE m_response # 0
    BY <2>1, <2>3, AnswerStays
  <2> QED
    BY <2>2, <2>3
<1>6. ASSUME NEW n \in 1 .. Min({MaxRead, Len(input)})
      PROVE  n \in 1 .. Len(input) /\ n <= MaxRead
  <2>1. MaxRead \in Nat
    BY InboundAssumption
  <2> QED
    BY <1>4, <1>6, <2>1, MinOfTwo
<1>7. ASSUME NEW n \in 1 .. Min({MaxRead, Len(input)}), ReadRequest(n) \/ ReadBody(n)
      PROVE  Settled(s)'
  <2>1. n \in 1 .. Len(input) /\ n <= MaxRead
    BY <1>6
  <2> QED
    BY <1>1, <1>2, <1>3, <1>4, <1>7, <2>1, SettledReads
<1>8. ASSUME NEW n \in 1 .. Min({MaxRead, Len(input)}), ReadMore(n)
      PROVE  Settled(s)'
  <2>1. m_response # 0 /\ UNCHANGED <<m_response, m_headers, m_requested_subprotocols>>
    BY <1>8 DEF ReadMore, ReadFrames, asked, request
  <2> QED
    BY <2>1, AnswerStays
<1>9. CASE OutOfBytes
  <2>1. m_response' = 0 /\ LineEnds = {} /\ m_buf' = m_buf
    BY <1>9 DEF OutOfBytes, Request, request
  <2>2. LineEnds' = LineEnds
    BY <2>1 DEF LineEnds, Delimiter
  <2>3. Scanned'
    BY <2>1, <2>2 DEF Scanned
  <2> QED
    BY ONLY <2>1, <2>3, NoAnswerYet
<1>10. CASE Process \/ ProcessHeader
  BY <1>1, <1>2, <1>10, SettledLine
<1>11. CASE BlankLine
  BY <1>1, <1>2, <1>11, SettledBlank
<1>12. CASE ProcessBody
  BY <1>1, <1>2, <1>3, <1>12, SettledBody
<1>13. CASE Respond
  BY <1>1, <1>2, <1>13, SettledNow
<1>14. CASE FrameStep
  <2>1. m_response # 0 /\ UNCHANGED <<m_response, m_headers, m_requested_subprotocols>>
    BY <1>14 DEF FrameStep, Frame, asked, request
  <2> QED
    BY <2>1, AnswerStays
<1>15. CASE Drop
  BY <1>5, <1>15 DEF Drop
<1>16. CASE ConversationNext
  BY <1>7, <1>8, <1>9, <1>10, <1>11, <1>12, <1>13, <1>14, <1>15, <1>16 DEF ConversationNext, OfRequest
<1>17. CASE UNCHANGED <<vars, conversation>>
  BY <1>5, <1>17
<1> QED
  BY <1>16, <1>17

(* Of the client at hand.                                                  *)
SettledIInv == \A s \in Streams : stream = s => Settled(s)

LEMMA InitSettled ==
  ASSUME ConversationInit
  PROVE  SettledIInv
<1>1. m_response = 0 /\ m_buf = <<>>
  BY DEF ConversationInit, Init
<1>2. LineEnds = {}
  <2>1. Len(m_buf) = 0
    BY ONLY <1>1
  <2>2. 1 .. Len(m_buf) - 1 = {}
    BY ONLY <2>1
  <2> QED
    BY ONLY <2>2 DEF LineEnds
<1>3. m_response # 101 /\ m_response = 0
  BY ONLY <1>1
<1> QED
  BY ONLY <1>2, <1>3, Zenon DEF SettledIInv, Settled, Scanned, Justified

LEMMA SettledKept ==
  ASSUME \A s \in Streams : Meant(s),
         FramesIInv, Body, ProgressIInv, SettledIInv, [ConversationNext]_<<vars, conversation>>
  PROVE  SettledIInv'
<1>1. stream \in Streams /\ stream' = stream
  BY StreamStays DEF ProgressIInv
<1>2. PICK s \in Streams : s = stream
  BY <1>1
<1>3. PICK at, from, r : IsPlan(s, at, from) /\ Progress(s, at, from, r)
  BY <1>2 DEF ProgressIInv
<1>4. Requested(s, Bytes(s), at)
  BY <1>3 DEF Progress
<1>5. Settled(s)
  BY <1>2 DEF SettledIInv
<1>6. Settled(s)'
  BY <1>2, <1>3, <1>4, <1>5, SettledNext
<1> QED
  BY ONLY <1>1, <1>2, <1>6 DEF SettledIInv

(* When there is nothing more to read, an answer is missing only if the    *)
(* request is incomplete.                                                  *)
LEMMA NoneOwed ==
  ASSUME NEW s \in Streams, stream = s, Meant(s), NEW at, NEW from, IsPlan(s, at, from), NEW a, a = Bytes(s),
         Requested(s, a, at), Body, Scanned, Exhausted, m_response = 0
  PROVE  AnswerTo(s) = 0
<1>1. input = <<>> /\ chunk = <<>> /\ ~m_ready
  BY DEF Exhausted
<1>2. ASSUME NEW k \in Nat, InLines(s, a, at, k)
      PROVE  FALSE
  <2>1. LineEnds = {}
    BY <1>1, <1>2 DEF Scanned, InLines
  <2> QED
    BY <1>1, <1>2, <2>1, LineWaits
<1>3. InBody(s, a, at)
  BY <1>2 DEF Requested
<1>4. "Length" \in m_headers
  <2>1. m_body_bytes_needed > 0 /\ m_body + m_body_bytes_needed = IF "Length" \in m_headers THEN BodyLength ELSE 0
    BY ONLY <1>1, <1>3 DEF InBody
  <2>2. m_body \in Nat /\ m_body_bytes_needed \in Nat
    BY DEF Body
  <2> QED
    BY ONLY <2>1, <2>2
<1>5. s.body < BodyLength
  BY <1>1, <1>3, <1>4, BodyThere
<1>6. AnswerTo(s) = Decision(s, m_method, m_headers) /\ m_method # "" /\ Hosted(s, m_headers) /\ "TooLong" \notin m_headers
  BY <1>3, AnswerToWhole
<1> QED
  BY ONLY <1>4, <1>5, <1>6, Zenon DEF Decision

(* request::consume's promise, and that of the handshake: however a        *)
(* client's request is cut into reads, in a line, between its CR and LF, in *)
(* the body, it gets the answer it would get in one piece, with the        *)
(* subprotocols it has asked for; only the key of hybi00 may be cut off,   *)
(* and only a line that, with what follows it, exceeds the limit, and may  *)
(* do so in one read, is refused as too long; and a request that is        *)
(* complete is answered.                                                   *)
THEOREM RequestsAnswered ==
  ASSUME \A s \in Streams : Meant(s)
  PROVE  Spec => []Answered
<1>1. ConversationInit => FramesIInv /\ Body /\ TalkIInv /\ ReplyIInv /\ ProgressIInv /\ SettledIInv
  BY InitFrames, InitBody, InitTalk, InitReply, InitProgress, InitSettled
<1>2. FramesIInv /\ Body /\ TalkIInv /\ ReplyIInv /\ ProgressIInv /\ SettledIInv
        /\ [ConversationNext]_<<vars, conversation>>
        => (FramesIInv /\ Body /\ TalkIInv /\ ReplyIInv /\ ProgressIInv /\ SettledIInv)'
  <2> SUFFICES ASSUME FramesIInv, Body, TalkIInv, ReplyIInv, ProgressIInv, SettledIInv,
                      [ConversationNext]_<<vars, conversation>>
               PROVE  (FramesIInv /\ Body /\ TalkIInv /\ ReplyIInv /\ ProgressIInv /\ SettledIInv)'
    OBVIOUS
  <2>1. FramesIInv' /\ Body' /\ TalkIInv' /\ ReplyIInv' /\ ProgressIInv'
    BY FramesNext, TalkNext, ReplyNext, ProgressKept
  <2>2. SettledIInv'
    BY SettledKept
  <2> QED
    BY ONLY <2>1, <2>2
<1>3. Body /\ ProgressIInv /\ SettledIInv => Answered
  <2> SUFFICES ASSUME Body, ProgressIInv, SettledIInv
               PROVE  Answered
    OBVIOUS
  <2>1. PICK s \in Streams : s = stream
    BY DEF ProgressIInv
  <2>2. Meant(s)
    OBVIOUS
  <2>3. Scanned /\ Justified(s)
    BY <2>1 DEF SettledIInv, Settled
  <2>4. PICK at, from, r : IsPlan(s, at, from) /\ Progress(s, at, from, r)
    BY <2>1 DEF ProgressIInv
  <2>5. Exhausted /\ m_response = 0 => AnswerTo(s) = 0
    BY <2>1, <2>2, <2>3, <2>4, NoneOwed DEF Progress
  <2> QED
    BY ONLY <2>1, <2>3, <2>5, Zenon DEF Answered, Justified
<1> QED
  BY <1>1, <1>2, <1>3, PTL DEF Spec
=============================================================================
