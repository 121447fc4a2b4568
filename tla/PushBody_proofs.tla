--------------------------- MODULE PushBody_proofs ---------------------------
(***************************************************************************)
(* Proofs about what the proxy makes of the body of a push.                *)
(*                                                                         *)
(* PackStream: how parsePush finds its way through the body, for every     *)
(* body and every limit.  PushChecks: what the processors make of the      *)
(* commits it read, for every push, every history of any length, every     *)
(* pack and every set of rules, and however the upstream moves; and how    *)
(* scanDiff reads the diff of any changes.                                 *)
(*                                                                         *)
(* What a client encodes is put together of parts, the commits of a pack   *)
(* and the ancestors of a commit are recursive functions.  That they       *)
(* exist, and what they yield, is proved by induction: on the parts, on    *)
(* the objects of the pack and on the commits.                             *)
(***************************************************************************)
EXTENDS PackStream, PushChecks, WellFoundedInduction, FiniteSetTheorems, SequenceTheorems, TLAPS

-----------------------------------------------------------------------------
(* Induction *)

\* The library's induction takes a predicate as its parameter, this one the set of the
\* numbers that satisfy it.
LEMMA SetInduction ==
  ASSUME NEW S, \A n \in Nat : (\A m \in 0..n - 1 : m \in S) => n \in S
  PROVE  Nat \subseteq S
<1> DEFINE T == Nat \ S
           R == OpToRel(<, Nat)
<1>1. SUFFICES ASSUME T # {}  PROVE FALSE
  OBVIOUS
<1>2. PICK x \in T : \A y \in T : ~(<<y, x>> \in R)
  BY <1>1, NatLessThanWellFounded, WFMin
<1>3. R = {ss \in Nat \X Nat : ss[1] < ss[2]}
  BY DEF OpToRel
<1>. HIDE DEF R
<1>4. \A m \in 0..x - 1 : <<m, x>> \in R /\ m \in Nat
  BY <1>3
<1>5. \A m \in 0..x - 1 : m \in S
  BY <1>2, <1>4
<1>. QED
  BY <1>5

LEMMA NextInduction ==
  ASSUME NEW S, 0 \in S, \A n \in Nat : n \in S => n + 1 \in S
  PROVE  Nat \subseteq S
<1>1. ASSUME NEW n \in Nat, \A m \in 0..n - 1 : m \in S  PROVE n \in S
  <2>1. CASE n = 0
    BY <2>1
  <2>2. CASE n # 0
    <3>1. n - 1 \in Nat /\ n - 1 \in 0..n - 1 /\ (n - 1) + 1 = n
      BY <2>2
    <3>. QED
      BY <1>1, <3>1
  <2>. QED
    BY <2>1, <2>2
<1>. QED
  BY <1>1, SetInduction

-----------------------------------------------------------------------------
(* Sequences that are put together of sequences *)

\* Two sequences end to end.
LEMMA Concatenated ==
  ASSUME NEW X, NEW s \in Seq(X), NEW t \in Seq(X)
  PROVE  /\ s \o t \in Seq(X) /\ Len(s \o t) = Len(s) + Len(t)
         /\ \A i \in 1..Len(s) : (s \o t)[i] = s[i]
         /\ \A i \in 1..Len(t) : (s \o t)[Len(s) + i] = t[i]
<1>1. Len(s) \in Nat /\ Len(t) \in Nat
  OBVIOUS
<1>2. /\ s \o t \in Seq(X) /\ Len(s \o t) = Len(s) + Len(t)
      /\ \A i \in 1..Len(s) + Len(t) : (s \o t)[i] = IF i <= Len(s) THEN s[i] ELSE t[i - Len(s)]
  BY ConcatProperties
<1>3. ASSUME NEW i \in 1..Len(s)  PROVE (s \o t)[i] = s[i]
  BY <1>1, <1>2
<1>4. ASSUME NEW i \in 1..Len(t)  PROVE (s \o t)[Len(s) + i] = t[i]
  <2>1. PICK j : j = Len(s) + i
    OBVIOUS
  <2>2. j \in 1..Len(s) + Len(t) /\ ~(j <= Len(s)) /\ j - Len(s) = i
    BY <1>1, <2>1
  <2>. QED
    BY <1>2, <2>1, <2>2
<1>. QED
  BY <1>2, <1>3, <1>4

IsFlat(f, parts, N) ==
    f = [i \in 1..N |-> IF i = 1 THEN parts[i] ELSE f[i - 1] \o parts[i]]

LEMMA FlatExists ==
  ASSUME NEW parts, NEW N \in Nat
  PROVE  \E f : IsFlat(f, parts, N)
<1> DEFINE S == {k \in Nat : \E f : IsFlat(f, parts, k)}
<1>1. 0 \in S
  <2>1. IsFlat([i \in 1..0 |-> parts[i]], parts, 0)
    BY DEF IsFlat
  <2>. QED
    BY <2>1
<1>2. ASSUME NEW k \in Nat, k \in S  PROVE k + 1 \in S
  <2>1. PICK f : IsFlat(f, parts, k)
    BY <1>2
  <2>0. PICK last : last = IF k = 0 THEN parts[k + 1] ELSE f[k] \o parts[k + 1]
    OBVIOUS
  <2> DEFINE g == [i \in 1..k + 1 |-> IF i <= k THEN f[i] ELSE last]
  <2>2. \A i \in 1..k : f[i] = IF i = 1 THEN parts[i] ELSE f[i - 1] \o parts[i]
    BY <2>1, Zenon DEF IsFlat
  <2>3. /\ \A i \in 1..k : g[i] = f[i]
        /\ g[k + 1] = last
        /\ g = [i \in 1..k + 1 |-> g[i]]
    OBVIOUS
  <2>. HIDE DEF g
  <2>4. ASSUME NEW i \in 1..k + 1  PROVE g[i] = IF i = 1 THEN parts[i] ELSE g[i - 1] \o parts[i]
    <3>0. i \in 1..k \/ i = k + 1
      OBVIOUS
    <3>1. CASE i \in 1..k
      <4>1. i = 1 \/ i - 1 \in 1..k
        BY <3>1
      <4>. QED
        BY <2>2, <2>3, <3>1, <4>1
    <3>2. CASE i = k + 1
      <4>1. CASE k = 0
        BY <2>0, <2>3, <3>2, <4>1
      <4>2. CASE k # 0
        <5>1. k \in 1..k /\ i - 1 = k /\ i # 1
          BY <3>2, <4>2
        <5>. QED
          BY <2>0, <2>3, <3>2, <4>2, <5>1
      <4>. QED
        BY <4>1, <4>2
    <3>. QED
      BY <3>0, <3>1, <3>2
  <2>5. IsFlat(g, parts, k + 1)
    BY <2>3, <2>4, Zenon DEF IsFlat
  <2>. QED
    BY <2>5
<1>. HIDE DEF S
<1>3. Nat \subseteq S
  BY <1>1, <1>2, NextInduction
<1>. QED
  BY <1>3 DEF S

\* What the first n parts make.
FirstOf(parts, n) == FlattenSeq(SubSeq(parts, 1, n))

\* FirstOf is computed part by part.
LEMMA FirstIsFlat ==
  ASSUME NEW X, NEW parts \in Seq(Seq(X)), NEW f, IsFlat(f, parts, Len(parts))
  PROVE  \A n \in 1..Len(parts) : FirstOf(parts, n) = f[n]
<1>1. SUFFICES ASSUME NEW n \in 1..Len(parts)  PROVE FirstOf(parts, n) = f[n]
  OBVIOUS
<1> DEFINE some == SubSeq(parts, 1, n)
<1>2. Len(some) = n /\ n # 0 /\ \A i \in 1..n : some[i] = parts[i]
  BY Len(parts) \in Nat
<1>3. FlattenSeq(some) = (CHOOSE g : IsFlat(g, some, Len(some)))[Len(some)]
  BY <1>2, Zenon DEF FlattenSeq, IsFlat
<1>4. PICK g : IsFlat(g, some, n) /\ FirstOf(parts, n) = g[n]
  <2>1. \E g : IsFlat(g, some, Len(some))
    <3>1. Len(some) \in Nat
      BY <1>2
    <3>. QED
      BY <3>1, FlatExists, Zenon
  <2>2. FirstOf(parts, n) = FlattenSeq(some)
    BY DEF FirstOf
  <2>3. n = Len(some)
    BY <1>2
  <2>. HIDE DEF some
  <2>. QED
    BY <1>3, <2>1, <2>2, <2>3, Zenon
<1>. HIDE DEF some
<1>5. \A i \in 1..n : g[i] = IF i = 1 THEN parts[i] ELSE g[i - 1] \o parts[i]
  BY <1>2, <1>4, Zenon DEF IsFlat
<1>6. \A i \in 1..Len(parts) : f[i] = IF i = 1 THEN parts[i] ELSE f[i - 1] \o parts[i]
  BY Zenon DEF IsFlat
<1> DEFINE S == {k \in Nat : k \in 1..n => g[k] = f[k]}
<1>7. 0 \in S
  OBVIOUS
<1>8. ASSUME NEW k \in Nat, k \in S  PROVE k + 1 \in S
  <2>1. CASE k + 1 \in 1..n /\ k # 0
    <3>1. k \in 1..n /\ k + 1 # 1 /\ (k + 1) - 1 = k /\ k + 1 \in 1..Len(parts)
      BY <2>1, Len(parts) \in Nat
    <3>. QED
      BY <1>5, <1>6, <1>8, <2>1, <3>1
  <2>2. CASE k + 1 \in 1..n /\ k = 0
    BY <1>5, <1>6, <2>2
  <2>. QED
    BY <2>1, <2>2
<1>. HIDE DEF S
<1>9. Nat \subseteq S
  BY <1>7, <1>8, NextInduction
<1>. QED
  BY <1>4, <1>9 DEF S

LEMMA FirstGrows ==
  ASSUME NEW X, NEW parts \in Seq(Seq(X)), NEW n \in 0..Len(parts) - 1
  PROVE  FirstOf(parts, n + 1) = FirstOf(parts, n) \o parts[n + 1]
<1>1. PICK f : IsFlat(f, parts, Len(parts))
  <2>1. Len(parts) \in Nat
    OBVIOUS
  <2>. QED
    BY <2>1, FlatExists, Zenon
<1>2. \A i \in 1..Len(parts) : f[i] = IF i = 1 THEN parts[i] ELSE f[i - 1] \o parts[i]
  BY <1>1, Zenon DEF IsFlat
<1>3. n + 1 \in 1..Len(parts) /\ Len(parts) \in Nat
  OBVIOUS
<1>4. CASE n = 0
  <2>1. SubSeq(parts, 1, n) = <<>>
    BY <1>3, <1>4
  <2>2. FirstOf(parts, n) = <<>>
    BY <2>1, Len(<<>>) = 0, Zenon DEF FirstOf, FlattenSeq
  <2>3. FirstOf(parts, n + 1) = parts[n + 1] /\ parts[n + 1] \in Seq(X)
    BY <1>1, <1>2, <1>3, <1>4, FirstIsFlat
  <2>. QED
    BY <2>2, <2>3
<1>5. CASE n # 0
  <2>1. n \in 1..Len(parts) /\ n + 1 # 1 /\ (n + 1) - 1 = n
    BY <1>3, <1>5
  <2>2. FirstOf(parts, n) = f[n] /\ FirstOf(parts, n + 1) = f[n + 1]
    BY <1>1, <1>3, <2>1, FirstIsFlat, Zenon
  <2>3. f[n + 1] = f[n] \o parts[n + 1]
    BY <1>2, <1>3, <2>1, Zenon
  <2>. QED
    BY <2>2, <2>3
<1>. QED
  BY <1>4, <1>5

LEMMA FirstEmpty ==
  ASSUME NEW parts
  PROVE  FirstOf(parts, 0) = <<>>
<1>1. SubSeq(parts, 1, 0) = <<>>
  OBVIOUS
<1>. QED
  BY <1>1, Len(<<>>) = 0, Zenon DEF FirstOf, FlattenSeq

LEMMA FirstWhole ==
  ASSUME NEW X, NEW parts \in Seq(Seq(X))
  PROVE  FirstOf(parts, Len(parts)) = FlattenSeq(parts)
<1>1. SubSeq(parts, 1, Len(parts)) = parts
  OBVIOUS
<1>. QED
  BY <1>1 DEF FirstOf

LEMMA FirstType ==
  ASSUME NEW X, NEW parts \in Seq(Seq(X))
  PROVE  \A n \in 0..Len(parts) : FirstOf(parts, n) \in Seq(X)
<1> DEFINE S == {n \in Nat : n <= Len(parts) => FirstOf(parts, n) \in Seq(X)}
<1>1. 0 \in S
  <2>1. FirstOf(parts, 0) = <<>>
    BY FirstEmpty, Zenon
  <2>2. <<>> \in Seq(X)
    OBVIOUS
  <2>. QED
    BY <2>1, <2>2, Zenon
<1>2. ASSUME NEW n \in Nat, n \in S  PROVE n + 1 \in S
  <2>1. CASE n + 1 <= Len(parts)
    <3>1. n \in 0..Len(parts) - 1 /\ parts[n + 1] \in Seq(X)
      BY <2>1
    <3>2. FirstOf(parts, n + 1) = FirstOf(parts, n) \o parts[n + 1]
      BY <3>1, FirstGrows, Zenon
    <3>3. FirstOf(parts, n) \in Seq(X)
      BY <1>2, <3>1
    <3>4. FirstOf(parts, n + 1) \in Seq(X)
      BY <3>1, <3>2, <3>3, ConcatProperties, Zenon
    <3>. QED
      BY <3>4
  <2>. QED
    BY <2>1
<1>. HIDE DEF S
<1>3. Nat \subseteq S
  BY <1>1, <1>2, NextInduction
<1>. QED
  BY <1>3 DEF S

\* A front of m parts begins with the front of n of them.
LEMMA FirstBegins ==
  ASSUME NEW X, NEW parts \in Seq(Seq(X)), NEW n \in 0..Len(parts)
  PROVE  \A m \in n..Len(parts) :
            /\ Len(FirstOf(parts, n)) <= Len(FirstOf(parts, m))
            /\ \A i \in 1..Len(FirstOf(parts, n)) : FirstOf(parts, m)[i] = FirstOf(parts, n)[i]
<1> DEFINE P(m) == /\ Len(FirstOf(parts, n)) <= Len(FirstOf(parts, m))
                   /\ \A i \in 1..Len(FirstOf(parts, n)) : FirstOf(parts, m)[i] = FirstOf(parts, n)[i]
           S == {k \in Nat : n + k <= Len(parts) => P(n + k)}
<1>0. Len(parts) \in Nat /\ \A k \in 0..Len(parts) : FirstOf(parts, k) \in Seq(X)
  BY FirstType
<1>1. 0 \in S
  BY <1>0
<1>2. ASSUME NEW k \in Nat, k \in S  PROVE k + 1 \in S
  <2>1. CASE n + (k + 1) <= Len(parts)
    <3>1. /\ n + k \in 0..Len(parts) - 1 /\ n + (k + 1) = (n + k) + 1 /\ parts[n + k + 1] \in Seq(X)
          /\ P(n + k)
      BY <1>0, <1>2, <2>1
    <3> DEFINE now == FirstOf(parts, n + k)
               next == FirstOf(parts, n + (k + 1))
               part == parts[n + k + 1]
               base == FirstOf(parts, n)
    <3>0. FirstOf(parts, n + k + 1) = FirstOf(parts, n + k) \o parts[n + k + 1]
      BY <3>1, FirstGrows, Zenon
    <3>2. next = now \o part /\ now \in Seq(X) /\ part \in Seq(X) /\ base \in Seq(X)
      <4>1. n + k \in 0..Len(parts) /\ n \in 0..Len(parts)
        BY <1>0, <3>1
      <4>2. now \in Seq(X) /\ base \in Seq(X)
        BY <1>0, <4>1, Zenon
      <4>3. next = now \o part
        BY <3>0, <3>1, Zenon
      <4>. QED
        BY <3>1, <4>2, <4>3, Zenon
    <3>3. Len(base) <= Len(now) /\ \A i \in 1..Len(base) : now[i] = base[i]
      BY <3>1
    <3>. HIDE DEF now, next, part, base
    <3>4. Len(base) <= Len(next) /\ \A i \in 1..Len(base) : next[i] = base[i]
      BY <3>2, <3>3
    <3>. QED
      BY <3>4 DEF next, base
  <2>. QED
    BY <2>1
<1>. HIDE DEF S, P
<1>3. Nat \subseteq S
  BY <1>1, <1>2, NextInduction
<1>4. ASSUME NEW m \in n..Len(parts)  PROVE P(m)
  <2>1. m - n \in Nat /\ n + (m - n) = m
    BY <1>0
  <2>2. m - n \in S /\ m <= Len(parts)
    BY <1>0, <1>3, <2>1
  <2>3. P(n + (m - n))
    BY <2>1, <2>2 DEF S
  <2>. QED
    BY <2>1, <2>3
<1>. QED
  BY <1>4 DEF P

\* Part n + 1 lies in the whole where the first n end.
LEMMA PartLies ==
  ASSUME NEW X, NEW parts \in Seq(Seq(X)), NEW n \in 0..Len(parts) - 1
  PROVE  /\ Len(FirstOf(parts, n + 1)) = Len(FirstOf(parts, n)) + Len(parts[n + 1])
         /\ Len(FirstOf(parts, n + 1)) <= Len(FlattenSeq(parts))
         /\ \A i \in 1..Len(parts[n + 1]) :
               FlattenSeq(parts)[Len(FirstOf(parts, n)) + i] = parts[n + 1][i]
<1> DEFINE now == FirstOf(parts, n)
           next == FirstOf(parts, n + 1)
           whole == FlattenSeq(parts)
           part == parts[n + 1]
<1>0. /\ n \in 0..Len(parts) /\ n + 1 \in 0..Len(parts) /\ Len(parts) \in n + 1..Len(parts)
      /\ part \in Seq(X)
  BY Len(parts) \in Nat
<1>1. next = now \o part /\ now \in Seq(X) /\ part \in Seq(X)
  <2>1. next = now \o part
    BY FirstGrows, Zenon
  <2>2. now \in Seq(X)
    BY <1>0, FirstType, Zenon
  <2>. QED
    BY <1>0, <2>1, <2>2
<1>2. /\ Len(next) <= Len(whole) /\ \A i \in 1..Len(next) : whole[i] = next[i]
  <2>1. whole = FirstOf(parts, Len(parts))
    BY FirstWhole, Zenon
  <2>. QED
    BY <1>0, <2>1, FirstBegins, Zenon
<1>. HIDE DEF now, next, whole, part
<1>3. Len(next) = Len(now) + Len(part) /\ \A i \in 1..Len(part) : next[Len(now) + i] = part[i]
  BY <1>1
<1>4. \A i \in 1..Len(part) : Len(now) + i \in 1..Len(next)
  BY <1>1, <1>3
<1>. QED
  BY <1>2, <1>3, <1>4 DEF now, next, whole, part

-----------------------------------------------------------------------------
(* Lines and objects as they are encoded *)

LEMMA DivideBy16 ==
  ASSUME NEW n \in Nat
  PROVE  /\ n \div 16 \in Nat /\ n % 16 \in 0..15 /\ n = 16 * (n \div 16) + (n % 16)
         /\ n \div 256 = (n \div 16) \div 16
         /\ n \div 4096 = ((n \div 16) \div 16) \div 16
         /\ n < LengthLimit => (n \div 4096) % 16 = n \div 4096
  BY DEF LengthLimit

LEMMA HexOfDigits ==
  ASSUME NEW n \in Nat, n < LengthLimit
  PROVE  /\ Hex4(n) \in Seq(Char) /\ Len(Hex4(n)) = packetSize
         /\ \A i \in 1..packetSize : Hex4(n)[i] # NotHex
         /\ HexValue(Hex4(n)) = n
<1>1. PICK c, b, a : c = n \div 16 /\ b = c \div 16 /\ a = b \div 16
  OBVIOUS
<1>2. n \in Nat /\ c \in Nat /\ b \in Nat /\ a \in Nat
  BY <1>1, DivideBy16
<1>3. PICK d, e, f, g : d = a % 16 /\ e = b % 16 /\ f = c % 16 /\ g = n % 16
  OBVIOUS
<1>4. d \in 0..15 /\ e \in 0..15 /\ f \in 0..15 /\ g \in 0..15
  BY <1>2, <1>3, DivideBy16
<1>5. Hex4(n) = <<d, e, f, g>> /\ d = a
  BY <1>1, <1>2, <1>3, DivideBy16 DEF Hex4
<1>6. n = 16 * c + g /\ c = 16 * b + f /\ b = 16 * a + e
  BY <1>1, <1>2, <1>3, DivideBy16
<1>7. ((d * 16 + e) * 16 + f) * 16 + g = n
  BY <1>2, <1>4, <1>5, <1>6
<1>. QED
  BY <1>4, <1>5, <1>7 DEF HexValue, Char, NotHex, packetSize

\* A line that fits a pkt-line.
Fits(line) == line \in Seq(Char) /\ Len(line) + packetSize < LengthLimit

LEMMA LineEncoded ==
  ASSUME NEW line, Fits(line)
  PROVE  /\ EncodeLine(line) \in Seq(Char) /\ Len(EncodeLine(line)) = Len(line) + packetSize
         /\ \A i \in 1..packetSize : EncodeLine(line)[i] # NotHex
         /\ HexValue(EncodeLine(line)) = Len(line) + packetSize
         /\ \A i \in 1..Len(line) : EncodeLine(line)[packetSize + i] = line[i]
<1> DEFINE n == Len(line) + packetSize
           hex == Hex4(n)
<1>1. line \in Seq(Char) /\ Len(line) \in Nat /\ n \in Nat /\ n < LengthLimit /\ packetSize = 4
  BY DEF Fits, packetSize
<1>2. /\ hex \in Seq(Char) /\ Len(hex) = packetSize
      /\ \A i \in 1..packetSize : hex[i] # NotHex
      /\ HexValue(hex) = n
  BY <1>1, HexOfDigits
<1>3. EncodeLine(line) = hex \o line
  BY DEF EncodeLine
<1>. HIDE DEF hex, n
<1>4. /\ EncodeLine(line) \in Seq(Char) /\ Len(EncodeLine(line)) = packetSize + Len(line)
      /\ \A i \in 1..packetSize : EncodeLine(line)[i] = hex[i]
      /\ \A i \in 1..Len(line) : EncodeLine(line)[packetSize + i] = line[i]
  <2> DEFINE code == EncodeLine(line)
  <2>1. /\ code \in Seq(Char) /\ Len(code) = Len(hex) + Len(line)
        /\ \A i \in 1..Len(hex) + Len(line) :
              code[i] = IF i <= Len(hex) THEN hex[i] ELSE line[i - Len(hex)]
    <3>1. /\ hex \o line \in Seq(Char) /\ Len(hex \o line) = Len(hex) + Len(line)
          /\ \A i \in 1..Len(hex) + Len(line) :
                (hex \o line)[i] = IF i <= Len(hex) THEN hex[i] ELSE line[i - Len(hex)]
      <4>1. hex \in Seq(Char) /\ line \in Seq(Char)
        BY <1>1, <1>2
      <4>. QED
        BY <4>1, ConcatProperties
    <3>. QED
      BY <1>3, <3>1, Zenon
  <2>. HIDE DEF code
  <2>2. \A i \in 1..packetSize : code[i] = hex[i]
    BY <1>1, <1>2, <2>1
  <2>3. \A i \in 1..Len(line) : code[packetSize + i] = line[i]
    <3>1. ASSUME NEW i \in 1..Len(line)  PROVE code[packetSize + i] = line[i]
      <4>1. PICK j : j = packetSize + i
        OBVIOUS
      <4>2. j \in 1..Len(hex) + Len(line) /\ ~(j <= Len(hex)) /\ j - Len(hex) = i
        BY <1>1, <1>2, <4>1
      <4>3. code[j] = line[j - Len(hex)]
        BY <2>1, <4>2
      <4>. QED
        BY <4>1, <4>2, <4>3
    <3>. QED
      BY <3>1
  <2>. QED
    BY <1>1, <1>2, <2>1, <2>2, <2>3 DEF code
<1>5. HexValue(EncodeLine(line)) = HexValue(hex)
  BY <1>1, <1>4 DEF HexValue
<1>. QED
  BY <1>1, <1>2, <1>4, <1>5 DEF n

LEMMA LinesEncoded ==
  ASSUME NEW payloads \in Seq(Seq(Char)), \A i \in DOMAIN payloads : Fits(payloads[i])
  PROVE  \E parts \in Seq(Seq(Char)) :
            /\ Len(parts) = Len(payloads)
            /\ \A i \in 1..Len(payloads) : parts[i] = EncodeLine(payloads[i])
            /\ \A n \in 0..Len(payloads) : EncodeLines(SubSeq(payloads, 1, n)) = FirstOf(parts, n)
            /\ EncodeLines(payloads) = FlattenSeq(parts)
<1> DEFINE parts == [i \in DOMAIN payloads |-> EncodeLine(payloads[i])]
<1>1. Len(payloads) \in Nat /\ DOMAIN payloads = 1..Len(payloads)
  OBVIOUS
<1>2. \A i \in 1..Len(payloads) : EncodeLine(payloads[i]) \in Seq(Char)
  BY <1>1, LineEncoded
<1>3. /\ parts \in Seq(Seq(Char)) /\ Len(parts) = Len(payloads)
      /\ \A i \in 1..Len(payloads) : parts[i] = EncodeLine(payloads[i])
  BY <1>1, <1>2
<1>4. EncodeLines(payloads) = FlattenSeq(parts)
  BY DEF EncodeLines
<1>5. ASSUME NEW n \in 0..Len(payloads)  PROVE EncodeLines(SubSeq(payloads, 1, n)) = FirstOf(parts, n)
  <2> DEFINE some == SubSeq(payloads, 1, n)
  <2>1. DOMAIN some = 1..n /\ \A i \in 1..n : some[i] = payloads[i]
    BY <1>1
  <2>2. DOMAIN SubSeq(parts, 1, n) = 1..n /\ \A i \in 1..n : SubSeq(parts, 1, n)[i] = EncodeLine(payloads[i])
    <3>1. \A i \in 1..n : i \in 1..Len(payloads)
      BY <1>1
    <3>. HIDE DEF parts
    <3>2. SubSeq(parts, 1, n) = [i \in 1..n |-> parts[i]]
      BY <1>1, <1>3
    <3>. QED
      BY <1>3, <3>1, <3>2
  <2>3. [i \in DOMAIN some |-> EncodeLine(some[i])] = SubSeq(parts, 1, n)
    <3>1. SubSeq(parts, 1, n) = [i \in 1..n |-> SubSeq(parts, 1, n)[i]]
      BY <1>1, <1>3
    <3>. HIDE DEF parts, some
    <3>. QED
      BY <2>1, <2>2, <3>1
  <2>. QED
    BY <2>3 DEF EncodeLines, FirstOf
<1>. HIDE DEF parts
<1>. QED
  BY <1>3, <1>4, <1>5

LEMMA BodyFacts ==
  ASSUME NEW b \in Bodies
  PROVE  /\ b \in Body
         /\ b.lines \in Seq(Seq(Char)) /\ Len(b.lines) \in Nat
         /\ DOMAIN b.lines = 1..Len(b.lines)
         /\ \A i \in 1..Len(b.lines) : Fits(b.lines[i])
         /\ \A i \in DOMAIN b.lines : Fits(b.lines[i])
         /\ Ending(b) \in Seq(Char) /\ Len(Ending(b)) \in Nat
<1>1. b \in Body
  BY PackAssumption
<1>2. b.lines \in Seq(Seq(Char)) /\ b.tail \in Seq(Char) /\ b.pack \in BOOLEAN
  BY <1>1 DEF Body
<1>3. Len(b.lines) \in Nat /\ DOMAIN b.lines = 1..Len(b.lines)
  BY <1>2
<1>4. \A i \in DOMAIN b.lines : b.lines[i] \in Seq(Char)
  BY <1>2, <1>3, ElementOfSeq, Zenon
<1>5. \A i \in DOMAIN b.lines : Fits(b.lines[i])
  BY <1>4, BodiesAssumption, Zenon DEF Fits
<1>6. Ending(b) \in Seq(Char)
  <2>1. packSignature \in Seq(Char) /\ <<>> \in Seq(Char)
    BY DEF packSignature, Char, NotHex
  <2>. QED
    BY <1>2, <2>1, ConcatProperties, Zenon DEF Ending
<1>7. Len(Ending(b)) \in Nat
  BY <1>6
<1>. QED
  BY <1>1, <1>2, <1>3, <1>5, <1>6, <1>7, Zenon

\* Where the parser stands after n lines, there is the next one, whole.
LEMMA LineLies ==
  ASSUME body \in Bodies, buf = EncodeLines(body.lines) \o Ending(body),
         NEW n \in Nat, n < Len(body.lines)
  PROVE  LET at == Len(EncodeLines(SubSeq(body.lines, 1, n)))
             line == body.lines[n + 1]
         IN /\ Fits(line) /\ at \in Nat /\ Len(buf) \in Nat
            /\ Len(EncodeLines(SubSeq(body.lines, 1, n + 1))) = at + Len(line) + packetSize
            /\ at + Len(line) + packetSize <= Len(buf)
            /\ \A i \in 1..Len(line) + packetSize : buf[at + i] = EncodeLine(line)[i]
<1> DEFINE at == Len(EncodeLines(SubSeq(body.lines, 1, n)))
           line == body.lines[n + 1]
<1>1. /\ body.lines \in Seq(Seq(Char)) /\ Len(body.lines) \in Nat
      /\ \A i \in 1..Len(body.lines) : Fits(body.lines[i])
      /\ Ending(body) \in Seq(Char)
  BY BodyFacts
<1>2. PICK parts \in Seq(Seq(Char)) :
            /\ Len(parts) = Len(body.lines)
            /\ \A i \in 1..Len(body.lines) : parts[i] = EncodeLine(body.lines[i])
            /\ \A k \in 0..Len(body.lines) : EncodeLines(SubSeq(body.lines, 1, k)) = FirstOf(parts, k)
            /\ EncodeLines(body.lines) = FlattenSeq(parts)
  <2>1. \A i \in DOMAIN body.lines : Fits(body.lines[i])
    BY BodyFacts, Zenon
  <2>. QED
    BY <1>1, <2>1, LinesEncoded, Zenon
<1>3. n \in 0..Len(parts) - 1 /\ n \in 0..Len(parts) /\ n + 1 \in 0..Len(parts) /\ n + 1 \in 1..Len(parts)
  BY <1>1, <1>2
<1>4. /\ Len(FirstOf(parts, n + 1)) = Len(FirstOf(parts, n)) + Len(parts[n + 1])
      /\ Len(FirstOf(parts, n + 1)) <= Len(FlattenSeq(parts))
      /\ \A i \in 1..Len(parts[n + 1]) :
            FlattenSeq(parts)[Len(FirstOf(parts, n)) + i] = parts[n + 1][i]
  BY <1>3, PartLies, Zenon
<1>5. FirstOf(parts, n) \in Seq(Char) /\ FirstOf(parts, Len(parts)) = FlattenSeq(parts)
      /\ FirstOf(parts, Len(parts)) \in Seq(Char)
  <2>1. Len(parts) \in 0..Len(parts)
    BY <1>1, <1>2
  <2>. QED
    BY <1>3, <2>1, FirstType, FirstWhole, Zenon
<1> DEFINE all == FlattenSeq(parts)
           part == parts[n + 1]
           next == Len(FirstOf(parts, n + 1))
<1>6. Fits(line) /\ part = EncodeLine(line) /\ Len(part) = Len(line) + packetSize /\ Len(line) \in Nat
  <2>1. Fits(line) /\ part = EncodeLine(line)
    BY <1>1, <1>2, <1>3
  <2>. QED
    BY <2>1, LineEncoded DEF Fits
<1>7. at = Len(FirstOf(parts, n)) /\ Len(EncodeLines(SubSeq(body.lines, 1, n + 1))) = next
  BY <1>1, <1>2, <1>3
<1>8. /\ at \in Nat /\ next = at + Len(part) /\ next <= Len(all)
      /\ \A i \in 1..Len(part) : all[at + i] = part[i]
      /\ all \in Seq(Char) /\ buf = all \o Ending(body)
  <2>1. at \in Nat
    BY <1>5, <1>7, LenProperties, Zenon
  <2>. QED
    BY <1>2, <1>4, <1>5, <1>7, <2>1
<1>. HIDE DEF at, line, all, part, next
<1>9. /\ Len(buf) = Len(all) + Len(Ending(body)) /\ Len(all) \in Nat /\ Len(Ending(body)) \in Nat
      /\ \A i \in 1..Len(all) : buf[i] = all[i]
  BY <1>1, <1>8
<1>10. \A i \in 1..Len(line) + packetSize : buf[at + i] = EncodeLine(line)[i]
  <2>1. \A i \in 1..Len(part) : at + i \in 1..Len(all)
    BY <1>6, <1>8, <1>9 DEF packetSize
  <2>. QED
    BY <1>6, <1>8, <1>9, <2>1
<1>11. at + Len(line) + packetSize <= Len(buf) /\ Len(buf) \in Nat
  BY <1>6, <1>8, <1>9 DEF packetSize
<1>12. next = at + Len(line) + packetSize
  BY <1>6, <1>8 DEF packetSize
<1>. QED
  BY <1>6, <1>7, <1>8, <1>10, <1>11, <1>12 DEF at, line

\* After the lines comes the ending, and nothing else.
LEMMA EndingLies ==
  ASSUME body \in Bodies, buf = EncodeLines(body.lines) \o Ending(body)
  PROVE  LET at == Len(EncodeLines(body.lines))
         IN /\ at \in Nat /\ buf \in Seq(Char)
            /\ Len(buf) = at + Len(Ending(body))
            /\ \A i \in 1..Len(Ending(body)) : buf[at + i] = Ending(body)[i]
<1>1. /\ body.lines \in Seq(Seq(Char)) /\ \A i \in DOMAIN body.lines : Fits(body.lines[i])
      /\ Ending(body) \in Seq(Char) /\ Len(Ending(body)) \in Nat
  BY BodyFacts
<1>2. PICK parts \in Seq(Seq(Char)) : EncodeLines(body.lines) = FlattenSeq(parts)
  BY <1>1, LinesEncoded, Zenon
<1> DEFINE all == EncodeLines(body.lines)
           rest == Ending(body)
<1>3. all \in Seq(Char)
  <2>1. Len(parts) \in 0..Len(parts)
    OBVIOUS
  <2>. QED
    BY <1>2, <2>1, FirstType, FirstWhole, Zenon
<1>4. buf = all \o rest /\ rest \in Seq(Char)
  BY <1>1
<1>. HIDE DEF all, rest
<1>5. /\ Len(all) \in Nat /\ buf \in Seq(Char) /\ Len(buf) = Len(all) + Len(rest)
      /\ \A i \in 1..Len(rest) : buf[Len(all) + i] = rest[i]
  BY <1>3, <1>4
<1>. QED
  BY <1>5 DEF all, rest

-----------------------------------------------------------------------------
(* The lines *)

\* What ends the lines begins with a flush packet.
Flushed(b) == packetSize <= Len(Ending(b)) /\ \A i \in 1..packetSize : Ending(b)[i] = 0

\* The parser has its place in the lines, and has left them where they end.
LinesInv ==
    /\ body \in Bodies /\ buf = EncodeLines(body.lines) \o Ending(body)
    /\ Len(lines) \in 0..Len(body.lines) /\ lines = SubSeq(body.lines, 1, Len(lines))
    /\ reading = "lines" => offset = Len(EncodeLines(lines))
    /\ reading = "signature" =>
          /\ lines = body.lines
          /\ \/ Flushed(body) /\ offset = Len(EncodeLines(lines)) + packetSize
             \/ Len(Ending(body)) < packetSize /\ offset = Len(EncodeLines(lines))
    /\ reading \in {"objects", "parsed"} =>
          lines = body.lines /\ OneRefUpdate(lines) /\ body.tail = Flush /\ body.pack

\* Length is what the next four characters count.
LEMMA LengthCounts ==
  Length = ((Digit(1) * 16 + Digit(2)) * 16 + Digit(3)) * 16 + Digit(4)
<1>1. PICK s : s = [i \in 1..4 |-> Digit(i)]
  OBVIOUS
<1>2. s[1] = Digit(1) /\ s[2] = Digit(2) /\ s[3] = Digit(3) /\ s[4] = Digit(4)
  BY <1>1
<1>3. Length = HexValue(s)
  BY <1>1 DEF Length, packetSize
<1>. QED
  BY <1>2, <1>3 DEF HexValue

\* Only zeros count to zero.
LEMMA OnlyZeros ==
  ASSUME NEW a \in Nat, NEW b \in Nat, NEW c \in Nat, NEW d \in Nat,
         ((a * 16 + b) * 16 + c) * 16 + d = 0
  PROVE  a = 0 /\ b = 0 /\ c = 0 /\ d = 0
<1>1. \A x, y \in Nat : x * 16 + y \in Nat /\ (x * 16 + y = 0 => x = 0 /\ y = 0)
  OBVIOUS
<1>2. a * 16 + b \in Nat /\ (a * 16 + b) * 16 + c \in Nat
  BY <1>1
<1>3. (a * 16 + b) * 16 + c = 0 /\ d = 0
  BY <1>1, <1>2, Zenon
<1>4. a * 16 + b = 0 /\ c = 0
  BY <1>1, <1>2, <1>3, Zenon
<1>. QED
  BY <1>1, <1>3, <1>4, Zenon

\* Before the last line the parser finds the next one.
LEMMA AtLine ==
  ASSUME LinesInv, reading = "lines", Len(lines) < Len(body.lines)
  PROVE  LET line == body.lines[Len(lines) + 1]
         IN /\ PacketLeft /\ IsHex /\ Length = Len(line) + packetSize /\ ValidLength
            /\ Length # 0
            /\ SubSeq(buf, offset + packetSize + 1, offset + Length) = line
            /\ Append(lines, line) = SubSeq(body.lines, 1, Len(lines) + 1)
            /\ offset + Length = Len(EncodeLines(Append(lines, line)))
<1> DEFINE n == Len(lines)
           line == body.lines[n + 1]
           code == EncodeLine(line)
<1>0. /\ body \in Bodies /\ buf = EncodeLines(body.lines) \o Ending(body)
      /\ n \in Nat /\ n < Len(body.lines) /\ lines = SubSeq(body.lines, 1, n)
      /\ offset = Len(EncodeLines(lines))
      /\ body.lines \in Seq(Seq(Char)) /\ Len(body.lines) \in Nat
  BY BodyFacts DEF LinesInv
<1>1. /\ Fits(line) /\ offset \in Nat /\ Len(buf) \in Nat
      /\ Len(EncodeLines(SubSeq(body.lines, 1, n + 1))) = offset + Len(line) + packetSize
      /\ offset + Len(line) + packetSize <= Len(buf)
      /\ \A i \in 1..Len(line) + packetSize : buf[offset + i] = code[i]
  <2> DEFINE at == Len(EncodeLines(SubSeq(body.lines, 1, n)))
  <2>1. /\ Fits(line) /\ at \in Nat /\ Len(buf) \in Nat
        /\ Len(EncodeLines(SubSeq(body.lines, 1, n + 1))) = at + Len(line) + packetSize
        /\ at + Len(line) + packetSize <= Len(buf)
        /\ \A i \in 1..Len(line) + packetSize : buf[at + i] = code[i]
    <3>. HIDE DEF n
    <3>1. body \in Bodies /\ n \in Nat /\ n < Len(body.lines) /\ buf = EncodeLines(body.lines) \o Ending(body)
      BY <1>0
    <3>. QED
      BY <3>1, LineLies
  <2>2. offset = at
    BY <1>0
  <2>. HIDE DEF at, line, code
  <2>. QED
    BY <2>1, <2>2
<1>2. /\ code \in Seq(Char) /\ Len(code) = Len(line) + packetSize
      /\ \A i \in 1..packetSize : code[i] # NotHex
      /\ HexValue(code) = Len(line) + packetSize
      /\ \A i \in 1..Len(line) : code[packetSize + i] = line[i]
  BY <1>1, LineEncoded, Zenon
<1>3. Append(lines, line) = SubSeq(body.lines, 1, n + 1)
  BY <1>0
<1>4. line \in Seq(Char) /\ Len(line) \in Nat
  BY <1>1 DEF Fits
<1>. HIDE DEF code, line, n
<1>5. \A i \in 1..packetSize : Digit(i) = code[i]
  BY <1>1, <1>4 DEF Digit, packetSize
<1>6. Length = Len(line) + packetSize
  <2>1. Length = HexValue(code)
    BY <1>5 DEF Length, HexValue, packetSize
  <2>. QED
    BY <1>2, <2>1
<1>7. PacketLeft /\ IsHex /\ ValidLength /\ Length # 0
  BY <1>1, <1>2, <1>4, <1>5, <1>6 DEF PacketLeft, IsHex, ValidLength, packetSize
<1>8. SubSeq(buf, offset + packetSize + 1, offset + Length) = line
  <2> DEFINE read == SubSeq(buf, offset + packetSize + 1, offset + Length)
  <2>0. buf \in Seq(Char)
    BY <1>0, EndingLies
  <2>1. read \in Seq(Char) /\ Len(read) = Len(line) /\ \A i \in 1..Len(line) : read[i] = buf[offset + packetSize + i]
    <3>1. /\ offset + packetSize + 1 \in Int /\ offset + Length \in Int
          /\ \A i \in offset + packetSize + 1..offset + Length : i \in 1..Len(buf)
      BY <1>1, <1>4, <1>6 DEF packetSize
    <3>2. \A i \in offset + packetSize + 1..offset + Length : buf[i] \in Char
      BY <2>0, <3>1, ElementOfSeq, Zenon
    <3>3. PICK p, q : p = offset + packetSize + 1 /\ q = offset + Length
      OBVIOUS
    <3>4. /\ SubSeq(buf, p, q) \in Seq(Char)
          /\ Len(SubSeq(buf, p, q)) = IF p <= q THEN q - p + 1 ELSE 0
          /\ \A i \in 1..q - p + 1 : SubSeq(buf, p, q)[i] = buf[p + i - 1]
      BY <3>1, <3>2, <3>3, SubSeqProperties
    <3>5. read = SubSeq(buf, p, q)
      BY <3>3
    <3>. HIDE DEF read
    <3>. QED
      BY <1>1, <1>4, <1>6, <3>3, <3>4, <3>5 DEF packetSize
  <2>. HIDE DEF read
  <2>2. \A i \in 1..Len(line) : buf[offset + packetSize + i] = line[i]
    <3>1. ASSUME NEW i \in 1..Len(line)  PROVE buf[offset + packetSize + i] = line[i]
      <4>1. packetSize + i \in 1..Len(line) + packetSize /\ offset + (packetSize + i) = offset + packetSize + i
        BY <1>1, <1>4 DEF packetSize
      <4>2. buf[offset + (packetSize + i)] = code[packetSize + i]
        BY <1>1, <4>1, Zenon
      <4>. QED
        BY <1>2, <4>1, <4>2
    <3>. QED
      BY <3>1
  <2>3. read = line
    BY <1>4, <2>1, <2>2, SeqEqual
  <2>. QED
    BY <2>3 DEF read
<1>9. offset + Length = Len(EncodeLines(Append(lines, line)))
  BY <1>1, <1>3, <1>4, <1>6 DEF packetSize
<1>. QED
  BY <1>3, <1>6, <1>7, <1>8, <1>9 DEF line, n

\* After the last line it finds none.
LEMMA AtEnding ==
  ASSUME LinesInv, reading = "lines", Len(lines) = Len(body.lines)
  PROVE  /\ lines = body.lines /\ offset \in Nat /\ Len(Ending(body)) \in Nat
         /\ Len(buf) = offset + Len(Ending(body))
         /\ packetSize <= Len(Ending(body)) =>
               \A i \in 1..packetSize : Digit(i) = Ending(body)[i] /\ Digit(i) \in Char
         /\ ~ReadLine
<1> DEFINE rest == Ending(body)
<1>1. /\ body \in Bodies /\ buf = EncodeLines(body.lines) \o rest
      /\ lines = SubSeq(body.lines, 1, Len(body.lines))
      /\ offset = Len(EncodeLines(lines))
      /\ body.lines \in Seq(Seq(Char)) /\ Len(body.lines) \in Nat
      /\ rest \in Seq(Char) /\ Len(rest) \in Nat
  BY BodyFacts DEF LinesInv
<1>2. lines = body.lines
  BY <1>1, SubSeqFull
<1>3. /\ offset \in Nat /\ Len(buf) = offset + Len(rest)
      /\ \A i \in 1..Len(rest) : buf[offset + i] = rest[i]
  BY <1>1, <1>2, EndingLies
<1>4. \/ Len(rest) < packetSize
      \/ \E i \in 1..packetSize : rest[i] = NotHex
      \/ HexValue(rest) < packetSize
      \/ HexValue(rest) > Len(rest)
  BY <1>1, BodiesAssumption, Zenon
<1>. HIDE DEF rest
<1>5. packetSize <= Len(rest) => \A i \in 1..packetSize : Digit(i) = rest[i] /\ Digit(i) \in Char
  BY <1>1, <1>3 DEF Digit, packetSize
<1>6. ASSUME ReadLine  PROVE FALSE
  <2>1. offset + packetSize <= Len(buf) /\ IsHex /\ Length # 0 /\ ValidLength
    BY <1>6 DEF ReadLine, PacketLeft
  <2>2. packetSize <= Len(rest)
    BY <1>1, <1>3, <2>1 DEF packetSize
  <2>3. Length = HexValue(rest)
    BY <1>5, <2>2 DEF Length, HexValue, packetSize
  <2>4. \A i \in 1..packetSize : rest[i] # NotHex
    BY <1>5, <2>1, <2>2 DEF IsHex
  <2>5. PICK length : length = Length
    OBVIOUS
  <2>6. length \in Int
    <3>1. Digit(1) \in Int /\ Digit(2) \in Int /\ Digit(3) \in Int /\ Digit(4) \in Int
      <4>1. 1 \in 1..packetSize /\ 2 \in 1..packetSize /\ 3 \in 1..packetSize /\ 4 \in 1..packetSize
        BY DEF packetSize
      <4>2. \A x \in Char : x \in Int
        BY DEF Char, NotHex
      <4>. QED
        BY <1>5, <2>2, <4>1, <4>2, Zenon
    <3>2. length = ((Digit(1) * 16 + Digit(2)) * 16 + Digit(3)) * 16 + Digit(4)
      BY <2>5, LengthCounts
    <3>. QED
      BY <3>1, <3>2
  <2>7. length >= packetSize /\ offset + length <= Len(buf)
    BY <2>1, <2>5 DEF ValidLength
  <2>8. length < packetSize \/ length > Len(rest)
    BY <1>1, <1>4, <2>2, <2>3, <2>4, <2>5 DEF packetSize
  <2>. QED
    BY <1>1, <1>3, <2>6, <2>7, <2>8 DEF packetSize
<1>. QED
  BY <1>1, <1>2, <1>3, <1>5, <1>6 DEF rest

LEMMA InitLines ==
  ASSUME ParserInit
  PROVE  LinesInv
<1>1. body \in Bodies /\ buf = EncodeLines(body.lines) \o Ending(body)
      /\ lines = <<>> /\ offset = 0 /\ reading = "lines"
  BY DEF ParserInit
<1>2. Len(body.lines) \in Nat /\ SubSeq(body.lines, 1, 0) = <<>>
  BY <1>1, BodyFacts, SubSeqEmpty
<1>3. EncodeLines(<<>>) = <<>>
  BY Len(<<>>) = 0 DEF EncodeLines, FlattenSeq
<1>. QED
  BY <1>1, <1>2, <1>3, Len(<<>>) = 0 DEF LinesInv

\* The signature stands where the lines ended only if a flush packet ended them, with
\* a pack right after it.
LEMMA SignatureFollowsFlush ==
  ASSUME LinesInv, reading = "signature", SignatureAt(offset)
  PROVE  body.tail = Flush /\ body.pack
<1> DEFINE rest == Ending(body)
           at == Len(EncodeLines(body.lines))
<1>1. /\ body \in Bodies /\ buf = EncodeLines(body.lines) \o rest
      /\ lines = body.lines
      /\ \/ Flushed(body) /\ offset = at + packetSize
         \/ Len(rest) < packetSize /\ offset = at
      /\ rest \in Seq(Char) /\ Len(rest) \in Nat
  BY BodyFacts DEF LinesInv
<1>2. /\ at \in Nat /\ buf \in Seq(Char) /\ Len(buf) = at + Len(rest)
      /\ \A i \in 1..Len(rest) : buf[at + i] = rest[i]
  BY <1>1, EndingLies
<1>3. offset + packetSize <= Len(buf) /\ SubSeq(buf, offset + 1, offset + packetSize) = packSignature
  BY DEF SignatureAt
<1>. HIDE DEF rest, at
<1>4. Flushed(body) /\ offset = at + packetSize /\ 2 * packetSize <= Len(rest)
  BY <1>1, <1>2, <1>3 DEF packetSize
<1>5. rest[5] = NotHex
  <2>1. buf[offset + 1] = NotHex
    <3>1. SubSeq(buf, offset + 1, offset + packetSize)[1] = buf[offset + 1]
      BY <1>2, <1>3, <1>4 DEF packetSize
    <3>2. packSignature[1] = NotHex
      BY DEF packSignature
    <3>. QED
      BY <1>3, <3>1, <3>2, Zenon
  <2>2. offset + 1 = at + 5 /\ 5 \in 1..Len(rest)
    BY <1>1, <1>2, <1>4 DEF packetSize
  <2>. QED
    BY <1>2, <2>1, <2>2
<1>6. /\ body.tail \in Seq(Char) /\ body.pack \in BOOLEAN
      /\ \A i \in DOMAIN body.tail : i > packetSize => body.tail[i] # NotHex
  BY <1>1, PackAssumption, BodiesAssumption DEF Body
<1> DEFINE tail == body.tail
<1>7. Len(tail) \in Nat /\ DOMAIN tail = 1..Len(tail)
  BY <1>6
<1>8. CASE ~body.pack
  <2>1. rest = tail
    BY <1>6, <1>8, ConcatEmptySeq DEF Ending, rest
  <2>2. 5 \in DOMAIN tail /\ 5 > packetSize
    BY <1>4, <1>7, <2>1 DEF packetSize
  <2>. QED
    BY <1>5, <1>6, <2>1, <2>2
<1>9. CASE body.pack
  <2>1. rest = tail \o packSignature
    BY <1>9 DEF Ending, rest
  <2>2. packSignature \in Seq(Char) /\ Len(packSignature) = 4
    BY DEF packSignature, Char, NotHex
  <2>. HIDE DEF tail
  <2>3. Len(rest) = Len(tail) + 4 /\ \A i \in 1..Len(tail) : rest[i] = tail[i]
    <3>1. tail \in Seq(Char)
      BY <1>6 DEF tail
    <3>2. PICK sig : sig = packSignature
      OBVIOUS
    <3>3. /\ Len(tail \o sig) = Len(tail) + Len(sig)
          /\ \A i \in 1..Len(tail) + Len(sig) :
                (tail \o sig)[i] = IF i <= Len(tail) THEN tail[i] ELSE sig[i - Len(tail)]
      BY <2>2, <3>1, <3>2, ConcatProperties
    <3>4. Len(sig) = 4 /\ rest = tail \o sig /\ Len(tail) \in Nat
      BY <2>1, <2>2, <3>1, <3>2
    <3>. QED
      BY <3>3, <3>4
  <2>4. ~(5 \in DOMAIN tail)
    BY <1>5, <1>6, <1>7, <2>3 DEF tail, packetSize
  <2>5. Len(tail) = 4
    BY <1>4, <1>7, <2>3, <2>4 DEF packetSize
  <2>6. \A i \in 1..4 : tail[i] = 0
    BY <1>4, <2>3, <2>5 DEF Flushed, rest, packetSize
  <2>7. Flush \in Seq(Char) /\ Len(Flush) = 4 /\ \A i \in 1..4 : Flush[i] = 0
    BY DEF Flush, Char, NotHex
  <2>8. tail = Flush
    BY <1>6, <2>5, <2>6, <2>7, SeqEqual DEF tail
  <2>. QED
    BY <1>9, <2>8 DEF tail
<1>. QED
  BY <1>8, <1>9

\* Where the lines end with a flush packet the parser reads one.
LEMMA FlushAtEnding ==
  ASSUME LinesInv, ReadFlush
  PROVE  LinesInv'
<1>1. Len(lines) = Len(body.lines)
  <2>1. reading = "lines" /\ Length = 0
    BY DEF ReadFlush, PacketLeft
  <2>2. ~(Len(lines) < Len(body.lines))
    BY <2>1, AtLine
  <2>3. body \in Bodies /\ Len(lines) \in 0..Len(body.lines)
    BY DEF LinesInv
  <2>. QED
    BY <2>2, <2>3, BodyFacts
<1>2. reading = "lines" /\ offset + packetSize <= Len(buf) /\ Length = 0
  BY DEF ReadFlush, PacketLeft
<1>3. /\ lines = body.lines /\ offset \in Nat /\ Len(Ending(body)) \in Nat
      /\ Len(buf) = offset + Len(Ending(body))
      /\ packetSize <= Len(Ending(body)) =>
            \A i \in 1..packetSize : Digit(i) = Ending(body)[i] /\ Digit(i) \in Char
  BY <1>1, <1>2, AtEnding
<1>4. packetSize <= Len(Ending(body))
  BY <1>2, <1>3 DEF packetSize
<1>5. \A i \in 1..packetSize : Ending(body)[i] = 0
  <2>1. ((Digit(1) * 16 + Digit(2)) * 16 + Digit(3)) * 16 + Digit(4) = 0
    BY <1>2, LengthCounts
  <2>2. \A i \in 1..packetSize : Digit(i) \in Nat
    <3>1. \A x \in Char : x \in Nat
      BY DEF Char, NotHex
    <3>. QED
      BY <1>3, <1>4, <3>1, Zenon
  <2>3. Digit(1) = 0 /\ Digit(2) = 0 /\ Digit(3) = 0 /\ Digit(4) = 0
    <3>1. Digit(1) \in Nat /\ Digit(2) \in Nat /\ Digit(3) \in Nat /\ Digit(4) \in Nat
      <4>1. 1 \in 1..packetSize /\ 2 \in 1..packetSize /\ 3 \in 1..packetSize /\ 4 \in 1..packetSize
        BY DEF packetSize
      <4>. QED
        BY <2>2, <4>1, Zenon
    <3>2. PICK a \in Nat, b \in Nat, c \in Nat, d \in Nat :
             a = Digit(1) /\ b = Digit(2) /\ c = Digit(3) /\ d = Digit(4)
      BY <3>1, Zenon
    <3>3. ((a * 16 + b) * 16 + c) * 16 + d = 0
      BY <2>1, <3>2
    <3>4. a = 0 /\ b = 0 /\ c = 0 /\ d = 0
      BY <3>3, OnlyZeros
    <3>. QED
      BY <3>2, <3>4, Zenon
  <2>. QED
    BY <1>3, <1>4, <2>3 DEF packetSize
<1>6. Flushed(body)
  BY <1>4, <1>5 DEF Flushed
<1>7. /\ UNCHANGED <<body, buf, lines>> /\ reading' = "signature"
      /\ offset' = offset + packetSize /\ offset = Len(EncodeLines(lines))
  BY <1>2 DEF ReadFlush, input, LinesInv
<1>8. Flushed(body)' /\ Ending(body)' = Ending(body)
  BY <1>6, <1>7 DEF Flushed, Ending
<1>. QED
  BY <1>3, <1>7, <1>8 DEF LinesInv

LEMMA LinesNext ==
  ASSUME LinesInv, [ParserNext]_parserVars
  PROVE  LinesInv'
<1>0. body \in Bodies /\ Len(lines) \in 0..Len(body.lines) /\ Len(body.lines) \in Nat
  BY BodyFacts DEF LinesInv
<1>1. ASSUME UNCHANGED <<body, buf, lines>>,
             \/ reading' = "failed"
             \/ reading' \in {"objects", "parsed"} /\ reading \in {"objects", "parsed"}
      PROVE  LinesInv'
  BY <1>1 DEF LinesInv
<1>2. CASE ReadFlush
  BY <1>2, FlushAtEnding
<1>3. CASE ReadLine
  <2>1. reading = "lines" /\ Len(lines) # Len(body.lines)
    BY <1>3, AtEnding DEF ReadLine, PacketLeft
  <2>2. Len(lines) < Len(body.lines)
    BY <1>0, <2>1
  <2> DEFINE line == body.lines[Len(lines) + 1]
  <2>3. /\ SubSeq(buf, offset + packetSize + 1, offset + Length) = line
        /\ Append(lines, line) = SubSeq(body.lines, 1, Len(lines) + 1)
        /\ offset + Length = Len(EncodeLines(Append(lines, line)))
    BY <2>1, <2>2, AtLine
  <2>. HIDE DEF line
  <2>4. /\ UNCHANGED <<body, buf, reading>> /\ lines' = Append(lines, line)
        /\ offset' = offset + Length
    BY <1>3, <2>3 DEF ReadLine, input
  <2>5. lines \in Seq(Seq(Char)) /\ Len(Append(lines, line)) = Len(lines) + 1
    <3>1. body.lines \in Seq(Seq(Char)) /\ lines = SubSeq(body.lines, 1, Len(lines))
      BY <1>0, BodyFacts DEF LinesInv
    <3>2. SubSeq(body.lines, 1, Len(lines)) \in Seq(Seq(Char))
      BY <1>0, <3>1
    <3>. QED
      BY <3>1, <3>2
  <2>6. /\ Len(lines') = Len(lines) + 1 /\ Len(lines') \in 0..Len(body.lines)
        /\ lines' = SubSeq(body.lines, 1, Len(lines'))
        /\ offset' = Len(EncodeLines(lines'))
    BY <1>0, <2>2, <2>3, <2>4, <2>5
  <2>. QED
    BY <1>0, <2>1, <2>4, <2>6 DEF LinesInv
<1>4. CASE BadLine
  BY <1>1, <1>4 DEF BadLine, Fail, input
<1>5. CASE LinesEnd
  <2>1. reading = "lines" /\ offset + packetSize > Len(buf)
    BY <1>5 DEF LinesEnd
  <2>2. Len(lines) = Len(body.lines)
    <3>1. CASE Len(lines) < Len(body.lines)
      <4>1. PacketLeft
        BY <2>1, <3>1, AtLine
      <4>2. offset + packetSize <= Len(buf) /\ offset \in Nat /\ Len(buf) \in Nat
        <5>1. offset = Len(EncodeLines(SubSeq(body.lines, 1, Len(lines))))
              /\ buf = EncodeLines(body.lines) \o Ending(body) /\ Len(lines) \in Nat
          <6>1. lines = SubSeq(body.lines, 1, Len(lines)) /\ offset = Len(EncodeLines(lines))
                /\ buf = EncodeLines(body.lines) \o Ending(body)
            BY <2>1, Zenon DEF LinesInv
          <6>2. Len(lines) \in Nat
            BY <1>0
          <6>. QED
            BY <6>1, <6>2, Zenon
        <5>. QED
          BY <1>0, <3>1, <4>1, <5>1, LineLies DEF PacketLeft
      <4>. QED
        BY <2>1, <4>2 DEF packetSize
    <3>. QED
      BY <1>0, <3>1
  <2>3. /\ lines = body.lines /\ offset \in Nat /\ Len(Ending(body)) \in Nat
        /\ Len(buf) = offset + Len(Ending(body))
    BY <2>1, <2>2, AtEnding
  <2>4. Len(Ending(body)) < packetSize /\ offset = Len(EncodeLines(lines))
    BY <2>1, <2>3 DEF packetSize, LinesInv
  <2>5. UNCHANGED <<body, buf, lines, offset>> /\ reading' = "signature"
    BY <1>5 DEF LinesEnd, input
  <2>. QED
    BY <2>3, <2>4, <2>5 DEF LinesInv
<1>6. CASE Signature
  <2>1. reading = "signature" /\ OneRefUpdate(lines) /\ SignatureAt(offset)
    BY <1>6 DEF Signature, StartsPack
  <2>2. body.tail = Flush /\ body.pack
    BY <2>1, SignatureFollowsFlush
  <2>3. UNCHANGED <<body, buf, lines>> /\ reading' = "objects" /\ lines = body.lines
    BY <1>6, <2>1 DEF Signature, input, LinesInv
  <2>. QED
    BY <2>1, <2>2, <2>3 DEF LinesInv
<1>7. CASE NoSignature
  BY <1>1, <1>7 DEF NoSignature, Fail, input
<1>8. CASE ReadObject
  BY <1>1, <1>8 DEF ReadObject, ObjectLeft, input
<1>9. CASE BadObject
  BY <1>1, <1>9 DEF BadObject, Fail, input
<1>10. CASE ObjectsEnd
  BY <1>1, <1>10 DEF ObjectsEnd, input
<1>11. CASE UNCHANGED parserVars
  BY <1>11 DEF parserVars, input, LinesInv
<1>. QED
  BY <1>2, <1>3, <1>4, <1>5, <1>6, <1>7, <1>8, <1>9, <1>10, <1>11 DEF ParserNext

-----------------------------------------------------------------------------
(* The objects *)

\* The bytes that name a delta's base.
BaseLength(object) ==
    CASE object.typeName = "ofs_delta" -> object.base
      [] object.typeName = "ref_delta" -> ShaLength
      [] OTHER -> 0

\* The bytes of an object.
ObjectLength(object) == object.size + 1 + BaseLength(object) + object.stream

\* Where in an object's bytes a number ends, its base, and its stream.
Encodes(code, object) ==
    LET h == object.size + 1
        b == BaseLength(object)
    IN /\ \A i \in 1..h : code[i].more = (i < h)
       /\ code[1].typeName = object.typeName
       /\ object.typeName = "ofs_delta" => \A i \in 1..b : code[h + i].more = (i < b)
       /\ \A i \in 1..object.stream :
             code[h + b + i].zlib = IF i < object.stream THEN "inside" ELSE "end"

LEMMA ObjectFacts ==
  ASSUME NEW object \in Object
  PROVE  /\ object.typeName \in ObjectTypes
         /\ object.size \in Nat /\ object.base \in Nat \ {0} /\ object.stream \in Nat \ {0}
         /\ BaseLength(object) \in Nat /\ ObjectLength(object) \in Nat \ {0}
         /\ object.typeName = "ofs_delta" => BaseLength(object) = object.base
         /\ object.typeName = "ref_delta" => BaseLength(object) = ShaLength
         /\ object.typeName \notin {"ofs_delta", "ref_delta"} => BaseLength(object) = 0
<1>1. /\ object.typeName \in ObjectTypes
      /\ object.size \in Nat /\ object.base \in Nat \ {0} /\ object.stream \in Nat \ {0}
  BY DEF Object
<1>2. ShaLength \in Nat
  BY PackAssumption
<1>. QED
  BY <1>1, <1>2 DEF BaseLength, ObjectLength

LEMMA VarintType ==
  ASSUME NEW n \in Nat, NEW t \in ObjectTypes
  PROVE  /\ Varint(n, t) \in Seq(Byte) /\ Len(Varint(n, t)) = n
         /\ \A i \in 1..n : Varint(n, t)[i].more = (i < n) /\ Varint(n, t)[i].typeName = t
<1> DEFINE e(i) == [more |-> i < n, typeName |-> t, zlib |-> "no"]
<1>1. \A i \in 1..n : e(i) \in Byte
  BY DEF Byte
<1>2. Varint(n, t) = [i \in 1..n |-> e(i)]
  BY DEF Varint
<1>3. \A i \in 1..n : e(i).more = (i < n) /\ e(i).typeName = t
  OBVIOUS
<1>. HIDE DEF e
<1>4. Varint(n, t) \in Seq(Byte) /\ Len(Varint(n, t)) = n /\ \A i \in 1..n : Varint(n, t)[i] = e(i)
  BY <1>1, <1>2
<1>. QED
  BY <1>3, <1>4, Zenon

LEMMA BytesConcatenated ==
  \A s, t \in Seq(Byte) :
     /\ s \o t \in Seq(Byte) /\ Len(s \o t) = Len(s) + Len(t)
     /\ \A i \in 1..Len(s) : (s \o t)[i] = s[i]
     /\ \A i \in 1..Len(t) : (s \o t)[Len(s) + i] = t[i]
BY Concatenated

LEMMA ObjectEncoded ==
  ASSUME NEW object \in Object
  PROVE  /\ EncodeObject(object) \in Seq(Byte)
         /\ Len(EncodeObject(object)) = ObjectLength(object)
         /\ Encodes(EncodeObject(object), object)
<1> DEFINE h == object.size + 1
           b == BaseLength(object)
           number == Varint(h, object.typeName)
           base == CASE object.typeName = "ofs_delta" -> Varint(object.base, "commit")
                     [] object.typeName = "ref_delta" -> Varint(ShaLength, "commit")
                     [] OTHER -> <<>>
           z(i) == [more |-> FALSE, typeName |-> "commit",
                    zlib |-> IF i < object.stream THEN "inside" ELSE "end"]
           stream == [i \in 1..object.stream |-> z(i)]
           code == EncodeObject(object)
<1>1. /\ object.typeName \in ObjectTypes /\ h \in Nat \ {0} /\ b \in Nat /\ object.stream \in Nat \ {0}
      /\ object.base \in Nat /\ ShaLength \in Nat /\ "commit" \in ObjectTypes
  BY ObjectFacts, PackAssumption DEF ObjectTypes, Object
<1>2. /\ number \in Seq(Byte) /\ Len(number) = h
      /\ \A i \in 1..h : number[i].more = (i < h) /\ number[i].typeName = object.typeName
  BY <1>1, VarintType
<1>3. /\ base \in Seq(Byte) /\ Len(base) = b
      /\ object.typeName = "ofs_delta" => \A i \in 1..b : base[i].more = (i < b)
  <2>1. CASE object.typeName = "ofs_delta"
    <3>1. base = Varint(object.base, "commit") /\ b = object.base
      BY <2>1, ObjectFacts
    <3>. QED
      BY <1>1, <3>1, VarintType
  <2>2. CASE object.typeName = "ref_delta"
    <3>1. base = Varint(ShaLength, "commit") /\ b = ShaLength
      BY <2>2, ObjectFacts
    <3>. QED
      BY <1>1, <2>2, <3>1, VarintType
  <2>3. CASE object.typeName \notin {"ofs_delta", "ref_delta"}
    <3>1. base = <<>> /\ b = 0
      BY <2>3, ObjectFacts
    <3>. QED
      BY <2>3, <3>1, EmptySeq
  <2>. QED
    BY <2>1, <2>2, <2>3
<1>4. /\ stream \in Seq(Byte) /\ Len(stream) = object.stream
      /\ \A i \in 1..object.stream : stream[i].zlib = IF i < object.stream THEN "inside" ELSE "end"
  <2>1. \A i \in 1..object.stream : z(i) \in Byte /\ z(i).zlib = IF i < object.stream THEN "inside" ELSE "end"
    BY DEF Byte, ObjectTypes
  <2>. HIDE DEF z
  <2>2. stream \in Seq(Byte) /\ Len(stream) = object.stream /\ \A i \in 1..object.stream : stream[i] = z(i)
    BY <1>1, <2>1
  <2>. QED
    BY <2>1, <2>2, Zenon
<1>5. code = (number \o base) \o stream
  BY DEF EncodeObject
<1>. HIDE DEF number, base, stream, code, h, b
<1>6. /\ number \o base \in Seq(Byte) /\ Len(number \o base) = h + b
      /\ \A i \in 1..h : (number \o base)[i] = number[i]
      /\ \A i \in 1..b : (number \o base)[h + i] = base[i]
  <2>1. /\ number \o base \in Seq(Byte) /\ Len(number \o base) = Len(number) + Len(base)
        /\ \A i \in 1..Len(number) : (number \o base)[i] = number[i]
        /\ \A i \in 1..Len(base) : (number \o base)[Len(number) + i] = base[i]
    <3>1. number \in Seq(Byte) /\ base \in Seq(Byte)
      BY <1>2, <1>3
    <3>. QED
      BY <3>1, BytesConcatenated, Zenon
  <2>2. Len(number) = h /\ Len(base) = b
    BY <1>2, <1>3
  <2>. QED
    BY <2>1, <2>2
<1>7. /\ code \in Seq(Byte) /\ Len(code) = h + b + object.stream
      /\ \A i \in 1..h + b : code[i] = (number \o base)[i]
      /\ \A i \in 1..object.stream : code[h + b + i] = stream[i]
  <2> DEFINE front == number \o base
  <2>1. front \in Seq(Byte) /\ stream \in Seq(Byte) /\ code = front \o stream
    BY <1>4, <1>5, <1>6
  <2>2. Len(front) = h + b /\ Len(stream) = object.stream
    BY <1>4, <1>6
  <2>. HIDE DEF front
  <2>3. /\ front \o stream \in Seq(Byte) /\ Len(front \o stream) = Len(front) + Len(stream)
        /\ \A i \in 1..Len(front) : (front \o stream)[i] = front[i]
        /\ \A i \in 1..Len(stream) : (front \o stream)[Len(front) + i] = stream[i]
    BY <2>1, BytesConcatenated, Zenon
  <2>4. /\ code \in Seq(Byte) /\ Len(code) = h + b + object.stream
        /\ \A i \in 1..h + b : code[i] = front[i]
        /\ \A i \in 1..object.stream : code[h + b + i] = stream[i]
    BY <2>1, <2>2, <2>3, Zenon
  <2>. QED
    BY <2>4 DEF front
<1>8. /\ \A i \in 1..h : code[i] = number[i]
      /\ \A i \in 1..b : code[h + i] = base[i]
  <2>1. \A i \in 1..h : i \in 1..h + b
    BY <1>1
  <2>2. \A i \in 1..b : h + i \in 1..h + b
    BY <1>1
  <2>3. ASSUME NEW i \in 1..h  PROVE code[i] = number[i]
    BY <1>6, <1>7, <2>1, Zenon
  <2>4. ASSUME NEW i \in 1..b  PROVE code[h + i] = base[i]
    BY <1>6, <1>7, <2>2, Zenon
  <2>. QED
    BY <2>3, <2>4
<1>9. Len(code) = ObjectLength(object)
  BY <1>7 DEF ObjectLength, h, b
<1>10. 1 \in 1..h
  BY <1>1
<1>11. Encodes(code, object)
  <2>1. (\A i \in 1..h : code[i].more = (i < h)) /\ code[1].typeName = object.typeName
    BY <1>2, <1>8, <1>10, Zenon
  <2>2. object.typeName = "ofs_delta" => \A i \in 1..b : code[h + i].more = (i < b)
    BY <1>3, <1>8, Zenon
  <2>3. \A i \in 1..object.stream :
           code[h + b + i].zlib = IF i < object.stream THEN "inside" ELSE "end"
    BY <1>4, <1>7, Zenon
  <2>. QED
    BY <2>1, <2>2, <2>3, Zenon DEF Encodes, h, b
<1>. QED
  BY <1>7, <1>9, <1>11 DEF code

LEMMA ObjectsEncoded ==
  ASSUME NEW packed \in Seq(Object)
  PROVE  \E parts \in Seq(Seq(Byte)) :
            /\ Len(parts) = Len(packed)
            /\ \A i \in 1..Len(packed) : parts[i] = EncodeObject(packed[i])
            /\ \A n \in 0..Len(packed) : EncodeObjects(SubSeq(packed, 1, n)) = FirstOf(parts, n)
            /\ EncodeObjects(packed) = FlattenSeq(parts)
<1> DEFINE parts == [i \in DOMAIN packed |-> EncodeObject(packed[i])]
<1>1. Len(packed) \in Nat /\ DOMAIN packed = 1..Len(packed)
  OBVIOUS
<1>2. \A i \in 1..Len(packed) : EncodeObject(packed[i]) \in Seq(Byte)
  BY <1>1, ObjectEncoded
<1>3. /\ parts \in Seq(Seq(Byte)) /\ Len(parts) = Len(packed)
      /\ \A i \in 1..Len(packed) : parts[i] = EncodeObject(packed[i])
  BY <1>1, <1>2
<1>4. EncodeObjects(packed) = FlattenSeq(parts)
  BY DEF EncodeObjects
<1>5. ASSUME NEW n \in 0..Len(packed)  PROVE EncodeObjects(SubSeq(packed, 1, n)) = FirstOf(parts, n)
  <2> DEFINE some == SubSeq(packed, 1, n)
  <2>1. DOMAIN some = 1..n /\ \A i \in 1..n : some[i] = packed[i]
    BY <1>1
  <2>2. DOMAIN SubSeq(parts, 1, n) = 1..n /\ \A i \in 1..n : SubSeq(parts, 1, n)[i] = EncodeObject(packed[i])
    <3>1. \A i \in 1..n : i \in 1..Len(packed)
      BY <1>1
    <3>. HIDE DEF parts
    <3>2. SubSeq(parts, 1, n) = [i \in 1..n |-> parts[i]]
      BY <1>1, <1>3
    <3>. QED
      BY <1>3, <3>1, <3>2
  <2>3. [i \in DOMAIN some |-> EncodeObject(some[i])] = SubSeq(parts, 1, n)
    <3>1. SubSeq(parts, 1, n) = [i \in 1..n |-> SubSeq(parts, 1, n)[i]]
      BY <1>1, <1>3
    <3>. HIDE DEF parts, some
    <3>. QED
      BY <2>1, <2>2, <3>1
  <2>. QED
    BY <2>3 DEF EncodeObjects, FirstOf
<1>. HIDE DEF parts
<1>. QED
  BY <1>3, <1>4, <1>5

TrailerByte == [more |-> FALSE, typeName |-> "unknown", zlib |-> "no"]

LEMMA TrailerType ==
  /\ Trailer \in Seq(Byte) /\ Len(Trailer) = ShaLength /\ ShaLength \in Nat \ {0}
  /\ \A i \in 1..ShaLength : Trailer[i] = TrailerByte
<1>1. ShaLength \in Nat \ {0}
  BY PackAssumption
<1>2. TrailerByte \in Byte
  BY DEF TrailerByte, Byte, ObjectTypes
<1>3. Trailer = [i \in 1..ShaLength |-> TrailerByte]
  BY DEF Trailer, TrailerByte
<1>. QED
  BY <1>1, <1>2, <1>3

\* The bytes of the pack, and the prefix of them that arrived.
Packed == EncodeObjects(body.objects) \o Trailer

Arrived == body \in Bodies /\ contentBuf = SubSeq(Packed, 1, Len(Packed) - body.lost)

\* Where the first n objects end.
EndOf(n) == Len(EncodeObjects(SubSeq(body.objects, 1, n)))

LEMMA PackedFacts ==
  ASSUME body \in Bodies
  PROVE  /\ body.objects \in Seq(Object) /\ Len(body.objects) \in Nat
         /\ body.claimed \in Nat /\ body.lost \in Nat
         /\ \A n \in 1..Len(body.objects) : body.objects[n] \in Object
         /\ Packed \in Seq(Byte) /\ EndOf(0) = 0
         /\ Len(Packed) = EndOf(Len(body.objects)) + ShaLength
         /\ \A n \in 0..Len(body.objects) : EndOf(n) \in Nat /\ EndOf(n) < Len(Packed)
         /\ \A i \in 1..ShaLength : Packed[EndOf(Len(body.objects)) + i] = TrailerByte
         /\ \A n \in 0..Len(body.objects) - 1 :
               /\ EndOf(n + 1) = EndOf(n) + ObjectLength(body.objects[n + 1])
               /\ \A i \in 1..ObjectLength(body.objects[n + 1]) :
                     Packed[EndOf(n) + i] = EncodeObject(body.objects[n + 1])[i]
<1> DEFINE packed == body.objects
           M == Len(packed)
           all == EncodeObjects(packed)
<1>1. packed \in Seq(Object) /\ M \in Nat /\ body.claimed \in Nat /\ body.lost \in Nat
  BY PackAssumption DEF Body
<1>2. \A n \in 1..M : packed[n] \in Object
  BY <1>1, ElementOfSeq
<1>3. PICK parts \in Seq(Seq(Byte)) :
            /\ Len(parts) = M
            /\ \A i \in 1..M : parts[i] = EncodeObject(packed[i])
            /\ \A n \in 0..M : EncodeObjects(SubSeq(packed, 1, n)) = FirstOf(parts, n)
            /\ all = FlattenSeq(parts)
  BY <1>1, ObjectsEncoded, Zenon
<1>4. \A n \in 0..M : EndOf(n) = Len(FirstOf(parts, n)) /\ FirstOf(parts, n) \in Seq(Byte)
  BY <1>3, FirstType, Zenon DEF EndOf
<1>5. all = FirstOf(parts, M) /\ M \in 0..M /\ 0 \in 0..M
  BY <1>1, <1>3, FirstWhole
<1>6. EndOf(0) = 0
  BY <1>4, <1>5, FirstEmpty, Len(<<>>) = 0
<1>7. all \in Seq(Byte) /\ Len(all) = EndOf(M)
  BY <1>4, <1>5, Zenon
<1>8. /\ Packed \in Seq(Byte) /\ Len(Packed) = Len(all) + ShaLength
      /\ \A i \in 1..Len(all) : Packed[i] = all[i]
      /\ \A i \in 1..ShaLength : Packed[Len(all) + i] = TrailerByte
  <2>1. /\ Packed \in Seq(Byte) /\ Len(Packed) = Len(all) + Len(Trailer)
        /\ \A i \in 1..Len(all) : Packed[i] = all[i]
        /\ \A i \in 1..Len(Trailer) : Packed[Len(all) + i] = Trailer[i]
    BY <1>7, TrailerType, BytesConcatenated, Zenon DEF Packed
  <2>. QED
    BY <2>1, TrailerType, Zenon
<1>9. ASSUME NEW n \in 0..M  PROVE EndOf(n) \in Nat /\ EndOf(n) < Len(Packed)
  <2>1. EndOf(n) \in Nat /\ Len(all) \in Nat /\ ShaLength \in Nat \ {0}
    BY <1>4, <1>7, TrailerType, LenProperties
  <2>2. Len(FirstOf(parts, n)) <= Len(FirstOf(parts, M))
    <3>1. M \in n..Len(parts) /\ n \in 0..Len(parts)
      BY <1>1, <1>3
    <3>. QED
      BY <3>1, FirstBegins, Zenon
  <2>3. EndOf(n) <= Len(all)
    BY <1>4, <1>5, <2>2, Zenon
  <2>. QED
    BY <1>8, <2>1, <2>3
<1>10. ASSUME NEW n \in 0..M - 1
       PROVE  /\ EndOf(n + 1) = EndOf(n) + ObjectLength(packed[n + 1])
              /\ \A i \in 1..ObjectLength(packed[n + 1]) :
                    Packed[EndOf(n) + i] = EncodeObject(packed[n + 1])[i]
  <2> DEFINE object == packed[n + 1]
             part == parts[n + 1]
  <2>1. n \in 0..Len(parts) - 1 /\ n + 1 \in 1..M /\ n \in 0..M /\ n + 1 \in 0..M
    BY <1>1, <1>3
  <2>2. object \in Object /\ part = EncodeObject(object)
    BY <1>2, <1>3, <2>1, Zenon
  <2>3. Len(part) = ObjectLength(object) /\ ObjectLength(object) \in Nat
    BY <2>2, ObjectEncoded, ObjectFacts
  <2>4. /\ Len(FirstOf(parts, n + 1)) = Len(FirstOf(parts, n)) + Len(part)
        /\ Len(FirstOf(parts, n + 1)) <= Len(all)
        /\ \A i \in 1..Len(part) : all[Len(FirstOf(parts, n)) + i] = part[i]
    <3>1. /\ Len(FirstOf(parts, n + 1)) = Len(FirstOf(parts, n)) + Len(parts[n + 1])
          /\ Len(FirstOf(parts, n + 1)) <= Len(FlattenSeq(parts))
          /\ \A i \in 1..Len(parts[n + 1]) :
                FlattenSeq(parts)[Len(FirstOf(parts, n)) + i] = parts[n + 1][i]
      BY <2>1, PartLies, Zenon
    <3>2. all = FlattenSeq(parts)
      BY <1>3
    <3>. QED
      BY <3>1, <3>2, Zenon
  <2>5. /\ EndOf(n + 1) = EndOf(n) + Len(part) /\ EndOf(n + 1) <= Len(all)
        /\ \A i \in 1..Len(part) : all[EndOf(n) + i] = part[i]
    BY <1>4, <2>1, <2>4, Zenon
  <2>6. EndOf(n) \in Nat /\ Len(all) \in Nat
    BY <1>7, <1>9, <2>1, LenProperties
  <2>. HIDE DEF object, part, all
  <2>7. \A i \in 1..Len(part) : EndOf(n) + i \in 1..Len(all)
    BY <2>3, <2>5, <2>6
  <2>8. \A i \in 1..Len(part) : Packed[EndOf(n) + i] = part[i]
    BY <1>8, <2>5, <2>7, Zenon
  <2>9. /\ EndOf(n + 1) = EndOf(n) + ObjectLength(object)
        /\ \A i \in 1..ObjectLength(object) : Packed[EndOf(n) + i] = EncodeObject(object)[i]
    BY <2>2, <2>3, <2>5, <2>8, Zenon
  <2>. QED
    BY <2>9 DEF object
<1>. HIDE DEF M, packed, all
<1>11. Len(Packed) = EndOf(M) + ShaLength /\ \A i \in 1..ShaLength : Packed[EndOf(M) + i] = TrailerByte
  BY <1>7, <1>8, Zenon
<1>. QED
  BY <1>1, <1>2, <1>6, <1>8, <1>9, <1>10, <1>11 DEF M, packed

\* Where a number that arrived ends, and that it has no end where it was cut off.
LEMMA EndOfNumber ==
  ASSUME Len(contentBuf) \in Nat, NEW from \in Nat, NEW n \in Nat \ {0},
         \A i \in 1..n : from + i <= Len(contentBuf) => contentBuf[from + i].more = (i < n)
  PROVE  VarintEnds(from) = {from + n} \intersect (0..Len(contentBuf))
<1>1. ASSUME NEW e \in VarintEnds(from)  PROVE e = from + n /\ e \in 0..Len(contentBuf)
  <2>1. /\ e \in from + 1..Len(contentBuf) /\ ~contentBuf[e].more
        /\ \A i \in from + 1..e - 1 : contentBuf[i].more
    BY DEF VarintEnds
  <2>2. PICK k \in Nat \ {0} : e = from + k
    <3>1. e - from \in Nat \ {0} /\ e = from + (e - from)
      BY <2>1
    <3>. QED
      BY <3>1
  <2>3. ~(k < n)
    <3>1. SUFFICES ASSUME k < n  PROVE FALSE
      OBVIOUS
    <3>2. k \in 1..n /\ from + k <= Len(contentBuf)
      BY <2>1, <2>2, <3>1
    <3>3. contentBuf[from + k].more = (k < n)
      BY <3>2
    <3>. QED
      BY <2>1, <2>2, <3>1, <3>3
  <2>4. ~(n < k)
    <3>1. SUFFICES ASSUME n < k  PROVE FALSE
      OBVIOUS
    <3>2. n \in 1..n /\ from + n <= Len(contentBuf) /\ from + n \in from + 1..e - 1 /\ ~(n < n)
      BY <2>1, <2>2, <3>1
    <3>3. contentBuf[from + n].more = (n < n)
      BY <3>2
    <3>. QED
      BY <2>1, <3>2, <3>3
  <2>. QED
    BY <2>1, <2>2, <2>3, <2>4
<1>2. ASSUME from + n <= Len(contentBuf)  PROVE from + n \in VarintEnds(from)
  <2>1. n \in 1..n /\ ~(n < n) /\ from + n \in from + 1..Len(contentBuf)
    BY <1>2
  <2>2. ~contentBuf[from + n].more
    <3>1. contentBuf[from + n].more = (n < n)
      BY <1>2, <2>1
    <3>. QED
      BY <2>1, <3>1
  <2>3. ASSUME NEW i \in from + 1..(from + n) - 1  PROVE contentBuf[i].more
    <3>1. PICK k : k = i - from
      OBVIOUS
    <3>2. k \in 1..n /\ from + k = i /\ from + k <= Len(contentBuf) /\ k < n
      BY <1>2, <3>1
    <3>3. contentBuf[from + k].more = (k < n)
      BY <3>2
    <3>. QED
      BY <3>2, <3>3
  <2>. QED
    BY <2>1, <2>2, <2>3 DEF VarintEnds
<1>3. from + n \in Nat
  OBVIOUS
<1>. QED
  BY <1>1, <1>2, <1>3

\* The same for a compressed stream, which ends nowhere when it is above the limit.
LEMMA EndOfStream ==
  ASSUME Len(contentBuf) \in Nat, NEW from \in Nat, NEW n \in Nat \ {0},
         \A i \in 1..n : from + i <= Len(contentBuf) =>
            contentBuf[from + i].zlib = IF i < n THEN "inside" ELSE "end"
  PROVE  StreamEnds(from) = IF n <= MaxObjectSize THEN {from + n} \intersect (0..Len(contentBuf))
                                                  ELSE {}
<1>0. MaxObjectSize \in Nat
  BY PackAssumption
<1>1. ASSUME NEW e \in StreamEnds(from)
      PROVE  e = from + n /\ e \in 0..Len(contentBuf) /\ n <= MaxObjectSize
  <2>1. /\ e \in from + 1..Len(contentBuf) /\ contentBuf[e].zlib = "end"
        /\ \A i \in from + 1..e - 1 : contentBuf[i].zlib = "inside"
        /\ e - from <= MaxObjectSize
    BY DEF StreamEnds
  <2>2. PICK k \in Nat \ {0} : e = from + k
    <3>1. e - from \in Nat \ {0} /\ e = from + (e - from)
      BY <2>1
    <3>. QED
      BY <3>1
  <2>3. ~(k < n)
    <3>1. SUFFICES ASSUME k < n  PROVE FALSE
      OBVIOUS
    <3>2. k \in 1..n /\ from + k <= Len(contentBuf)
      BY <2>1, <2>2, <3>1
    <3>3. contentBuf[from + k].zlib = "inside"
      BY <3>1, <3>2
    <3>. QED
      BY <2>1, <2>2, <3>3
  <2>4. ~(n < k)
    <3>1. SUFFICES ASSUME n < k  PROVE FALSE
      OBVIOUS
    <3>2. n \in 1..n /\ from + n <= Len(contentBuf) /\ from + n \in from + 1..e - 1 /\ ~(n < n)
      BY <2>1, <2>2, <3>1
    <3>3. contentBuf[from + n].zlib = "end"
      BY <3>2
    <3>. QED
      BY <2>1, <3>2, <3>3
  <2>. QED
    BY <2>1, <2>2, <2>3, <2>4
<1>2. ASSUME from + n <= Len(contentBuf), n <= MaxObjectSize  PROVE from + n \in StreamEnds(from)
  <2>1. n \in 1..n /\ ~(n < n) /\ from + n \in from + 1..Len(contentBuf) /\ (from + n) - from = n
    BY <1>2
  <2>2. contentBuf[from + n].zlib = "end"
    BY <1>2, <2>1
  <2>3. ASSUME NEW i \in from + 1..(from + n) - 1  PROVE contentBuf[i].zlib = "inside"
    <3>1. PICK k : k = i - from
      OBVIOUS
    <3>2. k \in 1..n /\ from + k = i /\ from + k <= Len(contentBuf) /\ k < n
      BY <1>2, <3>1
    <3>3. contentBuf[from + k].zlib = "inside"
      BY <3>2
    <3>. QED
      BY <3>2, <3>3
  <2>. QED
    BY <1>2, <2>1, <2>2, <2>3 DEF StreamEnds
<1>3. from + n \in Nat
  OBVIOUS
<1>. QED
  BY <1>0, <1>1, <1>2, <1>3

\* An object that arrived from the offset on ends where its bytes end, and nowhere when
\* it was cut off or is above the limit.
LEMMA EndOfObject ==
  ASSUME Len(contentBuf) \in Nat, NEW from \in Nat, from < Len(contentBuf),
         NEW object \in Object, NEW code, Encodes(code, object),
         \A i \in 1..ObjectLength(object) :
            from + i <= Len(contentBuf) => contentBuf[from + i] = code[i]
  PROVE  /\ contentBuf[from + 1].typeName = object.typeName
         /\ ObjectEnds(from) = IF object.stream <= MaxObjectSize
                               THEN {from + ObjectLength(object)} \intersect (0..Len(contentBuf))
                               ELSE {}
<1> DEFINE h == object.size + 1
           b == BaseLength(object)
           n == object.stream
           K == Len(contentBuf)
           t == object.typeName
<1>1. /\ h \in Nat \ {0} /\ b \in Nat /\ n \in Nat \ {0} /\ ShaLength \in Nat /\ K \in Nat
      /\ MaxObjectSize \in Nat
      /\ t = "ofs_delta" => b \in Nat \ {0}
      /\ t = "ref_delta" => b = ShaLength
      /\ t \notin {"ofs_delta", "ref_delta"} => b = 0
  BY ObjectFacts, PackAssumption
<1>2. ObjectLength(object) = h + b + n
  BY DEF ObjectLength
<1>3. /\ \A i \in 1..h : code[i].more = (i < h)
      /\ code[1].typeName = t
      /\ t = "ofs_delta" => \A i \in 1..b : code[h + i].more = (i < b)
      /\ \A i \in 1..n : code[h + b + i].zlib = IF i < n THEN "inside" ELSE "end"
  BY Zenon DEF Encodes
<1>. HIDE DEF h, b, n, K, t
<1>4. \A i \in 1..h + b + n : from + i <= K => contentBuf[from + i] = code[i]
  BY <1>2 DEF K
<1>5. contentBuf[from + 1].typeName = t
  <2>1. 1 \in 1..h + b + n /\ from + 1 <= K
    BY <1>1 DEF K
  <2>. QED
    BY <1>3, <1>4, <2>1
<1>6. VarintEnds(from) = {from + h} \intersect (0..K)
  <2>1. \A i \in 1..h : i \in 1..h + b + n
    BY <1>1
  <2>2. \A i \in 1..h : from + i <= K => contentBuf[from + i].more = (i < h)
    BY <1>3, <1>4, <2>1
  <2>. QED
    BY <1>1, <2>2, EndOfNumber DEF K
<1>7. BaseEnds(t, from + h) = {from + h + b} \intersect (0..K) \/ from + h > K
  <2>0. SUFFICES ASSUME from + h <= K
                 PROVE  BaseEnds(t, from + h) = {from + h + b} \intersect (0..K)
    BY <1>1
  <2>1. CASE t = "ofs_delta"
    <3>1. from + h \in Nat /\ b \in Nat \ {0}
      BY <1>1, <2>1
    <3>2. ASSUME NEW i \in 1..b, from + h + i <= K  PROVE contentBuf[from + h + i].more = (i < b)
      <4>1. PICK k : k = h + i
        OBVIOUS
      <4>2. k \in 1..h + b + n /\ from + k = from + h + i /\ from + k <= K
        BY <1>1, <3>2, <4>1
      <4>3. contentBuf[from + k] = code[k]
        BY <1>4, <4>2
      <4>4. contentBuf[from + h + i] = code[h + i]
        BY <4>1, <4>2, <4>3
      <4>. QED
        BY <1>3, <2>1, <4>4
    <3>3. VarintEnds(from + h) = {from + h + b} \intersect (0..K)
      <4>1. PICK g \in Nat : g = from + h
        BY <3>1
      <4>2. \A i \in 1..b : g + i <= K => contentBuf[g + i].more = (i < b)
        BY <3>2, <4>1
      <4>3. VarintEnds(g) = {g + b} \intersect (0..K)
        BY <1>1, <3>1, <4>2, EndOfNumber DEF K
      <4>. QED
        BY <4>1, <4>3
    <3>. QED
      BY <2>1, <3>3 DEF BaseEnds
  <2>2. CASE t = "ref_delta"
    BY <1>1, <2>2 DEF BaseEnds, K
  <2>3. CASE t \notin {"ofs_delta", "ref_delta"}
    <3>1. BaseEnds(t, from + h) = {from + h} /\ from + h \in 0..K /\ from + h + b = from + h
      BY <1>1, <2>0, <2>3 DEF BaseEnds
    <3>. QED
      BY <3>1
  <2>. QED
    BY <2>1, <2>2, <2>3
<1>8. \/ StreamEnds(from + h + b) = IF n <= MaxObjectSize
                                    THEN {from + (h + b + n)} \intersect (0..K) ELSE {}
      \/ from + h + b > K
  <2>1. PICK g \in Nat : g = from + h + b
    BY <1>1
  <2>2. ASSUME NEW i \in 1..n, g + i <= K
        PROVE  contentBuf[g + i].zlib = IF i < n THEN "inside" ELSE "end"
    <3>1. PICK k : k = h + b + i
      OBVIOUS
    <3>2. k \in 1..h + b + n /\ from + k = g + i /\ from + k <= K
      BY <1>1, <2>1, <2>2, <3>1
    <3>3. contentBuf[from + k] = code[k]
      BY <1>4, <3>2
    <3>4. contentBuf[g + i] = code[h + b + i]
      BY <3>1, <3>2, <3>3
    <3>. QED
      BY <1>3, <3>4
  <2>3. StreamEnds(g) = IF n <= MaxObjectSize THEN {g + n} \intersect (0..K) ELSE {}
    BY <1>1, <2>2, EndOfStream DEF K
  <2>4. g + n = from + (h + b + n)
    BY <1>1, <2>1
  <2>. QED
    BY <2>1, <2>3, <2>4
<1> DEFINE bases == UNION {BaseEnds(contentBuf[from + 1].typeName, x) : x \in VarintEnds(from)}
<1>9. ObjectEnds(from) = UNION {StreamEnds(x) : x \in bases}
  BY DEF ObjectEnds
<1>10. bases = {from + h + b} \intersect (0..K)
  <2>1. CASE from + h > K
    <3>1. VarintEnds(from) = {} /\ from + h + b > K
      BY <1>1, <1>6, <2>1
    <3>2. {from + h + b} \intersect (0..K) = {}
      BY <1>1, <3>1
    <3>. QED
      BY <3>1, <3>2
  <2>2. CASE from + h <= K
    <3>1. VarintEnds(from) = {from + h}
      BY <1>1, <1>6, <2>2
    <3>2. BaseEnds(t, from + h) = {from + h + b} \intersect (0..K)
      BY <1>1, <1>7, <2>2
    <3>3. bases = BaseEnds(t, from + h)
      BY <1>5, <3>1
    <3>. QED
      BY <3>2, <3>3
  <2>3. from + h > K \/ from + h <= K
    BY <1>1
  <2>. QED
    BY <2>1, <2>2, <2>3, Zenon
<1>. HIDE DEF bases
<1>11. ObjectEnds(from) = IF n <= MaxObjectSize THEN {from + (h + b + n)} \intersect (0..K) ELSE {}
  <2>1. CASE from + h + b > K
    <3>1. bases = {}
      BY <1>1, <1>10, <2>1
    <3>2. {from + (h + b + n)} \intersect (0..K) = {}
      BY <1>1, <2>1
    <3>. QED
      BY <1>9, <3>1, <3>2
  <2>2. CASE from + h + b <= K
    <3>1. bases = {from + h + b}
      BY <1>1, <1>10, <2>2
    <3>2. ObjectEnds(from) = StreamEnds(from + h + b)
      BY <1>9, <3>1
    <3>. QED
      BY <1>1, <1>8, <2>2, <3>2
  <2>. QED
    BY <1>1, <2>1, <2>2
<1>. QED
  BY <1>2, <1>5, <1>11 DEF n, K, t

\* An object ends with a byte that ends a compressed stream, so none where there is no
\* such byte.
LEMMA NothingEnds ==
  ASSUME Len(contentBuf) \in Nat, NEW from \in Nat,
         \A i \in from + 1..Len(contentBuf) : contentBuf[i].zlib # "end"
  PROVE  ObjectEnds(from) = {}
<1>1. SUFFICES ASSUME NEW e \in ObjectEnds(from)  PROVE FALSE
  OBVIOUS
<1>2. PICK h \in VarintEnds(from) : \E b \in BaseEnds(contentBuf[from + 1].typeName, h) : e \in StreamEnds(b)
  BY DEF ObjectEnds
<1>3. PICK b \in BaseEnds(contentBuf[from + 1].typeName, h) : e \in StreamEnds(b)
  BY <1>2
<1>4. h \in Nat /\ h > from
  BY DEF VarintEnds
<1>5. b \in Nat /\ b >= h
  <2>1. ShaLength \in Nat
    BY PackAssumption
  <2>. QED
    BY <1>4, <2>1 DEF BaseEnds, VarintEnds
<1>6. e \in b + 1..Len(contentBuf) /\ contentBuf[e].zlib = "end"
  BY <1>3 DEF StreamEnds
<1>. QED
  BY <1>4, <1>5, <1>6

\* What arrived of the pack is a prefix of it.
LEMMA ArrivedFacts ==
  ASSUME Arrived
  PROVE  /\ contentBuf \in Seq(Byte) /\ Len(contentBuf) \in Nat /\ Len(Packed) \in Nat
         /\ Len(contentBuf) <= Len(Packed)
         /\ body.lost = 0 => Len(contentBuf) = Len(Packed)
         /\ \A i \in 1..Len(contentBuf) : contentBuf[i] = Packed[i]
<1>1. body \in Bodies /\ Packed \in Seq(Byte) /\ body.lost \in Nat
  BY PackedFacts DEF Arrived
<1>. HIDE DEF Packed
<1>2. PICK k : k = Len(Packed) - body.lost
  OBVIOUS
<1>3. Len(Packed) \in Nat /\ k \in Int /\ k <= Len(Packed) /\ (body.lost = 0 => k = Len(Packed))
  BY <1>1, <1>2
<1>4. contentBuf = SubSeq(Packed, 1, k)
  BY <1>2 DEF Arrived
<1>5. /\ contentBuf \in Seq(Byte)
      /\ Len(contentBuf) = IF 1 <= k THEN k ELSE 0
      /\ \A i \in 1..k : contentBuf[i] = Packed[i]
  BY <1>1, <1>3, <1>4
<1>. QED
  BY <1>3, <1>5

\* Where an object starts the parser finds that object and nothing else, and none where
\* there is only the checksum.
LEMMA AtObject ==
  ASSUME Arrived, NEW m \in 0..Len(body.objects), EndOf(m) < Len(contentBuf)
  PROVE  LET object == body.objects[m + 1]
         IN /\ m = Len(body.objects) => ObjectEnds(EndOf(m)) = {}
            /\ m < Len(body.objects) =>
                  /\ contentBuf[EndOf(m) + 1].typeName = object.typeName
                  /\ ObjectEnds(EndOf(m)) =
                        IF object.stream <= MaxObjectSize
                        THEN {EndOf(m + 1)} \intersect (0..Len(contentBuf)) ELSE {}
<1> DEFINE M == Len(body.objects)
           object == body.objects[m + 1]
<1>0. body \in Bodies /\ M \in Nat /\ EndOf(m) \in Nat /\ ShaLength \in Nat
  BY PackedFacts, PackAssumption DEF Arrived
<1>1. /\ Len(contentBuf) \in Nat /\ Len(Packed) \in Nat /\ Len(contentBuf) <= Len(Packed)
      /\ \A i \in 1..Len(contentBuf) : contentBuf[i] = Packed[i]
  BY ArrivedFacts
<1>2. CASE m = M
  <2>1. Len(Packed) = EndOf(m) + ShaLength /\ \A i \in 1..ShaLength : Packed[EndOf(m) + i] = TrailerByte
    BY <1>0, <1>2, PackedFacts
  <2>. HIDE DEF M, object
  <2>2. ASSUME NEW i \in EndOf(m) + 1..Len(contentBuf)  PROVE contentBuf[i].zlib # "end"
    <3>1. PICK k : k = i - EndOf(m)
      OBVIOUS
    <3>2. k \in 1..ShaLength /\ EndOf(m) + k = i /\ i \in 1..Len(contentBuf)
      BY <1>0, <1>1, <2>1, <3>1
    <3>3. contentBuf[i] = TrailerByte
      BY <1>1, <2>1, <3>2
    <3>. QED
      BY <3>3 DEF TrailerByte
  <2>3. ObjectEnds(EndOf(m)) = {}
    BY <1>0, <1>1, <2>2, NothingEnds
  <2>. QED
    BY <1>0, <1>2, <2>3 DEF M
<1>3. CASE m < M
  <2>1. /\ m \in 0..M - 1 /\ object \in Object
        /\ EndOf(m + 1) = EndOf(m) + ObjectLength(object)
        /\ \A i \in 1..ObjectLength(object) : Packed[EndOf(m) + i] = EncodeObject(object)[i]
    <3>1. m \in 0..M - 1 /\ m + 1 \in 1..M
      BY <1>0, <1>3
    <3>. QED
      BY <1>0, <3>1, PackedFacts
  <2>. HIDE DEF M, object
  <2>2. Encodes(EncodeObject(object), object) /\ ObjectLength(object) \in Nat
    BY <2>1, ObjectEncoded, ObjectFacts
  <2>3. ASSUME NEW i \in 1..ObjectLength(object), EndOf(m) + i <= Len(contentBuf)
        PROVE  contentBuf[EndOf(m) + i] = EncodeObject(object)[i]
    <3>1. EndOf(m) + i \in 1..Len(contentBuf)
      BY <1>0, <1>1, <2>2, <2>3
    <3>. QED
      BY <1>1, <2>1, <3>1
  <2>4. PICK from \in Nat : from = EndOf(m)
    BY <1>0
  <2>5. /\ contentBuf[from + 1].typeName = object.typeName
        /\ ObjectEnds(from) = IF object.stream <= MaxObjectSize
                              THEN {from + ObjectLength(object)} \intersect (0..Len(contentBuf))
                              ELSE {}
    <3>1. \A i \in 1..ObjectLength(object) :
             from + i <= Len(contentBuf) => contentBuf[from + i] = EncodeObject(object)[i]
      BY <2>3, <2>4
    <3>2. from < Len(contentBuf)
      BY <2>4
    <3>3. PICK code : code = EncodeObject(object)
      OBVIOUS
    <3>4. Encodes(code, object) /\ \A i \in 1..ObjectLength(object) :
             from + i <= Len(contentBuf) => contentBuf[from + i] = code[i]
      BY <2>2, <3>1, <3>3
    <3>. QED
      BY <1>1, <2>1, <3>2, <3>4, EndOfObject
  <2>6. /\ contentBuf[EndOf(m) + 1].typeName = object.typeName
        /\ ObjectEnds(EndOf(m)) = IF object.stream <= MaxObjectSize
                                  THEN {EndOf(m + 1)} \intersect (0..Len(contentBuf))
                                  ELSE {}
    BY <2>1, <2>4, <2>5, Zenon
  <2>7. m # M
    BY <1>0, <1>3
  <2>. QED
    BY <2>6, <2>7, Zenon DEF M, object
<1>. QED
  BY <1>0, <1>2, <1>3

-----------------------------------------------------------------------------
(* The parser's way through the objects *)

\* The parser has its place in the pack: behind the last object it read.
ObjectsInv ==
    /\ Arrived
    /\ reading \in {"lines", "signature"} => objects = <<>>
    /\ reading \in {"objects", "parsed"} =>
          /\ Len(objects) \in 0..Len(body.objects) /\ Len(objects) <= body.claimed
          /\ objects = [i \in 1..Len(objects) |-> body.objects[i].typeName]
          /\ offset = EndOf(Len(objects)) /\ offset <= Len(contentBuf)
    /\ reading = "parsed" => Len(objects) = body.claimed \/ offset = Len(contentBuf)

LEMMA InitObjects ==
  ASSUME ParserInit
  PROVE  ObjectsInv
BY DEF ParserInit, ObjectsInv, Arrived, Packed

\* The object read is the next one of the pack, whole.
LEMMA NextObject ==
  ASSUME ObjectsInv, ReadObject
  PROVE  ObjectsInv'
<1> DEFINE m == Len(objects)
           object == body.objects[m + 1]
<1>0. /\ reading = "objects" /\ m < body.claimed /\ offset < Len(contentBuf)
      /\ offset' \in ObjectEnds(offset)
      /\ objects' = Append(objects, contentBuf[offset + 1].typeName)
      /\ UNCHANGED <<body, contentBuf, reading>>
  BY DEF ReadObject, ObjectLeft, input
<1>1. /\ Arrived /\ m \in 0..Len(body.objects)
      /\ objects = [i \in 1..m |-> body.objects[i].typeName]
      /\ offset = EndOf(m) /\ EndOf(m) < Len(contentBuf)
  BY <1>0 DEF ObjectsInv
<1>2. /\ body \in Bodies /\ Len(body.objects) \in Nat /\ body.claimed \in Nat
      /\ \A n \in 1..Len(body.objects) : body.objects[n] \in Object
  BY <1>1, PackedFacts DEF Arrived
<1>3. m # Len(body.objects)
  BY <1>0, <1>1, AtObject
<1>4. m \in Nat /\ m < Len(body.objects) /\ m + 1 \in 0..Len(body.objects) /\ m + 1 \in 1..Len(body.objects)
  BY <1>1, <1>2, <1>3
<1>. HIDE DEF m
<1>5. /\ contentBuf[EndOf(m) + 1].typeName = object.typeName
      /\ ObjectEnds(EndOf(m)) = IF object.stream <= MaxObjectSize
                                THEN {EndOf(m + 1)} \intersect (0..Len(contentBuf)) ELSE {}
  BY <1>1, <1>4, AtObject
<1>6. offset' = EndOf(m + 1) /\ offset' <= Len(contentBuf)
  BY <1>0, <1>1, <1>5
<1>7. objects' = Append(objects, object.typeName)
  BY <1>0, <1>1, <1>5
<1>8. Append(objects, object.typeName) = [i \in 1..m + 1 |-> body.objects[i].typeName]
      /\ Len(Append(objects, object.typeName)) = m + 1
  <2> DEFINE named(i) == body.objects[i].typeName
  <2>1. \A i \in 1..m + 1 : named(i) \in ObjectTypes
    BY <1>2, <1>4, ObjectFacts
  <2>2. PICK t \in ObjectTypes : t = object.typeName /\ t = named(m + 1)
    BY <1>4, <2>1
  <2>. HIDE DEF named
  <2>3. objects = [i \in 1..m |-> named(i)]
    BY <1>1 DEF named
  <2>4. objects \in Seq(ObjectTypes) /\ Len(objects) = m /\ \A i \in 1..m : objects[i] = named(i)
    BY <1>4, <2>1, <2>3
  <2>5. /\ Append(objects, t) \in Seq(ObjectTypes) /\ Len(Append(objects, t)) = m + 1
        /\ \A i \in 1..m : Append(objects, t)[i] = named(i)
        /\ Append(objects, t)[m + 1] = t
    BY <2>4
  <2> DEFINE all == [i \in 1..m + 1 |-> named(i)]
  <2>6. all \in Seq(ObjectTypes) /\ Len(all) = m + 1 /\ \A i \in 1..m + 1 : all[i] = named(i)
    BY <1>4, <2>1
  <2>. HIDE DEF all
  <2>7. \A i \in 1..m + 1 : Append(objects, t)[i] = all[i]
    BY <1>4, <2>2, <2>5, <2>6
  <2>8. Append(objects, t) = all
    BY <2>5, <2>6, <2>7, SeqEqual
  <2>. QED
    BY <2>2, <2>5, <2>8 DEF all, named
<1>9. Arrived'
  BY <1>0, <1>1 DEF Arrived, Packed
<1>10. PICK k \in Nat : k = m + 1
  BY <1>4
<1>11. /\ k \in 0..Len(body'.objects) /\ k <= body'.claimed /\ Len(objects') = k
       /\ objects' = [i \in 1..k |-> body'.objects[i].typeName]
       /\ offset' = Len(EncodeObjects(SubSeq(body'.objects, 1, k))) /\ offset' <= Len(contentBuf')
       /\ reading' = "objects"
  <2>1. k \in 0..Len(body.objects) /\ k <= body.claimed
    BY <1>0, <1>2, <1>4, <1>10 DEF m
  <2>2. offset' = Len(EncodeObjects(SubSeq(body.objects, 1, k)))
    BY <1>6, <1>10 DEF EndOf
  <2>. QED
    BY <1>0, <1>6, <1>7, <1>8, <1>10, <2>1, <2>2
<1>. QED
  BY <1>9, <1>11 DEF ObjectsInv, EndOf

LEMMA ObjectsNext ==
  ASSUME ObjectsInv, [ParserNext]_parserVars
  PROVE  ObjectsInv'
<1>0. /\ Arrived /\ body \in Bodies
      /\ Len(body.objects) \in Nat /\ body.claimed \in Nat /\ Len(contentBuf) \in Nat
      /\ EndOf(0) = 0
  BY PackedFacts, ArrivedFacts DEF ObjectsInv, Arrived
<1>1. ASSUME UNCHANGED <<body, contentBuf>>  PROVE Arrived' /\ \A n : EndOf(n)' = EndOf(n)
  BY <1>0, <1>1 DEF Arrived, Packed, EndOf
<1>2. ASSUME UNCHANGED <<body, contentBuf>>, reading' = "failed"  PROVE ObjectsInv'
  BY <1>1, <1>2 DEF ObjectsInv
<1>3. ASSUME UNCHANGED <<body, contentBuf, objects>>, reading \in {"lines", "signature"},
             reading' \in {"lines", "signature"}
      PROVE  ObjectsInv'
  BY <1>1, <1>3 DEF ObjectsInv
<1>4. CASE ReadFlush
  BY <1>3, <1>4 DEF ReadFlush, PacketLeft, input
<1>5. CASE ReadLine
  BY <1>3, <1>5 DEF ReadLine, PacketLeft, input
<1>6. CASE BadLine
  BY <1>2, <1>6 DEF BadLine, Fail, input
<1>7. CASE LinesEnd
  BY <1>3, <1>7 DEF LinesEnd, input
<1>8. CASE Signature
  <2>1. /\ UNCHANGED <<body, contentBuf>> /\ reading' = "objects" /\ offset' = 0
        /\ objects' = <<>>
    BY <1>8 DEF Signature, input, ObjectsInv
  <2>2. /\ Len(objects') = 0 /\ 0 \in 0..Len(body'.objects) /\ 0 <= body'.claimed
        /\ objects' = [i \in 1..0 |-> body'.objects[i].typeName]
        /\ offset' = Len(EncodeObjects(SubSeq(body'.objects, 1, 0))) /\ offset' <= Len(contentBuf')
    <3>1. [i \in 1..0 |-> body'.objects[i].typeName] = <<>>
      OBVIOUS
    <3>2. Len(EncodeObjects(SubSeq(body.objects, 1, 0))) = 0
      BY <1>0 DEF EndOf
    <3>. QED
      BY <1>0, <2>1, <3>1, <3>2
  <2>. QED
    BY <1>1, <2>1, <2>2 DEF ObjectsInv, EndOf
<1>9. CASE NoSignature
  BY <1>2, <1>9 DEF NoSignature, Fail, input
<1>10. CASE ReadObject
  BY <1>10, NextObject
<1>11. CASE BadObject
  BY <1>2, <1>11 DEF BadObject, Fail, input
<1>12. CASE ObjectsEnd
  <2>1. /\ reading = "objects" /\ ~(Len(objects) < body.claimed /\ offset < Len(contentBuf))
        /\ UNCHANGED <<body, contentBuf, objects, offset>> /\ reading' = "parsed"
    BY <1>12 DEF ObjectsEnd, ObjectLeft, input
  <2>2. /\ Len(objects) \in 0..Len(body.objects) /\ Len(objects) <= body.claimed
        /\ objects = [i \in 1..Len(objects) |-> body.objects[i].typeName]
        /\ offset = EndOf(Len(objects)) /\ offset <= Len(contentBuf)
    BY <2>1 DEF ObjectsInv
  <2>3. Len(objects) = body.claimed \/ offset = Len(contentBuf)
    <3>1. offset \in Nat
      BY <1>0, <2>2, PackedFacts
    <3>. QED
      BY <1>0, <2>1, <2>2, <3>1
  <2>. QED
    BY <1>1, <2>1, <2>2, <2>3 DEF ObjectsInv, EndOf
<1>13. CASE UNCHANGED parserVars
  BY <1>1, <1>13 DEF parserVars, input, ObjectsInv, EndOf
<1>. QED
  BY <1>4, <1>5, <1>6, <1>7, <1>8, <1>9, <1>10, <1>11, <1>12, <1>13 DEF ParserNext

-----------------------------------------------------------------------------
(* A push that arrived as it was encoded *)

IntactInv ==
    Intact => /\ reading # "failed"
              /\ reading = "parsed" => Len(objects) = body.claimed

LEMMA IntactEnding ==
  ASSUME body \in Bodies, Intact
  PROVE  /\ Len(Ending(body)) = 8
         /\ \A i \in 1..4 : Ending(body)[i] = 0 /\ Ending(body)[4 + i] = packSignature[i]
<1>1. Ending(body) = Flush \o packSignature
  BY DEF Intact, Ending
<1>2. Flush \in Seq(Char) /\ packSignature \in Seq(Char) /\ Len(Flush) = 4 /\ Len(packSignature) = 4
      /\ \A i \in 1..4 : Flush[i] = 0
  BY DEF Flush, packSignature, Char, NotHex
<1>3. PICK f, g \in Seq(Char) : f = Flush /\ g = packSignature
  BY <1>2
<1>4. /\ Len(f \o g) = Len(f) + Len(g)
      /\ \A i \in 1..Len(f) : (f \o g)[i] = f[i]
      /\ \A i \in 1..Len(g) : (f \o g)[Len(f) + i] = g[i]
  BY <1>3, Concatenated
<1>5. Ending(body) = f \o g /\ Len(f) = 4 /\ Len(g) = 4 /\ \A i \in 1..4 : f[i] = 0
  BY <1>1, <1>2, <1>3, Zenon
<1>6. PICK e : e = f \o g
  OBVIOUS
<1>7. Len(e) = 8 /\ \A i \in 1..4 : e[i] = 0 /\ e[4 + i] = g[i]
  BY <1>4, <1>5, <1>6
<1>. QED
  BY <1>3, <1>5, <1>6, <1>7, Zenon

LEMMA IntactLines ==
  ASSUME LinesInv, Intact
  PROVE  ~BadLine
<1>0. body \in Bodies /\ Len(lines) \in 0..Len(body.lines) /\ Len(body.lines) \in Nat
  BY BodyFacts DEF LinesInv
<1>1. SUFFICES ASSUME BadLine  PROVE FALSE
  OBVIOUS
<1>2. reading = "lines" /\ (~IsHex \/ (Length # 0 /\ ~ValidLength))
  BY <1>1 DEF BadLine, PacketLeft
<1>3. CASE Len(lines) < Len(body.lines)
  BY <1>2, <1>3, AtLine
<1>4. CASE Len(lines) = Len(body.lines)
  <2>1. \A i \in 1..4 : Digit(i) = 0
    <3>1. Len(Ending(body)) = 8 /\ \A i \in 1..4 : Ending(body)[i] = 0
      BY <1>0, IntactEnding
    <3>2. packetSize <= Len(Ending(body)) => \A i \in 1..packetSize : Digit(i) = Ending(body)[i]
      BY <1>2, <1>4, AtEnding
    <3>. QED
      BY <3>1, <3>2 DEF packetSize
  <2>2. IsHex
    BY <2>1 DEF IsHex, packetSize, NotHex
  <2>3. Length = 0
    BY <2>1 DEF Length, HexValue, packetSize
  <2>. QED
    BY <1>2, <2>2, <2>3
<1>. QED
  BY <1>0, <1>3, <1>4

LEMMA IntactSignature ==
  ASSUME LinesInv, Intact, reading = "signature"
  PROVE  StartsPack
<1> DEFINE rest == Ending(body)
           at == Len(EncodeLines(body.lines))
<1>1. /\ body \in Bodies /\ buf = EncodeLines(body.lines) \o rest
      /\ lines = body.lines
      /\ \/ Flushed(body) /\ offset = at + packetSize
         \/ Len(rest) < packetSize /\ offset = at
  BY DEF LinesInv
<1>2. Len(rest) = 8 /\ \A i \in 1..4 : rest[4 + i] = packSignature[i]
  BY <1>1, IntactEnding
<1>3. /\ at \in Nat /\ buf \in Seq(Char) /\ Len(buf) = at + Len(rest)
      /\ \A i \in 1..Len(rest) : buf[at + i] = rest[i]
  BY <1>1, EndingLies
<1>. HIDE DEF rest, at
<1>4. offset = at + 4 /\ Len(buf) = at + 8
  BY <1>1, <1>2, <1>3 DEF packetSize
<1>5. \A i \in 1..4 : buf[at + 4 + i] = packSignature[i]
  <2>1. ASSUME NEW i \in 1..4  PROVE buf[at + 4 + i] = packSignature[i]
    <3>1. 4 + i \in 1..8 /\ at + (4 + i) = at + 4 + i
      BY <1>3
    <3>. QED
      BY <1>2, <1>3, <2>1, <3>1
  <2>. QED
    BY <2>1
<1>6. SubSeq(buf, offset + 1, offset + packetSize) = packSignature
  <2>1. PICK p, q : p = offset + 1 /\ q = offset + packetSize
    OBVIOUS
  <2>2. p = at + 5 /\ q = at + 8 /\ p \in 1..Len(buf) /\ q \in 1..Len(buf)
    BY <1>3, <1>4, <2>1 DEF packetSize
  <2>3. SubSeq(buf, p, q) \in Seq(Char) /\ Len(SubSeq(buf, p, q)) = 4
        /\ \A i \in 1..4 : SubSeq(buf, p, q)[i] = buf[p + i - 1]
    BY <1>3, <2>2
  <2>4. \A i \in 1..4 : p + i - 1 = at + 4 + i
    BY <1>3, <2>2
  <2>5. packSignature \in Seq(Char) /\ Len(packSignature) = 4
    BY DEF packSignature, Char, NotHex
  <2>6. SubSeq(buf, p, q) = packSignature
    <3>1. PICK s, t : s = SubSeq(buf, p, q) /\ t = packSignature
      OBVIOUS
    <3>2. \A i \in 1..4 : s[i] = t[i]
      BY <1>5, <2>3, <2>4, <3>1
    <3>3. s \in Seq(Char) /\ t \in Seq(Char) /\ Len(s) = 4 /\ Len(t) = 4
      BY <2>3, <2>5, <3>1
    <3>4. s = t
      BY <3>2, <3>3, SeqEqual
    <3>. QED
      BY <3>1, <3>4
  <2>. QED
    BY <2>1, <2>6
<1>7. offset + packetSize <= Len(buf)
  BY <1>3, <1>4 DEF packetSize
<1>. QED
  BY <1>1, <1>6, <1>7 DEF StartsPack, SignatureAt, Intact

\* Everything arrived, so the bytes do not end before the last object, and every object
\* that the pack claims is there and small enough.
LEMMA IntactObjects ==
  ASSUME ObjectsInv, Intact
  PROVE  /\ ~BadObject
         /\ ObjectsEnd => Len(objects) = body.claimed
<1> DEFINE m == Len(objects)
<1>1. SUFFICES ASSUME reading = "objects"
               PROVE  /\ ~BadObject
                      /\ ObjectsEnd => m = body.claimed
  BY DEF BadObject, ObjectsEnd, ObjectLeft
<1>2. /\ Arrived /\ m \in 0..Len(body.objects) /\ m <= body.claimed /\ offset = EndOf(m)
  BY <1>1 DEF ObjectsInv
<1>3. /\ body \in Bodies /\ Len(body.objects) \in Nat /\ body.claimed \in Nat /\ body.objects \in Seq(Object)
      /\ \A n \in 0..Len(body.objects) : EndOf(n) \in Nat /\ EndOf(n) < Len(contentBuf)
      /\ body.claimed <= Len(body.objects)
      /\ \A i \in 1..Len(body.objects) : body.objects[i].stream <= MaxObjectSize
  <2>1. body \in Bodies
    BY <1>2 DEF Arrived
  <2>2. body.objects \in Seq(Object) /\ body.lost = 0
    BY <2>1, PackedFacts DEF Intact
  <2>. QED
    BY <1>2, <2>1, <2>2, PackedFacts, ArrivedFacts DEF Intact
<1>. HIDE DEF m
<1>4. offset < Len(contentBuf) /\ Len(contentBuf) \in Nat
  BY <1>2, <1>3, ArrivedFacts
<1>5. ~BadObject
  <2>1. SUFFICES ASSUME m < body.claimed  PROVE ObjectEnds(offset) # {}
    BY DEF BadObject, ObjectLeft, m
  <2>2. m < Len(body.objects) /\ m + 1 \in 0..Len(body.objects) /\ m + 1 \in 1..Len(body.objects)
    BY <1>2, <1>3, <2>1
  <2>3. ObjectEnds(EndOf(m)) = {EndOf(m + 1)} \intersect (0..Len(contentBuf))
    BY <1>2, <1>3, <1>4, <2>2, AtObject
  <2>4. EndOf(m + 1) \in 0..Len(contentBuf)
    BY <1>3, <1>4, <2>2
  <2>. QED
    BY <1>2, <2>3, <2>4
<1>6. ASSUME ObjectsEnd  PROVE m = body.claimed
  <2>1. ~(m < body.claimed)
    BY <1>1, <1>4, <1>6 DEF ObjectsEnd, ObjectLeft, m
  <2>. QED
    BY <1>2, <1>3, <2>1
<1>. QED
  BY <1>5, <1>6

LEMMA IntactNext ==
  ASSUME LinesInv, ObjectsInv, IntactInv, [ParserNext]_parserVars
  PROVE  IntactInv'
<1>1. body' = body
  BY DEF ParserNext, parserVars, input, ReadFlush, ReadLine, BadLine, LinesEnd, Signature,
         NoSignature, ReadObject, BadObject, ObjectsEnd, Fail
<1>2. SUFFICES ASSUME Intact
               PROVE  reading' # "failed" /\ (reading' = "parsed" => Len(objects') = body.claimed)
  BY <1>1 DEF IntactInv, Intact
<1>3. reading # "failed" /\ (reading = "parsed" => Len(objects) = body.claimed)
  BY <1>2 DEF IntactInv
<1>4. ~BadLine /\ ~BadObject /\ ~NoSignature
  BY <1>2, IntactLines, IntactObjects, IntactSignature DEF NoSignature
<1>5. CASE ObjectsEnd
  BY <1>2, <1>5, IntactObjects DEF ObjectsEnd
<1>6. CASE ReadFlush \/ ReadLine \/ LinesEnd \/ Signature \/ ReadObject
  BY <1>6 DEF ReadFlush, ReadLine, PacketLeft, LinesEnd, Signature, ReadObject, ObjectLeft
<1>7. CASE UNCHANGED parserVars
  BY <1>3, <1>7 DEF parserVars, input
<1>. QED
  BY <1>4, <1>5, <1>6, <1>7 DEF ParserNext

-----------------------------------------------------------------------------
(* Theorems about the body *)

LEMMA ParserInvariant == ParserSpec => [](LinesInv /\ ObjectsInv /\ IntactInv)
<1>1. ParserInit => LinesInv /\ ObjectsInv /\ IntactInv
  BY InitLines, InitObjects DEF ParserInit, IntactInv
<1>2. LinesInv /\ ObjectsInv /\ IntactInv /\ [ParserNext]_parserVars
      => (LinesInv /\ ObjectsInv /\ IntactInv)'
  BY LinesNext, ObjectsNext, IntactNext
<1>. QED
  BY <1>1, <1>2, PTL DEF ParserSpec

\* The parser never loses its place in a push body (parsePacketLines and
\* decompressGitObjects): whatever lines and objects a body holds, whatever follows its
\* lines and wherever its pack is cut off, what was read is the beginning of what was
\* sent, and the parser stands where the next line or object starts.
THEOREM ParserKeepsItsPlace == ParserSpec => []ReadsWhatWasSent
<1>1. LinesInv /\ ObjectsInv => ReadsWhatWasSent
  <2>1. SUFFICES ASSUME LinesInv, ObjectsInv  PROVE ReadsWhatWasSent
    OBVIOUS
  <2>2. IsPrefix(lines, body.lines)
    <3>1. /\ body.lines \in Seq(Seq(Char)) /\ Len(lines) \in 0..Len(body.lines)
          /\ lines = SubSeq(body.lines, 1, Len(lines))
      BY <2>1, BodyFacts DEF LinesInv
    <3>. QED
      BY <3>1 DEF IsPrefix
  <2>3. reading = "lines" => offset = Len(EncodeLines(lines))
    BY <2>1 DEF LinesInv
  <2>4. ASSUME reading \in {"objects", "parsed"}
        PROVE  LET read == SubSeq(body.objects, 1, Len(objects)) IN
               /\ Len(objects) <= Len(body.objects)
               /\ objects = [i \in DOMAIN read |-> read[i].typeName]
               /\ offset = Len(EncodeObjects(read))
    <3>1. /\ Len(objects) \in 0..Len(body.objects)
          /\ objects = [i \in 1..Len(objects) |-> body.objects[i].typeName]
          /\ offset = EndOf(Len(objects))
          /\ body.objects \in Seq(Object) /\ Len(body.objects) \in Nat
      BY <2>1, <2>4, PackedFacts DEF ObjectsInv, Arrived
    <3> DEFINE read == SubSeq(body.objects, 1, Len(objects))
    <3>2. DOMAIN read = 1..Len(objects) /\ \A i \in 1..Len(objects) : read[i] = body.objects[i]
      <4>1. PICK n : n = Len(objects)
        OBVIOUS
      <4>2. /\ n \in 0..Len(body.objects)
            /\ SubSeq(body.objects, 1, n) = [i \in 1..n |-> body.objects[i]]
        BY <3>1, <4>1
      <4>. QED
        BY <4>1, <4>2
    <3>3. offset = Len(EncodeObjects(read))
      BY <3>1 DEF EndOf
    <3>. HIDE DEF read
    <3>4. objects = [i \in DOMAIN read |-> read[i].typeName]
      BY <3>1, <3>2
    <3>. QED
      BY <3>1, <3>3, <3>4 DEF read
  <2>. QED
    BY <2>2, <2>3, <2>4 DEF ReadsWhatWasSent
<1>. QED
  BY <1>1, ParserInvariant, PTL

\* A push that arrived as it was encoded is never refused for its framing, and when it is
\* parsed, all its lines and as many objects as the pack claims were read.
THEOREM IntactBodiesAreParsed == ParserSpec => []IntactPushIsParsed
<1>1. LinesInv /\ IntactInv => IntactPushIsParsed
  BY DEF LinesInv, IntactInv, IntactPushIsParsed
<1>. QED
  BY <1>1, ParserInvariant, PTL

\* Only a body with one ref update, a flush packet right after its lines and a pack right
\* after that is parsed, and objects are missing only where the bytes end with an object.
THEOREM OnlyFramedBodiesAreParsed == ParserSpec => []ParsedMeansFramed
<1>1. LinesInv /\ ObjectsInv => ParsedMeansFramed
  <2>1. SUFFICES ASSUME LinesInv, ObjectsInv, reading = "parsed"
                 PROVE  /\ lines = body.lines /\ OneRefUpdate(lines)
                        /\ body.tail = Flush /\ body.pack
                        /\ Len(objects) < body.claimed => offset = Len(contentBuf)
    BY DEF ParsedMeansFramed
  <2>2. body.claimed \in Nat
    BY <2>1, PackedFacts DEF ObjectsInv, Arrived
  <2>. QED
    BY <2>1, <2>2 DEF LinesInv, ObjectsInv
<1>. QED
  BY <1>1, ParserInvariant, PTL

-----------------------------------------------------------------------------
(* The commits of the pack *)

\* What getCommitData has read after object n, given what it had before.
NextRead(before, n) ==
    IF push.commit[push.pack[n]].form = "commit" THEN Append(before, push.pack[n]) ELSE before

IsRead(f, N) == f = [n \in 0..N |-> IF n = 0 THEN <<>> ELSE NextRead(f[n - 1], n)]

LEMMA ReadExists ==
  ASSUME NEW N \in Nat
  PROVE  \E f : IsRead(f, N)
<1> DEFINE S == {k \in Nat : \E f : IsRead(f, k)}
<1>1. 0 \in S
  <2>1. IsRead([n \in 0..0 |-> <<>>], 0)
    BY DEF IsRead
  <2>. QED
    BY <2>1
<1>2. ASSUME NEW k \in Nat, k \in S  PROVE k + 1 \in S
  <2>1. PICK f : IsRead(f, k)
    BY <1>2
  <2> DEFINE g == [n \in 0..k + 1 |-> IF n <= k THEN f[n] ELSE NextRead(f[k], k + 1)]
  <2>2. /\ \A n \in 0..k : g[n] = f[n]
        /\ g[k + 1] = NextRead(f[k], k + 1)
        /\ g = [n \in 0..k + 1 |-> g[n]]
    OBVIOUS
  <2>3. \A n \in 0..k : f[n] = IF n = 0 THEN <<>> ELSE NextRead(f[n - 1], n)
    BY <2>1 DEF IsRead
  <2>. HIDE DEF g
  <2>4. ASSUME NEW n \in 0..k + 1  PROVE g[n] = IF n = 0 THEN <<>> ELSE NextRead(g[n - 1], n)
    <3>1. n = 0 \/ n - 1 \in 0..k
      OBVIOUS
    <3>. QED
      BY <2>2, <2>3, <3>1
  <2>5. IsRead(g, k + 1)
    BY <2>2, <2>4 DEF IsRead
  <2>. QED
    BY <2>5
<1>. HIDE DEF S
<1>3. Nat \subseteq S
  BY <1>1, <1>2, NextInduction
<1>. QED
  BY <1>3 DEF S

LEMMA ReadUnfolds ==
  ASSUME Len(push.pack) \in Nat
  PROVE  IsRead(CommitsRead, Len(push.pack))
<1>1. \E f : IsRead(f, Len(push.pack))
  BY ReadExists
<1>2. CommitsRead = CHOOSE f : IsRead(f, Len(push.pack))
  BY Zenon DEF CommitsRead, IsRead, NextRead
<1>. QED
  BY <1>1, <1>2, Zenon

\* The whole commits among the first n objects.
WholeAmong(n) == {push.pack[i] : i \in {j \in 1..n : push.commit[push.pack[j]].form = "commit"}}

\* What has been read after n objects is the whole commits among them.
ReadsTheWhole(n) == CommitsRead[n] \in Seq(Commits) /\ ToSet(CommitsRead[n]) = WholeAmong(n)

LEMMA WholeCommitsAreRead ==
  ASSUME push.pack \in Seq(Commits)
  PROVE  /\ getCommitData \in Seq(Commits)
         /\ ToSet(getCommitData) = {c \in ToSet(push.pack) : push.commit[c].form = "commit"}
<1> DEFINE N == Len(push.pack)
           S == {n \in Nat : n <= N => ReadsTheWhole(n)}
<1>1. N \in Nat /\ DOMAIN push.pack = 1..N
  OBVIOUS
<1>2. /\ CommitsRead[0] = <<>>
      /\ \A n \in 1..N : CommitsRead[n] = NextRead(CommitsRead[n - 1], n)
  BY <1>1, ReadUnfolds DEF IsRead
<1>3. ReadsTheWhole(0)
  BY <1>2 DEF ReadsTheWhole, WholeAmong, ToSet
<1>4. ASSUME NEW n \in Nat, ReadsTheWhole(n), n + 1 <= N  PROVE ReadsTheWhole(n + 1)
  <2> DEFINE s == CommitsRead[n]
             c == push.pack[n + 1]
  <2>1. s \in Seq(Commits) /\ ToSet(s) = WholeAmong(n) /\ c \in Commits
        /\ CommitsRead[n + 1] = IF push.commit[c].form = "commit" THEN Append(s, c) ELSE s
    BY <1>1, <1>2, <1>4 DEF NextRead, ReadsTheWhole
  <2>2. WholeAmong(n + 1) = WholeAmong(n) \union (IF push.commit[c].form = "commit" THEN {c} ELSE {})
    <3>1. \A j : j \in 1..n + 1 <=> j \in 1..n \/ j = n + 1
      OBVIOUS
    <3>. QED
      BY <3>1 DEF WholeAmong
  <2>. HIDE DEF s, c
  <2>3. Append(s, c) \in Seq(Commits) /\ ToSet(Append(s, c)) = ToSet(s) \union {c}
    <3>1. /\ Len(s) \in Nat /\ DOMAIN s = 1..Len(s) /\ DOMAIN Append(s, c) = 1..Len(s) + 1
          /\ Append(s, c)[Len(s) + 1] = c /\ \A i \in 1..Len(s) : Append(s, c)[i] = s[i]
      BY <2>1
    <3>2. \A i : i \in 1..Len(s) + 1 <=> i \in 1..Len(s) \/ i = Len(s) + 1
      BY <3>1
    <3>. QED
      BY <2>1, <3>1, <3>2 DEF ToSet
  <2>. QED
    BY <2>1, <2>2, <2>3 DEF ReadsTheWhole
<1>5. 0 \in S /\ \A n \in Nat : n \in S => n + 1 \in S
  BY <1>1, <1>3, <1>4
<1>. HIDE DEF S
<1>6. Nat \subseteq S
  BY <1>5, NextInduction
<1>7. ReadsTheWhole(N)
  BY <1>1, <1>6 DEF S
<1>. QED
  BY <1>1, <1>7 DEF ReadsTheWhole, WholeAmong, getCommitData, ToSet

\* Of a pack of whole commits, getCommitData reads all, in their order.
LEMMA WholePackIsRead ==
  ASSUME push.pack \in Seq(Commits), Whole
  PROVE  getCommitData = push.pack
<1> DEFINE N == Len(push.pack)
           ReadAll(n) == /\ Len(CommitsRead[n]) = n /\ CommitsRead[n] \in Seq(Commits)
                         /\ \A i \in 1..n : CommitsRead[n][i] = push.pack[i]
           S == {n \in Nat : n <= N => ReadAll(n)}
<1>1. N \in Nat /\ DOMAIN push.pack = 1..N
  OBVIOUS
<1>2. /\ CommitsRead[0] = <<>>
      /\ \A n \in 1..N : CommitsRead[n] = NextRead(CommitsRead[n - 1], n)
  BY <1>1, ReadUnfolds DEF IsRead
<1>3. ReadAll(0)
  BY <1>2
<1>4. ASSUME NEW n \in Nat, ReadAll(n), n + 1 <= N  PROVE ReadAll(n + 1)
  <2>1. push.pack[n + 1] \in Commits /\ push.commit[push.pack[n + 1]].form = "commit"
    BY <1>1, <1>4 DEF Whole, ToSet
  <2>2. CommitsRead[n + 1] = Append(CommitsRead[n], push.pack[n + 1])
    <3>1. n + 1 \in 1..N /\ (n + 1) - 1 = n
      BY <1>1, <1>4
    <3>2. CommitsRead[n + 1] = NextRead(CommitsRead[n], n + 1)
      BY <1>2, <3>1, Zenon
    <3>. QED
      BY <2>1, <3>2, Zenon DEF NextRead
  <2>3. \A s \in Seq(Commits), c \in Commits :
           Len(s) = n => /\ Append(s, c) \in Seq(Commits) /\ Len(Append(s, c)) = n + 1
                         /\ Append(s, c)[n + 1] = c /\ \A i \in 1..n : Append(s, c)[i] = s[i]
    OBVIOUS
  <2>4. /\ Len(CommitsRead[n + 1]) = n + 1 /\ CommitsRead[n + 1] \in Seq(Commits)
        /\ CommitsRead[n + 1][n + 1] = push.pack[n + 1]
        /\ \A i \in 1..n : CommitsRead[n + 1][i] = CommitsRead[n][i]
    BY <1>4, <2>1, <2>2, <2>3
  <2>5. \A i \in 1..n + 1 : i \in 1..n \/ i = n + 1
    OBVIOUS
  <2>. QED
    BY <1>4, <2>4, <2>5
<1>5. 0 \in S /\ \A n \in Nat : n \in S => n + 1 \in S
  BY <1>1, <1>3, <1>4
<1>. HIDE DEF S
<1>6. Nat \subseteq S
  BY <1>5, NextInduction
<1>7. ReadAll(N)
  BY <1>1, <1>6 DEF S
<1>8. \A s, t \in Seq(Commits) : Len(s) = Len(t) /\ (\A i \in 1..Len(t) : s[i] = t[i]) => s = t
  OBVIOUS
<1>. QED
  BY <1>7, <1>8 DEF getCommitData

-----------------------------------------------------------------------------
(* Ancestors *)

\* No commit comes before its parents.
Ordered(parents) == \A c \in Commits : \A p \in ToSet(parents[c]) : p \in 1..c - 1

IsReach(f, parents, n) ==
    f = [c \in 1..n |-> {c} \union UNION {f[p] : p \in ToSet(parents[c])}]

LEMMA ReachExists ==
  ASSUME MaxCommit \in Nat, NEW parents, Ordered(parents)
  PROVE  \E f : IsReach(f, parents, MaxCommit)
<1> DEFINE S == {n \in Nat : n <= MaxCommit => \E f : IsReach(f, parents, n)}
<1>1. 0 \in S
  <2>1. \E f : IsReach(f, parents, 0)
    <3>1. IsReach([c \in 1..0 |-> {}], parents, 0)
      BY DEF IsReach
    <3>. QED
      BY <3>1
  <2>. QED
    BY <2>1
<1>2. ASSUME NEW n \in Nat, n \in S, n + 1 <= MaxCommit  PROVE \E g : IsReach(g, parents, n + 1)
  <2>1. PICK f : IsReach(f, parents, n)
    BY <1>2
  <2> DEFINE last == {n + 1} \union UNION {f[p] : p \in ToSet(parents[n + 1])}
             g == [c \in 1..n + 1 |-> IF c <= n THEN f[c] ELSE last]
  <2>2. /\ \A c \in 1..n : g[c] = f[c] /\ c \in Commits
        /\ g[n + 1] = last /\ n + 1 \in Commits
        /\ g = [c \in 1..n + 1 |-> g[c]]
    BY <1>2 DEF Commits
  <2>3. \A c \in 1..n : f[c] = {c} \union UNION {f[p] : p \in ToSet(parents[c])}
    BY <2>1 DEF IsReach
  <2>. HIDE DEF g
  <2>4. ASSUME NEW c \in 1..n + 1  PROVE g[c] = {c} \union UNION {g[p] : p \in ToSet(parents[c])}
    <3>1. \A p \in ToSet(parents[c]) : p \in 1..n
      <4>1. c \in Commits
        BY <2>2
      <4>2. \A p \in ToSet(parents[c]) : p \in 1..c - 1
        BY <4>1 DEF Ordered
      <4>. QED
        BY <4>2
    <3>2. {g[p] : p \in ToSet(parents[c])} = {f[p] : p \in ToSet(parents[c])}
      BY <2>2, <3>1
    <3>3. g[c] = {c} \union UNION {f[p] : p \in ToSet(parents[c])}
      <4>1. c \in 1..n \/ c = n + 1
        OBVIOUS
      <4>. QED
        BY <2>2, <2>3, <4>1
    <3>. QED
      BY <3>2, <3>3
  <2>5. IsReach(g, parents, n + 1)
    BY <2>2, <2>4 DEF IsReach
  <2>. QED
    BY <2>5
<1>3. \A n \in Nat : n \in S => n + 1 \in S
  BY <1>2
<1>. HIDE DEF S
<1>4. Nat \subseteq S
  BY <1>1, <1>3, NextInduction
<1>. QED
  BY <1>4 DEF S

LEMMA AncestorsUnfold ==
  ASSUME MaxCommit \in Nat, NEW parents, Ordered(parents), NEW c \in Commits
  PROVE  Ancestors(parents)[c] = {c} \union UNION {Ancestors(parents)[p] : p \in ToSet(parents[c])}
<1>1. \E f : IsReach(f, parents, MaxCommit)
  BY ReachExists
<1>2. Ancestors(parents) = CHOOSE f : IsReach(f, parents, MaxCommit)
  BY Zenon DEF Ancestors, IsReach, Commits
<1>3. IsReach(Ancestors(parents), parents, MaxCommit)
  BY <1>1, <1>2, Zenon
<1>. QED
  BY <1>3 DEF IsReach, Commits

\* The ancestors of an ancestor are ancestors.
LEMMA AncestorsOfAncestors ==
  ASSUME MaxCommit \in Nat, NEW parents, Ordered(parents), NEW c \in Commits,
         NEW d \in Ancestors(parents)[c]
  PROVE  Ancestors(parents)[d] \subseteq Ancestors(parents)[c]
<1> DEFINE reach == Ancestors(parents)
           S == {n \in Nat : n \in Commits => \A y \in reach[n] : reach[y] \subseteq reach[n]}
<1>1. ASSUME NEW n \in Nat, \A m \in 0..n - 1 : m \in S, n \in Commits, NEW y \in reach[n]
      PROVE  reach[y] \subseteq reach[n]
  <2>1. reach[n] = {n} \union UNION {reach[p] : p \in ToSet(parents[n])}
    BY <1>1, AncestorsUnfold
  <2>2. CASE y # n
    <3>1. PICK p \in ToSet(parents[n]) : y \in reach[p]
      BY <1>1, <2>1, <2>2
    <3>2. p \in 1..n - 1
      BY <1>1, <3>1 DEF Ordered
    <3>3. p \in 0..n - 1 /\ p \in Commits
      BY <1>1, <3>2 DEF Commits
    <3>4. reach[y] \subseteq reach[p]
      BY <1>1, <3>1, <3>3
    <3>. QED
      BY <2>1, <3>1, <3>4
  <2>. QED
    BY <2>2
<1>2. \A n \in Nat : (\A m \in 0..n - 1 : m \in S) => n \in S
  BY <1>1
<1>. HIDE DEF S, reach
<1>3. Nat \subseteq S
  BY <1>2, SetInduction
<1>4. c \in Nat
  BY DEF Commits
<1>. QED
  BY <1>3, <1>4 DEF S, reach

\* What the shallow checkout hides of a commit's ancestors, the upstream has.
LEMMA ShallowHidesUpstream ==
  ASSUME MaxCommit \in Nat, Ordered(push.parents), checkout \subseteq Commits, NEW c \in Commits,
         NEW x \in Ancestors(push.parents)[c], x \notin Upstream
  PROVE  x \in Ancestors(Shallow)[c]
<1> DEFINE full == Ancestors(push.parents)
           cut == Ancestors(Shallow)
           S == {n \in Nat : n \in Commits => \A y \in full[n] : y \in Upstream \/ y \in cut[n]}
<1>0. /\ Ordered(Shallow)
      /\ \A b \in checkout : \A y \in full[b] : y \in Upstream
  <2>1. \A b \in Commits : ToSet(Shallow[b]) \subseteq ToSet(push.parents[b])
    BY DEF Shallow, ToSet
  <2>. QED
    BY <2>1 DEF Ordered, Upstream
<1>1. ASSUME NEW n \in Nat, \A m \in 0..n - 1 : m \in S, n \in Commits,
             NEW y \in full[n], y \notin Upstream
      PROVE  y \in cut[n]
  <2>1. full[n] = {n} \union UNION {full[p] : p \in ToSet(push.parents[n])}
    BY <1>1, AncestorsUnfold
  <2>2. cut[n] = {n} \union UNION {cut[p] : p \in ToSet(Shallow[n])}
    BY <1>0, <1>1, AncestorsUnfold
  <2>3. CASE y = n
    BY <2>2, <2>3
  <2>4. CASE y # n
    <3>1. PICK p \in ToSet(push.parents[n]) : y \in full[p]
      BY <1>1, <2>1, <2>4
    <3>2. n \notin checkout
      BY <1>0, <1>1
    <3>3. p \in ToSet(Shallow[n])
      BY <1>1, <3>1, <3>2 DEF Shallow
    <3>4. p \in 0..n - 1 /\ p \in Commits
      <4>1. p \in 1..n - 1
        BY <1>1, <3>1 DEF Ordered
      <4>. QED
        BY <1>1, <4>1 DEF Commits
    <3>5. y \in cut[p]
      BY <1>1, <3>1, <3>4
    <3>. QED
      BY <2>2, <3>3, <3>5
  <2>. QED
    BY <2>3, <2>4
<1>2. \A n \in Nat : (\A m \in 0..n - 1 : m \in S) => n \in S
  BY <1>1
<1>. HIDE DEF S, full, cut
<1>3. Nat \subseteq S
  BY <1>2, SetInduction
<1>4. c \in Nat
  BY DEF Commits
<1>. QED
  BY <1>3, <1>4 DEF S, full, cut

-----------------------------------------------------------------------------
(* The chain *)

\* The stages after a processor has passed the push on.
FromDiff == {"gitleaks", "scanDiff", "held"}
FromRange == FromDiff \union {"getDiff"}
FromPack == FromRange \union {"checkHiddenCommits"}
FromAuthors == FromPack \union {"checkUserPushPermission", "pullRemote", "writePack"}
FromMessages == FromAuthors \union {"checkAuthorEmails"}
FromBranch == FromMessages \union {"checkRepo", "checkCommitMessages"}
FromParse == FromBranch \union {"checkEmptyBranch"}

\* What each processor has found stays true of what the later ones work on.
ChecksInv ==
    /\ push \in Pushes
    /\ heads \in [Branches -> Commits \union {Zero}] /\ checkout \subseteq Commits
    /\ stage \in FromParse => commitData = getCommitData /\ commitFrom = RangeStart(commitData)
    /\ stage \in FromBranch => commitData # <<>>
    /\ stage \in FromMessages =>
          \A c \in ToSet(commitData) : isMessageAllowed(push.commit[c].message)
    /\ stage \in FromAuthors =>
          \A c \in ToSet(commitData) : isEmailAllowed(push.commit[c].author)
    /\ stage \in FromPack => newIdxFiles = IF push.unpacks THEN ToSet(push.pack) ELSE {}
    /\ stage \in FromRange => ~RevListFails /\ newIdxFiles \subseteq RevList
    /\ stage \in FromDiff => diffBase = DiffBase /\ DiffBase \in Objects \union {EmptyTree}

LEMMA SameResults ==
  ASSUME UNCHANGED <<push, commitData, commitFrom, checkout, newIdxFiles>>
  PROVE  /\ getCommitData' = getCommitData /\ RangeStart(commitData)' = RangeStart(commitData)
         /\ RevList' = RevList /\ (RevListFails' <=> RevListFails)
         /\ Objects' = Objects /\ DiffBase' = DiffBase
  BY DEF getCommitData, CommitsRead, RangeStart, RevList, RevListFails, Objects, DiffBase, Shallow,
     Parent

\* Nothing is lost of what was found when no result changes.
LEMMA StageKeepsInv ==
  ASSUME ChecksInv, UNCHANGED <<push, results>>,
         heads' \in [Branches -> Commits \union {Zero}],
         \/ stage' \in {stage, "refused"}
         \/ stage = "checkEmptyBranch" /\ stage' = "checkRepo" /\ commitData # <<>>
         \/ stage = "checkRepo" /\ stage' = "checkCommitMessages"
         \/ stage = "checkCommitMessages" /\ stage' = "checkAuthorEmails"
            /\ \A c \in ToSet(commitData) : isMessageAllowed(push.commit[c].message)
         \/ stage = "checkAuthorEmails" /\ stage' = "checkUserPushPermission"
            /\ \A c \in ToSet(commitData) : isEmailAllowed(push.commit[c].author)
         \/ stage = "checkUserPushPermission" /\ stage' = "pullRemote"
         \/ stage = "checkHiddenCommits" /\ stage' = "getDiff"
            /\ ~RevListFails /\ newIdxFiles \subseteq RevList
         \/ stage = "gitleaks" /\ stage' = "scanDiff"
  PROVE  ChecksInv'
<1>1. /\ getCommitData' = getCommitData /\ RangeStart(commitData)' = RangeStart(commitData)
      /\ RevList' = RevList /\ (RevListFails' <=> RevListFails)
      /\ Objects' = Objects /\ DiffBase' = DiffBase
  BY SameResults DEF results
<1>. QED
  BY <1>1 DEF ChecksInv, results, FromParse, FromBranch, FromMessages, FromAuthors, FromPack,
     FromRange, FromDiff

LEMMA ChecksInvIsInductive ==
  ASSUME ChecksInv, [Next]_vars
  PROVE  ChecksInv'
<1> USE DEF FromParse, FromBranch, FromMessages, FromAuthors, FromPack, FromRange, FromDiff
<1>0. heads \in [Branches -> Commits \union {Zero}]
  BY DEF ChecksInv
<1>1. CASE UNCHANGED vars
  BY <1>0, <1>1, StageKeepsInv DEF vars, results
<1>2. CASE ParsePush
  <2>1. CASE stage' = "refused" /\ UNCHANGED <<push, heads, results>>
    BY <1>0, <2>1, StageKeepsInv
  <2>2. CASE /\ commitData' = getCommitData /\ commitFrom' = RangeStart(getCommitData)
             /\ stage' = "checkEmptyBranch" /\ UNCHANGED <<world, checkout>>
    <3>1. getCommitData' = getCommitData
      BY <2>2 DEF world, getCommitData, CommitsRead
    <3>2. RangeStart(commitData)' = RangeStart(getCommitData)
      BY <2>2 DEF world, RangeStart, Parent
    <3>. QED
      BY <2>2, <3>1, <3>2 DEF ChecksInv, world
  <2>. QED
    BY <1>2, <2>1, <2>2 DEF ParsePush, Refuse, world
<1>3. CASE \/ CheckEmptyBranch \/ CheckRepoInAuthorisedList \/ CheckCommitMessages
           \/ CheckAuthorEmails \/ CheckUserPushPermission \/ CheckHiddenCommits \/ RunGitleaks
  BY <1>0, <1>3, StageKeepsInv DEF CheckEmptyBranch, CheckRepoInAuthorisedList, CheckCommitMessages,
     CheckAuthorEmails, CheckUserPushPermission, CheckHiddenCommits, RunGitleaks, Pass, Refuse,
     world, results
<1>4. CASE PullRemote
  <2>1. checkout' \subseteq Commits
    BY <1>0, <1>4 DEF PullRemote
  <2>2. getCommitData' = getCommitData /\ RangeStart(commitData)' = RangeStart(commitData)
    BY <1>4 DEF PullRemote, world, getCommitData, CommitsRead, RangeStart, Parent
  <2>. QED
    BY <1>4, <2>1, <2>2 DEF PullRemote, ChecksInv, world
<1>5. CASE WritePack
  <2>1. getCommitData' = getCommitData /\ RangeStart(commitData)' = RangeStart(commitData)
    BY <1>5 DEF WritePack, world, getCommitData, CommitsRead, RangeStart, Parent
  <2>. QED
    BY <1>5, <2>1 DEF WritePack, ChecksInv, world
<1>6. CASE GetDiff
  <2>1. CASE stage' = "refused" /\ UNCHANGED <<push, heads, results>>
    BY <1>0, <2>1, StageKeepsInv
  <2>2. CASE /\ DiffBase \in Objects \union {EmptyTree} /\ diffBase' = DiffBase
             /\ stage = "getDiff" /\ stage' = "gitleaks"
             /\ UNCHANGED <<world, commitData, commitFrom, checkout, newIdxFiles>>
    BY <2>2, SameResults DEF ChecksInv, world
  <2>. QED
    BY <1>6, <2>1, <2>2 DEF GetDiff, Refuse, world
<1>7. CASE ScanDiff
  <2>1. /\ stage = "scanDiff" /\ stage' \in {"held", "refused"}
        /\ UNCHANGED <<world, commitData, commitFrom, checkout, newIdxFiles, diffBase>>
    BY <1>7 DEF ScanDiff
  <2>. QED
    BY <2>1, SameResults DEF ChecksInv, world
<1>8. ASSUME NEW b \in Branches, NEW c \in Commits, UpstreamMoves(b, c)  PROVE ChecksInv'
  BY <1>0, <1>8, StageKeepsInv DEF UpstreamMoves
<1>9. CASE RepoDeleted
  BY <1>0, <1>9, StageKeepsInv DEF RepoDeleted
<1>. QED
  BY <1>1, <1>2, <1>3, <1>4, <1>5, <1>6, <1>7, <1>8, <1>9 DEF Next

LEMMA InitChecks ==
  ASSUME Init
  PROVE  ChecksInv
<1>1. push \in PushType
  BY PushesAssumption DEF Init
<1>. QED
  BY <1>1 DEF Init, ChecksInv, PushType, FromParse, FromBranch, FromMessages, FromAuthors, FromPack,
     FromRange, FromDiff

\* What a push's type says of its history.
LEMMA PushFacts ==
  ASSUME ChecksInv
  PROVE  /\ MaxCommit \in Nat /\ push \in PushType /\ push.new \in Commits
         /\ push.pack \in Seq(Commits) /\ Ordered(push.parents)
<1>1. push \in Pushes /\ push \in PushType
  BY PushesAssumption DEF ChecksInv
<1>2. ASSUME NEW c \in Commits, NEW p \in ToSet(push.parents[c])  PROVE p \in 1..c - 1
  <2>1. p < c /\ push.parents[c] \in Seq(Commits)
    BY <1>1, PushesAssumption DEF PushType
  <2>2. p \in Commits
    BY <2>1 DEF ToSet
  <2>. QED
    BY <2>1, <2>2 DEF Commits
<1>. QED
  BY <1>1, <1>2, PushesAssumption DEF PushType, Ordered

\* git's range and the files that writePack added make up what the upstream lacks.
LEMMA NewIsUnpacked ==
  ASSUME ChecksInv, stage \in FromRange
  PROVE  /\ New \subseteq newIdxFiles
         /\ commitFrom # Zero => commitFrom \in checkout
         /\ checkout \subseteq Upstream
<1> DEFINE cut == Ancestors(Shallow)
<1>1. /\ MaxCommit \in Nat /\ push \in PushType /\ push.new \in Commits /\ checkout \subseteq Commits
      /\ Ordered(push.parents)
  BY PushFacts DEF ChecksInv
<1>2. Ordered(Shallow)
  <2>1. \A b \in Commits : ToSet(Shallow[b]) \subseteq ToSet(push.parents[b])
    BY DEF Shallow, ToSet
  <2>. QED
    BY <1>1, <2>1 DEF Ordered
<1>3. /\ RevList = cut[push.new] \ (IF commitFrom = Zero THEN {} ELSE cut[commitFrom])
      /\ RevList \subseteq Objects /\ (commitFrom # Zero => commitFrom \in Objects)
      /\ newIdxFiles \subseteq RevList
  BY DEF ChecksInv, RevListFails, RevList, Introduced
<1>4. checkout \subseteq Upstream
  <2>1. ASSUME NEW c \in checkout  PROVE c \in Ancestors(push.parents)[c]
    BY <1>1, AncestorsUnfold
  <2>. QED
    BY <2>1 DEF Upstream
<1>5. ASSUME commitFrom # Zero  PROVE commitFrom \in checkout /\ cut[commitFrom] = {commitFrom}
  <2>1. commitFrom \in Commits
    <3>1. newIdxFiles \subseteq Commits
      BY <1>1 DEF ChecksInv, FromRange, FromPack, PushType, ToSet
    <3>. QED
      BY <1>1, <1>3, <1>5, <3>1 DEF Objects
  <2>2. cut[commitFrom] = {commitFrom} \union UNION {cut[p] : p \in ToSet(Shallow[commitFrom])}
    BY <1>1, <1>2, <2>1, AncestorsUnfold
  <2>3. commitFrom \in checkout
    BY <1>3, <1>5, <2>2 DEF Objects
  <2>4. ToSet(Shallow[commitFrom]) = {}
    BY <2>1, <2>3 DEF Shallow, ToSet
  <2>. QED
    BY <2>2, <2>3, <2>4
<1>6. ASSUME NEW x \in New  PROVE x \in newIdxFiles
  <2>1. x \in Ancestors(push.parents)[push.new] /\ x \notin Upstream
    BY DEF New
  <2>2. x \in cut[push.new]
    BY <1>1, <2>1, ShallowHidesUpstream
  <2>3. x \in RevList
    BY <1>3, <1>4, <1>5, <2>1, <2>2
  <2>. QED
    BY <1>3, <1>4, <2>1, <2>3 DEF Objects
<1>. QED
  BY <1>4, <1>5, <1>6

LEMMA ChecksInvariant == Spec => []ChecksInv
<1>1. Init => ChecksInv
  BY InitChecks
<1>2. ChecksInv /\ [Next]_vars => ChecksInv'
  BY ChecksInvIsInductive
<1>. QED
  BY <1>1, <1>2, PTL DEF Spec

\* What the processors leave to each other is well typed: the commits, the range, the
\* checkout, the diff's base and the rules that were broken.
THEOREM ChecksTypeCorrect == Spec => []TypeOK
<1>1. Init => TypeOK
  <2>1. ASSUME Init  PROVE push \in PushType
    BY <2>1, PushesAssumption DEF Init
  <2>. QED
    BY <2>1 DEF Init, TypeOK, PushType, RepoType, Stages
<1>2. ASSUME ChecksInv, TypeOK, [Next]_vars  PROVE TypeOK'
  <2> USE DEF TypeOK, Stages
  <2>1. push \in PushType /\ push.pack \in Seq(Commits)
    BY <1>2, PushesAssumption DEF ChecksInv, PushType
  <2>2. ASSUME NEW c \in Commits  PROVE Parent(c) \in Commits \union {Zero}
    <3>1. push.parents[c] \in Seq(Commits)
      BY <2>1 DEF PushType
    <3>. QED
      BY <3>1 DEF Parent
  <2>3. ASSUME NEW data \in Seq(Commits), data # <<>>  PROVE Head(data) \in Commits /\ Last(data) \in Commits
    BY <2>3 DEF Last
  <2>4. CASE ParsePush
    <3>1. getCommitData \in Seq(Commits)
      BY <2>1, WholeCommitsAreRead
    <3>2. RangeStart(getCommitData) \in Commits \union {Zero}
      BY <2>1, <2>2, <2>3, <3>1 DEF RangeStart, PushType
    <3>. QED
      BY <1>2, <2>4, <3>1, <3>2 DEF ParsePush, Refuse, world, results
  <2>5. CASE \/ CheckEmptyBranch \/ CheckRepoInAuthorisedList \/ CheckCommitMessages
             \/ CheckAuthorEmails \/ CheckUserPushPermission \/ CheckHiddenCommits \/ RunGitleaks
    BY <1>2, <2>5 DEF CheckEmptyBranch, CheckRepoInAuthorisedList, CheckCommitMessages,
       CheckAuthorEmails, CheckUserPushPermission, CheckHiddenCommits, RunGitleaks, Pass, Refuse,
       world, results
  <2>6. CASE PullRemote
    BY <1>2, <2>6 DEF PullRemote, world
  <2>7. CASE WritePack
    <3>1. ToSet(push.pack) \subseteq Commits
      BY <2>1 DEF ToSet
    <3>. QED
      BY <1>2, <2>7, <3>1 DEF WritePack, world
  <2>8. CASE GetDiff
    <3>1. CASE stage' = "refused" /\ UNCHANGED <<world, results>>
      BY <1>2, <3>1 DEF world, results
    <3>2. CASE /\ DiffBase \in Objects \union {EmptyTree} /\ diffBase' = DiffBase
               /\ stage' = "gitleaks"
               /\ UNCHANGED <<world, commitData, commitFrom, checkout, newIdxFiles, violations>>
      BY <1>2, <3>2 DEF Objects, world
    <3>. QED
      BY <2>8, <3>1, <3>2 DEF GetDiff, Refuse
  <2>9. CASE ScanDiff
    <3>1. ASSUME NEW M \in SUBSET Rules, NEW diff, NEW v \in scanDiffViolations(diff, M)
          PROVE  v.rule \in Rules
      BY DEF scanDiffViolations
    <3>2. diffMatchers(push.organization \in PrivateOrganizations) \in SUBSET Rules
      BY DEF diffMatchers
    <3>3. ASSUME NEW v \in violations'  PROVE v.rule \in Rules
      <4>1. v \in scanDiffViolations(GitDiff(push.changes),
                  diffMatchers(push.organization \in PrivateOrganizations))
        BY <2>9, <3>3 DEF ScanDiff
      <4>. QED
        BY <3>1, <3>2, <4>1, Zenon
    <3>. QED
      BY <1>2, <2>9, <3>3 DEF ScanDiff, world
  <2>10. ASSUME NEW b \in Branches, NEW c \in Commits, UpstreamMoves(b, c)  PROVE TypeOK'
    BY <1>2, <2>10 DEF UpstreamMoves, results
  <2>11. CASE RepoDeleted
    BY <1>2, <2>11 DEF RepoDeleted, NoRepo, RepoType, results
  <2>12. CASE UNCHANGED vars
    BY <1>2, <2>12 DEF vars
  <2>. QED
    BY <1>2, <2>4, <2>5, <2>6, <2>7, <2>8, <2>9, <2>10, <2>11, <2>12 DEF Next
<1>. QED
  BY <1>1, <1>2, ChecksInvariant, PTL DEF Spec

\* Whatever the history, the pack and the order of its objects, and wherever the upstream
\* went since the client made it: no commit reaches the upstream with a push held for
\* review that was not examined, as long as the pack holds every commit as a whole.
THEOREM NothingNewIsHidden == Spec => []HeldPushWasExamined
<1>1. ASSUME ChecksInv, stage = "held", Whole
      PROVE  /\ New \subseteq ToSet(commitData)
             /\ \A c \in New :
                   /\ isMessageAllowed(push.commit[c].message)
                   /\ isEmailAllowed(push.commit[c].author)
  <2>1. /\ New \subseteq newIdxFiles /\ newIdxFiles \subseteq ToSet(push.pack)
        /\ push.pack \in Seq(Commits)
    BY <1>1, NewIsUnpacked, PushesAssumption DEF ChecksInv, PushType, FromPack, FromRange, FromDiff
  <2>2. ToSet(commitData) = ToSet(push.pack)
    BY <1>1, <2>1, WholeCommitsAreRead DEF ChecksInv, Whole, FromParse, FromBranch, FromMessages,
       FromAuthors, FromPack, FromRange, FromDiff
  <2>. QED
    BY <1>1, <2>1, <2>2 DEF ChecksInv, FromMessages, FromAuthors, FromPack, FromRange, FromDiff
<1>2. ChecksInv => HeldPushWasExamined
  BY <1>1 DEF HeldPushWasExamined
<1>. QED
  BY <1>2, ChecksInvariant, PTL

\* The diff that is shown to a reviewer, of whatever push, starts at a commit that the
\* upstream has, or at nothing.
THEOREM ReviewedFromUpstream == Spec => []ReviewStartsAtUpstream
<1>1. ASSUME ChecksInv, stage = "held"  PROVE diffBase \in Upstream \union {EmptyTree}
  <2>1. /\ commitFrom # Zero => commitFrom \in checkout
        /\ checkout \subseteq Upstream
    BY <1>1, NewIsUnpacked DEF FromRange, FromDiff
  <2>2. diffBase = DiffBase /\ DiffBase \in Objects \union {EmptyTree} /\ commitData # <<>>
        /\ commitFrom = RangeStart(commitData)
    BY <1>1 DEF ChecksInv, FromParse, FromBranch, FromMessages, FromAuthors, FromPack, FromRange,
       FromDiff
  <2>3. Objects \subseteq Commits
    BY <1>1, PushesAssumption DEF ChecksInv, Objects, PushType, FromPack, FromRange, FromDiff, ToSet
  <2>4. Zero \notin Objects /\ Zero # EmptyTree
    BY <2>3 DEF Zero, EmptyTree, Commits
  <2>5. CASE commitFrom # Zero
    BY <2>1, <2>2, <2>5 DEF DiffBase
  <2>6. CASE commitFrom = Zero
    <3>1. push.old # Zero \/ Parent(Last(commitData)) = Zero
      BY <2>2, <2>6 DEF RangeStart
    <3>2. push.old # Zero => RangeStart(commitData) # Zero
      BY DEF RangeStart
    <3>. QED
      BY <2>2, <2>4, <2>6, <3>1, <3>2 DEF DiffBase
  <2>. QED
    BY <2>5, <2>6
<1>2. ChecksInv => ReviewStartsAtUpstream
  BY <1>1 DEF ReviewStartsAtUpstream
<1>. QED
  BY <1>2, ChecksInvariant, PTL

-----------------------------------------------------------------------------
(* The lines of a diff, one after the other *)

IsParse(f, p, diff, N) ==
    f = [n \in 0..N |-> IF n = 0 THEN p ELSE ParseLine(f[n - 1], diff[n])]

\* A parser's states, line by line, are a function.
LEMMA ParseExists ==
  ASSUME NEW p, NEW diff, NEW N \in Nat
  PROVE  \E f : IsParse(f, p, diff, N)
<1> DEFINE S == {k \in Nat : \E f : IsParse(f, p, diff, k)}
<1>1. 0 \in S
  <2>1. IsParse([n \in 0..0 |-> p], p, diff, 0)
    BY DEF IsParse
  <2>. QED
    BY <2>1
<1>2. ASSUME NEW k \in Nat, k \in S  PROVE k + 1 \in S
  <2>1. PICK f : IsParse(f, p, diff, k)
    BY <1>2
  <2>0. PICK last : last = ParseLine(f[k], diff[k + 1])
    OBVIOUS
  <2> DEFINE g == [n \in 0..k + 1 |-> IF n <= k THEN f[n] ELSE last]
  <2>2. /\ \A n \in 0..k : g[n] = f[n]
        /\ g[k + 1] = last
        /\ g = [n \in 0..k + 1 |-> g[n]]
    OBVIOUS
  <2>3. \A n \in 0..k : f[n] = IF n = 0 THEN p ELSE ParseLine(f[n - 1], diff[n])
    BY <2>1, Zenon DEF IsParse
  <2>. HIDE DEF g
  <2>4. ASSUME NEW n \in 0..k + 1  PROVE g[n] = IF n = 0 THEN p ELSE ParseLine(g[n - 1], diff[n])
    <3>1. CASE n \in 0..k
      <4>1. n = 0 \/ n - 1 \in 0..k
        BY <3>1
      <4>. QED
        BY <2>2, <2>3, <3>1, <4>1
    <3>2. CASE n = k + 1
      <4>1. n - 1 = k /\ k \in 0..k /\ n # 0
        BY <3>2
      <4>. QED
        BY <2>0, <2>2, <3>2, <4>1
    <3>. QED
      BY <3>1, <3>2
  <2>5. IsParse(g, p, diff, k + 1)
    BY <2>2, <2>4, Zenon DEF IsParse
  <2>. QED
    BY <2>5
<1>. HIDE DEF S
<1>3. Nat \subseteq S
  BY <1>1, <1>2, NextInduction
<1>. QED
  BY <1>3 DEF S

\* ParseLines goes on line by line.
LEMMA ParseUnfolds ==
  ASSUME NEW p, NEW diff, Len(diff) \in Nat
  PROVE  \E f : /\ IsParse(f, p, diff, Len(diff)) /\ ParseLines(p, diff) = f[Len(diff)]
                /\ f[0] = p
                /\ \A n \in 1..Len(diff) : f[n] = ParseLine(f[n - 1], diff[n])
<1> DEFINE f == CHOOSE g : IsParse(g, p, diff, Len(diff))
<1>1. IsParse(f, p, diff, Len(diff))
  BY ParseExists, Zenon
<1>2. ParseLines(p, diff) = f[Len(diff)]
  BY Zenon DEF ParseLines, IsParse
<1>. HIDE DEF f
<1>3. f[0] = p /\ \A n \in 1..Len(diff) : f[n] = ParseLine(f[n - 1], diff[n])
  <2>1. \A n \in 0..Len(diff) : f[n] = IF n = 0 THEN p ELSE ParseLine(f[n - 1], diff[n])
    BY <1>1, Zenon DEF IsParse
  <2>2. 0 \in 0..Len(diff) /\ \A n \in 1..Len(diff) : n \in 0..Len(diff) /\ n # 0
    OBVIOUS
  <2>. QED
    BY <2>1, <2>2, Zenon
<1>. QED
  BY <1>1, <1>2, <1>3

\* Any function that goes on line by line goes where ParseLines does.
LEMMA ParseAgrees ==
  ASSUME NEW p, NEW diff, Len(diff) \in Nat
  PROVE  \A h : h[0] = p /\ (\A n \in 1..Len(diff) : h[n] = ParseLine(h[n - 1], diff[n])) =>
            ParseLines(p, diff) = h[Len(diff)]
<1>. SUFFICES ASSUME NEW h, h[0] = p,
                     \A n \in 1..Len(diff) : h[n] = ParseLine(h[n - 1], diff[n])
              PROVE  ParseLines(p, diff) = h[Len(diff)]
  OBVIOUS
<1>1. PICK f : /\ ParseLines(p, diff) = f[Len(diff)] /\ f[0] = p
               /\ \A n \in 1..Len(diff) : f[n] = ParseLine(f[n - 1], diff[n])
  BY ParseUnfolds
<1> DEFINE S == {k \in Nat : k <= Len(diff) => f[k] = h[k]}
<1>2. 0 \in S
  BY <1>1
<1>3. ASSUME NEW k \in Nat, k \in S  PROVE k + 1 \in S
  <2>1. SUFFICES ASSUME k + 1 <= Len(diff)  PROVE f[k + 1] = h[k + 1]
    OBVIOUS
  <2>2. k + 1 \in 1..Len(diff) /\ (k + 1) - 1 = k /\ k <= Len(diff)
    BY <2>1
  <2>3. f[k] = h[k]
    BY <1>3, <2>2
  <2>. QED
    BY <1>1, <2>2, <2>3
<1>. HIDE DEF S
<1>4. Nat \subseteq S
  BY <1>2, <1>3, NextInduction
<1>5. f[Len(diff)] = h[Len(diff)]
  BY <1>4 DEF S
<1>. QED
  BY <1>1, <1>5

\* No lines, one line, and lines after lines.
LEMMA ParseNothing ==
  ASSUME NEW p
  PROVE  ParseLines(p, <<>>) = p
<1>1. Len(<<>>) = 0
  OBVIOUS
<1>. QED
  BY <1>1, ParseUnfolds

LEMMA ParseOne ==
  ASSUME NEW p, NEW X, NEW raw \in X
  PROVE  ParseLines(p, <<raw>>) = ParseLine(p, raw)
<1>1. PICK diff : diff = <<raw>>
  OBVIOUS
<1>2. Len(diff) = 1 /\ diff[1] = raw
  BY <1>1
<1>3. PICK f : /\ ParseLines(p, diff) = f[Len(diff)] /\ f[0] = p
               /\ \A n \in 1..Len(diff) : f[n] = ParseLine(f[n - 1], diff[n])
  BY <1>2, ParseUnfolds
<1>4. f[1] = ParseLine(f[1 - 1], diff[1])
  BY <1>2, <1>3
<1>. QED
  BY <1>1, <1>2, <1>3, <1>4

LEMMA ParseBoth ==
  ASSUME NEW X, NEW s \in Seq(X), NEW t \in Seq(X), NEW p
  PROVE  ParseLines(p, s \o t) = ParseLines(ParseLines(p, s), t)
<1>0. Len(s) \in Nat /\ Len(t) \in Nat
  OBVIOUS
<1>1. PICK f : /\ ParseLines(p, s) = f[Len(s)] /\ f[0] = p
               /\ \A n \in 1..Len(s) : f[n] = ParseLine(f[n - 1], s[n])
  BY <1>0, ParseUnfolds
<1>2. PICK g : /\ ParseLines(ParseLines(p, s), t) = g[Len(t)] /\ g[0] = ParseLines(p, s)
               /\ \A n \in 1..Len(t) : g[n] = ParseLine(g[n - 1], t[n])
  <2>1. PICK q : q = ParseLines(p, s)
    OBVIOUS
  <2>2. \E g : /\ ParseLines(q, t) = g[Len(t)] /\ g[0] = q
               /\ \A n \in 1..Len(t) : g[n] = ParseLine(g[n - 1], t[n])
    BY <1>0, ParseUnfolds
  <2>. QED
    BY <2>1, <2>2
<1>3. PICK c \in Seq(X) : /\ c = s \o t /\ Len(c) = Len(s) + Len(t) /\ Len(c) \in Nat
                          /\ \A i \in 1..Len(s) : c[i] = s[i]
                          /\ \A i \in 1..Len(t) : c[Len(s) + i] = t[i]
  <2>0. \A u, v \in Seq(X) :
           /\ u \o v \in Seq(X) /\ Len(u \o v) = Len(u) + Len(v)
           /\ \A i \in 1..Len(u) : (u \o v)[i] = u[i]
           /\ \A i \in 1..Len(v) : (u \o v)[Len(u) + i] = v[i]
    BY Concatenated
  <2>1. /\ s \o t \in Seq(X) /\ Len(s \o t) = Len(s) + Len(t)
        /\ \A i \in 1..Len(s) : (s \o t)[i] = s[i]
        /\ \A i \in 1..Len(t) : (s \o t)[Len(s) + i] = t[i]
    BY <2>0, Zenon
  <2>2. Len(s \o t) \in Nat
    BY <2>1
  <2>. QED
    BY <2>1, <2>2, Zenon
<1> DEFINE h == [n \in 0..Len(c) |-> IF n <= Len(s) THEN f[n] ELSE g[n - Len(s)]]
<1>4. /\ \A n \in 0..Len(s) : h[n] = f[n]
      /\ \A n \in 1..Len(t) : h[Len(s) + n] = g[n]
  <2>1. \A n \in 1..Len(t) : Len(s) + n \in 0..Len(c) /\ ~(Len(s) + n <= Len(s)) /\ (Len(s) + n) - Len(s) = n
    BY <1>0, <1>3
  <2>2. \A n \in 0..Len(s) : n \in 0..Len(c) /\ n <= Len(s)
    BY <1>0, <1>3
  <2>. QED
    BY <2>1, <2>2
<1>. HIDE DEF h
<1>5. h[0] = p
  BY <1>0, <1>1, <1>4
<1>6. h[Len(s)] = g[0]
  BY <1>0, <1>1, <1>2, <1>4
<1>7. ASSUME NEW n \in 1..Len(c)  PROVE h[n] = ParseLine(h[n - 1], c[n])
  <2>1. CASE n <= Len(s)
    <3>1. n \in 0..Len(s) /\ n - 1 \in 0..Len(s) /\ n \in 1..Len(s)
      BY <1>0, <2>1
    <3>. QED
      BY <1>1, <1>3, <1>4, <3>1
  <2>2. CASE ~(n <= Len(s))
    <3>1. PICK k \in 1..Len(t) : n = Len(s) + k
      <4>1. n - Len(s) \in 1..Len(t) /\ n = Len(s) + (n - Len(s))
        BY <1>0, <1>3, <2>2
      <4>. QED
        BY <4>1
    <3>2. h[n] = ParseLine(g[k - 1], t[k]) /\ c[n] = t[k]
      BY <1>2, <1>3, <1>4, <3>1
    <3>3. h[n - 1] = g[k - 1]
      <4>1. CASE k = 1
        <5>1. n - 1 = Len(s) /\ k - 1 = 0
          BY <1>0, <3>1, <4>1
        <5>. QED
          BY <1>6, <5>1
      <4>2. CASE k # 1
        <5>1. PICK j \in 1..Len(t) : j = k - 1
          BY <1>0, <4>2
        <5>2. n - 1 = Len(s) + j
          BY <1>0, <3>1, <5>1
        <5>. QED
          BY <1>4, <5>1, <5>2
      <4>. QED
        BY <4>1, <4>2
    <3>. QED
      BY <3>2, <3>3
  <2>. QED
    BY <2>1, <2>2
<1>8. ParseLines(p, c) = h[Len(c)]
  <2>1. PICK H : H = h
    OBVIOUS
  <2>2. H[0] = p /\ \A n \in 1..Len(c) : H[n] = ParseLine(H[n - 1], c[n])
    BY <1>5, <1>7, <2>1
  <2>4. \A hh : hh[0] = p /\ (\A n \in 1..Len(c) : hh[n] = ParseLine(hh[n - 1], c[n])) =>
                   ParseLines(p, c) = hh[Len(c)]
    <3>1. Len(c) \in Nat
      BY <1>3
    <3>. QED
      BY <3>1, ParseAgrees, Zenon
  <2>3. ParseLines(p, c) = H[Len(c)]
    BY <2>2, <2>4, Zenon
  <2>. QED
    BY <2>1, <2>3
<1>9. h[Len(c)] = g[Len(t)]
  <2>1. CASE Len(t) = 0
    <3>1. Len(c) = Len(s)
      BY <1>0, <1>3, <2>1
    <3>. QED
      BY <1>6, <2>1, <3>1
  <2>2. CASE Len(t) # 0
    <3>1. Len(t) \in 1..Len(t)
      BY <1>0, <2>2
    <3>. QED
      BY <1>3, <1>4, <3>1
  <2>. QED
    BY <2>1, <2>2
<1>. QED
  BY <1>2, <1>3, <1>8, <1>9

-----------------------------------------------------------------------------
(* A line by its first character *)

\* What may stand in a line, and what the parser makes of it.
Letter == DOMAIN Hits \union {"d", "i", "@", "-", "+", " ", "\\"}
Path == STRING \union {DevNull, NoFile}
LineType == [text : Seq(Letter), path : Path, start : Nat]
Found == [file : Path, line : Nat, content : Seq(Letter)]
ParserType == [file : Path, newLine : Nat, inHunk : BOOLEAN, out : Seq(Found)]

\* A sequence of one.
LEMMA OneLetter ==
  ASSUME NEW X, NEW x \in X
  PROVE  <<x>> \in Seq(X) /\ Len(<<x>>) = 1 /\ <<x>>[1] = x
OBVIOUS

\* A prefix has the first element of what it begins.
LEMMA PrefixFirst ==
  ASSUME NEW X, NEW s \in Seq(X), NEW t \in Seq(X), Len(s) # 0, IsPrefix(s, t)
  PROVE  Len(t) # 0 /\ t[1] = s[1]
<1>1. Len(s) \in Nat /\ Len(t) \in Nat /\ Len(s) <= Len(t)
  BY DEF IsPrefix
<1>2. \A r \in Seq(X) : Len(s) <= Len(r) => SubSeq(r, 1, Len(s))[1] = r[1]
  BY <1>1
<1>3. SubSeq(s, 1, Len(s)) = SubSeq(t, 1, Len(s))
  BY DEF IsPrefix
<1>. QED
  BY <1>1, <1>2, <1>3

LEMMA PrefixOne ==
  ASSUME NEW X, NEW t \in Seq(X), Len(t) # 0
  PROVE  IsPrefix(<<t[1]>>, t)
<1>0. PICK x \in X : x = t[1]
  OBVIOUS
<1>1. PICK s \in Seq(X) : s = <<x>> /\ Len(s) = 1 /\ s[1] = t[1]
  <2>1. <<x>> \in Seq(X) /\ Len(<<x>>) = 1 /\ <<x>>[1] = x
    BY OneLetter, Zenon
  <2>. QED
    BY <1>0, <2>1, Zenon
<1>2. SubSeq(s, 1, 1) = SubSeq(t, 1, 1)
  BY <1>1
<1>. QED
  BY <1>0, <1>1, <1>2 DEF IsPrefix

LEMMA PrefixSelf ==
  ASSUME NEW X, NEW s \in Seq(X)
  PROVE  IsPrefix(s, s)
BY DEF IsPrefix

\* A line that begins with a character begins with no text that begins with another.
LEMMA LineBegins ==
  ASSUME NEW raw \in LineType, Len(raw.text) # 0
  PROVE  /\ Begins(raw, <<raw.text[1]>>)
         /\ \A m \in Seq(Letter) : Len(m) # 0 /\ m[1] # raw.text[1] => ~Begins(raw, m)
<1>1. PICK t \in Seq(Letter) : t = raw.text
  BY DEF LineType
<1>2. IsPrefix(<<t[1]>>, t)
  BY <1>1, PrefixOne
<1>3. \A m \in Seq(Letter) : Len(m) # 0 /\ m[1] # t[1] => ~IsPrefix(m, t)
  BY PrefixFirst
<1>. QED
  BY <1>1, <1>2, <1>3 DEF Begins

\* An empty line begins with nothing.
LEMMA EmptyBegins ==
  ASSUME NEW raw \in LineType, raw.text = <<>>
  PROVE  \A m \in Seq(Letter) : Len(m) # 0 => ~Begins(raw, m)
BY DEF Begins, IsPrefix

LEMMA PrefixFacts ==
  /\ \A m \in {DiffHeader, Hunk, NewPath, OldPath} : m \in Seq(Letter) /\ Len(m) # 0
  /\ \A x \in Letter : <<x>> \in Seq(Letter) /\ Len(<<x>>) # 0 /\ <<x>>[1] = x
  /\ DiffHeader[1] = "d" /\ Hunk[1] = "@" /\ NewPath[1] = "+" /\ OldPath[1] = "-"
<1> USE DEF Letter
<1>1. DiffHeader \in Seq(Letter) /\ Len(DiffHeader) # 0 /\ DiffHeader[1] = "d"
  BY DEF DiffHeader
<1>2. Hunk \in Seq(Letter) /\ Len(Hunk) # 0 /\ Hunk[1] = "@"
  BY DEF Hunk
<1>3. NewPath \in Seq(Letter) /\ Len(NewPath) # 0 /\ NewPath[1] = "+"
  BY DEF NewPath
<1>4. OldPath \in Seq(Letter) /\ Len(OldPath) # 0 /\ OldPath[1] = "-"
  BY DEF OldPath
<1>5. \A x \in Letter : <<x>> \in Seq(Letter) /\ Len(<<x>>) # 0 /\ <<x>>[1] = x
  <2>. HIDE DEF Letter
  <2>1. \A x \in Letter : <<x>> \in Seq(Letter) /\ Len(<<x>>) = 1 /\ <<x>>[1] = x
    BY OneLetter, Zenon
  <2>. QED
    BY <2>1
<1>. QED
  BY <1>1, <1>2, <1>3, <1>4, <1>5, Zenon

\* Which of the parser's questions a line answers with yes.
LEMMA LineKinds ==
  ASSUME NEW raw \in LineType
  PROVE  /\ raw.text = <<>> =>
               \A m \in {DiffHeader, Hunk, NewPath, OldPath, <<"+">>, <<"-">>, <<"\\">>} : ~Begins(raw, m)
         /\ Len(raw.text) # 0 =>
               /\ Begins(raw, DiffHeader) => raw.text[1] = "d"
               /\ Begins(raw, Hunk) => raw.text[1] = "@"
               /\ Begins(raw, NewPath) => raw.text[1] = "+"
               /\ Begins(raw, OldPath) => raw.text[1] = "-"
               /\ \A x \in Letter : Begins(raw, <<x>>) <=> raw.text[1] = x
<1>1. \A m \in {DiffHeader, Hunk, NewPath, OldPath, <<"+">>, <<"-">>, <<"\\">>} : m \in Seq(Letter) /\ Len(m) # 0
  <2>1. {"+", "-", "\\"} \subseteq Letter
    BY DEF Letter
  <2>. QED
    BY <2>1, PrefixFacts, Zenon
<1>2. CASE raw.text = <<>>
  <2>1. \A m \in Seq(Letter) : Len(m) # 0 => ~Begins(raw, m)
    BY <1>2, EmptyBegins, Zenon
  <2>2. Len(raw.text) = 0
    BY <1>2
  <2>. QED
    BY <1>1, <2>1, <2>2, Zenon
<1>3. CASE raw.text # <<>>
  <2>1. Len(raw.text) # 0
    BY <1>3 DEF LineType
  <2>2. /\ Begins(raw, <<raw.text[1]>>)
        /\ \A m \in Seq(Letter) : Len(m) # 0 /\ m[1] # raw.text[1] => ~Begins(raw, m)
    BY <2>1, LineBegins, Zenon
  <2>3. \A m \in {DiffHeader, Hunk, NewPath, OldPath} : Begins(raw, m) => raw.text[1] = m[1]
    BY <1>1, <2>2, Zenon
  <2>4. \A x \in Letter : Begins(raw, <<x>>) <=> raw.text[1] = x
    BY <2>2, PrefixFacts, Zenon
  <2>. QED
    BY <1>3, <2>3, <2>4, PrefixFacts, Zenon
<1>. QED
  BY <1>2, <1>3

-----------------------------------------------------------------------------
(* What the parser does with each line git prints *)

\* The same by the first character.
LEMMA LineLetter ==
  ASSUME NEW raw \in LineType, Len(raw.text) # 0
  PROVE  /\ Begins(raw, DiffHeader) => raw.text[1] = "d"
         /\ Begins(raw, Hunk) => raw.text[1] = "@"
         /\ Begins(raw, NewPath) => raw.text[1] = "+"
         /\ Begins(raw, OldPath) => raw.text[1] = "-"
         /\ Begins(raw, <<"+">>) <=> raw.text[1] = "+"
         /\ Begins(raw, <<"-">>) <=> raw.text[1] = "-"
         /\ Begins(raw, <<"\\">>) <=> raw.text[1] = "\\"
<1>1. "+" \in Letter /\ "-" \in Letter /\ "\\" \in Letter
  BY DEF Letter
<1>. QED
  BY <1>1, LineKinds, Zenon

\* The lines of a change's header.
LEMMA HeaderParsed ==
  ASSUME NEW p \in ParserType, NEW raw \in LineType, raw.text = DiffHeader
  PROVE  ParseLine(p, raw) = [p EXCEPT !.inHunk = FALSE, !.file = NoFile]
<1>1. Len(raw.text) # 0 /\ raw.text[1] = "d" /\ Begins(raw, DiffHeader)
  BY PrefixFacts, PrefixSelf DEF Begins
<1>2. ~IsContext(raw)
  BY <1>1, Zenon DEF IsContext
<1>3. ~Begins(raw, Hunk) /\ ~Begins(raw, NewPath) /\ ~Begins(raw, OldPath) /\ ~Begins(raw, <<"+">>)
  BY <1>1, LineLetter
<1>. QED
  BY <1>1, <1>2, <1>3 DEF ParseLine

LEMMA OldPathParsed ==
  ASSUME NEW p \in ParserType, NEW raw \in LineType, raw.text = OldPath, ~p.inHunk, p.file = NoFile
  PROVE  ParseLine(p, raw) = [p EXCEPT !.file = stripDiffPath(raw.path)]
<1>1. Len(raw.text) # 0 /\ raw.text[1] = "-" /\ Begins(raw, OldPath)
  BY PrefixFacts, PrefixSelf DEF Begins
<1>2. ~Begins(raw, DiffHeader) /\ ~Begins(raw, Hunk) /\ ~Begins(raw, NewPath) /\ ~Begins(raw, <<"+">>)
  BY <1>1, LineLetter
<1>. QED
  BY <1>1, <1>2 DEF ParseLine

LEMMA NewPathParsed ==
  ASSUME NEW p \in ParserType, NEW raw \in LineType, raw.text = NewPath, ~p.inHunk
  PROVE  ParseLine(p, raw) = [p EXCEPT !.file = stripDiffPath(raw.path)]
<1>1. Len(raw.text) # 0 /\ raw.text[1] = "+" /\ Begins(raw, NewPath)
  BY PrefixFacts, PrefixSelf DEF Begins
<1>2. ~Begins(raw, DiffHeader) /\ ~Begins(raw, Hunk) /\ ~Begins(raw, OldPath)
  BY <1>1, LineLetter
<1>. QED
  BY <1>1, <1>2 DEF ParseLine

LEMMA HunkParsed ==
  ASSUME NEW p \in ParserType, NEW raw \in LineType, raw.text = Hunk
  PROVE  ParseLine(p, raw) = [p EXCEPT !.newLine = raw.start, !.inHunk = TRUE]
<1>1. Len(raw.text) # 0 /\ raw.text[1] = "@" /\ Begins(raw, Hunk)
  BY PrefixFacts, PrefixSelf DEF Begins
<1>2. ~IsContext(raw)
  BY <1>1, Zenon DEF IsContext
<1>3. ~Begins(raw, DiffHeader) /\ ~Begins(raw, NewPath) /\ ~Begins(raw, OldPath) /\ ~Begins(raw, <<"+">>)
  BY <1>1, LineLetter
<1>. QED
  BY <1>1, <1>2, <1>3 DEF ParseLine

LEMMA IndexParsed ==
  ASSUME NEW p \in ParserType, NEW raw \in LineType, raw.text = <<"i">>, ~p.inHunk
  PROVE  ParseLine(p, raw) = p
<1>1. Len(raw.text) # 0 /\ raw.text[1] = "i"
  OBVIOUS
<1>2. /\ ~Begins(raw, DiffHeader) /\ ~Begins(raw, Hunk) /\ ~Begins(raw, NewPath) /\ ~Begins(raw, OldPath)
  BY <1>1, LineLetter
<1>. QED
  BY <1>2 DEF ParseLine

\* In a hunk a line counts by its marker.
LEMMA MarkedParsed ==
  ASSUME NEW p \in ParserType, NEW raw \in LineType, p.inHunk, Len(raw.text) # 0
  PROVE  /\ raw.text[1] = " " => ParseLine(p, raw) = [p EXCEPT !.newLine = @ + 1]
         /\ raw.text[1] = "+" => ParseLine(p, raw) = AddLine(p, raw)
         /\ raw.text[1] \in {"-", "\\"} => ParseLine(p, raw) = p
<1>1. /\ Begins(raw, DiffHeader) => raw.text[1] = "d"
      /\ Begins(raw, Hunk) => raw.text[1] = "@"
      /\ Begins(raw, <<"+">>) <=> raw.text[1] = "+"
      /\ Begins(raw, <<"-">>) <=> raw.text[1] = "-"
      /\ Begins(raw, <<"\\">>) <=> raw.text[1] = "\\"
  BY LineLetter, Zenon
<1>2. CASE raw.text[1] = " "
  <2>1. ~Begins(raw, DiffHeader) /\ ~Begins(raw, Hunk) /\ ~Begins(raw, <<"+">>) /\ IsContext(raw)
    BY <1>1, <1>2 DEF IsContext
  <2>. QED
    BY <1>2, <2>1 DEF ParseLine
<1>3. CASE raw.text[1] = "+"
  <2>1. ~Begins(raw, DiffHeader) /\ ~Begins(raw, Hunk) /\ Begins(raw, <<"+">>) /\ ~IsContext(raw)
    BY <1>1, <1>3 DEF IsContext
  <2>. QED
    BY <1>3, <2>1 DEF ParseLine
<1>4. CASE raw.text[1] \in {"-", "\\"}
  <2>1. ~Begins(raw, DiffHeader) /\ ~Begins(raw, Hunk) /\ ~Begins(raw, <<"+">>) /\ ~IsContext(raw)
    BY <1>1, <1>4 DEF IsContext
  <2>. QED
    BY <1>4, <2>1 DEF ParseLine
<1>. QED
  BY <1>2, <1>3, <1>4

\* The empty line after the last newline adds nothing.
LEMMA LastParsed ==
  ASSUME NEW p \in ParserType, NEW raw \in LineType, raw.text = <<>>
  PROVE  ParseLine(p, raw).out = p.out
<1>1. \A m \in {DiffHeader, Hunk, NewPath, OldPath, <<"+">>, <<"-">>, <<"\\">>} : ~Begins(raw, m)
  BY LineKinds
<1>2. ParseLine(p, raw) = IF p.inHunk THEN [p EXCEPT !.newLine = @ + 1] ELSE p
  <2>1. IsContext(raw)
    BY <1>1, Zenon DEF IsContext
  <2>2. /\ ~Begins(raw, DiffHeader) /\ ~Begins(raw, NewPath) /\ ~Begins(raw, OldPath)
        /\ ~Begins(raw, Hunk) /\ ~Begins(raw, <<"+">>)
    BY <1>1, Zenon
  <2>. QED
    BY <2>1, <2>2 DEF ParseLine, ParserType
<1>. QED
  BY <1>2 DEF ParserType

-----------------------------------------------------------------------------
(* What git prints of one edit *)

IsNew(edit) == edit.op \in {"keep", "add"}

\* The parts of an edit.
LEMMA EditFacts ==
  ASSUME NEW E \in Seq(Edits), NEW i \in 1..Len(E)
  PROVE  /\ E[i] \in Edits /\ E[i].op \in Operations /\ E[i].text \in Seq(DOMAIN Hits)
         /\ i \in DOMAIN E
<1>1. E[i] \in Edits /\ i \in DOMAIN E
  OBVIOUS
<1>. QED
  BY <1>1 DEF Edits

\* The numbers of the new content's lines go up by one with each of them.
LEMMA NewLinesCount ==
  ASSUME NEW E \in Seq(Edits)
  PROVE  /\ NewLines(E, 0) = 0
         /\ \A i \in 0..Len(E) : NewLines(E, i) \in Nat
         /\ \A i \in 1..Len(E) : NewLines(E, i) = NewLines(E, i - 1) + (IF IsNew(E[i]) THEN 1 ELSE 0)
<1> DEFINE NewOf(i) == {j \in 1..i : E[j].op \in {"keep", "add"}}
<1>1. Len(E) \in Nat
  OBVIOUS
<1>2. \A i : NewLines(E, i) = Cardinality(NewOf(i))
  BY DEF NewLines
<1>3. ASSUME NEW i \in Nat  PROVE IsFiniteSet(NewOf(i)) /\ Cardinality(NewOf(i)) \in Nat
  <2>1. IsFiniteSet(1..i) /\ NewOf(i) \subseteq 1..i
    BY FS_Interval
  <2>2. IsFiniteSet(NewOf(i))
    BY <2>1, FS_Subset
  <2>. QED
    BY <2>2, FS_CardinalityType
<1>4. NewLines(E, 0) = 0
  <2>1. NewOf(0) = {}
    OBVIOUS
  <2>. QED
    BY <1>2, <2>1, FS_EmptySet
<1>5. ASSUME NEW i \in 1..Len(E)
      PROVE  NewLines(E, i) = NewLines(E, i - 1) + (IF IsNew(E[i]) THEN 1 ELSE 0)
  <2>1. i - 1 \in Nat /\ i \in Nat
    BY <1>1
  <2>2. IsFiniteSet(NewOf(i - 1)) /\ Cardinality(NewOf(i - 1)) \in Nat
    BY <1>3, <2>1
  <2>3. CASE IsNew(E[i])
    <3>1. NewOf(i) = NewOf(i - 1) \union {i} /\ i \notin NewOf(i - 1)
      BY <2>1, <2>3 DEF IsNew
    <3>2. Cardinality(NewOf(i)) = Cardinality(NewOf(i - 1)) + 1
      BY <2>2, <3>1, FS_AddElement
    <3>. QED
      BY <1>2, <2>3, <3>2
  <2>4. CASE ~IsNew(E[i])
    <3>1. NewOf(i) = NewOf(i - 1)
      BY <2>1, <2>4 DEF IsNew
    <3>. HIDE DEF NewOf
    <3>. QED
      BY <1>2, <2>2, <2>4, <3>1
  <2>. QED
    BY <2>3, <2>4
<1>6. \A i \in 0..Len(E) : NewLines(E, i) \in Nat
  <2>. HIDE DEF NewOf
  <2>1. \A i \in Nat : Cardinality(NewOf(i)) \in Nat
    BY <1>3
  <2>. QED
    BY <1>1, <1>2, <2>1
<1>. QED
  BY <1>4, <1>5, <1>6

\* Where a line stands that adds or deletes, it is shown.
LEMMA ChangesAreShown ==
  ASSUME NEW E \in Seq(Edits), NEW i \in 1..Len(E), E[i].op \in {"del", "add"}
  PROVE  Shown(E, i)
<1>1. i \in DOMAIN E /\ i - i \in -Context..Context
  BY DiffAssumption
<1>. QED
  BY <1>1 DEF Shown

\* The line of an edit, after its marker.
LEMMA MarkedLine ==
  ASSUME NEW edit \in Edits
  PROVE  /\ Line(Marker(edit.op) \o edit.text, NoFile, 0) \in LineType
         /\ Len(Marker(edit.op) \o edit.text) # 0
         /\ (Marker(edit.op) \o edit.text)[1] = CASE edit.op = "keep" -> " " [] edit.op = "del" -> "-"
                                                  [] edit.op = "add" -> "+" [] edit.op = "noNewline" -> "\\"
<1> DEFINE x == CASE edit.op = "keep" -> " " [] edit.op = "del" -> "-"
                  [] edit.op = "add" -> "+" [] edit.op = "noNewline" -> "\\"
<1>1. edit.op \in Operations /\ edit.text \in Seq(DOMAIN Hits)
  BY DEF Edits
<1>2. Marker(edit.op) = <<x>> /\ x \in Letter
  BY <1>1 DEF Marker, Operations, Letter
<1>. HIDE DEF x
<1>3. PICK s \in Seq(Letter) : s = <<x>> /\ Len(s) = 1 /\ s[1] = x
  BY <1>2, OneLetter, Zenon
<1>4. PICK t \in Seq(Letter) : t = edit.text
  <2>1. DOMAIN Hits \subseteq Letter
    BY DEF Letter
  <2>2. \A X, Y : X \subseteq Y => \A t \in Seq(X) : t \in Seq(Y)
    OBVIOUS
  <2>. QED
    BY <1>1, <2>1, <2>2, Zenon
<1>5. s \o t \in Seq(Letter) /\ Len(s \o t) = Len(s) + Len(t) /\ \A i \in 1..Len(s) : (s \o t)[i] = s[i]
  <2>1. \A u, v \in Seq(Letter) :
           /\ u \o v \in Seq(Letter) /\ Len(u \o v) = Len(u) + Len(v)
           /\ \A i \in 1..Len(u) : (u \o v)[i] = u[i]
    BY Concatenated
  <2>. QED
    BY <2>1, Zenon
<1>6. PICK r \in Seq(Letter) : r = s \o t /\ Len(r) # 0 /\ r[1] = x
  <2>1. Len(s \o t) # 0 /\ (s \o t)[1] = x
    BY <1>3, <1>5
  <2>. QED
    BY <1>5, <2>1, Zenon
<1>7. r = Marker(edit.op) \o edit.text
  BY <1>2, <1>3, <1>4, <1>6
<1>8. Line(r, NoFile, 0) \in LineType
  BY DEF Line, LineType, Path
<1>. QED
  BY <1>6, <1>7, <1>8 DEF x

LEMMA PrintEditType ==
  ASSUME NEW E \in Seq(Edits), NEW i \in 1..Len(E)
  PROVE  PrintEdit(E, i) \in Seq(LineType)
<1>1. PICK line \in LineType : line = Line(Marker(E[i].op) \o E[i].text, NoFile, 0)
  BY EditFacts, MarkedLine, Zenon
<1>2. PICK hunk \in LineType : hunk = Line(Hunk, NoFile, NewLines(E, i - 1) + 1)
  <2>1. NewLines(E, i - 1) \in Nat
    BY NewLinesCount
  <2>2. NewLines(E, i - 1) + 1 \in Nat
    BY <2>1
  <2>3. Line(Hunk, NoFile, NewLines(E, i - 1) + 1) \in LineType
    BY <2>2, PrefixFacts DEF Line, LineType, Path
  <2>. QED
    BY <2>3
<1>3. /\ <<line>> \in Seq(LineType) /\ <<hunk>> \in Seq(LineType) /\ <<>> \in Seq(LineType)
      /\ <<hunk>> \o <<line>> \in Seq(LineType) /\ <<>> \o <<line>> \in Seq(LineType)
  BY ConcatProperties
<1>. QED
  BY <1>1, <1>2, <1>3, Zenon DEF PrintEdit

-----------------------------------------------------------------------------
(* The parser reads the edits of a change *)

\* What an appended element adds to the elements.
LEMMA SetOfAppended ==
  ASSUME NEW X, NEW s \in Seq(X), NEW x \in X
  PROVE  ToSet(Append(s, x)) = ToSet(s) \union {x}
<1>1. PICK t \in Seq(X) : t = Append(s, x) /\ Len(t) = Len(s) + 1 /\ Len(s) \in Nat
                          /\ t[Len(s) + 1] = x /\ \A i \in 1..Len(s) : t[i] = s[i]
  <2>1. Len(s) \in Nat
    OBVIOUS
  <2>2. Append(s, x) \in Seq(X) /\ Len(Append(s, x)) = Len(s) + 1
    OBVIOUS
  <2>3. Append(s, x)[Len(s) + 1] = x
    OBVIOUS
  <2>4. \A i \in 1..Len(s) : Append(s, x)[i] = s[i]
    OBVIOUS
  <2>. QED
    BY <2>1, <2>2, <2>3, <2>4, Zenon
<1>2. DOMAIN t = 1..Len(s) + 1 /\ DOMAIN s = 1..Len(s)
  BY <1>1
<1>3. ASSUME NEW y  PROVE y \in ToSet(t) <=> y \in ToSet(s) \union {x}
  <2>1. y \in ToSet(t) <=> \E i \in 1..Len(s) + 1 : y = t[i]
    BY <1>2 DEF ToSet
  <2>2. y \in ToSet(s) <=> \E i \in 1..Len(s) : y = s[i]
    BY <1>2 DEF ToSet
  <2>3. \A i : i \in 1..Len(s) + 1 <=> i \in 1..Len(s) \/ i = Len(s) + 1
    BY <1>1
  <2>. QED
    BY <1>1, <2>1, <2>2, <2>3
<1>. QED
  BY <1>1, <1>3

\* An added line is recorded under the next number.
LEMMA AddedLine ==
  ASSUME NEW p \in ParserType, NEW raw \in LineType, NEW q, q = AddLine(p, raw)
  PROVE  /\ q \in ParserType /\ q.file = p.file /\ q.inHunk = p.inHunk /\ q.newLine = p.newLine + 1
         /\ ToSet(q.out) = ToSet(p.out) \union {[file |-> p.file, line |-> p.newLine, content |-> raw.text]}
<1>1. PICK new \in Found : new = [file |-> p.file, line |-> p.newLine, content |-> raw.text]
  BY DEF Found, ParserType, LineType
<1>2. PICK s \in Seq(Found) : s = p.out
  BY DEF ParserType
<1>3. PICK out \in Seq(Found) : out = Append(s, new)
  BY AppendProperties, Zenon
<1>4. q = [p EXCEPT !.out = out, !.newLine = @ + 1]
  BY <1>1, <1>2, <1>3, Zenon DEF AddLine
<1>5. ToSet(out) = ToSet(p.out) \union {new}
  <2>1. \A t \in Seq(Found) : \A x \in Found : ToSet(Append(t, x)) = ToSet(t) \union {x}
    BY SetOfAppended, Zenon
  <2>2. ToSet(Append(s, new)) = ToSet(s) \union {new}
    BY <2>1, Zenon
  <2>. QED
    BY <1>2, <1>3, <2>2, Zenon
<1>6. p.newLine + 1 \in Nat
  BY DEF ParserType
<1>7. /\ q \in ParserType /\ q.file = p.file /\ q.inHunk = p.inHunk /\ q.newLine = p.newLine + 1
      /\ q.out = out
  BY <1>4, <1>6 DEF ParserType
<1>. QED
  BY <1>1, <1>5, <1>7, Zenon

\* What the scan is to find of edit i in the file F.
EditFound(E, i, F) ==
    IF E[i].op = "add"
    THEN {[file |-> F, line |-> NewLines(E, i), content |-> <<"+">> \o E[i].text]} ELSE {}

EditsFound(E, n, F) == UNION {EditFound(E, i, F) : i \in 1..n}

\* After a line that is shown, the parser is in the hunk and knows the next number.
InPlace(E, i, p) == i # 0 /\ Shown(E, i) => p.inHunk /\ p.newLine = NewLines(E, i) + 1

\* The line of an edit, read inside its hunk.
LEMMA MarkedLineParsed ==
  ASSUME NEW E \in Seq(Edits), NEW i \in 1..Len(E)
  PROVE  \A p \in ParserType : \A q :
            /\ p.inHunk /\ p.newLine = NewLines(E, i - 1) + 1
            /\ q = ParseLine(p, Line(Marker(E[i].op) \o E[i].text, NoFile, 0))
            => /\ q \in ParserType /\ q.file = p.file /\ q.inHunk /\ q.newLine = NewLines(E, i) + 1
               /\ ToSet(q.out) = ToSet(p.out) \union EditFound(E, i, p.file)
<1>. SUFFICES ASSUME NEW p \in ParserType, NEW q, p.inHunk, p.newLine = NewLines(E, i - 1) + 1,
                     q = ParseLine(p, Line(Marker(E[i].op) \o E[i].text, NoFile, 0))
              PROVE  /\ q \in ParserType /\ q.file = p.file /\ q.inHunk /\ q.newLine = NewLines(E, i) + 1
                     /\ ToSet(q.out) = ToSet(p.out) \union EditFound(E, i, p.file)
  OBVIOUS
<1>1. E[i] \in Edits /\ E[i].op \in Operations
  BY EditFacts
<1>2. PICK raw \in LineType : raw = Line(Marker(E[i].op) \o E[i].text, NoFile, 0)
  BY <1>1, MarkedLine, Zenon
<1>3. /\ raw.text = Marker(E[i].op) \o E[i].text
      /\ Len(raw.text) # 0
      /\ raw.text[1] = CASE E[i].op = "keep" -> " " [] E[i].op = "del" -> "-"
                         [] E[i].op = "add" -> "+" [] E[i].op = "noNewline" -> "\\"
  <2>1. raw.text = Marker(E[i].op) \o E[i].text
    BY <1>2 DEF Line
  <2>. QED
    BY <1>1, <2>1, MarkedLine, Zenon
<1>4. /\ NewLines(E, i) = NewLines(E, i - 1) + (IF IsNew(E[i]) THEN 1 ELSE 0)
      /\ NewLines(E, i) \in Nat /\ NewLines(E, i - 1) \in Nat
  BY NewLinesCount
<1>5. q = ParseLine(p, raw)
  BY <1>2
<1>6. CASE E[i].op = "add"
  <2>1. raw.text[1] = "+" /\ raw.text = <<"+">> \o E[i].text
    BY <1>3, <1>6 DEF Marker
  <2>2. q = AddLine(p, raw)
    BY <1>3, <2>1, <1>5, MarkedParsed
  <2>3. NewLines(E, i) = p.newLine /\ NewLines(E, i) + 1 = p.newLine + 1
    BY <1>4, <1>6 DEF IsNew
  <2>4. /\ q \in ParserType /\ q.file = p.file /\ q.inHunk = p.inHunk /\ q.newLine = p.newLine + 1
        /\ ToSet(q.out) = ToSet(p.out) \union {[file |-> p.file, line |-> p.newLine, content |-> raw.text]}
    BY <2>2, AddedLine, Zenon
  <2>5. EditFound(E, i, p.file) = {[file |-> p.file, line |-> p.newLine, content |-> raw.text]}
    BY <1>6, <2>1, <2>3 DEF EditFound
  <2>. QED
    BY <2>3, <2>4, <2>5
<1>7. CASE E[i].op = "keep"
  <2>1. q = [p EXCEPT !.newLine = @ + 1]
    BY <1>3, <1>7, <1>5, MarkedParsed
  <2>2. NewLines(E, i) = NewLines(E, i - 1) + 1
    BY <1>4, <1>7 DEF IsNew
  <2>3. q \in ParserType /\ q.file = p.file /\ q.inHunk /\ q.newLine = NewLines(E, i) + 1 /\ q.out = p.out
    BY <1>4, <2>1, <2>2 DEF ParserType
  <2>4. EditFound(E, i, p.file) = {}
    BY <1>7 DEF EditFound
  <2>. QED
    BY <2>3, <2>4
<1>8. CASE E[i].op \in {"del", "noNewline"}
  <2>1. q = p
    BY <1>3, <1>8, <1>5, MarkedParsed
  <2>2. NewLines(E, i) = NewLines(E, i - 1)
    BY <1>4, <1>8 DEF IsNew
  <2>4. EditFound(E, i, p.file) = {}
    BY <1>8 DEF EditFound
  <2>. QED
    BY <2>1, <2>2, <2>4
<1>. QED
  BY <1>1, <1>6, <1>7, <1>8 DEF Operations

\* What git prints of an edit is read as that edit.
LEMMA EditParsed ==
  ASSUME NEW E \in Seq(Edits), NEW i \in 1..Len(E)
  PROVE  \A p \in ParserType : \A q :
            InPlace(E, i - 1, p) /\ q = ParseLines(p, PrintEdit(E, i))
            => /\ q \in ParserType /\ q.file = p.file /\ InPlace(E, i, q)
               /\ ToSet(q.out) = ToSet(p.out) \union EditFound(E, i, p.file)
<1>. SUFFICES ASSUME NEW p \in ParserType, NEW q,
                     InPlace(E, i - 1, p), q = ParseLines(p, PrintEdit(E, i))
              PROVE  /\ q \in ParserType /\ q.file = p.file /\ InPlace(E, i, q)
                     /\ ToSet(q.out) = ToSet(p.out) \union EditFound(E, i, p.file)
  OBVIOUS
<1>1. E[i] \in Edits /\ NewLines(E, i - 1) \in Nat /\ NewLines(E, i - 1) + 1 \in Nat
  <2>1. \A k \in 0..Len(E) : NewLines(E, k) \in Nat
    BY NewLinesCount, Zenon
  <2>2. i - 1 \in 0..Len(E)
    OBVIOUS
  <2>. QED
    BY <2>1, <2>2, EditFacts
<1>2. PICK line \in LineType : line = Line(Marker(E[i].op) \o E[i].text, NoFile, 0)
  BY <1>1, MarkedLine, Zenon
<1>3. \A m \in ParserType : \A n :
         /\ m.inHunk /\ m.newLine = NewLines(E, i - 1) + 1
         /\ n = ParseLine(m, Line(Marker(E[i].op) \o E[i].text, NoFile, 0))
         => /\ n \in ParserType /\ n.file = m.file /\ n.inHunk /\ n.newLine = NewLines(E, i) + 1
            /\ ToSet(n.out) = ToSet(m.out) \union EditFound(E, i, m.file)
  BY MarkedLineParsed, Zenon
<1>4. CASE ~Shown(E, i)
  <2>1. PrintEdit(E, i) = <<>>
    BY <1>4, Zenon DEF PrintEdit
  <2>2. q = p
    BY <2>1, ParseNothing, Zenon
  <2>3. EditFound(E, i, p.file) = {}
    BY <1>4, ChangesAreShown DEF EditFound
  <2>. QED
    BY <1>4, <2>2, <2>3 DEF InPlace
<1>5. CASE Shown(E, i) /\ i > 1 /\ Shown(E, i - 1)
  <2>1. PrintEdit(E, i) = <<>> \o <<line>>
    BY <1>2, <1>5, Zenon DEF PrintEdit
  <2>2. <<>> \o <<line>> = <<line>>
    OBVIOUS
  <2>3. q = ParseLine(p, line)
    BY <2>1, <2>2, ParseOne, Zenon
  <2>4. p.inHunk /\ p.newLine = NewLines(E, i - 1) + 1
    BY <1>5 DEF InPlace
  <2>5. /\ q \in ParserType /\ q.file = p.file /\ q.inHunk /\ q.newLine = NewLines(E, i) + 1
        /\ ToSet(q.out) = ToSet(p.out) \union EditFound(E, i, p.file)
    <3>1. q = ParseLine(p, Line(Marker(E[i].op) \o E[i].text, NoFile, 0))
      BY <1>2, <2>3, Zenon
    <3>. QED
      BY <1>3, <2>4, <3>1, Zenon
  <2>. QED
    BY <2>5, Zenon DEF InPlace
<1>6. CASE Shown(E, i) /\ ~(i > 1 /\ Shown(E, i - 1))
  <2>1. PICK hunk \in LineType : hunk = Line(Hunk, NoFile, NewLines(E, i - 1) + 1)
    BY <1>1, PrefixFacts DEF Line, LineType, Path
  <2>2. PrintEdit(E, i) = <<hunk>> \o <<line>>
    BY <1>2, <1>6, <2>1, Zenon DEF PrintEdit
  <2>3. PICK r : r = ParseLine(p, hunk)
    OBVIOUS
  <2>4. q = ParseLine(r, line)
    <3>1. <<hunk>> \in Seq(LineType) /\ <<line>> \in Seq(LineType)
      BY OneLetter, Zenon
    <3>2. ParseLines(p, <<hunk>> \o <<line>>) = ParseLines(ParseLines(p, <<hunk>>), <<line>>)
      BY <3>1, ParseBoth, Zenon
    <3>3. ParseLines(p, <<hunk>>) = r
      BY <2>3, ParseOne, Zenon
    <3>4. ParseLines(r, <<line>>) = ParseLine(r, line)
      BY ParseOne, Zenon
    <3>. QED
      BY <2>2, <3>2, <3>3, <3>4, Zenon
  <2>5. r = [p EXCEPT !.newLine = NewLines(E, i - 1) + 1, !.inHunk = TRUE]
    <3>1. hunk.text = Hunk /\ hunk.start = NewLines(E, i - 1) + 1
      BY <2>1 DEF Line
    <3>. QED
      BY <2>3, <3>1, HunkParsed
  <2>6. r \in ParserType /\ r.inHunk /\ r.newLine = NewLines(E, i - 1) + 1 /\ r.file = p.file /\ r.out = p.out
    BY <1>1, <2>5 DEF ParserType
  <2>7. /\ q \in ParserType /\ q.file = r.file /\ q.inHunk /\ q.newLine = NewLines(E, i) + 1
        /\ ToSet(q.out) = ToSet(r.out) \union EditFound(E, i, r.file)
    <3>1. q = ParseLine(r, Line(Marker(E[i].op) \o E[i].text, NoFile, 0))
      BY <1>2, <2>4, Zenon
    <3>. QED
      BY <1>3, <2>6, <3>1, Zenon
  <2>. QED
    BY <2>6, <2>7 DEF InPlace
<1>. QED
  BY <1>4, <1>5, <1>6

Printed(E) == [i \in DOMAIN E |-> PrintEdit(E, i)]

\* The edits of a change, one after the other.
LEMMA EditsParsed ==
  ASSUME NEW E \in Seq(Edits)
  PROVE  /\ Printed(E) \in Seq(Seq(LineType)) /\ Len(Printed(E)) = Len(E)
         /\ \A p \in ParserType : \A n \in 0..Len(E) : \A q : q = ParseLines(p, FirstOf(Printed(E), n)) =>
               /\ q \in ParserType /\ q.file = p.file /\ InPlace(E, n, q)
               /\ ToSet(q.out) = ToSet(p.out) \union EditsFound(E, n, p.file)
<1>1. PICK parts : parts = Printed(E)
  OBVIOUS
<1>2. Len(E) \in Nat /\ DOMAIN E = 1..Len(E)
  OBVIOUS
<1>3. parts \in Seq(Seq(LineType)) /\ Len(parts) = Len(E)
  <2>1. \A i \in 1..Len(E) : PrintEdit(E, i) \in Seq(LineType)
    BY PrintEditType
  <2>2. parts = [i \in 1..Len(E) |-> PrintEdit(E, i)]
    BY <1>2, <1>1 DEF Printed
  <2>3. parts \in [1..Len(E) -> Seq(LineType)]
    BY <2>1, <2>2
  <2>. QED
    BY <1>2, <2>3
<1>4. \A i \in 1..Len(E) : parts[i] = PrintEdit(E, i)
  BY <1>2, <1>1 DEF Printed
<1>5. ASSUME NEW p \in ParserType
      PROVE  \A n \in 0..Len(E) : \A q : q = ParseLines(p, FirstOf(parts, n)) =>
                /\ q \in ParserType /\ q.file = p.file /\ InPlace(E, n, q)
                /\ ToSet(q.out) = ToSet(p.out) \union EditsFound(E, n, p.file)
  <2> DEFINE FoundBy(n) == EditsFound(E, n, p.file)
             Good(n) == \A q : q = ParseLines(p, FirstOf(parts, n)) =>
                           /\ q \in ParserType /\ q.file = p.file /\ InPlace(E, n, q)
                           /\ ToSet(q.out) = ToSet(p.out) \union FoundBy(n)
             S == {n \in Nat : n <= Len(E) => Good(n)}
  <2>3. 0 \in S
    <3>1. FirstOf(parts, 0) = <<>>
      BY FirstEmpty, Zenon
    <3>2. ParseLines(p, FirstOf(parts, 0)) = p
      BY <3>1, ParseNothing, Zenon
    <3>3. FoundBy(0) = {} /\ InPlace(E, 0, p)
      BY DEF InPlace, EditsFound
    <3>4. Good(0)
      BY <3>2, <3>3
    <3>. QED
      BY <3>4
  <2>4. ASSUME NEW n \in Nat, n \in S  PROVE n + 1 \in S
    <3>. SUFFICES ASSUME n + 1 <= Len(E)  PROVE Good(n + 1)
      OBVIOUS
    <3>1. /\ n \in 0..Len(parts) - 1 /\ n + 1 \in 1..Len(E) /\ (n + 1) - 1 = n
          /\ n <= Len(E) /\ n \in 0..Len(parts)
      BY <1>2, <1>3
    <3>2. PICK r : r = ParseLines(p, FirstOf(parts, n))
      OBVIOUS
    <3>3. r \in ParserType /\ r.file = p.file /\ InPlace(E, n, r) /\ ToSet(r.out) = ToSet(p.out) \union FoundBy(n)
      BY <2>4, <3>1, <3>2
    <3>. HIDE DEF FoundBy
    <3>4. PICK q : q = ParseLines(p, FirstOf(parts, n + 1))
      OBVIOUS
    <3>5. q = ParseLines(r, PrintEdit(E, n + 1))
      <4>1. FirstOf(parts, n + 1) = FirstOf(parts, n) \o parts[n + 1]
        BY <1>3, <3>1, FirstGrows, Zenon
      <4>2. FirstOf(parts, n) \in Seq(LineType) /\ parts[n + 1] \in Seq(LineType)
        <5>1. FirstOf(parts, n) \in Seq(LineType)
          BY <1>3, <3>1, FirstType, Zenon
        <5>2. parts[n + 1] \in Seq(LineType)
          BY <1>4, <3>1, PrintEditType
        <5>. QED
          BY <5>1, <5>2
      <4>3. ParseLines(p, FirstOf(parts, n) \o parts[n + 1]) = ParseLines(r, parts[n + 1])
        <5>1. \A u, v \in Seq(LineType) : ParseLines(p, u \o v) = ParseLines(ParseLines(p, u), v)
          BY ParseBoth, Zenon
        <5>. QED
          BY <3>2, <4>2, <5>1, Zenon
      <4>. QED
        BY <1>4, <3>1, <3>4, <4>1, <4>3, Zenon
    <3>6. /\ q \in ParserType /\ q.file = r.file /\ InPlace(E, n + 1, q)
          /\ ToSet(q.out) = ToSet(r.out) \union EditFound(E, n + 1, r.file)
      <4>1. InPlace(E, (n + 1) - 1, r)
        BY <3>1, <3>3
      <4>2. PICK k \in 1..Len(E) : k = n + 1
        BY <3>1
      <4>3. InPlace(E, k - 1, r) /\ q = ParseLines(r, PrintEdit(E, k))
        BY <3>5, <4>1, <4>2
      <4>4. /\ q \in ParserType /\ q.file = r.file /\ InPlace(E, k, q)
            /\ ToSet(q.out) = ToSet(r.out) \union EditFound(E, k, r.file)
        <5>1. \A m \in ParserType : \A x :
                 InPlace(E, k - 1, m) /\ x = ParseLines(m, PrintEdit(E, k))
                 => /\ x \in ParserType /\ x.file = m.file /\ InPlace(E, k, x)
                    /\ ToSet(x.out) = ToSet(m.out) \union EditFound(E, k, m.file)
          BY EditParsed, Zenon
        <5>. QED
          BY <3>3, <4>3, <5>1, Zenon
      <4>. QED
        BY <4>2, <4>4
    <3>7. FoundBy(n + 1) = FoundBy(n) \union EditFound(E, n + 1, p.file)
      <4>1. 1..n + 1 = (1..n) \union {n + 1}
        OBVIOUS
      <4>. QED
        BY <4>1 DEF FoundBy, EditsFound
    <3>8. ToSet(q.out) = ToSet(p.out) \union FoundBy(n + 1)
      BY <3>3, <3>6, <3>7
    <3>. QED
      BY <3>3, <3>4, <3>6, <3>8
  <2>. HIDE DEF S, Good
  <2>5. Nat \subseteq S
    BY <2>3, <2>4, NextInduction
  <2>6. \A n \in 0..Len(E) : Good(n)
    BY <1>2, <2>5 DEF S
  <2>. QED
    BY <2>6, Zenon DEF Good
<1>. QED
  BY <1>3, <1>5, <1>1, Zenon

-----------------------------------------------------------------------------
(* The parser reads the changes of a push *)

\* What the scan is to find of a change.
ChangeFound(c) == UNION {EditFound(c.edits, i, c.new) : i \in 1..Len(c.edits)}

\* The parts of a change.
LEMMA ChangeFacts ==
  ASSUME NEW c \in Changes
  PROVE  /\ c.edits \in Seq(Edits) /\ c.old \in Path /\ c.new \in Path
         /\ stripDiffPath(c.old) \in Path /\ stripDiffPath(c.new) \in Path
         /\ c.new = DevNull => \A i \in 1..Len(c.edits) : c.edits[i].op \notin {"keep", "add"}
<1>1. /\ c \in [old : STRING, new : STRING, edits : Seq(Edits)]
      /\ c.new = DevNull => \A i \in DOMAIN c.edits : c.edits[i].op \notin {"keep", "add"}
  BY DEF Changes
<1>2. c.edits \in Seq(Edits) /\ c.old \in STRING /\ c.new \in STRING
  BY <1>1
<1>3. DOMAIN c.edits = 1..Len(c.edits)
  BY <1>2
<1>. QED
  BY <1>1, <1>2, <1>3 DEF Path, stripDiffPath

Headers(c) ==
    <<Line(DiffHeader, NoFile, 0), Line(<<"i">>, NoFile, 0),
      Line(OldPath, c.old, 0), Line(NewPath, c.new, 0)>>

LEMMA HeaderTypes ==
  ASSUME NEW c \in Changes
  PROVE  /\ Line(DiffHeader, NoFile, 0) \in LineType /\ Line(<<"i">>, NoFile, 0) \in LineType
         /\ Line(OldPath, c.old, 0) \in LineType /\ Line(NewPath, c.new, 0) \in LineType
         /\ Headers(c) \in Seq(LineType)
<1>1. <<"i">> \in Seq(Letter)
  <2>1. "i" \in Letter
    BY DEF Letter
  <2>. QED
    BY <2>1, OneLetter
<1>2. \A t \in Seq(Letter), f \in Path : Line(t, f, 0) \in LineType
  BY DEF Line, LineType
<1>3. NoFile \in Path /\ c.old \in Path /\ c.new \in Path
  BY ChangeFacts DEF Path
<1>4. /\ Line(DiffHeader, NoFile, 0) \in LineType /\ Line(<<"i">>, NoFile, 0) \in LineType
      /\ Line(OldPath, c.old, 0) \in LineType /\ Line(NewPath, c.new, 0) \in LineType
  BY <1>1, <1>2, <1>3, PrefixFacts, Zenon
<1>5. \A a, b, d, e \in LineType : <<a, b, d, e>> \in Seq(LineType)
  OBVIOUS
<1>. QED
  BY <1>4, <1>5, Zenon DEF Headers

\* A change's headers name its file, and end the hunk before.
LEMMA HeadersParsed ==
  ASSUME NEW c \in Changes, NEW p \in ParserType, NEW q, q = ParseLines(p, Headers(c))
  PROVE  q \in ParserType /\ q.file = stripDiffPath(c.new) /\ q.out = p.out
<1>1. PICK a \in LineType, b \in LineType, d \in LineType, e \in LineType :
         /\ a = Line(DiffHeader, NoFile, 0) /\ b = Line(<<"i">>, NoFile, 0)
         /\ d = Line(OldPath, c.old, 0) /\ e = Line(NewPath, c.new, 0)
  BY HeaderTypes, Zenon
<1>2. PICK diff : diff = <<a, b, d, e>>
  OBVIOUS
<1>3. Len(diff) = 4 /\ diff[1] = a /\ diff[2] = b /\ diff[3] = d /\ diff[4] = e
  BY <1>2
<1>4. PICK f : /\ ParseLines(p, diff) = f[Len(diff)] /\ f[0] = p
               /\ \A n \in 1..Len(diff) : f[n] = ParseLine(f[n - 1], diff[n])
  <2>1. Len(diff) \in Nat
    BY <1>3
  <2>. QED
    BY <2>1, ParseUnfolds
<1>5. /\ f[1] = ParseLine(p, a) /\ f[2] = ParseLine(f[1], b)
      /\ f[3] = ParseLine(f[2], d) /\ f[4] = ParseLine(f[3], e)
  <2>1. /\ 1 \in 1..Len(diff) /\ 2 \in 1..Len(diff) /\ 3 \in 1..Len(diff) /\ 4 \in 1..Len(diff)
        /\ 1 - 1 = 0 /\ 2 - 1 = 1 /\ 3 - 1 = 2 /\ 4 - 1 = 3
    BY <1>3
  <2>2. /\ f[1] = ParseLine(f[1 - 1], diff[1]) /\ f[2] = ParseLine(f[2 - 1], diff[2])
        /\ f[3] = ParseLine(f[3 - 1], diff[3]) /\ f[4] = ParseLine(f[4 - 1], diff[4])
    BY <1>4, <2>1, Zenon
  <2>. QED
    BY <1>3, <1>4, <2>1, <2>2
<1>6. q = f[4]
  <2>1. q = ParseLines(p, diff)
    BY <1>1, <1>2, Zenon DEF Headers
  <2>. QED
    BY <1>3, <1>4, <2>1
<1>7. /\ a.text = DiffHeader /\ b.text = <<"i">> /\ d.text = OldPath /\ e.text = NewPath
      /\ d.path = c.old /\ e.path = c.new
  BY <1>1 DEF Line
<1>8. PICK r : r = f[1]
  OBVIOUS
<1>9. r \in ParserType /\ ~r.inHunk /\ r.file = NoFile /\ r.out = p.out
  <2>1. r = [p EXCEPT !.inHunk = FALSE, !.file = NoFile]
    BY <1>5, <1>7, <1>8, HeaderParsed
  <2>. QED
    BY <2>1 DEF ParserType, Path
<1>10. f[2] = r
  BY <1>5, <1>7, <1>8, <1>9, IndexParsed
<1>11. PICK s : s = f[3]
  OBVIOUS
<1>12. s \in ParserType /\ ~s.inHunk /\ s.out = p.out
  <2>1. s = [r EXCEPT !.file = stripDiffPath(c.old)]
    <3>1. s = ParseLine(r, d)
      BY <1>5, <1>10, <1>11
    <3>. QED
      BY <1>7, <1>9, <3>1, OldPathParsed
  <2>2. stripDiffPath(c.old) \in Path
    BY ChangeFacts
  <2>. QED
    BY <1>9, <2>1, <2>2 DEF ParserType
<1>13. q = [s EXCEPT !.file = stripDiffPath(c.new)]
  <2>1. q = ParseLine(s, e)
    BY <1>5, <1>6, <1>11
  <2>. QED
    BY <1>7, <1>12, <2>1, NewPathParsed
<1>14. stripDiffPath(c.new) \in Path
  BY ChangeFacts
<1>. QED
  BY <1>12, <1>13, <1>14 DEF ParserType

\* What git prints of a change is read as that change.
LEMMA ChangeParsed ==
  ASSUME NEW c \in Changes
  PROVE  /\ PrintChange(c) \in Seq(LineType)
         /\ \A p \in ParserType : \A q : q = ParseLines(p, PrintChange(c)) =>
               q \in ParserType /\ ToSet(q.out) = ToSet(p.out) \union ChangeFound(c)
<1>0. PICK E \in Seq(Edits) : E = c.edits
  BY ChangeFacts
<1>1. PICK parts : parts = Printed(E)
  OBVIOUS
<1>2. /\ parts \in Seq(Seq(LineType)) /\ Len(parts) = Len(E)
      /\ \A p \in ParserType : \A n \in 0..Len(E) : \A q : q = ParseLines(p, FirstOf(parts, n)) =>
            /\ q \in ParserType /\ q.file = p.file /\ InPlace(E, n, q)
            /\ ToSet(q.out) = ToSet(p.out) \union EditsFound(E, n, p.file)
  BY <1>1, EditsParsed, Zenon
<1>3. FlattenSeq(parts) = FirstOf(parts, Len(E)) /\ FirstOf(parts, Len(E)) \in Seq(LineType) /\ Len(E) \in 0..Len(E)
  <2>1. Len(E) \in 0..Len(E)
    OBVIOUS
  <2>. QED
    BY <1>2, <2>1, FirstWhole, FirstType, Zenon
<1>4. PICK printed \in Seq(LineType) : printed = FirstOf(parts, Len(E))
  BY <1>3
<1>5. PICK before \in Seq(LineType) : before = Headers(c)
  BY HeaderTypes
<1>6. PrintChange(c) = before \o printed /\ PrintChange(c) \in Seq(LineType)
  <2>1. PrintChange(c) = before \o printed
    BY <1>0, <1>1, <1>3, <1>4, <1>5, Zenon DEF PrintChange, Headers, Printed
  <2>2. before \o printed \in Seq(LineType)
    BY ConcatProperties, Zenon
  <2>. QED
    BY <2>1, <2>2, Zenon
<1>7. ASSUME NEW p \in ParserType, NEW q, q = ParseLines(p, PrintChange(c))
      PROVE  q \in ParserType /\ ToSet(q.out) = ToSet(p.out) \union ChangeFound(c)
  <2>1. PICK r : r = ParseLines(p, before)
    OBVIOUS
  <2>2. r \in ParserType /\ r.file = stripDiffPath(c.new) /\ r.out = p.out
    BY <1>5, <2>1, HeadersParsed, Zenon
  <2>3. q = ParseLines(r, printed)
    <3>1. \A s, t \in Seq(LineType) : ParseLines(p, s \o t) = ParseLines(ParseLines(p, s), t)
      BY ParseBoth, Zenon
    <3>. QED
      BY <1>6, <1>7, <2>1, <3>1, Zenon
  <2>4. /\ q \in ParserType
        /\ ToSet(q.out) = ToSet(r.out) \union EditsFound(E, Len(E), r.file)
    BY <1>2, <1>3, <1>4, <2>2, <2>3, Zenon
  <2>5. EditsFound(E, Len(E), r.file) = ChangeFound(c)
    <3>1. \A i \in 1..Len(E) : EditFound(E, i, r.file) = EditFound(E, i, c.new)
      BY <1>0, <2>2, ChangeFacts DEF EditFound, stripDiffPath
    <3>. QED
      BY <1>0, <3>1 DEF ChangeFound, EditsFound
  <2>. QED
    BY <2>2, <2>4, <2>5
<1>. QED
  BY <1>6, <1>7

DiffFound(changes) == UNION {ChangeFound(changes[f]) : f \in 1..Len(changes)}

\* What git prints of a push's changes is read as these changes.
LEMMA DiffParsed ==
  ASSUME NEW changes \in Seq(Changes)
  PROVE  ToSet(parseAddedChanges(GitDiff(changes))) = DiffFound(changes)
<1>0. Len(changes) \in Nat /\ DOMAIN changes = 1..Len(changes) /\ Parser \in ParserType
      /\ ToSet(Parser.out) = {}
  BY DEF Parser, ParserType, Path, ToSet
<1>1. CASE changes = <<>>
  <2>1. GitDiff(changes) = <<>>
    BY <1>1, Zenon DEF GitDiff
  <2>2. parseAddedChanges(GitDiff(changes)) = Parser.out
    BY <2>1, ParseNothing, Zenon DEF parseAddedChanges
  <2>3. DiffFound(changes) = {}
    BY <1>1 DEF DiffFound
  <2>. QED
    BY <1>0, <2>2, <2>3
<1>2. CASE changes # <<>>
  <2>1. PICK parts : parts = [i \in DOMAIN changes |-> PrintChange(changes[i])]
    OBVIOUS
  <2>2. ASSUME NEW i \in 1..Len(changes)
        PROVE  /\ parts[i] = PrintChange(changes[i]) /\ changes[i] \in Changes
               /\ parts[i] \in Seq(LineType)
    <3>1. parts[i] = PrintChange(changes[i]) /\ changes[i] \in Changes
      BY <1>0, <2>1
    <3>2. PrintChange(changes[i]) \in Seq(LineType)
      BY <3>1, ChangeParsed, Zenon
    <3>. QED
      BY <3>1, <3>2
  <2>3. parts \in Seq(Seq(LineType)) /\ Len(parts) = Len(changes)
    <3>1. parts \in [1..Len(changes) -> Seq(LineType)]
      <4>1. parts = [i \in 1..Len(changes) |-> parts[i]]
        BY <1>0, <2>1
      <4>. QED
        BY <2>2, <4>1
    <3>. QED
      BY <1>0, <3>1
  <2> DEFINE FoundBy(n) == UNION {ChangeFound(changes[f]) : f \in 1..n}
             Good(n) == \A q : q = ParseLines(Parser, FirstOf(parts, n)) =>
                           q \in ParserType /\ ToSet(q.out) = FoundBy(n)
             S == {n \in Nat : n <= Len(changes) => Good(n)}
  <2>4. 0 \in S
    <3>1. FirstOf(parts, 0) = <<>>
      BY FirstEmpty, Zenon
    <3>2. ParseLines(Parser, FirstOf(parts, 0)) = Parser
      BY <3>1, ParseNothing, Zenon
    <3>3. FoundBy(0) = {}
      OBVIOUS
    <3>4. Good(0)
      BY <1>0, <3>2, <3>3
    <3>. QED
      BY <3>4
  <2>5. ASSUME NEW n \in Nat, n \in S  PROVE n + 1 \in S
    <3>. SUFFICES ASSUME n + 1 <= Len(changes)  PROVE Good(n + 1)
      OBVIOUS
    <3>1. /\ n \in 0..Len(parts) - 1 /\ n + 1 \in 1..Len(changes) /\ n <= Len(changes)
          /\ n \in 0..Len(parts)
      BY <1>0, <2>3
    <3>2. PICK r : r = ParseLines(Parser, FirstOf(parts, n))
      OBVIOUS
    <3>3. r \in ParserType /\ ToSet(r.out) = FoundBy(n)
      BY <2>5, <3>1, <3>2
    <3>. HIDE DEF FoundBy
    <3>4. PICK q : q = ParseLines(Parser, FirstOf(parts, n + 1))
      OBVIOUS
    <3>5. PICK c \in Changes : c = changes[n + 1] /\ parts[n + 1] = PrintChange(c)
      BY <2>2, <3>1
    <3>6. q = ParseLines(r, PrintChange(c))
      <4>1. FirstOf(parts, n + 1) = FirstOf(parts, n) \o parts[n + 1]
        BY <2>3, <3>1, FirstGrows, Zenon
      <4>2. FirstOf(parts, n) \in Seq(LineType) /\ parts[n + 1] \in Seq(LineType)
        BY <2>2, <2>3, <3>1, FirstType, Zenon
      <4>3. \A u, v \in Seq(LineType) : ParseLines(Parser, u \o v) = ParseLines(ParseLines(Parser, u), v)
        BY ParseBoth, Zenon
      <4>. QED
        BY <3>2, <3>4, <3>5, <4>1, <4>2, <4>3, Zenon
    <3>7. q \in ParserType /\ ToSet(q.out) = ToSet(r.out) \union ChangeFound(c)
      <4>1. \A m \in ParserType : \A x : x = ParseLines(m, PrintChange(c)) =>
               x \in ParserType /\ ToSet(x.out) = ToSet(m.out) \union ChangeFound(c)
        BY ChangeParsed, Zenon
      <4>. QED
        BY <3>3, <3>6, <4>1, Zenon
    <3>8. FoundBy(n + 1) = FoundBy(n) \union ChangeFound(changes[n + 1])
      <4>1. 1..n + 1 = (1..n) \union {n + 1}
        OBVIOUS
      <4>. QED
        BY <4>1 DEF FoundBy
    <3>. QED
      BY <3>3, <3>4, <3>5, <3>7, <3>8
  <2>. HIDE DEF S, Good
  <2>6. Nat \subseteq S
    BY <2>4, <2>5, NextInduction
  <2>7. Good(Len(changes))
    BY <1>0, <2>6 DEF S
  <2>8. FlattenSeq(parts) = FirstOf(parts, Len(changes)) /\ FlattenSeq(parts) \in Seq(LineType)
    <3>1. Len(parts) \in 0..Len(parts)
      BY <2>3
    <3>. QED
      BY <2>3, <3>1, FirstWhole, FirstType, Zenon
  <2>9. PICK last \in LineType : last = Line(<<>>, NoFile, 0)
    <3>1. <<>> \in Seq(Letter) /\ NoFile \in Path
      BY DEF Path
    <3>. QED
      BY <3>1 DEF Line, LineType
  <2>10. GitDiff(changes) = FlattenSeq(parts) \o <<last>>
    BY <1>2, <2>1, <2>9, Zenon DEF GitDiff
  <2>11. PICK q : q = ParseLines(Parser, FlattenSeq(parts))
    OBVIOUS
  <2>12. q \in ParserType /\ ToSet(q.out) = FoundBy(Len(changes))
    BY <2>7, <2>8, <2>11, Zenon DEF Good
  <2>13. ParseLines(Parser, GitDiff(changes)) = ParseLine(q, last)
    <3>1. <<last>> \in Seq(LineType)
      BY OneLetter, Zenon
    <3>2. \A u, v \in Seq(LineType) : ParseLines(Parser, u \o v) = ParseLines(ParseLines(Parser, u), v)
      BY ParseBoth, Zenon
    <3>3. ParseLines(q, <<last>>) = ParseLine(q, last)
      BY ParseOne, Zenon
    <3>. QED
      BY <2>8, <2>10, <2>11, <3>1, <3>2, <3>3, Zenon
  <2>14. ParseLine(q, last).out = q.out
    <3>1. last.text = <<>>
      BY <2>9 DEF Line
    <3>. QED
      BY <2>12, <3>1, LastParsed, Zenon
  <2>15. FoundBy(Len(changes)) = DiffFound(changes)
    BY DEF DiffFound
  <2>. HIDE DEF FoundBy
  <2>. QED
    BY <2>12, <2>13, <2>14, <2>15, Zenon DEF parseAddedChanges
<1>. QED
  BY <1>1, <1>2

-----------------------------------------------------------------------------
(* What the scan reports *)

\* What the parser finds is what the push adds, with the plus sign before each text.
LEMMA FoundIsAdded ==
  ASSUME NEW changes \in Seq(Changes)
  PROVE  DiffFound(changes) =
            {[file |-> l.file, line |-> l.line, content |-> <<"+">> \o l.text] : l \in AddedLines(changes)}
<1>0. DOMAIN changes = 1..Len(changes)
  OBVIOUS
<1>1. ASSUME NEW f \in 1..Len(changes)
      PROVE  DOMAIN changes[f].edits = 1..Len(changes[f].edits)
  <2>1. changes[f] \in Changes
    OBVIOUS
  <2>2. changes[f].edits \in Seq(Edits)
    BY <2>1, ChangeFacts
  <2>. QED
    BY <2>2
<1> DEFINE At(f, i) == [file |-> changes[f].new, line |-> NewLines(changes[f].edits, i),
                        content |-> <<"+">> \o changes[f].edits[i].text]
           Added(f, i) == [file |-> changes[f].new, line |-> NewLines(changes[f].edits, i),
                           text |-> changes[f].edits[i].text]
           Ins(f) == {i \in 1..Len(changes[f].edits) : changes[f].edits[i].op = "add"}
           With(l) == [file |-> l.file, line |-> l.line, content |-> <<"+">> \o l.text]
<1>2. \A x : x \in AddedLines(changes) <=> \E f \in 1..Len(changes) : \E i \in Ins(f) : x = Added(f, i)
  <2>1. AddedLines(changes) = UNION {{Added(f, i) : i \in Ins(f)} : f \in 1..Len(changes)}
    BY <1>0, <1>1 DEF AddedLines
  <2>. HIDE DEF Added, Ins
  <2>. QED
    BY <2>1
<1>3. \A x : x \in DiffFound(changes) <=> \E f \in 1..Len(changes) : \E i \in Ins(f) : x = At(f, i)
  <2>1. ASSUME NEW f \in 1..Len(changes)
        PROVE  \A x : x \in ChangeFound(changes[f]) <=> \E i \in Ins(f) : x = At(f, i)
    <3>1. ASSUME NEW i \in 1..Len(changes[f].edits)
          PROVE  EditFound(changes[f].edits, i, changes[f].new) = IF i \in Ins(f) THEN {At(f, i)} ELSE {}
      BY DEF EditFound
    <3>. HIDE DEF At
    <3>2. Ins(f) \subseteq 1..Len(changes[f].edits)
      OBVIOUS
    <3>. HIDE DEF Ins
    <3>3. \A x : x \in ChangeFound(changes[f]) <=>
               \E i \in 1..Len(changes[f].edits) : x \in EditFound(changes[f].edits, i, changes[f].new)
      BY DEF ChangeFound
    <3>. QED
      BY <3>1, <3>2, <3>3
  <2>2. \A x : x \in DiffFound(changes) <=> \E f \in 1..Len(changes) : x \in ChangeFound(changes[f])
    BY DEF DiffFound
  <2>. HIDE DEF At, Ins
  <2>3. ASSUME NEW x, x \in DiffFound(changes)
        PROVE  \E f \in 1..Len(changes) : \E i \in Ins(f) : x = At(f, i)
    <3>1. PICK f \in 1..Len(changes) : x \in ChangeFound(changes[f])
      BY <2>2, <2>3
    <3>2. \E i \in Ins(f) : x = At(f, i)
      BY <2>1, <3>1
    <3>. QED
      BY <3>2, Zenon
  <2>4. ASSUME NEW x, NEW f \in 1..Len(changes), NEW i \in Ins(f), x = At(f, i)
        PROVE  x \in DiffFound(changes)
    <3>1. x \in ChangeFound(changes[f])
      BY <2>1, <2>4
    <3>. QED
      BY <2>2, <3>1, Zenon
  <2>. QED
    BY <2>3, <2>4, Zenon
<1>4. \A f, i : At(f, i) = With(Added(f, i))
  OBVIOUS
<1>. HIDE DEF At, Added, Ins, With
<1>5. ASSUME NEW x
      PROVE  x \in DiffFound(changes) <=> \E l \in AddedLines(changes) : x = With(l)
  <2>1. ASSUME x \in DiffFound(changes)  PROVE \E l \in AddedLines(changes) : x = With(l)
    <3>1. PICK f \in 1..Len(changes) : \E i \in Ins(f) : x = At(f, i)
      BY <1>3, <2>1, Zenon
    <3>2. PICK i \in Ins(f) : x = At(f, i)
      BY <3>1
    <3>3. Added(f, i) \in AddedLines(changes) /\ x = With(Added(f, i))
      BY <1>2, <1>4, <3>2, Zenon
    <3>. QED
      BY <3>3, Zenon
  <2>2. ASSUME NEW l \in AddedLines(changes), x = With(l)  PROVE x \in DiffFound(changes)
    <3>1. PICK f \in 1..Len(changes) : \E i \in Ins(f) : l = Added(f, i)
      BY <1>2, <2>2, Zenon
    <3>. QED
      BY <1>3, <1>4, <2>2, <3>1, Zenon
  <2>. QED
    BY <2>1, <2>2, Zenon
<1>6. DiffFound(changes) = {With(l) : l \in AddedLines(changes)}
  BY <1>5
<1>. QED
  BY <1>6 DEF With

\* The plus sign matches no rule, so an added line matches what its text matches.
LEMMA PlusMatchesNothing ==
  ASSUME NEW t \in Seq(DOMAIN Hits), NEW r
  PROVE  (\E k \in DOMAIN (<<"+">> \o t) : r \in Hits[(<<"+">> \o t)[k]])
            <=> \E k \in DOMAIN t : r \in Hits[t[k]]
<1>1. PICK s \in Seq(DOMAIN Hits) : s = <<"+">> /\ Len(s) = 1 /\ s[1] = "+"
  BY DiffAssumption, OneLetter, Zenon
<1>2. PICK c \in Seq(DOMAIN Hits) :
         /\ c = s \o t /\ Len(c) = Len(s) + Len(t)
         /\ \A i \in 1..Len(s) : c[i] = s[i]
         /\ \A i \in 1..Len(t) : c[Len(s) + i] = t[i]
  <2>1. \A u, v \in Seq(DOMAIN Hits) :
           /\ u \o v \in Seq(DOMAIN Hits) /\ Len(u \o v) = Len(u) + Len(v)
           /\ \A i \in 1..Len(u) : (u \o v)[i] = u[i]
           /\ \A i \in 1..Len(v) : (u \o v)[Len(u) + i] = v[i]
    BY Concatenated
  <2>. QED
    BY <2>1, Zenon
<1>3. DOMAIN c = 1..Len(t) + 1 /\ DOMAIN t = 1..Len(t) /\ Len(t) \in Nat
  BY <1>1, <1>2
<1>4. c[1] = "+" /\ \A i \in 1..Len(t) : c[i + 1] = t[i]
  BY <1>1, <1>2, <1>3
<1>5. ASSUME NEW k \in DOMAIN c, r \in Hits[c[k]]  PROVE \E j \in DOMAIN t : r \in Hits[t[j]]
  <2>1. k # 1
    BY <1>4, <1>5, DiffAssumption
  <2>2. PICK j \in 1..Len(t) : k = j + 1
    <3>1. k - 1 \in 1..Len(t) /\ k = (k - 1) + 1
      BY <1>3, <2>1
    <3>. QED
      BY <3>1
  <2>. QED
    BY <1>3, <1>4, <1>5, <2>2
<1>6. ASSUME NEW j \in DOMAIN t, r \in Hits[t[j]]  PROVE \E k \in DOMAIN c : r \in Hits[c[k]]
  <2>1. j + 1 \in DOMAIN c /\ c[j + 1] = t[j]
    BY <1>3, <1>4
  <2>. QED
    BY <1>6, <2>1
<1>. QED
  BY <1>1, <1>2, <1>5, <1>6

\* Rule by rule and line by line: what the scan of a diff reports under the rules M is
\* what the push adds that they match.
LEMMA ScanIsExact ==
  ASSUME NEW changes \in Seq(Changes), NEW M
  PROVE  UNION {{<<r, l.file, l.line>> :
                     r \in {q \in M : \E k \in DOMAIN l.text : q \in Hits[l.text[k]]}} :
                 l \in AddedLines(changes)}
            = UNION {{<<v.rule, v.file, n>> : n \in v.lines} : v \in scanDiffViolations(GitDiff(changes), M)}
<1> DEFINE Lines == AddedLines(changes)
           Matches(l, r) == \E k \in DOMAIN l.text : r \in Hits[l.text[k]]
           With(l) == [file |-> l.file, line |-> l.line, content |-> <<"+">> \o l.text]
           Shows == ToSet(parseAddedChanges(GitDiff(changes)))
           Hit == {h \in M \X Shows : \E k \in DOMAIN h[2].content : h[1] \in Hits[h[2].content[k]]}
           Report(f) == [rule |-> f[1], file |-> f[2].file,
                         lines |-> {g[2].line : g \in {h \in Hit : h[1] = f[1] /\ h[2].file = f[2].file}}]
<1>1. Shows = {With(l) : l \in Lines}
  BY DiffParsed, FoundIsAdded
<1>2. scanDiffViolations(GitDiff(changes), M) = {Report(f) : f \in Hit}
  BY Zenon DEF scanDiffViolations
<1>3. ASSUME NEW l \in Lines  PROVE l.text \in Seq(DOMAIN Hits)
  <2>1. PICK f \in DOMAIN changes :
           \E i \in {j \in DOMAIN changes[f].edits : changes[f].edits[j].op = "add"} :
              l = [file |-> changes[f].new, line |-> NewLines(changes[f].edits, i),
                   text |-> changes[f].edits[i].text]
    BY DEF AddedLines
  <2>2. PICK E \in Seq(Edits) : E = changes[f].edits
    BY ChangeFacts
  <2>3. PICK i \in DOMAIN E : l.text = E[i].text
    BY <2>1, <2>2
  <2>. QED
    BY <2>3, EditFacts
<1>4. \A h : h \in Hit <=> \E r \in M : \E l \in Lines : h = <<r, With(l)>> /\ Matches(l, r)
  <2>1. ASSUME NEW r \in M, NEW l \in Lines
        PROVE  Matches(l, r) <=> \E k \in DOMAIN With(l).content : r \in Hits[With(l).content[k]]
    BY <1>3, PlusMatchesNothing
  <2>2. \A h : h \in M \X Shows <=> \E r \in M : \E l \in Lines : h = <<r, With(l)>>
    <3>. HIDE DEF With, Lines, Shows
    <3>. QED
      BY <1>1
  <2>. HIDE DEF With, Lines, Shows, Matches
  <2>3. \A r, l : <<r, With(l)>>[1] = r /\ <<r, With(l)>>[2] = With(l)
    OBVIOUS
  <2>. QED
    BY <2>1, <2>2, <2>3
<1>5. \A l : With(l).file = l.file /\ With(l).line = l.line
  OBVIOUS
<1>. HIDE DEF With, Lines, Shows, Matches, Hit
<1>6. ASSUME NEW r \in M, NEW l \in Lines, Matches(l, r)
      PROVE  \E v \in scanDiffViolations(GitDiff(changes), M) :
                v.rule = r /\ v.file = l.file /\ l.line \in v.lines
  <2>1. PICK h \in Hit : h = <<r, With(l)>>
    BY <1>4, <1>6
  <2>2. h[1] = r /\ h[2].file = l.file /\ h[2].line = l.line
    BY <1>5, <2>1
  <2>3. Report(h) \in scanDiffViolations(GitDiff(changes), M)
    BY <1>2, Zenon
  <2>4. Report(h).rule = h[1] /\ Report(h).file = h[2].file /\ h[2].line \in Report(h).lines
    OBVIOUS
  <2>. HIDE DEF Report
  <2>. QED
    BY <2>2, <2>3, <2>4
<1>7. ASSUME NEW v \in scanDiffViolations(GitDiff(changes), M), NEW n \in v.lines
      PROVE  \E l \in Lines : v.rule \in M /\ Matches(l, v.rule) /\ v.file = l.file /\ n = l.line
  <2>1. PICK f \in Hit : v = Report(f)
    BY <1>2
  <2>2. PICK g \in Hit : g[1] = f[1] /\ g[2].file = f[2].file /\ n = g[2].line
    BY <1>7, <2>1
  <2>3. PICK r \in M, l \in Lines : g = <<r, With(l)>> /\ Matches(l, r)
    BY <1>4, <2>2
  <2>. QED
    BY <1>5, <2>1, <2>2, <2>3
<1>8. ASSUME NEW x
      PROVE  x \in UNION {{<<r, l.file, l.line>> : r \in {q \in M : Matches(l, q)}} : l \in Lines}
                <=> \E l \in Lines : \E r \in M : Matches(l, r) /\ x = <<r, l.file, l.line>>
  OBVIOUS
<1>9. ASSUME NEW x
      PROVE  x \in UNION {{<<v.rule, v.file, n>> : n \in v.lines} : v \in scanDiffViolations(GitDiff(changes), M)}
                <=> \E v \in scanDiffViolations(GitDiff(changes), M) : \E n \in v.lines : x = <<v.rule, v.file, n>>
  OBVIOUS
<1>10. UNION {{<<r, l.file, l.line>> : r \in {q \in M : Matches(l, q)}} : l \in Lines}
         = UNION {{<<v.rule, v.file, n>> : n \in v.lines} : v \in scanDiffViolations(GitDiff(changes), M)}
  BY <1>6, <1>7, <1>8, <1>9
<1>. QED
  BY <1>10, Zenon DEF Matches, Lines

\* Of whatever changes, in whatever files and with whatever text, where no rule matches the
\* plus sign itself: the scan reports the added lines that match a rule, each under its path
\* and its number, and no other; and no push that adds such a line is held for review.
THEOREM ScanReportsAddedLines == Spec => []ScanFindsAddedLines
<1>1. Init => ScanFindsAddedLines
  BY DEF Init, ScanFindsAddedLines
<1>2. ASSUME ChecksInv, ScanFindsAddedLines, [Next]_vars  PROVE ScanFindsAddedLines'
  <2>1. ASSUME stage' = stage \/ stage' # "held", UNCHANGED <<push, violations>>
        PROVE  ScanFindsAddedLines'
    <3>1. Offences' = Offences
      BY <2>1 DEF Offences, Rulings
    <3>. QED
      BY <1>2, <2>1, <3>1 DEF ScanFindsAddedLines
  <2>2. CASE ScanDiff
    <3>1. push.changes \in Seq(Changes) /\ UNCHANGED push
      BY <1>2, <2>2, PushesAssumption DEF ChecksInv, PushType, ScanDiff, world
    <3>2. Offences' = Offences
      BY <3>1 DEF Offences, Rulings
    <3>3. Offences = UNION {{<<v.rule, v.file, n>> : n \in v.lines} :
                               v \in scanDiffViolations(GitDiff(push.changes), Rulings)}
      BY <3>1, ScanIsExact, Zenon DEF Offences
    <3>4. CASE DiffRulesCompile
      <4>1. violations' = scanDiffViolations(GitDiff(push.changes), Rulings)
        BY <2>2, <3>4 DEF ScanDiff, Rulings
      <4>2. Offences' = UNION {{<<v.rule, v.file, n>> : n \in v.lines} : v \in violations'}
        BY <3>2, <3>3, <4>1, Zenon
      <4>3. stage' = "held" => violations' = {}
        BY <2>2 DEF ScanDiff
      <4>. QED
        BY <4>2, <4>3 DEF ScanFindsAddedLines
    <3>5. CASE ~DiffRulesCompile
      <4>1. violations' = {} /\ stage' = "refused"
        BY <2>2, <3>5 DEF ScanDiff
      <4>. QED
        BY <4>1 DEF ScanFindsAddedLines
    <3>. QED
      BY <3>4, <3>5
  <2>3. CASE UNCHANGED vars
    BY <2>1, <2>3 DEF vars
  <2>4. CASE \/ ParsePush \/ CheckEmptyBranch \/ CheckRepoInAuthorisedList \/ CheckCommitMessages
             \/ CheckAuthorEmails \/ CheckUserPushPermission \/ PullRemote \/ WritePack
             \/ CheckHiddenCommits \/ GetDiff \/ RunGitleaks
    BY <2>1, <2>4 DEF ParsePush, CheckEmptyBranch, CheckRepoInAuthorisedList, CheckCommitMessages,
       CheckAuthorEmails, CheckUserPushPermission, PullRemote, WritePack, CheckHiddenCommits, GetDiff,
       RunGitleaks, Pass, Refuse, world, results
  <2>5. ASSUME NEW b \in Branches, NEW c \in Commits, UpstreamMoves(b, c)  PROVE ScanFindsAddedLines'
    BY <2>1, <2>5 DEF UpstreamMoves, results
  <2>6. CASE RepoDeleted
    BY <2>1, <2>6 DEF RepoDeleted, results
  <2>. QED
    BY <1>2, <2>2, <2>3, <2>4, <2>5, <2>6 DEF Next
<1>3. ChecksInv /\ ScanFindsAddedLines /\ [Next]_vars => ScanFindsAddedLines'
  BY <1>2
<1>. QED
  BY <1>1, <1>3, ChecksInvariant, PTL DEF Spec

-----------------------------------------------------------------------------
(* An ordinary push *)

\* The upstream's tips, as far as they are known now.
Tips == {heads[b] : b \in Branches} \ {Zero}

\* From the clone on.
FromClone == FromPack \union {"writePack"}

\* A repository without a record has no users, and the checkout holds the tips that stay
\* the upstream's.
WorldInv ==
    /\ repo \in RepoType
    /\ stage \in FromClone => checkout = Tips

LEMMA WorldInvariant == Spec => [](ChecksInv /\ WorldInv)
<1>1. Init => WorldInv
  <2>1. ASSUME Init  PROVE repo \in RepoType /\ stage \notin FromClone
    BY <2>1, PushesAssumption DEF Init, PushType, FromClone, FromPack, FromRange, FromDiff
  <2>. QED
    BY <2>1 DEF WorldInv
<1>2. ASSUME WorldInv, [Next]_vars  PROVE WorldInv'
  <2> USE DEF WorldInv, FromClone, FromPack, FromRange, FromDiff
  <2>1. ASSUME UNCHANGED <<heads, repo, checkout>>, stage' \in FromClone => stage \in FromClone
        PROVE  WorldInv'
    <3>1. Tips' = Tips
      BY <2>1 DEF Tips
    <3>. QED
      BY <1>2, <2>1, <3>1
  <2>2. CASE PullRemote
    <3>1. checkout' = Tips /\ Tips' = Tips /\ repo' = repo
      BY <2>2 DEF PullRemote, Tips, world
    <3>. QED
      BY <1>2, <3>1
  <2>3. CASE \/ ParsePush \/ CheckEmptyBranch \/ CheckRepoInAuthorisedList \/ CheckCommitMessages
             \/ CheckAuthorEmails \/ CheckUserPushPermission \/ WritePack
             \/ CheckHiddenCommits \/ GetDiff \/ RunGitleaks \/ ScanDiff
    <3>1. UNCHANGED <<heads, repo, checkout>> /\ (stage' \in FromClone => stage \in FromClone)
      BY <2>3 DEF ParsePush, CheckEmptyBranch, CheckRepoInAuthorisedList, CheckCommitMessages,
         CheckAuthorEmails, CheckUserPushPermission, WritePack, CheckHiddenCommits, GetDiff,
         RunGitleaks, ScanDiff, Pass, Refuse, world, results
    <3>. QED
      BY <2>1, <3>1
  <2>4. ASSUME NEW b \in Branches, NEW c \in Commits, UpstreamMoves(b, c)  PROVE WorldInv'
    BY <1>2, <2>4 DEF UpstreamMoves
  <2>5. CASE RepoDeleted
    <3>1. NoRepo \in RepoType
      BY DEF NoRepo, RepoType
    <3>. QED
      BY <1>2, <2>5, <3>1 DEF RepoDeleted
  <2>6. CASE UNCHANGED vars
    BY <2>1, <2>6 DEF vars
  <2>. QED
    BY <1>2, <2>2, <2>3, <2>4, <2>5, <2>6 DEF Next
<1>. QED
  BY <1>1, <1>2, ChecksInvariant, PTL DEF Spec

\* The objects of a push from the tips are all that git walks over, and it walks over
\* every commit of the pack.
LEMMA RangeIsThePack ==
  ASSUME ChecksInv, WorldInv, Clean, FromTips, stage \in FromPack
  PROVE  /\ commitFrom \in checkout /\ commitFrom # Zero
         /\ ~RevListFails /\ newIdxFiles \subseteq RevList
<1> DEFINE reach == Ancestors(push.parents)
           cut == Ancestors(Shallow)
           packed == ToSet(push.pack)
           S == {n \in Nat : n \in packed \union checkout => cut[n] \subseteq packed \union checkout}
<1>1. /\ MaxCommit \in Nat /\ push \in PushType /\ push.new \in Commits
      /\ push.pack \in Seq(Commits) /\ Ordered(push.parents)
  BY PushFacts
<1>2. /\ checkout = Tips /\ checkout \subseteq Commits /\ packed \subseteq Commits
      /\ newIdxFiles = packed /\ Zero \notin checkout
  <2>1. newIdxFiles = packed
    BY DEF ChecksInv, FromTips
  <2>. QED
    BY <1>1, <2>1 DEF ChecksInv, WorldInv, FromClone, ToSet, Tips
<1>3. /\ packed # {} /\ packed = reach[push.new] \ UNION {reach[t] : t \in checkout}
      /\ \A c \in packed : ToSet(push.parents[c]) \subseteq packed \union checkout
      /\ IF push.old = Zero THEN Parent(Last(push.pack)) \in checkout ELSE push.old \in checkout
  BY <1>2, Zenon DEF FromTips, Tips
<1>4. Upstream = UNION {reach[t] : t \in checkout}
  BY DEF Upstream
<1>5. Ordered(Shallow)
  <2>1. \A b \in Commits : ToSet(Shallow[b]) \subseteq ToSet(push.parents[b])
    BY DEF Shallow, ToSet
  <2>. QED
    BY <1>1, <2>1 DEF Ordered
<1>6. commitFrom \in checkout /\ commitFrom # Zero
  <2>1. getCommitData = push.pack
    BY <1>1, WholePackIsRead DEF Clean, Whole
  <2>2. commitData = push.pack /\ commitData # <<>> /\ commitFrom = RangeStart(commitData)
    BY <2>1 DEF ChecksInv, FromParse, FromBranch, FromMessages, FromAuthors
  <2>. QED
    BY <1>2, <1>3, <2>2 DEF RangeStart
<1>7. \A c \in checkout : cut[c] = {c}
  <2>1. ASSUME NEW c \in checkout  PROVE cut[c] = {c}
    <3>1. c \in Commits /\ ToSet(Shallow[c]) = {}
      <4>1. c \in Commits /\ Shallow[c] = <<>>
        BY <1>2 DEF Shallow
      <4>. QED
        BY <4>1 DEF ToSet
    <3>2. cut[c] = {c} \union UNION {cut[p] : p \in ToSet(Shallow[c])}
      BY <1>1, <1>5, <3>1, AncestorsUnfold
    <3>. QED
      BY <3>1, <3>2
  <2>. QED
    BY <2>1
<1>8. ASSUME NEW n \in Nat, \A m \in 0..n - 1 : m \in S, n \in packed \union checkout
      PROVE  cut[n] \subseteq packed \union checkout
  <2>1. CASE n \in checkout
    BY <1>7, <2>1
  <2>2. CASE n \notin checkout
    <3>1. n \in packed /\ n \in Commits
      BY <1>2, <1>8, <2>2
    <3>2. cut[n] = {n} \union UNION {cut[p] : p \in ToSet(push.parents[n])}
      <4>1. Shallow[n] = push.parents[n]
        BY <2>2, <3>1 DEF Shallow
      <4>. QED
        BY <1>1, <1>5, <3>1, <4>1, AncestorsUnfold
    <3>3. ASSUME NEW p \in ToSet(push.parents[n])  PROVE cut[p] \subseteq packed \union checkout
      <4>1. p \in packed \union checkout
        BY <1>3, <3>1
      <4>2. p \in 0..n - 1
        <5>1. p \in 1..n - 1
          BY <1>1, <3>1 DEF Ordered
        <5>. QED
          BY <5>1
      <4>. QED
        BY <1>8, <4>1, <4>2
    <3>. QED
      BY <3>1, <3>2, <3>3
  <2>. QED
    BY <2>1, <2>2
<1>9. \A n \in Nat : (\A m \in 0..n - 1 : m \in S) => n \in S
  BY <1>8
<1>10. push.new \in packed
  <2>1. push.new \in reach[push.new]
    BY <1>1, AncestorsUnfold
  <2>2. ASSUME NEW t \in checkout, push.new \in reach[t]  PROVE FALSE
    <3>1. reach[push.new] \subseteq reach[t]
      BY <1>1, <1>2, <2>2, AncestorsOfAncestors
    <3>. QED
      BY <1>3, <3>1
  <2>. QED
    BY <1>3, <2>1, <2>2
<1>. HIDE DEF S
<1>11. Nat \subseteq S
  BY <1>9, SetInduction
<1>12. cut[push.new] \subseteq packed \union checkout
  <2>1. push.new \in Nat
    BY <1>1 DEF Commits
  <2>. QED
    BY <1>10, <1>11, <2>1 DEF S
<1>13. RevList = cut[push.new] \ {commitFrom}
  BY <1>6, <1>7 DEF RevList, Introduced
<1>14. ~RevListFails
  BY <1>2, <1>6, <1>12, <1>13 DEF RevListFails, Objects
<1>15. ASSUME NEW x \in packed  PROVE x \in RevList
  <2>1. x \in reach[push.new] /\ x \notin Upstream
    BY <1>3, <1>4
  <2>2. x \in cut[push.new]
    BY <1>1, <1>2, <2>1, ShallowHidesUpstream
  <2>3. commitFrom \in Upstream
    <3>1. commitFrom \in reach[commitFrom]
      BY <1>1, <1>2, <1>6, AncestorsUnfold
    <3>. QED
      BY <1>4, <1>6, <3>1
  <2>. QED
    BY <1>13, <2>1, <2>2, <2>3
<1>. QED
  BY <1>2, <1>6, <1>14, <1>15

\* Where no added line matches a rule, the scan reports nothing.
LEMMA CleanScan ==
  ASSUME push.changes \in Seq(Changes), Offences = {}
  PROVE  scanDiffViolations(GitDiff(push.changes), Rulings) = {}
<1> DEFINE found == {h \in Rulings \X ToSet(parseAddedChanges(GitDiff(push.changes))) :
                        \E k \in DOMAIN h[2].content : h[1] \in Hits[h[2].content[k]]}
           Report(f) == [rule |-> f[1], file |-> f[2].file,
              lines |-> {g[2].line : g \in {h \in found : h[1] = f[1] /\ h[2].file = f[2].file}}]
<1>1. scanDiffViolations(GitDiff(push.changes), Rulings) = {Report(f) : f \in found}
  BY Zenon DEF scanDiffViolations
<1>2. Offences = UNION {{<<v.rule, v.file, n>> : n \in v.lines} :
                           v \in scanDiffViolations(GitDiff(push.changes), Rulings)}
  BY ScanIsExact, Zenon DEF Offences
<1>3. ASSUME NEW f \in found  PROVE FALSE
  <2>1. f[2].line \in Report(f).lines /\ Report(f) \in {Report(g) : g \in found}
    OBVIOUS
  <2>. HIDE DEF Report, found
  <2>2. PICK v \in scanDiffViolations(GitDiff(push.changes), Rulings) : f[2].line \in v.lines
    BY <1>1, <2>1, Zenon
  <2>3. ASSUME NEW x
        PROVE  x \in UNION {{<<u.rule, u.file, n>> : n \in u.lines} :
                               u \in scanDiffViolations(GitDiff(push.changes), Rulings)}
                 <=> \E u \in scanDiffViolations(GitDiff(push.changes), Rulings) :
                        \E n \in u.lines : x = <<u.rule, u.file, n>>
    OBVIOUS
  <2>4. <<v.rule, v.file, f[2].line>> \in Offences
    BY <1>2, <2>2, <2>3, Zenon
  <2>. QED
    BY <2>4
<1>. HIDE DEF found
<1>. QED
  BY <1>1, <1>3

\* For every history and every pack: a push of clean commits that grew on the upstream's
\* tips, by a committer who may push, is refused by no processor but gitleaks.
THEOREM OrdinaryPushesAreHeld == Spec => OrdinaryPushIsHeld
<1>1. ASSUME ChecksInv, WorldInv, [Next]_vars, Clean, FromTips, stage # "gitleaks"
      PROVE  stage' # "refused" \/ UNCHANGED vars
  <2>1. /\ push \in PushType /\ push.pack \in Seq(Commits) /\ push.pack # <<>>
        /\ getCommitData = push.pack
    <3>1. push \in PushType /\ push.pack \in Seq(Commits)
      BY <1>1, PushFacts
    <3>2. push.pack # <<>>
      BY <1>1 DEF FromTips, ToSet
    <3>. QED
      BY <1>1, <3>1, <3>2, WholePackIsRead DEF Clean, Whole
  <2>2. stage \in FromParse => commitData = push.pack
    BY <1>1, <2>1 DEF ChecksInv
  <2>3. Last(push.pack) \in ToSet(push.pack)
    BY <2>1 DEF Last, ToSet
  <2>4. /\ EmailRules.valid /\ DiffRulesCompile /\ Offences = {}
        /\ \A c \in ToSet(push.pack) :
              /\ Readable(c)
              /\ isMessageAllowed(push.commit[c].message)
              /\ isEmailAllowed(push.commit[c].author)
              /\ push.commit[c].committer \in DOMAIN Users
              /\ \E u \in repo.canPush \union repo.canAuthorise :
                    Users[push.commit[c].committer] = {u}
    BY <1>1, Zenon DEF Clean
  <2>5. repo.listed
    BY <1>1, <2>3, <2>4 DEF WorldInv, RepoType, NoRepo
  <2>6. CASE ParsePush
    BY <2>1, <2>4, <2>6 DEF ParsePush
  <2>7. CASE \/ CheckEmptyBranch \/ CheckRepoInAuthorisedList \/ CheckCommitMessages
             \/ CheckAuthorEmails
    BY <2>1, <2>2, <2>4, <2>5, <2>7 DEF CheckEmptyBranch, CheckRepoInAuthorisedList,
       CheckCommitMessages, CheckAuthorEmails, Pass, FromParse, FromBranch, FromMessages, FromAuthors
  <2>8. CASE CheckUserPushPermission
    <3>1. UserEmail = push.commit[Last(push.pack)].committer
      BY <2>2, <2>8 DEF CheckUserPushPermission, UserEmail, FromParse, FromBranch, FromMessages,
         FromAuthors
    <3>2. PICK u \in repo.canPush \union repo.canAuthorise : Users[UserEmail] = {u}
      BY <2>3, <2>4, <3>1
    <3>3. UserEmail \in DOMAIN Users /\ isUserPushAllowed(u) /\ u \in Users[UserEmail]
      BY <2>3, <2>4, <2>5, <3>1, <3>2 DEF isUserPushAllowed
    <3>. QED
      BY <2>8, <3>2, <3>3 DEF CheckUserPushPermission, Pass
  <2>9. CASE PullRemote \/ WritePack
    BY <2>9 DEF PullRemote, WritePack
  <2>10. CASE CheckHiddenCommits
    <3>1. ~RevListFails /\ newIdxFiles \subseteq RevList
      BY <1>1, <2>10, RangeIsThePack DEF CheckHiddenCommits, FromPack
    <3>. QED
      BY <2>10, <3>1 DEF CheckHiddenCommits, Pass
  <2>11. CASE GetDiff
    <3>1. commitFrom \in checkout /\ commitFrom # Zero
      BY <1>1, <2>11, RangeIsThePack DEF GetDiff, FromPack, FromRange
    <3>. QED
      BY <2>11, <3>1 DEF GetDiff, DiffBase, Objects
  <2>12. CASE ScanDiff
    <3>1. push.changes \in Seq(Changes)
      BY <2>1 DEF PushType
    <3>2. violations' = {}
      BY <2>4, <2>12, <3>1, CleanScan, Zenon DEF ScanDiff, Rulings
    <3>. QED
      BY <2>4, <2>12, <3>2 DEF ScanDiff
  <2>13. ASSUME NEW b \in Branches, NEW c \in Commits, UpstreamMoves(b, c)  PROVE stage' # "refused"
    BY <2>13 DEF UpstreamMoves
  <2>14. CASE RepoDeleted
    BY <2>14 DEF RepoDeleted
  <2>15. CASE RunGitleaks
    BY <1>1, <2>15 DEF RunGitleaks
  <2>. QED
    BY <1>1, <2>6, <2>7, <2>8, <2>9, <2>10, <2>11, <2>12, <2>13, <2>14, <2>15 DEF Next
<1>2. ChecksInv /\ WorldInv /\ [Next]_vars
        => [Clean /\ FromTips /\ stage # "gitleaks" => stage' # "refused"]_vars
  BY <1>1
<1>. QED
  BY <1>2, WorldInvariant, PTL DEF Spec, OrdinaryPushIsHeld
=============================================================================
