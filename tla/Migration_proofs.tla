--------------------------- MODULE Migration_proofs ---------------------------
(***************************************************************************)
(* Proofs about Migration, for any source, any contents of the tables, any *)
(* number of runs, failures and writes of the proxy.                       *)
(*                                                                         *)
(* What a neDB file is replayed to is a recursive function of its lines.   *)
(* That it exists, and what it yields, is proved by induction on the       *)
(* number of lines.                                                        *)
(***************************************************************************)
EXTENDS Migration, WellFoundedInduction, TLAPS

-----------------------------------------------------------------------------
(* Induction, and a sequence without one of its elements *)

\* The library's induction takes a predicate as its parameter, this one the set of the
\* numbers that satisfy it.
LEMMA NatSetInduction ==
  ASSUME NEW S, 0 \in S, \A n \in Nat : n \in S => n + 1 \in S
  PROVE  Nat \subseteq S
<1> DEFINE T == Nat \ S
           R == OpToRel(<, Nat)
<1>1. SUFFICES ASSUME T # {}  PROVE FALSE
  OBVIOUS
<1>2. PICK x \in T : \A y \in T : ~(<<y, x>> \in R)
  BY <1>1, NatLessThanWellFounded, WFMin
<1>3. R = {ss \in Nat \X Nat : ss[1] < ss[2]}
  BY DEF OpToRel
<1>. HIDE DEF R
<1>4. x \in Nat /\ x # 0 /\ x - 1 \in Nat
  OBVIOUS
<1>5. <<x - 1, x>> \in R
  BY <1>3, <1>4
<1>6. x - 1 \in S
  BY <1>2, <1>4, <1>5
<1>. QED
  BY <1>4, <1>6

LEMMA RemoveFirstElems ==
  ASSUME NEW T, NEW s \in Seq(T), IsInjective(s), NEW e
  PROVE  /\ RemoveFirst(s, e) \in Seq(T)
         /\ IsInjective(RemoveFirst(s, e))
         /\ ToSet(RemoveFirst(s, e)) = ToSet(s) \ {e}
<1>1. CASE \A i \in 1..Len(s) : s[i] # e
  <2>1. RemoveFirst(s, e) = s
    BY <1>1, Zenon DEF RemoveFirst
  <2>. QED
    BY <1>1, <2>1 DEF ToSet
<1>2. CASE \E i \in 1..Len(s) : s[i] = e
  <2>1. PICK i \in 1..Len(s) : s[i] = e
    BY <1>2
  <2>2. {j \in 1..Len(s) : s[j] = e} = {i}
    BY <2>1 DEF IsInjective
  <2>3. SelectInSeq(s, LAMBDA v : v = e) = i
    BY <2>2 DEF SelectInSeq, Min
  <2>4. RemoveFirst(s, e) = RemoveAt(s, i)
    BY <1>2, <2>3, Zenon DEF RemoveFirst
  <2> DEFINE t == RemoveAt(s, i)
  <2>5. /\ t \in Seq(T) /\ Len(t) = Len(s) - 1
        /\ \A j \in 1..Len(s) - 1 : t[j] = IF j < i THEN s[j] ELSE s[j + 1]
    <3> DEFINE front == SubSeq(s, 1, i - 1)
               back == SubSeq(s, i + 1, Len(s))
    <3>1. front \in Seq(T) /\ Len(front) = i - 1 /\ \A j \in 1..i - 1 : front[j] = s[j]
      OBVIOUS
    <3>2. back \in Seq(T) /\ Len(back) = Len(s) - i /\ \A j \in 1..Len(s) - i : back[j] = s[i + j]
      OBVIOUS
    <3>3. t = front \o back
      BY DEF RemoveAt
    <3>. HIDE DEF front, back
    <3>4. t \in Seq(T) /\ Len(t) = Len(s) - 1
      BY <3>1, <3>2, <3>3
    <3>5. ASSUME NEW j \in 1..Len(s) - 1  PROVE t[j] = IF j < i THEN s[j] ELSE s[j + 1]
      <4>1. CASE j < i
        BY <3>1, <3>2, <3>3, <4>1
      <4>2. CASE ~(j < i)
        <5>1. t[j] = back[j - (i - 1)] /\ j - (i - 1) \in 1..Len(s) - i
          BY <3>1, <3>2, <3>3, <4>2
        <5>. QED
          BY <3>2, <4>2, <5>1
      <4>. QED
        BY <4>1, <4>2
    <3>. QED
      BY <3>4, <3>5
  <2>. HIDE DEF t
  <2>6. DOMAIN t = 1..Len(s) - 1
    BY <2>5
  <2>7. IsInjective(t)
    <3>1. ASSUME NEW a \in DOMAIN t, NEW b \in DOMAIN t, t[a] = t[b]  PROVE a = b
      <4> DEFINE at(j) == IF j < i THEN j ELSE j + 1
      <4>1. at(a) \in DOMAIN s /\ at(b) \in DOMAIN s /\ t[a] = s[at(a)] /\ t[b] = s[at(b)]
        BY <2>5, <2>6
      <4>2. at(a) = at(b)
        BY <3>1, <4>1 DEF IsInjective
      <4>. QED
        BY <2>6, <4>2
    <3>. QED
      BY <3>1 DEF IsInjective
  <2>8. ToSet(t) = ToSet(s) \ {e}
    <3>1. ASSUME NEW j \in DOMAIN t  PROVE t[j] \in ToSet(s) \ {e}
      BY <2>1, <2>5, <2>6 DEF ToSet, IsInjective
    <3>2. ASSUME NEW j \in 1..Len(s), j # i  PROVE s[j] \in ToSet(t)
      <4>1. CASE j < i
        BY <2>1, <2>5, <2>6, <4>1 DEF ToSet
      <4>2. CASE j > i
        <5>1. j - 1 \in DOMAIN t /\ t[j - 1] = s[j]
          BY <2>1, <2>5, <2>6, <4>2
        <5>. QED
          BY <5>1 DEF ToSet
      <4>. QED
        BY <3>2, <4>1, <4>2
    <3>. QED
      BY <2>1, <3>1, <3>2 DEF ToSet
  <2>. QED
    BY <2>4, <2>5, <2>7, <2>8 DEF t
<1>. QED
  BY <1>1, <1>2

-----------------------------------------------------------------------------
(* Replaying a neDB file *)

Beginning == [live |-> <<>>, order |-> <<>>, ok |-> TRUE]

IsReplay(f, lines, n) ==
    f = [i \in 0..n |-> IF i = 0 THEN Beginning ELSE ReplayLine(f[i - 1], lines[i])]

LEMMA ReplayExists ==
  ASSUME NEW lines, NEW n \in Nat
  PROVE  \E f : IsReplay(f, lines, n)
<1> DEFINE S == {k \in Nat : \E f : IsReplay(f, lines, k)}
<1>1. 0 \in S
  <2>1. IsReplay([i \in 0..0 |-> Beginning], lines, 0)
    BY DEF IsReplay
  <2>. QED
    BY <2>1
<1>2. ASSUME NEW k \in Nat, k \in S  PROVE k + 1 \in S
  <2>1. PICK f : IsReplay(f, lines, k)
    BY <1>2
  <2> DEFINE g == [i \in 0..k + 1 |-> IF i <= k THEN f[i] ELSE ReplayLine(f[k], lines[k + 1])]
  <2>2. \A i \in 0..k + 1 : g[i] = IF i = 0 THEN Beginning ELSE ReplayLine(g[i - 1], lines[i])
    <3>1. \A i \in 0..k : g[i] = f[i] /\ g[k + 1] = ReplayLine(f[k], lines[k + 1])
      OBVIOUS
    <3>2. \A i \in 0..k : f[i] = IF i = 0 THEN Beginning ELSE ReplayLine(f[i - 1], lines[i])
      BY <2>1 DEF IsReplay
    <3>. HIDE DEF g
    <3>3. ASSUME NEW i \in 0..k
          PROVE  g[i] = IF i = 0 THEN Beginning ELSE ReplayLine(g[i - 1], lines[i])
      <4>1. CASE i = 0
        BY <3>1, <3>2, <4>1
      <4>2. CASE i # 0
        <5>1. i - 1 \in 0..k
          BY <4>2
        <5>. QED
          BY <3>1, <3>2, <4>2, <5>1
      <4>. QED
        BY <4>1, <4>2
    <3>4. g[k + 1] = ReplayLine(g[k], lines[k + 1])
      BY <3>1
    <3>. QED
      BY <3>3, <3>4
  <2>3. g = [i \in 0..k + 1 |-> g[i]]
    OBVIOUS
  <2>. HIDE DEF g
  <2>4. IsReplay(g, lines, k + 1)
    BY <2>2, <2>3 DEF IsReplay
  <2>. QED
    BY <2>4
<1>. HIDE DEF S
<1>3. Nat \subseteq S
  BY <1>1, <1>2, NatSetInduction
<1>. QED
  BY <1>3 DEF S

LEMMA ReplayUnfolds ==
  ASSUME NEW lines, Len(lines) \in Nat
  PROVE  IsReplay(Replay(lines), lines, Len(lines))
<1>1. \E f : IsReplay(f, lines, Len(lines))
  BY ReplayExists
<1>2. Replay(lines) = CHOOSE f : IsReplay(f, lines, Len(lines))
  BY Zenon DEF Replay, IsReplay, Beginning
<1>. QED
  BY <1>1, <1>2, Zenon

\* Current, of the first n lines.
CurrentTo(lines, n) ==
    {i \in 1..n :
        /\ lines[i].op = "put"
        /\ \A j \in 1..n : j > i /\ lines[j].op \in {"put", "delete"} => lines[j].id # lines[i].id}

Ids(lines) == {lines[i].id : i \in DOMAIN lines}

\* r is what the first n lines leave.
Follows(r, lines, n) ==
    /\ r = [live |-> r.live, order |-> r.order, ok |-> r.ok] /\ r.ok \in BOOLEAN
    /\ r.ok =>
          /\ DOMAIN r.live = {lines[i].id : i \in CurrentTo(lines, n)}
          /\ \A i \in CurrentTo(lines, n) : r.live[lines[i].id] = lines[i].doc
          /\ r.order \in Seq(Ids(lines)) /\ IsInjective(r.order)
          /\ ToSet(r.order) = DOMAIN r.live

LEMMA NextLineFollows ==
  ASSUME NEW lines, lines \in Seq(ToSet(lines)), NEW n \in Nat, n + 1 \in DOMAIN lines,
         lines[n + 1].op \in LineOps, NEW r, Follows(r, lines, n)
  PROVE  Follows(ReplayLine(r, lines[n + 1]), lines, n + 1)
<1> DEFINE line == lines[n + 1]
           now == ReplayLine(r, line)
           others == {i \in CurrentTo(lines, n) : lines[i].id # line.id}
<1>0. r = [live |-> r.live, order |-> r.order, ok |-> r.ok] /\ r.ok \in BOOLEAN
  BY DEF Follows
<1>1. CASE ~r.ok
  BY <1>1 DEF ReplayLine, Follows
<1>2. CASE r.ok /\ line.op = "broken"
  <2>1. now = [r EXCEPT !.ok = FALSE]
    BY <1>2 DEF ReplayLine
  <2>. QED
    BY <1>0, <2>1 DEF Follows
<1>3. CASE r.ok /\ line.op = "put"
  <2> DEFINE id == line.id
  <2>1. now = Put(r, id, line.doc)
    BY <1>3 DEF ReplayLine
  <2>2. CurrentTo(lines, n + 1) = others \union {n + 1}
    BY <1>3 DEF CurrentTo
  <2> DEFINE latest == [i \in DOMAIN r.live \union {id} |-> IF i = id THEN line.doc ELSE r.live[i]]
             order == IF id \in DOMAIN r.live THEN r.order ELSE Append(r.order, id)
  <2>3. now = [live |-> latest, order |-> order, ok |-> TRUE]
    BY <1>0, <1>3, <2>1, Zenon DEF Put
  <2>4. DOMAIN latest = {lines[i].id : i \in others \union {n + 1}}
    BY <1>3 DEF Follows
  <2>5. \A i \in others \union {n + 1} : latest[lines[i].id] = lines[i].doc
    BY <1>3 DEF Follows
  <2>6. order \in Seq(Ids(lines)) /\ IsInjective(order) /\ ToSet(order) = DOMAIN latest
    <3>1. r.order \in Seq(Ids(lines)) /\ IsInjective(r.order) /\ ToSet(r.order) = DOMAIN r.live
          /\ id \in Ids(lines)
      BY <1>3 DEF Follows, Ids
    <3>2. CASE id \in DOMAIN r.live
      BY <3>1, <3>2
    <3>3. CASE id \notin DOMAIN r.live
      <4>1. order = Append(r.order, id) /\ DOMAIN latest = DOMAIN r.live \union {id}
        BY <3>3
      <4>. HIDE DEF order, latest
      <4>2. /\ order \in Seq(Ids(lines)) /\ Len(order) = Len(r.order) + 1 /\ order[Len(order)] = id
            /\ \A i \in 1..Len(r.order) : order[i] = r.order[i] /\ r.order[i] # id
        BY <3>1, <3>3, <4>1 DEF ToSet
      <4> DEFINE k == Len(r.order)
      <4>0. k \in Nat /\ DOMAIN r.order = 1..k /\ DOMAIN order = 1..k + 1
        BY <3>1, <4>2
      <4>. HIDE DEF k
      <4>3. IsInjective(order)
        <5>1. \A a \in 1..k + 1 : a = k + 1 \/ a \in 1..k
          BY <4>0
        <5>. QED
          BY <3>1, <4>0, <4>2, <5>1 DEF IsInjective, k
      <4>4. \A x : x \in ToSet(order) <=> x \in ToSet(r.order) \/ x = id
        <5>1. \A a : a \in 1..k + 1 <=> a = k + 1 \/ a \in 1..k
          BY <4>0
        <5>2. order[k + 1] = id /\ \A i \in 1..k : order[i] = r.order[i]
          BY <4>0, <4>2 DEF k
        <5>. QED
          BY <4>0, <5>1, <5>2 DEF ToSet
      <4>. QED
        BY <3>1, <4>1, <4>2, <4>3, <4>4
    <3>. QED
      BY <3>2, <3>3
  <2>. HIDE DEF latest, order
  <2>. QED
    BY <2>2, <2>3, <2>4, <2>5, <2>6 DEF Follows
<1>4. CASE r.ok /\ line.op = "delete"
  <2>1. now = Delete(r, line.id)
    BY <1>4 DEF ReplayLine
  <2>2. CurrentTo(lines, n + 1) = others
    BY <1>4 DEF CurrentTo
  <2> DEFINE id == line.id
             latest == [i \in DOMAIN r.live \ {id} |-> r.live[i]]
             order == RemoveFirst(r.order, id)
  <2>3. r.order \in Seq(Ids(lines)) /\ IsInjective(r.order) /\ ToSet(r.order) = DOMAIN r.live
    BY <1>4 DEF Follows
  <2>4. order \in Seq(Ids(lines)) /\ IsInjective(order) /\ ToSet(order) = ToSet(r.order) \ {id}
    BY <2>3, RemoveFirstElems
  <2>5. CASE id \in DOMAIN r.live
    <3>1. now = [live |-> latest, order |-> order, ok |-> TRUE]
      BY <1>0, <1>4, <2>1, <2>5, Zenon DEF Delete
    <3>2. DOMAIN latest = {lines[i].id : i \in others} /\ ToSet(order) = DOMAIN latest
      <4>1. DOMAIN latest = DOMAIN r.live \ {id} /\ DOMAIN r.live = {lines[i].id : i \in CurrentTo(lines, n)}
        BY <1>4 DEF Follows
      <4>2. \A x : x \in DOMAIN r.live \ {id} <=> x \in {lines[i].id : i \in others}
        BY <4>1
      <4>. HIDE DEF latest
      <4>. QED
        BY <2>3, <2>4, <4>1, <4>2
    <3>3. \A i \in others : latest[lines[i].id] = lines[i].doc
      BY <1>4 DEF Follows
    <3>. HIDE DEF latest, order
    <3>. QED
      BY <2>2, <2>4, <3>1, <3>2, <3>3 DEF Follows
  <2>6. CASE id \notin DOMAIN r.live
    <3>1. now = r
      BY <2>1, <2>6, Zenon DEF Delete
    <3>2. others = CurrentTo(lines, n)
      BY <1>4, <2>6 DEF Follows
    <3>. QED
      BY <2>2, <3>1, <3>2 DEF Follows
  <2>. QED
    BY <2>5, <2>6
<1>5. CASE r.ok /\ line.op \in {"index", "noId"}
  <2>1. now = r
    BY <1>5 DEF ReplayLine
  <2>2. CurrentTo(lines, n + 1) = CurrentTo(lines, n)
    BY <1>5 DEF CurrentTo
  <2>. QED
    BY <2>1, <2>2 DEF Follows
<1>. QED
  BY <1>1, <1>2, <1>3, <1>4, <1>5 DEF LineOps

LEMMA ReplayFollows ==
  ASSUME NEW lines, lines \in Seq(ToSet(lines)), \A i \in DOMAIN lines : lines[i].op \in LineOps
  PROVE  Follows(replayNeDB(lines), lines, Len(lines))
<1> DEFINE N == Len(lines)
           S == {n \in Nat : n <= N => Follows(Replay(lines)[n], lines, n)}
<1>0. N \in Nat /\ DOMAIN lines = 1..N
  OBVIOUS
<1>1. \A i \in 0..N : Replay(lines)[i] = IF i = 0 THEN Beginning
                                        ELSE ReplayLine(Replay(lines)[i - 1], lines[i])
  BY <1>0, ReplayUnfolds DEF IsReplay
<1>2. 0 \in S
  <2>1. Replay(lines)[0] = Beginning
    BY <1>0, <1>1
  <2>2. /\ Beginning = [live |-> Beginning.live, order |-> Beginning.order, ok |-> Beginning.ok]
        /\ Beginning.order = <<>> /\ DOMAIN Beginning.live = {} /\ Beginning.ok = TRUE
        /\ CurrentTo(lines, 0) = {}
    BY DEF Beginning, CurrentTo
  <2>3. <<>> \in Seq(Ids(lines)) /\ IsInjective(<<>>) /\ ToSet(<<>>) = {}
    BY DEF IsInjective, ToSet
  <2>. QED
    BY <2>1, <2>2, <2>3 DEF Follows
<1>3. ASSUME NEW n \in Nat, n \in S  PROVE n + 1 \in S
  <2>1. CASE n + 1 <= N
    <3>1. Replay(lines)[n + 1] = ReplayLine(Replay(lines)[n], lines[n + 1]) /\ n + 1 \in DOMAIN lines
      BY <1>0, <1>1, <2>1
    <3>2. Follows(Replay(lines)[n], lines, n)
      BY <1>0, <1>3, <2>1
    <3>. QED
      BY <3>1, <3>2, NextLineFollows
  <2>. QED
    BY <1>0, <2>1
<1>. HIDE DEF S
<1>4. Nat \subseteq S
  BY <1>2, <1>3, NatSetInduction
<1>. QED
  BY <1>0, <1>4 DEF S, replayNeDB

\* What a collection's reading yields, when it does not fail: its current documents, in
\* some order, whatever its file went through.
LEMMA ReadYieldsCurrentDocs ==
  ASSUME source \in Sources, NEW c \in Collections, Read(c).ok
  PROVE  /\ Read(c).docs \in Seq(CurrentDocs(c))
         /\ ToSet(Read(c).docs) = CurrentDocs(c)
<1> DEFINE lines == source.logs[c]
<1>1. /\ lines \in Seq(ToSet(lines)) /\ \A i \in DOMAIN lines : lines[i].op \in LineOps
      /\ source.kind # "nedb" =>
            \A i, j \in DOMAIN lines : lines[i].op = "put" /\ (lines[i].id = lines[j].id => i = j)
  BY SourcesAssumption
<1>2. CASE source.kind = "nedb"
  <2> DEFINE r == replayNeDB(lines)
             docsRead == [i \in DOMAIN r.order |-> r.live[r.order[i]]]
  <2>1. Read(c).docs = docsRead /\ r.ok
    BY <1>2 DEF Read, readNeDB
  <2>2. Follows(r, lines, Len(lines))
    BY <1>1, ReplayFollows
  <2>3. CurrentTo(lines, Len(lines)) = Current(c)
    BY <1>1 DEF CurrentTo, Current
  <2>. HIDE DEF r, lines
  <2>4. \A id \in DOMAIN r.live : r.live[id] \in CurrentDocs(c)
    BY <2>1, <2>2, <2>3 DEF Follows, CurrentDocs, lines
  <2>5. docsRead \in Seq(CurrentDocs(c))
    BY <2>1, <2>2, <2>4 DEF Follows, ToSet
  <2>6. ASSUME NEW doc \in CurrentDocs(c)  PROVE doc \in ToSet(docsRead)
    <3>1. PICK i \in Current(c) : doc = lines[i].doc
      BY DEF CurrentDocs, lines
    <3>2. lines[i].id \in DOMAIN r.live /\ r.live[lines[i].id] = doc
      BY <2>1, <2>2, <2>3, <3>1 DEF Follows
    <3>3. PICK k \in DOMAIN r.order : r.order[k] = lines[i].id
      BY <2>1, <2>2, <3>2 DEF Follows, ToSet
    <3>. QED
      BY <3>2, <3>3 DEF ToSet
  <2>. QED
    BY <2>1, <2>5, <2>6 DEF ToSet
<1>3. CASE source.kind # "nedb"
  <2> DEFINE docsRead == [i \in DOMAIN lines |-> lines[i].doc]
  <2>1. Read(c).docs = docsRead
    BY <1>3 DEF Read, readMongo
  <2>2. Current(c) = DOMAIN lines
    BY <1>1, <1>3 DEF Current
  <2>. QED
    BY <1>1, <2>1, <2>2 DEF CurrentDocs, ToSet
<1>. QED
  BY <1>2, <1>3

-----------------------------------------------------------------------------
(* A run *)

Steps == {"idle", "start", "read", "find", "write", "end"}
Statuses == {0, 1, Killed}
Options == [dryRun : BOOLEAN, migrateUp : BOOLEAN]

KeysOf(S) == {doc.key : doc \in S}
SourceKeys == UNION {KeysOf(CurrentDocs(c)) : c \in Collections}
Record == [coll : Collections, key : SourceKeys, action : Actions]
Run ==
    [options : Options, report : Seq(Record), status : Statuses, began : Nat, ended : Nat]

\* The types of the state, and what a run has in hand at each step.
ImportInv ==
    /\ source \in Sources /\ schema \in BOOLEAN
    /\ store = [c \in Collections |-> store[c]]
    /\ options \in Options /\ (options.migrateUp => ~options.dryRun)
    /\ step \in Steps /\ coll \in Collections /\ existing \in BOOLEAN
    /\ docs \in Seq(CurrentDocs(coll))
    /\ report \in Seq(Record) /\ runs \in Seq(Run)
    /\ live \in Nat /\ began \in Nat /\ began <= live
    /\ runs # <<>> => runs[1].began <= live
    /\ step \in {"idle", "start"} => report = <<>> /\ coll = "users"
    /\ step = "write" => docs # <<>> /\ ~options.dryRun
    /\ step = "end" => coll = "pushes"

LEMMA SourceKeysStay ==
  ASSUME source' = source
  PROVE  Record' = Record /\ Run' = Run /\ \A c : CurrentDocs(c)' = CurrentDocs(c)
  BY DEF Record, Run, SourceKeys, CurrentDocs, Current

LEMMA InitImport ==
  ASSUME Init
  PROVE  ImportInv
<1>1. store = [c \in Collections |-> store[c]]
  BY StoresAssumption DEF Init
<1>2. /\ options \in Options /\ ~options.migrateUp /\ step = "idle" /\ coll = "users"
      /\ existing \in BOOLEAN /\ docs = <<>> /\ report = <<>> /\ runs = <<>>
      /\ live = 0 /\ began = 0 /\ source \in Sources /\ schema \in BOOLEAN
  BY DEF Init, Options
<1>3. docs \in Seq(CurrentDocs(coll)) /\ report \in Seq(Record) /\ runs \in Seq(Run)
  BY <1>2
<1>. QED
  BY <1>1, <1>2, <1>3 DEF ImportInv, Steps, Collections

\* The next document is one that the source has.
LEMMA HeadIsCurrent ==
  ASSUME ImportInv, docs # <<>>
  PROVE  /\ Head(docs) \in CurrentDocs(coll) /\ Head(docs) \in ToSet(docs)
         /\ Head(docs).key \in SourceKeys
         /\ Tail(docs) \in Seq(CurrentDocs(coll)) /\ Len(Tail(docs)) = Len(docs) - 1
         /\ Head(docs) = docs[1] /\ \A k \in 1..Len(docs) - 1 : Tail(docs)[k] = docs[k + 1]
<1>1. docs \in Seq(CurrentDocs(coll)) /\ coll \in Collections
  BY DEF ImportInv
<1>2. Head(docs) \in CurrentDocs(coll) /\ Head(docs) = docs[1] /\ 1 \in DOMAIN docs
  BY <1>1
<1>. QED
  BY <1>1, <1>2 DEF SourceKeys, KeysOf, ToSet

LEMMA ReportGrows ==
  ASSUME ImportInv, docs # <<>>, NEW action \in Actions, Report(action)
  PROVE  /\ report' \in Seq(Record) /\ Len(report') = Len(report) + 1
         /\ report'[Len(report) + 1] = [coll |-> coll, key |-> Head(docs).key, action |-> action]
         /\ \A i \in 1..Len(report) : report'[i] = report[i]
<1> DEFINE r == [coll |-> coll, key |-> Head(docs).key, action |-> action]
<1>1. r \in Record /\ report \in Seq(Record)
  BY HeadIsCurrent DEF ImportInv, Record
<1>2. report' = Append(report, r)
  BY DEF Report
<1>. HIDE DEF r
<1>3. report' \in Seq(Record) /\ Len(report') = Len(report) + 1
      /\ report'[Len(report) + 1] = r /\ \A i \in 1..Len(report) : report'[i] = report[i]
  BY <1>1, <1>2
<1>. QED
  BY <1>3 DEF r

LEMMA ExitEnds ==
  ASSUME ImportInv, step # "idle", NEW status \in Statuses, Exit(status)
  PROVE  /\ runs' \in Seq(Run) /\ runs'[1].report = report /\ runs'[1].options = options
         /\ runs'[1].status = status /\ runs'[1].began = began /\ runs'[1].ended = live
         /\ Len(runs') = Len(runs) + 1 /\ \A i \in 1..Len(runs) : runs'[i + 1] = runs[i]
<1> DEFINE r == [options |-> options, report |-> report, status |-> status,
                 began |-> began, ended |-> live]
<1>1. r \in Run /\ runs \in Seq(Run)
  BY DEF ImportInv, Run
<1>2. runs' = <<r>> \o runs
  BY DEF Exit
<1>. HIDE DEF r
<1>3. runs' \in Seq(Run) /\ runs'[1] = r /\ Len(runs') = Len(runs) + 1
      /\ \A i \in 1..Len(runs) : runs'[i + 1] = runs[i]
  BY <1>1, <1>2
<1>. QED
  BY <1>3 DEF r

LEMMA ImportInvIsInductive ==
  ASSUME ImportInv, [Next]_vars
  PROVE  ImportInv'
<1>0. source' = source
  BY DEF Next, vars, StartRun, ApplySchema, StartFails, ReadCollection, ReadFails, SkipExisting,
     Foretell, GoOnToWrite, FindFails, Write, WriteRefused, WriteFails, CollectionDone, Finish, Kill,
     Exit, LiveWrites, LiveDeletes
<1>1. Record' = Record /\ Run' = Run /\ (\A c : CurrentDocs(c)' = CurrentDocs(c))
      /\ (coll' = coll => CurrentDocs(coll)' = CurrentDocs(coll))
  BY <1>0, SourceKeysStay
<1>2. CASE UNCHANGED vars
  BY <1>0, <1>1, <1>2 DEF vars, importer, tables, ImportInv
<1>3. ASSUME NEW dryRun \in BOOLEAN, NEW migrate \in BOOLEAN, StartRun(dryRun, migrate)
      PROVE  ImportInv'
  BY <1>0, <1>1, <1>3 DEF StartRun, ImportInv, Options, Steps, tables
<1>4. CASE ApplySchema
  BY <1>0, <1>1, <1>4 DEF ApplySchema, ImportInv, Steps
<1>5. CASE ReadCollection
  <2>1. docs' \in Seq(CurrentDocs(coll)) /\ coll' = coll
    BY <1>5, ReadYieldsCurrentDocs DEF ReadCollection, ImportInv
  <2>. QED
    BY <1>0, <1>1, <1>5, <2>1 DEF ReadCollection, ImportInv, Steps, tables
<1>6. CASE StartFails \/ ReadFails \/ Finish \/ Kill
  <2>1. PICK status \in Statuses : Exit(status)
    BY <1>6 DEF StartFails, ReadFails, Finish, Kill, Statuses
  <2>2. step # "idle" /\ UNCHANGED tables
    BY <1>6 DEF StartFails, ReadFails, Finish, Kill
  <2>3. runs' \in Seq(Run) /\ runs'[1].began = began
    BY <2>1, <2>2, ExitEnds
  <2>4. /\ step' = "idle" /\ coll' = "users" /\ docs' = <<>> /\ existing' = FALSE /\ report' = <<>>
        /\ UNCHANGED <<source, options, began, live>>
    BY <2>1 DEF Exit
  <2>5. docs' \in Seq(CurrentDocs(coll)') /\ report' \in Seq(Record)
    BY <2>4
  <2>. QED
    BY <1>1, <2>2, <2>3, <2>4, <2>5 DEF ImportInv, Steps, Collections, tables
<1>7. ASSUME docs # <<>>, NEW action \in Actions, Report(action), NextRecord,
             UNCHANGED <<source, schema, options, coll, began, runs, live>>, existing' \in BOOLEAN,
             store' = store \/ store' = With(coll, Head(docs))
      PROVE  ImportInv'
  <2>1. report' \in Seq(Record) /\ docs' \in Seq(CurrentDocs(coll)) /\ step' = "find"
    BY <1>7, HeadIsCurrent, ReportGrows DEF NextRecord
  <2>2. store' = [c \in Collections |-> store'[c]]
    BY <1>7 DEF With, ImportInv
  <2>. QED
    BY <1>1, <1>7, <2>1, <2>2 DEF ImportInv, Steps
<1>8. CASE SkipExisting \/ Foretell \/ FindFails \/ Write \/ WriteRefused \/ WriteFails
  <2>1. docs # <<>> /\ NextRecord /\ UNCHANGED <<source, schema, options, coll, began, runs, live>>
        /\ existing' = existing /\ (store' = store \/ store' = With(coll, Head(docs)))
    BY <1>8 DEF SkipExisting, Foretell, FindFails, Write, WriteRefused, WriteFails, Finding,
       tables, ImportInv
  <2>2. \E action \in Actions : Report(action)
    BY <1>8 DEF SkipExisting, Foretell, FindFails, Write, WriteRefused, WriteFails, Actions
  <2>. QED
    BY <1>7, <2>1, <2>2 DEF ImportInv
<1>9. CASE GoOnToWrite
  BY <1>0, <1>1, <1>9 DEF GoOnToWrite, Finding, ImportInv, Steps, tables, Found
<1>10. CASE CollectionDone
  <2>1. /\ coll' \in Collections /\ step' \in {"read", "end"} /\ (step' = "end" => coll' = "pushes")
        /\ docs' = <<>> /\ UNCHANGED <<source, schema, store, options, existing, report, began, runs, live>>
    BY <1>10 DEF CollectionDone, Collections, ImportInv, tables
  <2>2. docs' \in Seq(CurrentDocs(coll)')
    BY <2>1
  <2>. QED
    BY <1>1, <2>1, <2>2 DEF ImportInv, Steps
<1>11. ASSUME UNCHANGED <<source, schema, importer>>, live' = live + 1,
              store' = [c \in Collections |-> store'[c]]
       PROVE  ImportInv'
  <2>1. runs # <<>> => runs[1] \in Run /\ runs'[1].began = runs[1].began
    BY <1>11 DEF ImportInv, importer
  <2>2. runs # <<>> => runs'[1].began <= live'
    BY <1>11, <2>1 DEF ImportInv, Run
  <2>. QED
    BY <1>0, <1>1, <1>11, <2>2 DEF ImportInv, importer
<1>12. ASSUME NEW c \in Collections, NEW row, LiveWrites(c, row)  PROVE ImportInv'
  BY <1>11, <1>12 DEF LiveWrites, With, ImportInv
<1>13. ASSUME NEW row, LiveDeletes(row)  PROVE ImportInv'
  BY <1>11, <1>13 DEF LiveDeletes, ImportInv, Collections
<1>. QED
  BY <1>2, <1>3, <1>4, <1>5, <1>6, <1>8, <1>9, <1>10, <1>12, <1>13 DEF Next

LEMMA DocsAreRows ==
  ASSUME source \in Sources, NEW c \in Collections, NEW doc \in CurrentDocs(c)
  PROVE  doc = [key |-> doc.key, marks |-> doc.marks, data |-> doc.data]
<1>1. PICK i \in DOMAIN source.logs[c] : doc = source.logs[c][i].doc
  BY DEF CurrentDocs, Current
<1>2. IsRow(source.logs[c][i].doc)
  BY SourcesAssumption
<1>. QED
  BY <1>1, <1>2 DEF IsRow

LEMMA PushKeys ==
  ASSUME NEW doc \in CurrentDocs("pushes"), source \in Sources
  PROVE  StoredKey("pushes", doc.key) = doc.key /\ Stored("pushes", doc) = doc
<1>1. doc = [key |-> doc.key, marks |-> doc.marks, data |-> doc.data]
  BY DocsAreRows DEF Collections
<1>. QED
  BY <1>1 DEF StoredKey, Stored

\* Whatever the proxy does between a find and a write, a step of a run adds rows to the
\* users and the repositories and takes none away, replaces pushes that the source has
\* and no other, and changes nothing if the run is dry.
THEOREM NothingIsClobbered == Spec => ExistingRowsAreKept
<1> DEFINE Kept ==
      importer' # importer =>
         /\ \A c \in {"users", "repos"} : store[c] \subseteq store'[c]
         /\ \A row \in store["pushes"] \ store'["pushes"] :
               \E doc \in CurrentDocs("pushes") : doc.key = row.key
         /\ options.dryRun => tables' = tables
<1>1. ASSUME ImportInv, Next  PROVE Kept
  <2>1. CASE UNCHANGED tables
    BY <2>1 DEF tables
  <2>2. CASE ApplySchema
    BY <1>1, <2>2 DEF ApplySchema, ImportInv, tables, Options
  <2>3. CASE importer' = importer
    BY <2>3
  <2>4. ASSUME step = "write", coll = "pushes" \/ Admits(coll, Head(docs)),
               store' = With(coll, Head(docs))
        PROVE  Kept
    <3> DEFINE doc == Head(docs)
    <3>1. doc \in CurrentDocs(coll) /\ coll \in Collections /\ ~options.dryRun
      BY <1>1, <2>4, HeadIsCurrent DEF ImportInv
    <3>2. store' = [store EXCEPT ![coll] = (@ \ Holding(coll, doc.key)) \union {Stored(coll, doc)}]
      BY <2>4 DEF With
    <3>3. CASE coll # "pushes"
      BY <1>1, <2>4, <3>1, <3>2, <3>3 DEF Admits, ImportInv, Collections
    <3>4. CASE coll = "pushes"
      <4>1. ASSUME NEW row \in store["pushes"] \ store'["pushes"]  PROVE doc.key = row.key
        BY <1>1, <3>1, <3>2, <3>4, PushKeys DEF ImportInv, Collections, Holding
      <4>2. \A c \in {"users", "repos"} : store'[c] = store[c]
        BY <1>1, <3>2, <3>4 DEF ImportInv, Collections
      <4>. QED
        BY <3>1, <3>4, <4>1, <4>2
    <3>. QED
      BY <3>3, <3>4
  <2>5. CASE Write \/ WriteFails
    BY <2>1, <2>4, <2>5 DEF Write, WriteFails, tables
  <2>6. \/ UNCHANGED tables \/ ApplySchema \/ importer' = importer \/ Write \/ WriteFails
    BY <1>1 DEF Next, StartRun, StartFails, ReadCollection, ReadFails, SkipExisting, Foretell,
       GoOnToWrite, FindFails, WriteRefused, CollectionDone, Finish, Kill, LiveWrites, LiveDeletes
  <2>. QED
    BY <2>1, <2>2, <2>3, <2>5, <2>6
<1>2. ImportInv /\ [Next]_vars => [Kept]_vars
  BY <1>1
<1>3. Init => ImportInv
  BY InitImport
<1>4. ImportInv /\ [Next]_vars => ImportInv'
  BY ImportInvIsInductive
<1>. QED
  BY <1>2, <1>3, <1>4, PTL DEF Spec, ExistingRowsAreKept

-----------------------------------------------------------------------------
(* What a clean run has loaded *)

Place == [users |-> 1, repos |-> 2, pushes |-> 3]

Handled(records, c) == {r.key : r \in {q \in ToSet(records) : q.coll = c}}
Clean(records) == \A i \in DOMAIN records : records[i].action # "error"

\* The row of a document is in its table, unless the proxy has taken it.
Loaded(c, doc) ==
    \/ <<c, StoredKey(c, doc.key)>> \in gone
    \/ \E row \in Holding(c, doc.key) : c = "pushes" => row \in CurrentDocs(c)

\* A collection that is done, in a run with these options and records.
Done(records, dryRun, c) ==
    /\ Handled(records, c) = KeysOf(CurrentDocs(c))
    /\ Clean(records) /\ ~dryRun => \A doc \in CurrentDocs(c) : Loaded(c, doc)

LoadInv ==
    /\ step \in {"read", "find", "write", "end"} =>
          \A c \in Collections :
             /\ Place[c] < Place[coll] \/ step = "end" => Done(report, options.dryRun, c)
             /\ Place[c] > Place[coll] => Handled(report, c) = {}
    /\ step = "read" => Handled(report, coll) = {}
    /\ step \in {"find", "write"} =>
          /\ Handled(report, coll) \union KeysOf(ToSet(docs)) = KeysOf(CurrentDocs(coll))
          /\ Clean(report) /\ ~options.dryRun =>
                \A doc \in CurrentDocs(coll) : doc \in ToSet(docs) \/ Loaded(coll, doc)
    /\ step = "idle" /\ runs # <<>> =>
          (runs[1].status = 0 =>
              Clean(runs[1].report) /\ \A c \in Collections : Done(runs[1].report, runs[1].options.dryRun, c))

\* The ways a step can change the tables.
LEMMA TablesChange ==
  ASSUME ImportInv, [Next]_vars
  PROVE  /\ source' = source /\ (step # "idle" => gone \subseteq gone')
         /\ \/ store' = store
            \/ /\ step = "write" /\ store' = With(coll, Head(docs)) /\ gone' = gone
               /\ coll = "pushes" \/ Admits(coll, Head(docs))
            \/ /\ UNCHANGED importer
               /\ \/ \E c \in Collections, row \in UNION {LiveRows[x] : x \in Collections} :
                        LiveWrites(c, row)
                  \/ \E row \in store["repos"] : LiveDeletes(row)
  BY DEF Next, vars, tables, StartRun, ApplySchema, StartFails, ReadCollection, ReadFails,
     SkipExisting, Foretell, GoOnToWrite, FindFails, Write, WriteRefused, WriteFails,
     CollectionDone, Finish, Kill, Exit, LiveWrites, LiveDeletes

\* A written document is loaded.
LEMMA WrittenIsLoaded ==
  ASSUME ImportInv, docs # <<>>, NEW c, c = coll, NEW doc, doc = Head(docs),
         store' = With(c, doc), source' = source
  PROVE  Loaded(c, doc)'
<1>1. doc \in CurrentDocs(c) /\ c \in Collections /\ store = [x \in Collections |-> store[x]]
  BY HeadIsCurrent DEF ImportInv
<1>2. doc = [key |-> doc.key, marks |-> doc.marks, data |-> doc.data]
  BY <1>1, DocsAreRows DEF ImportInv
<1>3. Stored(c, doc) \in store'[c] /\ Stored(c, doc).key = StoredKey(c, doc.key)
  BY <1>1, <1>2 DEF With, Stored
<1>4. c = "pushes" => Stored(c, doc) \in CurrentDocs(c)'
  BY <1>1, PushKeys, SourceKeysStay DEF ImportInv
<1>. QED
  BY <1>3, <1>4 DEF Loaded, Holding

\* Once it is, the run does not take its row away, and the proxy only with a trace.
LEMMA LoadedStays ==
  ASSUME ImportInv, [Next]_vars, step # "idle" \/ gone \subseteq gone',
         NEW c \in Collections, NEW doc \in CurrentDocs(c), Loaded(c, doc)
  PROVE  Loaded(c, doc)'
<1>1. /\ source' = source /\ gone \subseteq gone' /\ store = [x \in Collections |-> store[x]]
      /\ coll \in Collections /\ CurrentDocs(c)' = CurrentDocs(c)
  BY TablesChange, SourceKeysStay DEF ImportInv
<1>2. CASE <<c, StoredKey(c, doc.key)>> \in gone
  BY <1>1, <1>2 DEF Loaded
<1>3. ASSUME NEW row \in Holding(c, doc.key), c = "pushes" => row \in CurrentDocs(c)
      PROVE  Loaded(c, doc)'
  <2>1. CASE row \in store'[c]
    BY <1>1, <1>3, <2>1 DEF Loaded, Holding
  <2>2. CASE step = "write" /\ store' = With(coll, Head(docs)) /\ row \notin store'[c]
             /\ (coll = "pushes" \/ Admits(coll, Head(docs)))
    <3>1. coll = c /\ row \in Holding(c, Head(docs).key) /\ docs # <<>>
      BY <1>1, <1>3, <2>2 DEF With, Holding, ImportInv
    <3>2. coll = "pushes"
      BY <2>2, <3>1 DEF Admits
    <3>3. Head(docs) \in CurrentDocs("pushes") /\ Head(docs).key = doc.key
      BY <1>3, <3>1, <3>2, HeadIsCurrent, PushKeys DEF Holding, ImportInv
    <3>4. \A x, d : x = coll /\ d = Head(docs) => Loaded(x, d)'
      BY <1>1, <2>2, <3>1, WrittenIsLoaded
    <3>. QED
      BY <3>1, <3>3, <3>4 DEF Loaded, Holding
  <2>3. ASSUME NEW x \in Collections, NEW y, LiveWrites(x, y), row \notin store'[c]
        PROVE  Loaded(c, doc)'
    <3>1. x = c /\ row \in Holding(c, y.key)
      BY <1>1, <1>3, <2>3 DEF LiveWrites, With, Holding
    <3>2. <<c, row.key>> \in gone' /\ row.key = StoredKey(c, doc.key)
      BY <1>3, <2>3, <3>1 DEF LiveWrites, Holding
    <3>. QED
      BY <3>2 DEF Loaded
  <2>4. ASSUME NEW y, LiveDeletes(y), row \notin store'[c]
        PROVE  Loaded(c, doc)'
    <3>1. c = "repos" /\ row = y
      BY <1>1, <1>3, <2>4 DEF LiveDeletes, Holding
    <3>2. <<c, row.key>> \in gone' /\ row.key = StoredKey(c, doc.key)
      BY <1>3, <2>4, <3>1 DEF LiveDeletes, Holding
    <3>. QED
      BY <3>2 DEF Loaded
  <2>5. row \in store[c]
    BY <1>3 DEF Holding
  <2>. QED
    BY <2>1, <2>2, <2>3, <2>4, <2>5, TablesChange
<1>. QED
  BY <1>2, <1>3 DEF Loaded

\* What a record adds to what was handled.
LEMMA HandledGrows ==
  ASSUME ImportInv, docs # <<>>, NEW action \in Actions, Report(action)
  PROVE  /\ \A c : Handled(report', c) = Handled(report, c)
                                         \union (IF c = coll THEN {Head(docs).key} ELSE {})
         /\ Clean(report') <=> Clean(report) /\ action # "error"
<1> DEFINE r == [coll |-> coll, key |-> Head(docs).key, action |-> action]
           n == Len(report)
<1>1. /\ report' \in Seq(Record) /\ Len(report') = n + 1 /\ report'[n + 1] = r
      /\ \A i \in 1..n : report'[i] = report[i]
  BY ReportGrows
<1>2. report \in Seq(Record) /\ n \in Nat /\ DOMAIN report = 1..n /\ DOMAIN report' = 1..n + 1
  BY <1>1 DEF ImportInv
<1>3. \A i : i \in 1..n + 1 <=> i \in 1..n \/ i = n + 1
  BY <1>2
<1>. HIDE DEF n, r
<1>4. ToSet(report') = ToSet(report) \union {r}
  BY <1>1, <1>2, <1>3 DEF ToSet
<1>5. r.coll = coll /\ r.key = Head(docs).key /\ r.action = action
  BY DEF r
<1>6. Clean(report') <=> Clean(report) /\ action # "error"
  BY <1>1, <1>2, <1>3, <1>5 DEF Clean
<1>7. ASSUME NEW c
      PROVE  Handled(report', c) = Handled(report, c)
                                   \union (IF c = coll THEN {Head(docs).key} ELSE {})
  BY <1>4, <1>5 DEF Handled
<1>. QED
  BY <1>6, <1>7

LEMMA NothingHandled ==
  ASSUME NEW c
  PROVE  Handled(<<>>, c) = {}
  BY DEF Handled, ToSet

\* A step that adds the next document's record.
LEMMA RecordKeepsLoadInv ==
  ASSUME ImportInv, LoadInv, [Next]_vars, step \in {"find", "write"}, docs # <<>>,
         NEW action \in Actions, Report(action), NextRecord,
         UNCHANGED <<options, coll, runs>>,
         action # "error" /\ ~options.dryRun =>
            \A c, doc : c = coll /\ doc = Head(docs) => Loaded(c, doc)'
  PROVE  LoadInv'
<1>1. /\ \A c \in Collections : CurrentDocs(c)' = CurrentDocs(c)
      /\ step # "idle" /\ step' = "find" /\ coll \in Collections
  BY TablesChange, SourceKeysStay DEF NextRecord, ImportInv
<1>2. /\ \A c : Handled(report', c) = Handled(report, c)
                                      \union (IF c = coll THEN {Head(docs).key} ELSE {})
      /\ Clean(report') <=> Clean(report) /\ action # "error"
  BY HandledGrows
<1>3. ToSet(docs) = ToSet(docs') \union {Head(docs)}
  <2>1. docs \in Seq(CurrentDocs(coll)) /\ docs' = Tail(docs) /\ Len(docs) \in Nat \ {0}
    BY DEF NextRecord, ImportInv
  <2>2. \A k \in 1..Len(docs) : k = 1 \/ k - 1 \in 1..Len(docs) - 1
    BY <2>1
  <2>3. \A k \in 1..Len(docs) - 1 : k + 1 \in 1..Len(docs)
    BY <2>1
  <2>4. DOMAIN docs' = 1..Len(docs) - 1 /\ DOMAIN docs = 1..Len(docs)
        /\ Head(docs) = docs[1] /\ \A k \in 1..Len(docs) - 1 : docs'[k] = docs[k + 1]
    BY <2>1
  <2>5. \A x \in ToSet(docs) : x \in ToSet(docs') \/ x = docs[1]
    <3>1. ASSUME NEW k \in 1..Len(docs), k # 1  PROVE docs[k] \in ToSet(docs')
      <4>1. k - 1 \in DOMAIN docs' /\ docs'[k - 1] = docs[k]
        BY <2>1, <2>2, <2>4, <3>1
      <4>. QED
        BY <4>1 DEF ToSet
    <3>. QED
      BY <2>4, <3>1 DEF ToSet
  <2>6. \A x \in ToSet(docs') : x \in ToSet(docs)
    BY <2>3, <2>4 DEF ToSet
  <2>. QED
    BY <2>1, <2>4, <2>5, <2>6 DEF ToSet
<1>4. ASSUME NEW c \in Collections, Place[c] < Place[coll]  PROVE Done(report, options.dryRun, c)'
  <2>1. Done(report, options.dryRun, c)
    BY <1>1, <1>4 DEF LoadInv
  <2>2. c # coll
    BY <1>1, <1>4 DEF Place, Collections
  <2>3. \A doc \in CurrentDocs(c) : Loaded(c, doc) => Loaded(c, doc)'
    BY <1>1, LoadedStays
  <2>4. Handled(report', c) = KeysOf(CurrentDocs(c))
    BY <1>2, <2>1, <2>2 DEF Done
  <2>5. Clean(report') /\ ~options'.dryRun => \A doc \in CurrentDocs(c) : Loaded(c, doc)'
    BY <1>2, <2>1, <2>3 DEF Done
  <2>. QED
    BY <1>1, <2>4, <2>5 DEF Done, KeysOf
<1>5. \A c \in Collections : Place[c] > Place[coll] => Handled(report', c) = {}
  BY <1>1, <1>2 DEF LoadInv, Place, Collections
<1>6. Handled(report', coll) \union KeysOf(ToSet(docs')) = KeysOf(CurrentDocs(coll))
  BY <1>2, <1>3 DEF LoadInv, KeysOf
<1>7. ASSUME Clean(report'), ~options.dryRun, NEW doc \in CurrentDocs(coll), doc \notin ToSet(docs')
      PROVE  \A c : c = coll => Loaded(c, doc)'
  <2>1. doc = Head(docs) \/ Loaded(coll, doc)
    BY <1>2, <1>3, <1>7 DEF LoadInv
  <2>. QED
    BY <1>1, <1>2, <1>7, <2>1, LoadedStays
<1>. QED
  BY <1>1, <1>4, <1>5, <1>6, <1>7 DEF LoadInv

\* A step of the proxy, or one of the run that adds no record.
LEMMA SameRunKeepsLoadInv ==
  ASSUME ImportInv, LoadInv, [Next]_vars, step # "idle" \/ gone \subseteq gone',
         UNCHANGED <<options, coll, docs, report, runs>>,
         step' = step \/ (step = "find" /\ step' = "write")
  PROVE  LoadInv'
<1>1. \A c \in Collections : CurrentDocs(c)' = CurrentDocs(c)
  BY TablesChange, SourceKeysStay
<1>2. \A c \in Collections : \A doc : doc \in CurrentDocs(c) /\ Loaded(c, doc) => Loaded(c, doc)'
  BY LoadedStays
<1>3. \A c \in Collections : coll = c =>
         /\ CurrentDocs(coll)' = CurrentDocs(c)
         /\ \A doc \in CurrentDocs(c) : Loaded(coll, doc) => Loaded(coll, doc)'
  <2>1. ASSUME NEW c \in Collections, coll = c, NEW doc \in CurrentDocs(c), Loaded(coll, doc)
        PROVE  Loaded(coll, doc)'
    <3>1. Loaded(c, doc)'
      BY <1>2, <2>1
    <3>2. coll' = c
      BY <2>1
    <3>. QED
      BY <3>1, <3>2 DEF Loaded, StoredKey, Holding
  <2>. QED
    BY <1>1, <2>1
<1>4. coll \in Collections
  BY DEF ImportInv
<1>5. \A c \in Collections : Done(report, options.dryRun, c) => Done(report, options.dryRun, c)'
  BY <1>1, <1>2 DEF Done, KeysOf
<1>6. step \in {"read", "find", "write", "end"} =>
         \A c \in Collections :
            /\ Place[c] < Place[coll] \/ step = "end" => Done(report, options.dryRun, c)'
            /\ Place[c] > Place[coll] => Handled(report, c) = {}
  BY <1>5 DEF LoadInv
<1>7. step' \in {"find", "write"} =>
         /\ Handled(report, coll) \union KeysOf(ToSet(docs)) = KeysOf(CurrentDocs(coll)')
         /\ Clean(report) /\ ~options.dryRun =>
               \A doc \in CurrentDocs(coll)' : doc \in ToSet(docs) \/ Loaded(coll, doc)'
  BY <1>3, <1>4 DEF LoadInv
<1>8. step' = "idle" /\ runs # <<>> =>
         (runs[1].status = 0 =>
             /\ Clean(runs[1].report)
             /\ \A c \in Collections : Done(runs[1].report, runs[1].options.dryRun, c)')
  <2>1. ASSUME step = "idle", runs # <<>>, runs[1].status = 0, NEW c \in Collections
        PROVE  Done(runs[1].report, runs[1].options.dryRun, c)'
    <3>1. Done(runs[1].report, runs[1].options.dryRun, c)
      BY <2>1 DEF LoadInv
    <3>. QED
      BY <1>1, <1>2, <3>1 DEF Done, KeysOf
  <2>. QED
    BY <2>1 DEF LoadInv
<1>. QED
  BY <1>6, <1>7, <1>8 DEF LoadInv

\* The end of a run: only one that is through with every collection, without an error,
\* ends with status 0.
LEMMA ExitKeepsLoadInv ==
  ASSUME ImportInv, LoadInv, [Next]_vars, StartFails \/ ReadFails \/ Finish \/ Kill
  PROVE  LoadInv'
<1>1. PICK status \in Statuses :
         Exit(status) /\ (status = 0 => step = "end" /\ ~HasErrors) /\ step # "idle"
  BY DEF StartFails, ReadFails, Finish, Kill, Statuses, Killed
<1>2. /\ runs'[1].report = report /\ runs'[1].options = options /\ runs'[1].status = status
      /\ step' = "idle"
  BY <1>1, ExitEnds DEF Exit
<1>3. ASSUME status = 0, NEW c \in Collections  PROVE Done(runs[1].report, runs[1].options.dryRun, c)'
  <2>1. Done(report, options.dryRun, c)
    BY <1>1, <1>3 DEF LoadInv
  <2>2. /\ CurrentDocs(c)' = CurrentDocs(c)
        /\ \A doc \in CurrentDocs(c) : Loaded(c, doc) => Loaded(c, doc)'
    BY <1>1, TablesChange, SourceKeysStay, LoadedStays
  <2>. QED
    BY <1>2, <2>1, <2>2 DEF Done, KeysOf
<1>4. status = 0 => Clean(report)
  BY <1>1 DEF HasErrors, Clean
<1>. QED
  BY <1>2, <1>3, <1>4 DEF LoadInv

LEMMA LoadInvIsInductive ==
  ASSUME ImportInv, ImportInv', LoadInv, [Next]_vars
  PROVE  LoadInv'
<1>0. /\ \A c \in Collections : CurrentDocs(c)' = CurrentDocs(c)
      /\ coll \in Collections /\ coll' \in Collections /\ step \in Steps
  BY TablesChange, SourceKeysStay DEF ImportInv
<1>1. CASE UNCHANGED vars
  BY <1>1, SameRunKeepsLoadInv DEF vars, importer
<1>2. ASSUME NEW dryRun \in BOOLEAN, NEW migrate \in BOOLEAN, StartRun(dryRun, migrate)
      PROVE  LoadInv'
  BY <1>2 DEF StartRun, LoadInv
<1>3. CASE ApplySchema
  <2>1. step' = "read" /\ coll' = "users" /\ report' = <<>> /\ \A c \in Collections : Place[c] >= Place["users"]
    BY <1>3 DEF ApplySchema, ImportInv, Place, Collections
  <2>. QED
    BY <2>1, NothingHandled DEF LoadInv, Place, Collections
<1>4. CASE ReadCollection
  <2>1. /\ ToSet(docs') = CurrentDocs(coll) /\ step = "read" /\ step' = "find"
        /\ UNCHANGED <<options, coll, report, runs>>
    BY <1>4, ReadYieldsCurrentDocs DEF ReadCollection, ImportInv
  <2>2. \A c \in Collections : \A doc : doc \in CurrentDocs(c) /\ Loaded(c, doc) => Loaded(c, doc)'
    BY <2>1, LoadedStays
  <2>3. ASSUME NEW c \in Collections, Place[c] < Place[coll]  PROVE Done(report, options.dryRun, c)'
    BY <1>0, <2>1, <2>2, <2>3 DEF LoadInv, Done, KeysOf
  <2>4. Handled(report, coll) = {} /\ CurrentDocs(coll)' = CurrentDocs(coll)
        /\ \A c \in Collections : Place[c] > Place[coll] => Handled(report, c) = {}
    BY <1>0, <2>1 DEF LoadInv
  <2>. QED
    BY <2>1, <2>3, <2>4 DEF LoadInv
<1>5. CASE StartFails \/ ReadFails \/ Finish \/ Kill
  BY <1>5, ExitKeepsLoadInv
<1>6. CASE FindFails \/ WriteRefused \/ WriteFails \/ Foretell
  <2>1. /\ step \in {"find", "write"} /\ docs # <<>> /\ NextRecord /\ UNCHANGED <<options, coll, runs>>
        /\ \E action \in Actions : Report(action) /\ (action = "error" \/ options.dryRun)
    BY <1>6 DEF FindFails, WriteRefused, WriteFails, Foretell, Finding, Actions, ImportInv
  <2>. QED
    BY <2>1, RecordKeepsLoadInv
<1>7. CASE SkipExisting
  <2>1. /\ step \in {"find", "write"} /\ docs # <<>> /\ NextRecord /\ UNCHANGED <<options, coll, runs, store, source>>
        /\ Report("skipped-exists") /\ "skipped-exists" \in Actions
        /\ coll # "pushes" /\ Holding(coll, Head(docs).key) # {}
    BY <1>7 DEF SkipExisting, Finding, Actions, Found, tables
  <2>2. \A c, doc : c = coll /\ doc = Head(docs) => Loaded(c, doc)'
    BY <2>1 DEF Loaded, Holding
  <2>. QED
    BY <2>1, <2>2, RecordKeepsLoadInv
<1>8. CASE Write
  <2>1. /\ step \in {"find", "write"} /\ docs # <<>> /\ NextRecord /\ UNCHANGED <<options, coll, runs, source>>
        /\ store' = With(coll, Head(docs))
        /\ \E action \in Actions : Report(action)
    BY <1>8 DEF Write, Actions, ImportInv
  <2>2. \A c, doc : c = coll /\ doc = Head(docs) => Loaded(c, doc)'
    BY <2>1, WrittenIsLoaded
  <2>. QED
    BY <2>1, <2>2, RecordKeepsLoadInv
<1>9. CASE GoOnToWrite
  BY <1>9, SameRunKeepsLoadInv DEF GoOnToWrite, Finding
<1>10. CASE CollectionDone
  <2>1. /\ step = "find" /\ docs = <<>> /\ docs' = <<>> /\ UNCHANGED <<options, report, runs>>
        /\ \/ coll = "users" /\ coll' = "repos" /\ step' = "read"
           \/ coll = "repos" /\ coll' = "pushes" /\ step' = "read"
           \/ coll = "pushes" /\ coll' = "pushes" /\ step' = "end"
    BY <1>0, <1>10 DEF CollectionDone, Collections
  <2>2. ToSet(docs) = {}
    BY <2>1 DEF ToSet
  <2>3. Done(report, options.dryRun, coll)
    BY <2>1, <2>2 DEF LoadInv, Done, KeysOf
  <2>4. \A c \in Collections : Place[c] <= Place[coll] => Done(report, options.dryRun, c)
    BY <1>0, <2>1, <2>3 DEF LoadInv, Place, Collections
  <2>5. \A c \in Collections : \A doc : doc \in CurrentDocs(c) /\ Loaded(c, doc) => Loaded(c, doc)'
    BY <2>1, LoadedStays
  <2>6. \A c \in Collections : Place[c] <= Place[coll] => Done(report, options.dryRun, c)'
    BY <1>0, <2>1, <2>4, <2>5 DEF Done, KeysOf
  <2>7. \A c \in Collections : Place[c] > Place[coll] => Handled(report, c) = {}
    BY <2>1 DEF LoadInv
  <2>8. step' = "end" => \A c \in Collections : Place[c] <= Place[coll]
    BY <2>1 DEF Place, Collections
  <2>9. \A c \in Collections : Place[c] < Place[coll'] => Place[c] <= Place[coll]
    BY <2>1 DEF Place, Collections
  <2>10. step' = "read" =>
            Place[coll'] > Place[coll] /\ \A c \in Collections : Place[c] > Place[coll'] => Place[c] > Place[coll]
    BY <2>1 DEF Place, Collections
  <2>11. step' = "end" => \A c \in Collections : ~(Place[c] > Place[coll'])
    BY <2>1 DEF Place, Collections
  <2>12. \A c \in Collections : Place[c] < Place[coll'] \/ step' = "end" => Done(report, options.dryRun, c)'
    BY <2>6, <2>8, <2>9
  <2>13. \A c \in Collections : Place[c] > Place[coll'] => Handled(report', c) = {}
    BY <2>1, <2>7, <2>10, <2>11
  <2>14. step' = "read" => Handled(report', coll') = {}
    BY <1>0, <2>1, <2>7, <2>10
  <2>. QED
    BY <2>1, <2>12, <2>13, <2>14 DEF LoadInv
<1>11. ASSUME NEW c \in Collections, NEW row, LiveWrites(c, row)  PROVE LoadInv'
  BY <1>11, SameRunKeepsLoadInv DEF LiveWrites, importer
<1>12. ASSUME NEW row, LiveDeletes(row)  PROVE LoadInv'
  BY <1>12, SameRunKeepsLoadInv DEF LiveDeletes, importer
<1>. QED
  BY <1>1, <1>2, <1>3, <1>4, <1>5, <1>6, <1>7, <1>8, <1>9, <1>10, <1>11, <1>12 DEF Next

\* However the runs before it ended, and whatever the proxy writes while it runs: a run
\* that ends with status 0 has come across exactly the documents that the source has,
\* and has each in its table unless the proxy took it.
THEOREM CleanRunsLoadEverything == Spec => []CleanRunLoadsTheSource
<1>1. ASSUME ImportInv, LoadInv  PROVE CleanRunLoadsTheSource
  <2>1. SUFFICES ASSUME step = "idle", runs # <<>>, Head(runs).status = 0, ~Head(runs).options.dryRun,
                        NEW c \in Collections
        PROVE  /\ Handled(Head(runs).report, c) = KeysOf(CurrentDocs(c))
               /\ \A doc \in CurrentDocs(c) : Loaded(c, doc)
    BY DEF CleanRunLoadsTheSource, Handled, KeysOf, Loaded
  <2>2. Head(runs) = runs[1]
    BY <1>1, <2>1 DEF ImportInv
  <2>. QED
    BY <1>1, <2>1, <2>2 DEF LoadInv, Done
<1>2. Init => ImportInv /\ LoadInv
  BY InitImport DEF Init, LoadInv
<1>3. ImportInv /\ LoadInv /\ [Next]_vars => ImportInv' /\ LoadInv'
  BY ImportInvIsInductive, LoadInvIsInductive
<1>. QED
  BY <1>1, <1>2, <1>3, PTL DEF Spec
-----------------------------------------------------------------------------
(* Which document a record is of *)

\* What a run loads of a collection, and how many records come before it.
Part(c) == IF Read(c).ok THEN Read(c).docs ELSE <<>>

Offset(c) ==
    IF c = "users" THEN 0
    ELSE IF c = "repos" THEN Len(Part("users"))
    ELSE Len(Part("users")) + Len(Part("repos"))

IsPlanned(i, r) ==
    \E k \in DOMAIN Part(r.coll) : i = Offset(r.coll) + k /\ r.key = Part(r.coll)[k].key

Planned(records) == \A i \in DOMAIN records : IsPlanned(i, records[i])

Complete(records) == Planned(records) /\ Len(records) = Offset("pushes") + Len(Part("pushes"))

PlanInv ==
    /\ Planned(report)
    /\ step = "read" => Len(report) = Offset(coll)
    /\ step \in {"find", "write"} =>
          /\ Len(docs) <= Len(Part(coll))
          /\ Len(report) = Offset(coll) + Len(Part(coll)) - Len(docs)
          /\ \A k \in DOMAIN docs : docs[k] = Part(coll)[Len(Part(coll)) - Len(docs) + k]
    /\ step = "end" => Complete(report)
    /\ runs # <<>> => (runs[1].status = 0 => Complete(runs[1].report) /\ Clean(runs[1].report))

LEMMA PartsAreSequences ==
  ASSUME source \in Sources
  PROVE  /\ \A c \in Collections : Part(c) \in Seq(CurrentDocs(c))
         /\ \A c \in Collections : Len(Part(c)) \in Nat /\ DOMAIN Part(c) = 1..Len(Part(c))
         /\ \A c \in Collections : Offset(c) \in Nat
<1>1. ASSUME NEW c \in Collections  PROVE Part(c) \in Seq(CurrentDocs(c))
  BY ReadYieldsCurrentDocs DEF Part
<1>2. \A c \in Collections : Len(Part(c)) \in Nat /\ DOMAIN Part(c) = 1..Len(Part(c))
  BY <1>1
<1>. QED
  BY <1>1, <1>2 DEF Offset, Collections

LEMMA PartsStay ==
  ASSUME source' = source
  PROVE  /\ \A c : Part(c)' = Part(c) /\ Offset(c)' = Offset(c)
         /\ \A i, r : IsPlanned(i, r)' <=> IsPlanned(i, r)
         /\ \A records : (Planned(records)' <=> Planned(records))
                         /\ (Complete(records)' <=> Complete(records))
<1>1. \A c : Part(c)' = Part(c)
  BY DEF Part, Read
<1>2. \A c : Offset(c)' = Offset(c)
  BY <1>1 DEF Offset
<1>3. \A i, r : IsPlanned(i, r)' <=> IsPlanned(i, r)
  BY <1>1, <1>2 DEF IsPlanned
<1>. QED
  BY <1>1, <1>2, <1>3 DEF Planned, Complete

\* Two runs that come to a record of the same number come to the same document's.
LEMMA PlansAgree ==
  ASSUME source \in Sources, NEW i, NEW r, NEW s, r.coll \in Collections, s.coll \in Collections,
         IsPlanned(i, r), IsPlanned(i, s)
  PROVE  r.coll = s.coll /\ r.key = s.key
<1>1. PICK k \in DOMAIN Part(r.coll) : i = Offset(r.coll) + k /\ r.key = Part(r.coll)[k].key
  BY DEF IsPlanned
<1>2. PICK m \in DOMAIN Part(s.coll) : i = Offset(s.coll) + m /\ s.key = Part(s.coll)[m].key
  BY DEF IsPlanned
<1>3. /\ k \in 1..Len(Part(r.coll)) /\ m \in 1..Len(Part(s.coll))
      /\ Len(Part("users")) \in Nat /\ Len(Part("repos")) \in Nat /\ Len(Part("pushes")) \in Nat
  BY PartsAreSequences DEF Collections
<1>4. r.coll = s.coll
  BY <1>1, <1>2, <1>3 DEF Offset, Collections
<1>5. k = m
  BY <1>1, <1>2, <1>3, <1>4, PartsAreSequences
<1>. QED
  BY <1>1, <1>2, <1>4, <1>5

\* A planned record's number is below the end of its collection.
LEMMA PlannedIsWithin ==
  ASSUME source \in Sources, NEW i, NEW r, r.coll \in Collections, IsPlanned(i, r)
  PROVE  i \in 1..Offset("pushes") + Len(Part("pushes"))
<1>1. PICK k \in DOMAIN Part(r.coll) : i = Offset(r.coll) + k
  BY DEF IsPlanned
<1>2. /\ k \in 1..Len(Part(r.coll))
      /\ Len(Part("users")) \in Nat /\ Len(Part("repos")) \in Nat /\ Len(Part("pushes")) \in Nat
  BY PartsAreSequences DEF Collections
<1>. QED
  BY <1>1, <1>2 DEF Offset, Collections

\* A step that adds the next document's record, planned.
LEMMA RecordIsPlanned ==
  ASSUME ImportInv, PlanInv, source' = source, step \in {"find", "write"}, docs # <<>>,
         NEW action \in Actions, Report(action), NextRecord, UNCHANGED <<options, coll, runs>>
  PROVE  PlanInv'
<1> DEFINE n == Len(report)
           p == Part(coll)
           d == Len(docs)
<1>1. /\ report' \in Seq(Record) /\ Len(report') = n + 1
      /\ report'[n + 1] = [coll |-> coll, key |-> Head(docs).key, action |-> action]
      /\ \A i \in 1..n : report'[i] = report[i]
  BY ReportGrows
<1>2. /\ n \in Nat /\ DOMAIN report = 1..n /\ DOMAIN report' = 1..n + 1
      /\ coll \in Collections /\ source \in Sources
      /\ Len(p) \in Nat /\ DOMAIN p = 1..Len(p) /\ Offset(coll) \in Nat
  BY <1>1, PartsAreSequences DEF ImportInv
<1>3. /\ d \in Nat \ {0} /\ d <= Len(p) /\ n = Offset(coll) + Len(p) - d /\ DOMAIN docs = 1..d
      /\ \A k \in 1..d : docs[k] = p[Len(p) - d + k]
  BY DEF PlanInv, ImportInv
<1>4. /\ Head(docs) = docs[1] /\ docs' \in Seq(CurrentDocs(coll)) /\ Len(docs') = d - 1
      /\ \A k \in 1..d - 1 : docs'[k] = docs[k + 1]
      /\ step' = "find"
  BY HeadIsCurrent DEF NextRecord
<1>5. DOMAIN docs' = 1..d - 1
  BY <1>3, <1>4
<1>. HIDE DEF n, p, d
<1>6. IsPlanned(n + 1, report'[n + 1])
  <2>1. Len(p) - d + 1 \in DOMAIN p /\ n + 1 = Offset(coll) + (Len(p) - d + 1)
        /\ Head(docs) = p[Len(p) - d + 1]
    BY <1>2, <1>3, <1>4
  <2>. QED
    BY <1>1, <2>1 DEF IsPlanned, p
<1>7. Planned(report')
  BY <1>1, <1>2, <1>6 DEF PlanInv, Planned
<1>8. /\ Len(docs') <= Len(p) /\ n + 1 = Offset(coll) + Len(p) - Len(docs')
      /\ \A k \in DOMAIN docs' : docs'[k] = p[Len(p) - Len(docs') + k]
  <2>1. ASSUME NEW k \in DOMAIN docs'  PROVE docs'[k] = p[Len(p) - Len(docs') + k]
    <3>1. k \in 1..d - 1 /\ k + 1 \in 1..d
      BY <1>3, <1>5
    <3>2. \A l, e, j \in Int : l - e + (j + 1) = l - (e - 1) + j
      OBVIOUS
    <3>3. Len(p) - d + (k + 1) = Len(p) - Len(docs') + k
      BY <1>2, <1>3, <1>4, <3>1, <3>2
    <3>. QED
      BY <1>3, <1>4, <3>1, <3>3
  <2>. QED
    BY <1>2, <1>3, <1>4, <2>1
<1>9. /\ Part(coll)' = p /\ Offset(coll)' = Offset(coll) /\ Planned(report)'
      /\ runs # <<>> => (Complete(runs[1].report) => Complete(runs[1].report)')
  BY <1>7, PartsStay DEF p
<1>10. runs' # <<>> => (runs'[1].status = 0 => Complete(runs[1].report)' /\ Clean(runs'[1].report))
  BY <1>9 DEF PlanInv
<1>. QED
  BY <1>1, <1>4, <1>8, <1>9, <1>10 DEF PlanInv

\* A step that adds no record and stays within a collection.
LEMMA SameRunKeepsPlanInv ==
  ASSUME ImportInv, PlanInv, UNCHANGED <<source, coll, docs, report, runs>>,
         step' = step \/ step' \in {"idle", "start"} \/ (step = "find" /\ step' = "write")
  PROVE  PlanInv'
<1>1. /\ Part(coll)' = Part(coll) /\ Offset(coll)' = Offset(coll)
      /\ (Planned(report) => Planned(report)') /\ (Complete(report) => Complete(report)')
      /\ runs # <<>> => (Complete(runs[1].report) => Complete(runs[1].report)')
  <2>1. \A c : coll = c => Part(coll)' = Part(c) /\ Offset(coll)' = Offset(c)
    BY PartsStay
  <2>2. \A records : report = records => (Planned(records) => Planned(report)')
                                         /\ (Complete(records) => Complete(report)')
    BY PartsStay
  <2>3. \A records : runs # <<>> /\ runs[1].report = records =>
                        (Complete(records) => Complete(runs[1].report)')
    BY PartsStay
  <2>. QED
    BY <2>1, <2>2, <2>3
<1>. QED
  BY <1>1 DEF PlanInv

LEMMA PlanInvIsInductive ==
  ASSUME ImportInv, PlanInv, [Next]_vars
  PROVE  PlanInv'
<1>0. /\ source' = source /\ source \in Sources /\ coll \in Collections /\ report \in Seq(Record)
      /\ \A c \in Collections : Len(Part(c)) \in Nat /\ Offset(c) \in Nat /\ Part(c) \in Seq(CurrentDocs(c))
      /\ \A c : Part(c)' = Part(c) /\ Offset(c)' = Offset(c)
      /\ \A records : (Planned(records)' <=> Planned(records)) /\ (Complete(records)' <=> Complete(records))
  BY TablesChange, PartsAreSequences, PartsStay DEF ImportInv
<1>1. CASE UNCHANGED vars
  BY <1>0, <1>1, SameRunKeepsPlanInv DEF vars, importer
<1>2. ASSUME NEW dryRun \in BOOLEAN, NEW migrate \in BOOLEAN, StartRun(dryRun, migrate)
      PROVE  PlanInv'
  BY <1>0, <1>2, SameRunKeepsPlanInv DEF StartRun
<1>3. CASE ApplySchema
  <2>1. step = "start" /\ step' = "read" /\ UNCHANGED <<coll, docs, report, runs>>
    BY <1>3 DEF ApplySchema
  <2>2. report = <<>> /\ coll = "users" /\ Len(report) = Offset(coll)
    BY <2>1 DEF ImportInv, Offset
  <2>. QED
    BY <1>0, <2>1, <2>2 DEF PlanInv
<1>4. CASE ReadCollection
  <2>1. step = "read" /\ step' = "find" /\ UNCHANGED <<coll, report, runs>> /\ docs' = Part(coll)
    BY <1>4 DEF ReadCollection, Part
  <2>2. Len(report) = Offset(coll)
    BY <2>1 DEF PlanInv
  <2>3. Len(report) = Offset(coll) + Len(Part(coll)) - Len(docs')
    BY <1>0, <2>1, <2>2
  <2>4. \A k \in DOMAIN docs' : docs'[k] = Part(coll)[Len(Part(coll)) - Len(docs') + k]
    BY <1>0, <2>1
  <2>5. Len(docs') <= Len(Part(coll))
    BY <1>0, <2>1
  <2>. QED
    BY <1>0, <2>1, <2>3, <2>4, <2>5 DEF PlanInv
<1>5. CASE StartFails \/ ReadFails \/ Finish \/ Kill
  <2>1. PICK status \in Statuses :
           Exit(status) /\ (status = 0 => step = "end" /\ ~HasErrors) /\ step # "idle"
    BY <1>5 DEF StartFails, ReadFails, Finish, Kill, Statuses, Killed
  <2>2. runs'[1].report = report /\ runs'[1].status = status /\ step' = "idle" /\ report' = <<>>
    BY <2>1, ExitEnds DEF Exit
  <2>3. status = 0 => Complete(report) /\ Clean(report)
    BY <2>1 DEF PlanInv, HasErrors, Clean
  <2>. QED
    BY <1>0, <2>2, <2>3 DEF PlanInv, Planned
<1>6. CASE SkipExisting \/ Foretell \/ FindFails \/ Write \/ WriteRefused \/ WriteFails
  <2>1. step \in {"find", "write"} /\ docs # <<>> /\ NextRecord /\ UNCHANGED <<options, coll, runs>>
    BY <1>6 DEF SkipExisting, Foretell, FindFails, Write, WriteRefused, WriteFails, Finding, ImportInv
  <2>2. \E action \in Actions : Report(action)
    BY <1>6 DEF SkipExisting, Foretell, FindFails, Write, WriteRefused, WriteFails, Actions
  <2>. QED
    BY <1>0, <2>1, <2>2, RecordIsPlanned
<1>7. CASE GoOnToWrite
  BY <1>0, <1>7, SameRunKeepsPlanInv DEF GoOnToWrite, Finding
<1>8. CASE CollectionDone
  <2>1. /\ step = "find" /\ docs = <<>> /\ docs' = <<>> /\ UNCHANGED <<report, runs>>
        /\ \/ coll = "users" /\ coll' = "repos" /\ step' = "read"
           \/ coll = "repos" /\ coll' = "pushes" /\ step' = "read"
           \/ coll = "pushes" /\ coll' = "pushes" /\ step' = "end"
    BY <1>0, <1>8 DEF CollectionDone, Collections
  <2>2. Len(report) = Offset(coll) + Len(Part(coll))
    BY <1>0, <2>1 DEF PlanInv
  <2>3. step' = "read" => Len(report) = Offset(coll')
    BY <1>0, <2>1, <2>2 DEF Offset, Collections
  <2>4. step' = "end" => Complete(report)
    BY <2>1, <2>2 DEF Complete, PlanInv
  <2>5. step' = "read" => Len(report') = Offset(coll)'
    BY <1>0, <2>1, <2>3
  <2>. QED
    BY <1>0, <2>1, <2>4, <2>5 DEF PlanInv
<1>9. ASSUME NEW c \in Collections, NEW row, LiveWrites(c, row)  PROVE PlanInv'
  BY <1>0, <1>9, SameRunKeepsPlanInv DEF LiveWrites, importer
<1>10. ASSUME NEW row, LiveDeletes(row)  PROVE PlanInv'
  BY <1>0, <1>10, SameRunKeepsPlanInv DEF LiveDeletes, importer
<1>. QED
  BY <1>1, <1>2, <1>3, <1>4, <1>5, <1>6, <1>7, <1>8, <1>9, <1>10 DEF Next

-----------------------------------------------------------------------------
(* What a dry run foretells *)

Held(r) == Holding(r.coll, r.key) # {}
Same(r, s) == r.coll = s.coll /\ StoredKey(r.coll, r.key) = StoredKey(s.coll, s.key)

\* What a dry run says of a record, as the tables are now.
SaidOf(r) ==
    IF ~Held(r) THEN "would-create"
    ELSE IF r.coll = "pushes" THEN "would-update" ELSE "skipped-exists"

\* The last run that ended was a dry run without errors, and the proxy has not written
\* since it began.
Foresight == runs # <<>> /\ runs[1].options.dryRun /\ runs[1].status = 0 /\ runs[1].began = live

\* What it said of a record still holds, or the run that is under way has come across the
\* record or another with its key.
StillTrue(r) ==
    \/ r.action = SaidOf(r)
    \/ r.action = "would-create" /\ \E j \in DOMAIN report : Same(report[j], r)

\* The run that is under way does what the last one said.
Foreseen ==
    LET dry == runs[1].report
    IN /\ \A i \in DOMAIN dry : StillTrue(dry[i])
       /\ \A i \in DOMAIN report : i \in DOMAIN dry /\ Foretold(dry, report, i)
       /\ \A i \in DOMAIN report : report[i].action # "error" => Held(report[i])
       /\ step = "write" => existing = Found

ForetellInv ==
    /\ options.dryRun /\ began = live =>
          \A i \in DOMAIN report : report[i].action \in {"error", SaidOf(report[i])}
    /\ step = "idle" /\ Foresight =>
          \A i \in DOMAIN runs[1].report : runs[1].report[i].action = SaidOf(runs[1].report[i])
    /\ step # "idle" /\ ~options.dryRun /\ Foresight => Foreseen
    /\ DryRunForetells

\* A written document's key is held, and what is held of other keys stays as it was.
LEMMA WriteHolds ==
  ASSUME ImportInv, docs # <<>>, source' = source, store' = store \/ store' = With(coll, Head(docs)),
         NEW new, new.coll = coll, new.key = Head(docs).key
  PROVE  /\ \A x : x.coll \in Collections /\ Held(x) => Held(x)'
         /\ \A x : x.coll \in Collections /\ ~Same(x, new) => (Held(x)' <=> Held(x))
         /\ store' = With(coll, Head(docs)) => Held(new)'
<1>1. CASE store' = store /\ store' # With(coll, Head(docs))
  BY <1>1 DEF Held, Holding
<1>2. CASE store' = With(coll, Head(docs))
  <2>1. coll \in Collections /\ store = [c \in Collections |-> store[c]]
        /\ Head(docs) = [key |-> Head(docs).key, marks |-> Head(docs).marks, data |-> Head(docs).data]
    BY HeadIsCurrent, DocsAreRows DEF ImportInv
  <2> DEFINE row == Stored(coll, Head(docs))
             key == StoredKey(coll, Head(docs).key)
  <2>2. row.key = key
    BY <2>1 DEF Stored
  <2>3. /\ store'[coll] = (store[coll] \ {old \in store[coll] : old.key = key}) \union {row}
        /\ \A c \in Collections : c # coll => store'[c] = store[c]
    BY <1>2, <2>1 DEF With, Holding
  <2>4. Held(new)'
    BY <2>2, <2>3 DEF Held, Holding
  <2>5. ASSUME NEW x, x.coll \in Collections, ~Same(x, new)
        PROVE  Held(x)' <=> Held(x)
    <3>1. CASE x.coll # coll
      BY <2>3, <2>5, <3>1 DEF Held, Holding
    <3>2. CASE x.coll = coll
      <4>1. StoredKey(x.coll, x.key) # key
        BY <2>5, <3>2 DEF Same
      <4>2. \A old : old \in store'[coll] /\ old.key = StoredKey(x.coll, x.key)
                     <=> old \in store[coll] /\ old.key = StoredKey(x.coll, x.key)
        BY <2>2, <2>3, <4>1
      <4>. QED
        BY <3>2, <4>2 DEF Held, Holding
    <3>. QED
      BY <3>1, <3>2
  <2>6. ASSUME NEW x, Same(x, new)  PROVE Held(x)'
    BY <2>4, <2>6 DEF Same, Held, Holding
  <2>. QED
    BY <2>4, <2>5, <2>6
<1>. QED
  BY <1>1, <1>2

\* What follows a record does not change what was foretold of it.
LEMMA ForetoldStays ==
  ASSUME NEW n \in Nat, NEW dry, NEW wet, NEW more, NEW i \in 1..n, \A j \in 1..n : more[j] = wet[j],
         Foretold(dry, wet, i)
  PROVE  Foretold(dry, more, i)
<1> DEFINE before(w) == {j \in 1..(i - 1) :
                           /\ w[j].coll = w[i].coll
                           /\ StoredKey(w[j].coll, w[j].key) = StoredKey(w[i].coll, w[i].key)}
<1>1. \A j \in 1..(i - 1) : j \in 1..n
  OBVIOUS
<1>2. before(more) = before(wet) /\ more[i] = wet[i] /\ \A j \in before(wet) : more[j] = wet[j]
  BY <1>1
<1>. QED
  BY <1>2 DEF Foretold

\* A run that adds a record does with it what the dry run said, and what the dry run said
\* of the others still holds.
LEMMA RecordKeepsForeseen ==
  ASSUME ImportInv, PlanInv', Foreseen, source' = source, docs # <<>>,
         runs[1].report \in Seq(Record), Complete(runs[1].report),
         NEW action \in Actions, Report(action), NextRecord, UNCHANGED <<coll, runs>>,
         store' = store \/ store' = With(coll, Head(docs)),
         \/ action = "error"
         \/ action = "skipped-exists" /\ coll # "pushes" /\ Found
         \/ /\ action = (IF Found THEN "updated" ELSE "created")
            /\ coll = "pushes" \/ ~Found
            /\ store' = With(coll, Head(docs))
  PROVE  Foreseen'
<1>0. PICK dry, n, r : dry = runs[1].report /\ n = Len(report) /\ r = report'[n + 1]
  OBVIOUS
<1>1. /\ report' \in Seq(Record) /\ Len(report') = n + 1
      /\ r = [coll |-> coll, key |-> Head(docs).key, action |-> action]
      /\ \A i \in 1..n : report'[i] = report[i]
  BY <1>0, ReportGrows
<1>2. /\ n \in Nat /\ DOMAIN report = 1..n /\ DOMAIN report' = 1..n + 1
      /\ DOMAIN dry = 1..Len(dry) /\ Len(dry) \in Nat
      /\ \A i \in DOMAIN dry : dry[i].coll \in Collections
      /\ \A i \in 1..n : report[i].coll \in Collections
      /\ coll \in Collections /\ source \in Sources /\ step' = "find"
  <2>1. /\ report \in Seq(Record) /\ dry \in Seq(Record) /\ coll \in Collections
        /\ source \in Sources /\ step' = "find" /\ \A x \in Record : x.coll \in Collections
    BY <1>0 DEF ImportInv, Record, NextRecord
  <2>2. n \in Nat /\ DOMAIN report = 1..n /\ DOMAIN report' = 1..n + 1
    BY <1>0, <1>1, <2>1
  <2>3. DOMAIN dry = 1..Len(dry) /\ Len(dry) \in Nat
    BY <2>1
  <2>. QED
    BY <1>0, <2>1, <2>2, <2>3
<1>3. r.coll = coll /\ r.key = Head(docs).key /\ r.action = action
  BY <1>1
<1>4. /\ \A i \in DOMAIN dry : StillTrue(dry[i])
      /\ \A i \in 1..n : i \in DOMAIN dry /\ Foretold(dry, report, i)
      /\ \A i \in 1..n : report[i].action # "error" => Held(report[i])
  BY <1>0, <1>2 DEF Foreseen
<1>5. Planned(dry) /\ Len(dry) = Offset("pushes") + Len(Part("pushes"))
  BY <1>0 DEF Complete
<1>6. n + 1 \in DOMAIN dry /\ dry[n + 1].coll = r.coll /\ dry[n + 1].key = r.key
  <2>1. IsPlanned(n + 1, r)
    <3>1. Planned(report')
      BY PartsStay DEF PlanInv
    <3>. QED
      BY <1>0, <1>2, <3>1 DEF Planned
  <2>2. n + 1 \in DOMAIN dry
    BY <1>2, <1>3, <1>5, <2>1, PlannedIsWithin
  <2>3. IsPlanned(n + 1, dry[n + 1])
    BY <1>5, <2>2 DEF Planned
  <2>. QED
    BY <1>2, <1>3, <2>1, <2>2, <2>3, PlansAgree
<1>7. (Found <=> Held(r)) /\ \A x, y : Same(x, y) => (Held(x) <=> Held(y))
  BY <1>3 DEF Found, Held, Holding, Same
<1>8. Foretold(dry, report', n + 1)
  <2> DEFINE before == {j \in 1..n : Same(report'[j], r)}
  <2>1. ASSUME \/ action = "error"
               \/ dry[n + 1].action = "skipped-exists" /\ action = "skipped-exists"
               \/ dry[n + 1].action = "would-update" /\ action = "updated"
               \/ dry[n + 1].action = "would-create" /\ action = "created"
                  /\ \A j \in before : report'[j].action = "error"
               \/ /\ dry[n + 1].action = "would-create" /\ before # {}
                  /\ action = (IF coll = "pushes" THEN "updated" ELSE "skipped-exists")
        PROVE  Foretold(dry, report', n + 1)
    <3>1. n + 1 - 1 = n
      BY <1>2
    <3>. QED
      BY <1>0, <1>3, <1>6, <2>1, <3>1 DEF Foretold, Same
  <2>2. \/ dry[n + 1].action = SaidOf(r)
        \/ dry[n + 1].action = "would-create" /\ before # {}
    <3>1. StillTrue(dry[n + 1])
      BY <1>4, <1>6
    <3>2. SaidOf(dry[n + 1]) = SaidOf(r) /\ \A x : Same(x, dry[n + 1]) <=> Same(x, r)
      BY <1>6 DEF SaidOf, Held, Same
    <3>3. \A j \in DOMAIN report : Same(report[j], r) => j \in before
      BY <1>1, <1>2
    <3>. QED
      BY <3>1, <3>2, <3>3 DEF StillTrue
  <2>3. ~Held(r) => \A j \in before : report'[j].action = "error"
    BY <1>1, <1>4, <1>7
  <2>. HIDE DEF before
  <2>. QED
    BY <1>3, <1>7, <2>1, <2>2, <2>3 DEF SaidOf
<1>9. ASSUME NEW i \in 1..n  PROVE i \in DOMAIN dry /\ Foretold(dry, report', i)
  BY <1>1, <1>2, <1>4, <1>9, ForetoldStays
<1>10. /\ \A x : x.coll \in Collections /\ Held(x) => Held(x)'
       /\ \A x : x.coll \in Collections /\ ~Same(x, r) => (Held(x)' <=> Held(x))
       /\ store' = With(coll, Head(docs)) => Held(r)'
  BY <1>3, WriteHolds
<1>11. ASSUME NEW i \in DOMAIN dry, NEW x, x = dry[i]  PROVE StillTrue(x)'
  <2>1. x.coll \in Collections /\ StillTrue(x)
    BY <1>2, <1>4, <1>11
  <2>2. \A j \in DOMAIN report : j \in DOMAIN report' /\ report'[j] = report[j]
    BY <1>1, <1>2
  <2>3. CASE x.action = "would-create" /\ \E j \in DOMAIN report' : Same(report'[j], x)
    BY <2>3 DEF StillTrue, Same
  <2>4. CASE x.action = SaidOf(x) /\ ~Same(r, x)
    BY <1>10, <2>1, <2>4 DEF StillTrue, SaidOf, Same
  <2>5. CASE x.action = SaidOf(x) /\ Same(r, x) /\ x.action # "would-create"
    BY <1>10, <2>1, <2>5 DEF StillTrue, SaidOf
  <2>6. CASE x.action = SaidOf(x) /\ Same(r, x) /\ x.action = "would-create"
    BY <1>0, <1>2, <2>3, <2>6
  <2>. QED
    BY <2>1, <2>2, <2>3, <2>4, <2>5, <2>6 DEF StillTrue
<1>12. ASSUME NEW i \in DOMAIN report', NEW x, x = report'[i], x.action # "error"  PROVE Held(x)'
  <2>1. CASE i \in 1..n
    BY <1>1, <1>2, <1>4, <1>10, <1>12, <2>1
  <2>2. CASE i = n + 1
    BY <1>0, <1>2, <1>3, <1>7, <1>10, <1>12, <2>2
  <2>. QED
    BY <1>2, <2>1, <2>2
<1>13. \A i \in DOMAIN dry : StillTrue(runs[1].report[i])'
  BY <1>0, <1>11 DEF StillTrue, SaidOf, Held, Holding, Same
<1>14. \A i \in DOMAIN report' : report'[i].action # "error" => Held(report[i])'
  BY <1>12 DEF Held, Holding
<1>15. \A i \in DOMAIN report' : i \in DOMAIN dry /\ Foretold(dry, report', i)
  BY <1>2, <1>6, <1>8, <1>9
<1>. QED
  BY <1>0, <1>2, <1>13, <1>14, <1>15 DEF Foreseen

\* A step of a run that adds no record leaves what was foretold as it was.
LEMMA SameTablesKeepForeseen ==
  ASSUME Foreseen, UNCHANGED <<store, report, runs>>,
         step' = "write" => existing' = Found /\ UNCHANGED <<coll, docs>>
  PROVE  Foreseen'
<1>1. \A x : (Held(x)' <=> Held(x)) /\ SaidOf(x)' = SaidOf(x) /\ (StillTrue(x)' <=> StillTrue(x))
  BY DEF StillTrue, SaidOf, Held, Holding, Same
<1>2. \A i : (StillTrue(runs[1].report[i])' <=> StillTrue(runs[1].report[i]))
             /\ (Held(report[i])' <=> Held(report[i]))
  BY DEF StillTrue, SaidOf, Held, Holding, Same
<1>3. step' = "write" => existing' = Found'
  BY DEF Found, Holding
<1>. QED
  BY <1>2, <1>3 DEF Foreseen

LEMMA ForetellInvIsInductive ==
  ASSUME ImportInv, PlanInv, PlanInv', ForetellInv, [Next]_vars
  PROVE  ForetellInv'
<1>0. /\ source' = source /\ live \in Nat /\ began \in Nat /\ began <= live /\ runs \in Seq(Run)
      /\ runs # <<>> => runs[1] \in Run /\ runs[1].began \in Nat /\ runs[1].began <= live
  <2>1. /\ source' = source /\ live \in Nat /\ began \in Nat /\ began <= live /\ runs \in Seq(Run)
        /\ runs # <<>> => runs[1].began <= live
    BY TablesChange DEF ImportInv
  <2>2. runs # <<>> => runs[1] \in Run
    BY <2>1
  <2>3. \A x \in Run : x.began \in Nat
    BY DEF Run
  <2>. QED
    BY <2>1, <2>2, <2>3
<1>1. runs' = runs => DryRunForetells'
  BY DEF ForetellInv, DryRunForetells
\* A step that leaves the records and the tables alone.
<1>2. ASSUME UNCHANGED <<store, report, runs, live>>,
             \/ UNCHANGED <<step, options, began, coll, docs, existing>>
             \/ /\ step \notin {"idle", "write"} /\ UNCHANGED <<options, began>>
                /\ step' # "idle"
                /\ step' = "write" => existing' = Found /\ UNCHANGED <<coll, docs>>
      PROVE  ForetellInv'
  <2>1. /\ Foresight' <=> Foresight
        /\ step' = "idle" <=> step = "idle"
        /\ UNCHANGED <<options, began, live>>
    BY <1>2 DEF Foresight
  <2>2. \A i : SaidOf(report[i])' = SaidOf(report[i])
               /\ SaidOf(runs[1].report[i])' = SaidOf(runs[1].report[i])
    BY <1>2 DEF SaidOf, Held, Holding
  <2>3. Foreseen => Foreseen'
    <3>1. Foreseen /\ step' = "write" => existing' = Found /\ UNCHANGED <<coll, docs>>
      BY <1>2 DEF Foreseen
    <3>. QED
      BY <1>2, <3>1, SameTablesKeepForeseen
  <2>. QED
    BY <1>1, <1>2, <2>1, <2>2, <2>3 DEF ForetellInv
<1>3. CASE UNCHANGED vars
  BY <1>2, <1>3 DEF vars, importer, tables
<1>4. CASE ApplySchema \/ ReadCollection \/ CollectionDone \/ GoOnToWrite
  <2>1. /\ step \notin {"idle", "write"} /\ UNCHANGED <<store, report, runs, live, options, began>>
        /\ step' = "write" => GoOnToWrite
        /\ step' # "idle"
    <3>1. CollectionDone => step' \in {"read", "end"}
      BY DEF CollectionDone, Collections, ImportInv
    <3>. QED
      BY <1>4, <3>1 DEF ApplySchema, ReadCollection, CollectionDone, GoOnToWrite, Finding, tables
  <2>. QED
    BY <1>2, <2>1 DEF GoOnToWrite
<1>5. ASSUME NEW dryRun \in BOOLEAN, NEW migrate \in BOOLEAN, StartRun(dryRun, migrate)
      PROVE  ForetellInv'
  <2>1. /\ step = "idle" /\ step' = "start" /\ UNCHANGED <<store, report, runs, live>>
        /\ report = <<>>
    BY <1>5 DEF StartRun, tables, ImportInv
  <2>2. Foresight' <=> Foresight
    BY <2>1 DEF Foresight
  <2>3. Foresight => \A i \in DOMAIN runs[1].report : StillTrue(runs[1].report[i])
    BY <2>1 DEF ForetellInv, StillTrue
  <2>4. Foresight => Foreseen
    BY <2>1, <2>3 DEF Foreseen
  <2>. QED
    BY <1>1, <2>1, <2>2, <2>4, SameTablesKeepForeseen DEF ForetellInv
\* The end of a run.
<1>6. CASE StartFails \/ ReadFails \/ Finish \/ Kill
  <2>1. PICK status \in Statuses :
           Exit(status) /\ (status = 0 => ~HasErrors) /\ step # "idle" /\ UNCHANGED tables
    BY <1>6 DEF StartFails, ReadFails, Finish, Kill, Statuses, Killed
  <2>2. /\ runs'[1].report = report /\ runs'[1].options = options /\ runs'[1].status = status
        /\ runs'[1].began = began /\ runs'[1].ended = live /\ Len(runs') = Len(runs) + 1
        /\ \A i \in 1..Len(runs) : runs'[i + 1] = runs[i]
        /\ step' = "idle" /\ report' = <<>> /\ UNCHANGED <<store, live>>
    BY <2>1, ExitEnds DEF Exit, tables
  <2>3. Foresight' => \A i \in DOMAIN report : report[i].action = SaidOf(report[i])
    <3>1. Foresight' => options.dryRun /\ began = live /\ status = 0
      BY <2>2 DEF Foresight
    <3>2. status = 0 => \A i \in DOMAIN report : report[i].action # "error"
      BY <2>1 DEF HasErrors
    <3>. QED
      BY <3>1, <3>2 DEF ForetellInv
  <2>4. \A i : SaidOf(runs[1].report[i])' = SaidOf(report[i])
    BY <2>2 DEF SaidOf, Held, Holding
  <2>5. ASSUME Len(runs') > 1, runs[1].options.dryRun, runs[1].status = 0, ~options.dryRun,
               runs[1].began = live
        PROVE  \A i \in DOMAIN report : i \in DOMAIN runs[1].report /\ Foretold(runs[1].report, report, i)
    BY <1>0, <2>1, <2>2, <2>5 DEF ForetellInv, Foresight, Foreseen
  <2>6. DryRunForetells'
    <3>1. Len(runs') > 1 => runs'[2] = runs[1]
      BY <1>0, <2>2
    <3>. QED
      BY <2>2, <2>5, <3>1 DEF DryRunForetells
  <2>. QED
    BY <2>2, <2>3, <2>4, <2>6 DEF ForetellInv
\* The records of a dry run.
<1>7. CASE options.dryRun /\ (SkipExisting \/ Foretell \/ FindFails)
  <2>1. PICK action \in Actions :
           /\ Report(action)
           /\ \/ action = "error"
              \/ action = "skipped-exists" /\ coll # "pushes" /\ Found
              \/ /\ action = (IF Found THEN "would-update" ELSE "would-create")
                 /\ coll = "pushes" \/ ~Found
    BY <1>7 DEF SkipExisting, Foretell, FindFails, Actions
  <2>2. /\ docs # <<>> /\ step # "idle" /\ step' = "find" /\ report \in Seq(Record)
        /\ UNCHANGED <<store, options, coll, began, live, runs>>
    BY <1>7 DEF SkipExisting, Foretell, FindFails, Finding, NextRecord, tables, ImportInv
  <2>3. /\ report' \in Seq(Record) /\ Len(report') = Len(report) + 1
        /\ report'[Len(report) + 1] = [coll |-> coll, key |-> Head(docs).key, action |-> action]
        /\ \A i \in 1..Len(report) : report'[i] = report[i]
    BY <2>1, <2>2, ReportGrows
  <2>4. DOMAIN report' = 1..Len(report) + 1 /\ DOMAIN report = 1..Len(report) /\ Len(report) \in Nat
    BY <2>2, <2>3
  <2>5. ASSUME NEW r, r = report'[Len(report) + 1]  PROVE r.action \in {"error", SaidOf(r)}
    BY <2>1, <2>3, <2>5 DEF Found, SaidOf, Held
  <2>6. ASSUME began = live, NEW i \in DOMAIN report', NEW r, r = report'[i]
        PROVE  r.action \in {"error", SaidOf(r)}
    BY <1>7, <2>3, <2>4, <2>5, <2>6 DEF ForetellInv
  <2>7. began = live => \A i \in DOMAIN report' : report'[i].action \in {"error", SaidOf(report[i])'}
    BY <2>2, <2>6 DEF SaidOf, Held, Holding
  <2>. QED
    BY <1>1, <1>7, <2>2, <2>7 DEF ForetellInv
\* The records of a run that writes.
<1>8. CASE ~options.dryRun
           /\ (SkipExisting \/ Foretell \/ FindFails \/ Write \/ WriteRefused \/ WriteFails)
  <2>1. /\ docs # <<>> /\ step # "idle" /\ step' = "find" /\ NextRecord
        /\ UNCHANGED <<options, coll, began, live, runs>>
    BY <1>8 DEF SkipExisting, Foretell, FindFails, Write, WriteRefused, WriteFails, Finding,
       NextRecord, ImportInv
  <2>2. ASSUME Foresight  PROVE Foreseen'
    <3>1. Foreseen /\ runs[1].report \in Seq(Record) /\ Complete(runs[1].report)
      BY <1>0, <1>8, <2>1, <2>2 DEF ForetellInv, Foresight, PlanInv, Run
    <3>2. step = "write" => existing = Found
      BY <3>1 DEF Foreseen
    <3>3. \E action \in Actions :
             /\ Report(action)
             /\ store' = store \/ store' = With(coll, Head(docs))
             /\ \/ action = "error"
                \/ action = "skipped-exists" /\ coll # "pushes" /\ Found
                \/ /\ action = (IF Found THEN "updated" ELSE "created")
                   /\ coll = "pushes" \/ ~Found
                   /\ store' = With(coll, Head(docs))
      BY <1>8, <3>2 DEF SkipExisting, Foretell, FindFails, Write, WriteRefused, WriteFails, Actions,
         tables, Admits, Found
    <3>. QED
      BY <1>0, <2>1, <3>1, <3>3, RecordKeepsForeseen
  <2>3. Foresight' <=> Foresight
    BY <2>1 DEF Foresight
  <2>. QED
    BY <1>1, <1>8, <2>1, <2>2, <2>3 DEF ForetellInv
<1>9. CASE options.dryRun /\ (Write \/ WriteRefused \/ WriteFails)
  BY <1>9 DEF Write, WriteRefused, WriteFails, ImportInv
\* The proxy writes: nothing is foretold any more.
<1>10. ASSUME UNCHANGED importer, live' = live + 1  PROVE ForetellInv'
  <2>1. began' # live' /\ ~Foresight' /\ runs' = runs
    BY <1>0, <1>10 DEF Foresight, importer
  <2>. QED
    BY <1>1, <2>1 DEF ForetellInv
<1>11. ASSUME NEW c \in Collections, NEW row, LiveWrites(c, row)  PROVE ForetellInv'
  BY <1>10, <1>11 DEF LiveWrites
<1>12. ASSUME NEW row, LiveDeletes(row)  PROVE ForetellInv'
  BY <1>10, <1>12 DEF LiveDeletes
<1>. QED
  BY <1>3, <1>4, <1>5, <1>6, <1>7, <1>8, <1>9, <1>11, <1>12 DEF Next

\* Whatever is in the tables and in the source: a run that writes, right after a dry run
\* without errors and with no write of the proxy since, comes across the same records in
\* the same order and does with each what the dry run said, or fails.
THEOREM DryRunsForetell == Spec => []DryRunForetells
<1>1. Init => ImportInv /\ PlanInv /\ ForetellInv
  <2>1. ASSUME Init  PROVE runs = <<>> /\ report = <<>> /\ step = "idle" /\ ~(Len(runs) > 1)
    BY <2>1 DEF Init
  <2>. QED
    BY <2>1, InitImport DEF PlanInv, Planned, ForetellInv, Foresight, DryRunForetells
<1>2. ImportInv /\ PlanInv /\ ForetellInv /\ [Next]_vars => ImportInv' /\ PlanInv' /\ ForetellInv'
  BY ImportInvIsInductive, PlanInvIsInductive, ForetellInvIsInductive
<1>3. ForetellInv => DryRunForetells
  BY DEF ForetellInv
<1>. QED
  BY <1>1, <1>2, <1>3, PTL DEF Spec
=============================================================================
