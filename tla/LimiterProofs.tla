----------------------------- MODULE LimiterProofs -----------------------------
(***************************************************************************)
(* Machine-checked proofs about Limiter, for every number of keys and      *)
(* handlers, every window and every limit: what the filter's loop does to  *)
(* a slice of any length, and what the limiter promises.                   *)
(***************************************************************************)
EXTENDS Limiter, SequenceTheorems, WellFoundedInduction, TLAPS

(***************************************************************************)
(* Induction and recursion over natural numbers.  The provers do not       *)
(* instantiate the induction theorems of the library, which take a         *)
(* predicate; a set of numbers and its least element do instead.           *)
(***************************************************************************)
LEMMA Least ==
  ASSUME NEW S \in SUBSET Nat, S # {}
  PROVE  \E x \in S : \A y \in S : x <= y
<1> DEFINE R == {ss \in Nat \X Nat : ss[1] < ss[2]}
<1>1. IsWellFoundedOn(R, Nat)
  BY ONLY NatLessThanWellFounded DEF OpToRel
<1>2. PICK x \in S : \A y \in S : ~ (<<y, x>> \in R)
  <2> HIDE DEF R
  <2> QED BY <1>1, WFMin
<1>3. \A y \in S : ~(y < x)
  BY <1>2
<1> QED BY <1>3

LEMMA Induction ==
  ASSUME NEW S, 0 \in S, \A n \in Nat : n \in S => n + 1 \in S
  PROVE  Nat \subseteq S
<1> SUFFICES ASSUME Nat \ S # {} PROVE FALSE
  OBVIOUS
<1>1. PICK x \in Nat \ S : \A y \in Nat \ S : x <= y
  BY Least
<1>2. x - 1 \in Nat /\ x - 1 \in S
  BY <1>1
<1> QED BY <1>1, <1>2

(* f is an execution of n steps of g from b on. *)
Execution(f, n, S, b, g) ==
  /\ f \in [0..n -> S] /\ f[0] = b
  /\ \A i \in 1..n : f[i] = g[<<f[i - 1], i>>]

LEMMA Recursion ==
  ASSUME NEW n \in Nat, NEW S, NEW b \in S, NEW g \in [S \X (1..n) -> S]
  PROVE  \E f : Execution(f, n, S, b, g)
<1> DEFINE Run(f, m) == /\ f \in [0..m -> S] /\ f[0] = b
                        /\ \A i \in 1..m : f[i] = g[<<f[i - 1], i>>]
           Q == {m \in Nat : m <= n => \E f : Run(f, m)}
<1>1. 0 \in Q
  <2>1. Run([i \in 0..0 |-> b], 0)
    OBVIOUS
  <2> QED BY <2>1
<1>2. ASSUME NEW m \in Nat, m \in Q PROVE m + 1 \in Q
  <2> SUFFICES ASSUME m + 1 <= n PROVE \E f : Run(f, m + 1)
    OBVIOUS
  <2>1. PICK f : Run(f, m)
    BY <1>2
  <2> DEFINE h == [i \in 0..(m + 1) |-> IF i = m + 1 THEN g[<<f[m], m + 1>>] ELSE f[i]]
  <2>2. f[m] \in S /\ m + 1 \in 1..n
    BY <2>1
  <2>3. g[<<f[m], m + 1>>] \in S
    BY <2>2
  <2>4. h \in [0..(m + 1) -> S] /\ h[0] = b
    BY <2>1, <2>3
  <2>5. ASSUME NEW i \in 1..(m + 1) PROVE h[i] = g[<<h[i - 1], i>>]
    <3>1. CASE i = m + 1
      <4>1. h[i] = g[<<f[m], m + 1>>] /\ h[i - 1] = f[m]
        BY <3>1
      <4> QED BY <3>1, <4>1
    <3>2. CASE i # m + 1
      <4>1. i \in 1..m /\ i - 1 \in 0..m /\ i - 1 # m + 1
        BY <3>2
      <4>2. h[i] = f[i] /\ h[i - 1] = f[i - 1]
        BY <3>2, <4>1
      <4> QED BY <2>1, <4>1, <4>2
    <3> QED BY <3>1, <3>2
  <2> QED BY <2>4, <2>5
<1> HIDE DEF Q
<1>3. n \in Q
  BY <1>1, <1>2, Induction
<1> QED BY <1>3 DEF Q, Execution

(***************************************************************************)
(* The filter.                                                             *)
(***************************************************************************)
LoopStates(old, S) == [array : [1..Len(old) -> S], n : Nat]

LEMMA VisitType ==
  ASSUME NEW S, NEW old \in Seq(S), NEW loop \in LoopStates(old, S),
         NEW i \in 1..Len(old)
  PROVE  Visit(loop, i) \in LoopStates(old, S)
<1>1. loop.array \in [1..Len(old) -> S] /\ loop.n \in Nat
  BY DEF LoopStates
<1>2. [loop.array EXCEPT ![loop.n + 1] = loop.array[i]] \in [1..Len(old) -> S]
  BY <1>1
<1>3. loop.n + 1 \in Nat
  BY <1>1
<1> QED BY <1>2, <1>3 DEF LoopStates, Visit

(* The loop runs as its recursion says. *)
LEMMA LoopRuns ==
  ASSUME NEW S, NEW old \in Seq(S)
  PROVE  /\ Loop(old) \in [0..Len(old) -> LoopStates(old, S)]
         /\ Loop(old)[0] = [array |-> old, n |-> 0]
         /\ \A i \in 1..Len(old) : Loop(old)[i] = Visit(Loop(old)[i - 1], i)
<1> DEFINE b == [array |-> old, n |-> 0]
           T == LoopStates(old, S)
           g == [x \in T \X (1..Len(old)) |-> Visit(x[1], x[2])]
<1>1. b \in T /\ Len(old) \in Nat
  BY DEF LoopStates
<1>2. g \in [T \X (1..Len(old)) -> T]
  BY VisitType
<1>3. PICK f : Execution(f, Len(old), T, b, g)
  <2> HIDE DEF g, T, b
  <2> QED BY <1>1, <1>2, Recursion, Zenon
<1>4. /\ f \in [0..Len(old) -> T] /\ f[0] = b
      /\ \A i \in 1..Len(old) : f[i] = g[<<f[i - 1], i>>]
  <2> HIDE DEF g, T, b
  <2> QED BY <1>3 DEF Execution
<1> DEFINE visited[i \in 0..Len(old)] ==
             IF i = 0 THEN [array |-> old, n |-> 0] ELSE Visit(visited[i - 1], i)
<1>5. Loop(old) = visited
  BY DEF Loop
<1>6. f = [i \in 0..Len(old) |-> IF i = 0 THEN b ELSE Visit(f[i - 1], i)]
  <2>1. ASSUME NEW i \in 1..Len(old) PROVE g[<<f[i - 1], i>>] = Visit(f[i - 1], i)
    <3>1. f[i - 1] \in T
      BY <1>4
    <3> QED BY <3>1
  <2>2. f = [i \in 0..Len(old) |-> f[i]]
    BY <1>4
  <2>3. \A i \in 0..Len(old) : f[i] = IF i = 0 THEN b ELSE Visit(f[i - 1], i)
    <3> HIDE DEF g, T, b
    <3> QED BY <1>1, <1>4, <2>1
  <2> HIDE DEF g, T, b
  <2> QED BY <2>2, <2>3
<1>7. visited = [i \in 0..Len(old) |-> IF i = 0 THEN b ELSE Visit(visited[i - 1], i)]
  BY <1>6, Zenon
<1>8. visited \in [0..Len(old) -> T]
  <2> DEFINE Q == {i \in Nat : i <= Len(old) => visited[i] \in T}
  <2> HIDE DEF visited, T, b
  <2>1. 0 \in Q
    BY <1>1, <1>7
  <2>2. ASSUME NEW i \in Nat, i \in Q PROVE i + 1 \in Q
    <3> SUFFICES ASSUME i + 1 <= Len(old) PROVE visited[i + 1] \in T
      OBVIOUS
    <3>1. visited[i] \in T /\ i + 1 \in 1..Len(old) /\ (i + 1) - 1 = i
      BY <1>1, <2>2
    <3>2. visited[i + 1] = Visit(visited[i], i + 1)
      BY <1>7, <3>1
    <3> QED BY <3>1, <3>2, VisitType DEF T
  <2> HIDE DEF Q
  <2>3. Nat \subseteq Q
    BY <2>1, <2>2, Induction
  <2>4. \A i \in 0..Len(old) : visited[i] \in T
    BY <1>1, <2>3 DEF Q
  <2> QED BY <1>7, <2>4
<1> HIDE DEF visited
<1> QED BY <1>5, <1>7, <1>8

(* What the loop has done after i attempts: the recent ones among them, at *)
(* places of their own, are in front, and those to come are untouched.     *)
Placed(old, loop, place, i) ==
  /\ place \in [1..loop.n -> 1..i]
  /\ \A j, k \in 1..loop.n : j < k => place[j] < place[k]
  /\ \A j \in 1..i : Recent(old[j]) => \E k \in 1..loop.n : place[k] = j
  /\ \A j \in 1..loop.n : Recent(old[place[j]]) /\ loop.array[j] = old[place[j]]

Visited(old, loop, i) ==
  /\ loop.n <= i
  /\ \A j \in (i + 1)..Len(old) : loop.array[j] = old[j]
  /\ \E place : Placed(old, loop, place, i)

LEMMA VisitKeeps ==
  ASSUME NEW S, NEW old \in Seq(S), NEW loop \in LoopStates(old, S),
         NEW i \in 1..Len(old), Visited(old, loop, i - 1)
  PROVE  Visited(old, Visit(loop, i), i)
<1>1. /\ loop.array \in [1..Len(old) -> S] /\ loop.n \in Nat /\ loop.n <= i - 1
      /\ \A j \in i..Len(old) : loop.array[j] = old[j]
  BY DEF LoopStates, Visited
<1>2. PICK place : Placed(old, loop, place, i - 1)
  BY DEF Visited
<1>3. CASE Recent(loop.array[i])
  <2> DEFINE next == Visit(loop, i)
             moved == [j \in 1..(loop.n + 1) |-> IF j = loop.n + 1 THEN i ELSE place[j]]
  <2>1. next.n = loop.n + 1 /\ next.array = [loop.array EXCEPT ![loop.n + 1] = old[i]]
    BY <1>1, <1>3 DEF Visit
  <2>2. next.array[loop.n + 1] = old[i]
        /\ \A j \in 1..Len(old) : j # loop.n + 1 => next.array[j] = loop.array[j]
    BY <1>1, <2>1
  <2> HIDE DEF next
  <2>3. moved \in [1..next.n -> 1..i]
    BY <1>1, <1>2, <2>1 DEF Placed
  <2>4. ASSUME NEW j \in 1..next.n, NEW k \in 1..next.n, j < k
        PROVE  moved[j] < moved[k]
    <3>0. j \in 1..loop.n
      BY <1>1, <2>1, <2>4
    <3>1. moved[j] = place[j] /\ place[j] \in 1..(i - 1)
      BY <1>1, <1>2, <2>1, <3>0 DEF Placed
    <3>2. CASE k = loop.n + 1
      <4>1. moved[k] = i
        BY <2>1, <3>2
      <4> QED BY <3>1, <4>1
    <3>3. CASE k # loop.n + 1
      <4>1. k \in 1..loop.n /\ moved[k] = place[k]
        BY <1>1, <2>1, <3>3
      <4> QED BY <1>2, <2>4, <3>0, <3>1, <4>1 DEF Placed
    <3> QED BY <3>2, <3>3
  <2>5. ASSUME NEW j \in 1..i, Recent(old[j]) PROVE \E k \in 1..next.n : moved[k] = j
    <3>1. CASE j = i
      <4>1. moved[loop.n + 1] = i /\ loop.n + 1 \in 1..next.n
        BY <1>1, <2>1
      <4> QED BY <3>1, <4>1
    <3>2. CASE j # i
      <4>1. PICK k \in 1..loop.n : place[k] = j
        BY <1>2, <2>5, <3>2 DEF Placed
      <4>2. moved[k] = j /\ k \in 1..next.n
        BY <1>1, <2>1, <4>1
      <4> QED BY <4>2
    <3> QED BY <3>1, <3>2
  <2>6. ASSUME NEW j \in 1..next.n
        PROVE  Recent(old[moved[j]]) /\ next.array[j] = old[moved[j]]
    <3>1. CASE j = loop.n + 1
      <4>1. moved[j] = i
        BY <2>1, <3>1
      <4> QED BY <1>1, <1>3, <2>2, <3>1, <4>1
    <3>2. CASE j # loop.n + 1
      <4>1. j \in 1..loop.n /\ j \in 1..Len(old) /\ moved[j] = place[j]
        BY <1>1, <2>1, <3>2
      <4> QED BY <1>2, <2>2, <3>2, <4>1 DEF Placed
    <3> QED BY <3>1, <3>2
  <2>7. \A j \in (i + 1)..Len(old) : next.array[j] = old[j]
    BY <1>1, <2>2
  <2>8. Placed(old, next, moved, i)
    <3> HIDE DEF moved
    <3> QED BY <2>3, <2>4, <2>5, <2>6 DEF Placed
  <2>9. next.n <= i
    BY <1>1, <2>1
  <2> QED BY <2>7, <2>8, <2>9 DEF Visited, next
<1>4. CASE ~Recent(loop.array[i])
  <2>1. Visit(loop, i) = loop
    BY <1>4 DEF Visit
  <2>2. ~Recent(old[i])
    BY <1>1, <1>4
  <2>3. Placed(old, loop, place, i)
    BY <1>1, <1>2, <2>2 DEF Placed
  <2> QED BY <1>1, <2>1, <2>3 DEF Visited
<1> QED BY <1>3, <1>4

(* Filtering in place keeps each recent attempt, once and in order, of a   *)
(* slice of any length.                                                    *)
LEMMA FilterSieves ==
  ASSUME NEW S, NEW old \in Seq(S)
  PROVE  Sieved(old, Filter(old)) /\ Filter(old) \in Seq(S)
<1> DEFINE L == Loop(old)
           Q == {i \in Nat : i <= Len(old) => Visited(old, L[i], i)}
           end == L[Len(old)]
<1> HIDE DEF L
<1>1. /\ L \in [0..Len(old) -> LoopStates(old, S)]
      /\ L[0] = [array |-> old, n |-> 0]
      /\ \A i \in 1..Len(old) : L[i] = Visit(L[i - 1], i)
  BY LoopRuns, Zenon DEF L
<1>2. 0 \in Q
  <2>1. L[0].n = 0 /\ L[0].array = old
    BY <1>1
  <2>2. Placed(old, L[0], [j \in {} |-> 0], 0)
    <3>1. 1..0 = {}
      OBVIOUS
    <3> QED BY <2>1, <3>1 DEF Placed
  <2>3. Visited(old, L[0], 0)
    BY <2>1, <2>2 DEF Visited
  <2> QED BY <2>3
<1>3. ASSUME NEW i \in Nat, i \in Q PROVE i + 1 \in Q
  <2> SUFFICES ASSUME i + 1 <= Len(old) PROVE Visited(old, L[i + 1], i + 1)
    OBVIOUS
  <2>1. i + 1 \in 1..Len(old) /\ (i + 1) - 1 = i /\ i \in 0..Len(old)
    OBVIOUS
  <2>2. L[i] \in LoopStates(old, S) /\ Visited(old, L[i], i)
    BY <1>1, <1>3, <2>1
  <2>3. L[i + 1] = Visit(L[i], i + 1)
    BY <1>1, <2>1
  <2> QED BY <2>1, <2>2, <2>3, VisitKeeps
<1>4. Nat \subseteq Q
  <2> HIDE DEF Q
  <2> QED BY <1>2, <1>3, Induction
<1>5. Visited(old, end, Len(old)) /\ end \in LoopStates(old, S)
  <2>1. Len(old) \in Nat /\ Len(old) \in 0..Len(old)
    OBVIOUS
  <2> QED BY <1>1, <1>4, <2>1
<1>6. /\ end.array \in [1..Len(old) -> S] /\ end.n \in 0..Len(old)
      /\ Filter(old) = SubSeq(end.array, 1, end.n)
  BY <1>5 DEF LoopStates, Visited, Filter, L
<1> HIDE DEF end
<1>7. /\ Filter(old) \in Seq(S) /\ Len(Filter(old)) = end.n
      /\ DOMAIN Filter(old) = 1..end.n
      /\ \A j \in 1..end.n : Filter(old)[j] = end.array[j]
  <2>1. end.array \in Seq(S) /\ Len(end.array) = Len(old)
    BY <1>6
  <2> QED BY <1>6, <2>1
<1>8. PICK place : Placed(old, end, place, Len(old))
  BY <1>5 DEF Visited
<1>9. DOMAIN old = 1..Len(old)
  OBVIOUS
<1>10. {place[j] : j \in 1..end.n} = {j \in 1..Len(old) : Recent(old[j])}
  BY <1>6, <1>8 DEF Placed
<1>11. Sieved(old, Filter(old))
  <2>1. place \in [DOMAIN Filter(old) -> DOMAIN old]
    BY <1>7, <1>8, <1>9 DEF Placed
  <2>2. \A i, j \in DOMAIN Filter(old) : i < j => place[i] < place[j]
    BY <1>7, <1>8 DEF Placed
  <2>3. {place[j] : j \in DOMAIN Filter(old)} = {j \in DOMAIN old : Recent(old[j])}
    BY <1>7, <1>9, <1>10
  <2>4. \A j \in DOMAIN Filter(old) : Filter(old)[j] = old[place[j]]
    BY <1>7, <1>8 DEF Placed
  <2> QED BY <2>1, <2>2, <2>3, <2>4 DEF Sieved
<1> QED BY <1>7, <1>11

LEMMA Rest ==
  ASSUME NEW S, NEW s \in Seq(S), NEW d \in 0..Len(s)
  PROVE  /\ SubSeq(s, d + 1, Len(s)) \in Seq(S)
         /\ Len(SubSeq(s, d + 1, Len(s))) = Len(s) - d
         /\ \A i \in 1..(Len(s) - d) : SubSeq(s, d + 1, Len(s))[i] = s[d + i]
<1>1. d \in Nat /\ Len(s) \in Nat /\ d <= Len(s)
  OBVIOUS
<1>2. \A i \in (d + 1)..Len(s) : s[i] \in S
  OBVIOUS
<1>3. /\ SubSeq(s, d + 1, Len(s)) \in Seq(S)
      /\ Len(SubSeq(s, d + 1, Len(s)))
           = IF d + 1 <= Len(s) THEN Len(s) - (d + 1) + 1 ELSE 0
      /\ \A i \in 1..(Len(s) - (d + 1) + 1) :
           SubSeq(s, d + 1, Len(s))[i] = s[(d + 1) + i - 1]
  BY <1>1, <1>2, SubSeqProperties
<1>4. Len(SubSeq(s, d + 1, Len(s))) = Len(s) - d
  BY <1>1, <1>3
<1>5. ASSUME NEW i \in 1..(Len(s) - d) PROVE SubSeq(s, d + 1, Len(s))[i] = s[d + i]
  <2>1. i \in 1..(Len(s) - (d + 1) + 1) /\ (d + 1) + i - 1 = d + i
    BY <1>1
  <2> QED BY <1>3, <2>1
<1> QED BY <1>3, <1>4, <1>5

(* What sieving leaves of a slice whose old attempts come first.           *)
LEMMA SievedIs ==
  ASSUME NEW S, NEW old \in Seq(S), NEW new \in Seq(S), Sieved(old, new),
         NEW d \in 0..Len(old), \A i \in 1..Len(old) : Recent(old[i]) <=> i > d
  PROVE  new = SubSeq(old, d + 1, Len(old))
<1>1. DOMAIN old = 1..Len(old) /\ DOMAIN new = 1..Len(new)
      /\ Len(old) \in Nat /\ Len(new) \in Nat
  OBVIOUS
<1>2. PICK place \in [1..Len(new) -> 1..Len(old)] :
         /\ \A i, j \in 1..Len(new) : i < j => place[i] < place[j]
         /\ {place[i] : i \in 1..Len(new)} = {i \in 1..Len(old) : Recent(old[i])}
         /\ \A i \in 1..Len(new) : new[i] = old[place[i]]
  BY <1>1 DEF Sieved
<1>3. \A i \in 1..Len(new) : place[i] > d
  <2>1. \A i \in 1..Len(new) : Recent(old[place[i]])
    BY <1>2
  <2> QED BY <1>2, <2>1
<1>4. \A p \in (d + 1)..Len(old) : \E k \in 1..Len(new) : place[k] = p
  <2>1. \A p \in (d + 1)..Len(old) : p \in {i \in 1..Len(old) : Recent(old[i])}
    OBVIOUS
  <2> QED BY <1>2, <2>1
<1> DEFINE Q == {m \in Nat : m \in 1..Len(new) => place[m] = d + m}
<1>5. 0 \in Q
  OBVIOUS
<1>6. ASSUME NEW m \in Nat, m \in Q PROVE m + 1 \in Q
  <2> SUFFICES ASSUME m + 1 \in 1..Len(new) PROVE place[m + 1] = d + (m + 1)
    OBVIOUS
  <2>1. place[m + 1] \in 1..Len(old)
    BY <1>2
  <2>2. place[m + 1] >= d + m + 1
    <3>1. CASE m = 0
      BY <1>3, <2>1, <3>1
    <3>2. CASE m # 0
      <4>1. m \in 1..Len(new) /\ place[m] = d + m /\ m < m + 1
        BY <1>1, <1>6, <3>2
      <4>2. place[m] < place[m + 1]
        BY <1>2, <4>1
      <4> QED BY <2>1, <4>1, <4>2
    <3> QED BY <3>1, <3>2
  <2>3. ASSUME place[m + 1] > d + m + 1 PROVE FALSE
    <3>1. d + m + 1 \in (d + 1)..Len(old)
      BY <2>1, <2>3
    <3>2. PICK k \in 1..Len(new) : place[k] = d + m + 1
      BY <1>4, <3>1
    <3>3. k < m + 1
      <4>1. k # m + 1
        BY <2>3, <3>2
      <4>2. ~(m + 1 < k)
        BY <1>2, <2>1, <2>3, <3>2
      <4> QED BY <4>1, <4>2
    <3>4. m \in 1..Len(new) /\ place[m] = d + m
      BY <1>1, <1>6, <3>3
    <3>5. place[k] <= place[m]
      <4>1. CASE k = m
        BY <3>2, <3>4, <4>1
      <4>2. CASE k < m
        <5>1. place[k] < place[m]
          BY <1>2, <3>4, <4>2
        <5> QED BY <3>2, <3>4, <5>1
      <4> QED BY <3>3, <4>1, <4>2
    <3> QED BY <3>2, <3>4, <3>5
  <2> QED BY <2>1, <2>2, <2>3
<1>7. \A m \in 1..Len(new) : place[m] = d + m
  <2>1. Nat \subseteq Q
    <3> HIDE DEF Q
    <3> QED BY <1>5, <1>6, Induction
  <2> QED BY <2>1
<1>8. Len(new) = Len(old) - d
  <2>1. Len(new) <= Len(old) - d
    <3>1. CASE Len(new) = 0
      BY <1>1, <3>1
    <3>2. CASE Len(new) # 0
      <4>1. Len(new) \in 1..Len(new)
        BY <1>1, <3>2
      <4>2. place[Len(new)] = d + Len(new) /\ place[Len(new)] \in 1..Len(old)
        BY <1>2, <1>7, <4>1
      <4> QED BY <1>1, <4>2
    <3> QED BY <3>1, <3>2
  <2>2. ASSUME Len(new) < Len(old) - d PROVE FALSE
    <3>1. d + Len(new) + 1 \in (d + 1)..Len(old)
      BY <1>1, <2>2
    <3>2. PICK k \in 1..Len(new) : place[k] = d + Len(new) + 1
      BY <1>4, <3>1
    <3> QED BY <1>1, <1>7, <3>2
  <2>3. Len(new) \in Nat /\ Len(old) - d \in Nat
    OBVIOUS
  <2> HIDE DEF Q
  <2> QED BY <2>1, <2>2, <2>3
<1>9. /\ SubSeq(old, d + 1, Len(old)) \in Seq(S)
      /\ Len(SubSeq(old, d + 1, Len(old))) = Len(old) - d
      /\ \A i \in 1..(Len(old) - d) : SubSeq(old, d + 1, Len(old))[i] = old[d + i]
  BY Rest, Zenon
<1>10. \A i \in 1..Len(new) : new[i] = old[d + i]
  BY <1>2, <1>7
<1>11. \A i \in 1..Len(new) : new[i] = SubSeq(old, d + 1, Len(old))[i]
  BY <1>8, <1>9, <1>10
<1> QED BY <1>8, <1>9, <1>11, SeqEqual

LEMMA FilterIs ==
  ASSUME NEW S, NEW old \in Seq(S), NEW d \in 0..Len(old),
         \A i \in 1..Len(old) : Recent(old[i]) <=> i > d
  PROVE  Filter(old) = SubSeq(old, d + 1, Len(old))
<1>1. Sieved(old, Filter(old)) /\ Filter(old) \in Seq(S)
  BY FilterSieves, Zenon
<1> QED BY <1>1, SievedIs

(***************************************************************************)
(* The clock.                                                              *)
(***************************************************************************)
LEMMA WindowType == Window \in Nat /\ Window > 0 /\ Limit \in Nat /\ Limit > 0
BY LimiterAssumption

LEMMA RecentIs ==
  ASSUME NEW age \in 0..Window
  PROVE  /\ Recent(age) <=> age # Window
         /\ Recent(age) <=> age \in 0..(Window - 1)
         /\ \A younger \in 0..age : Recent(age) => Recent(younger)
BY WindowType DEF Recent

OldestFirst(ages) == \A i, j \in 1..Len(ages) : i < j => ages[j] <= ages[i]

LEMMA SequenceIs ==
  ASSUME NEW S, NEW s \in Seq(S)
  PROVE  s \in [1..Len(s) -> S]
OBVIOUS

LEMMA ElementOf ==
  ASSUME NEW S, NEW s \in Seq(S), NEW i \in 1..Len(s)
  PROVE  s[i] \in S
OBVIOUS

LEMMA Widened ==
  ASSUME NEW S, NEW T, NEW s \in Seq(S), \A i \in 1..Len(s) : s[i] \in T
  PROVE  s \in Seq(T)
OBVIOUS

LEMMA AgedType ==
  ASSUME NEW ages \in Seq(0..Window)
  PROVE  /\ Aged(ages) \in Seq(0..Window) /\ Len(Aged(ages)) = Len(ages)
         /\ \A i \in 1..Len(ages) :
              Aged(ages)[i] = IF ages[i] < Window THEN ages[i] + 1 ELSE Window
<1>1. \A i \in 1..Len(ages) :
        (IF ages[i] < Window THEN ages[i] + 1 ELSE Window) \in 0..Window
  BY LimiterAssumption
<1>2. DOMAIN ages = 1..Len(ages) /\ Len(ages) \in Nat
  OBVIOUS
<1> QED BY <1>1, <1>2 DEF Aged

(* The attempts that lapse are the oldest, and Current drops just these.   *)
LEMMA CurrentIs ==
  ASSUME NEW ages \in Seq(0..Window), OldestFirst(ages)
  PROVE  \E d \in 0..Len(ages) :
           /\ \A i \in 1..Len(ages) : Recent(ages[i]) <=> i > d
           /\ Current(ages) = SubSeq(ages, d + 1, Len(ages))
<1>1. DOMAIN ages = 1..Len(ages) /\ Len(ages) \in Nat
  OBVIOUS
<1> DEFINE S == {n \in 0..Len(ages) : \A i \in 1..Len(ages) : i > n => Recent(ages[i])}
<1>2. Len(ages) \in S
  BY <1>1
<1>3. PICK d \in S : \A n \in S : d <= n
  <2>1. S \in SUBSET Nat /\ S # {}
    BY <1>1, <1>2
  <2> HIDE DEF S
  <2> QED BY <2>1, Least
<1>4. ASSUME NEW i \in 1..Len(ages), Recent(ages[i]), i <= d PROVE FALSE
  <2>1. \A j \in 1..Len(ages) : j > i - 1 => Recent(ages[j])
    <3> TAKE j \in 1..Len(ages)
    <3>1. CASE j > i
      <4>1. ages[j] \in 0..Window /\ ages[i] \in 0..Window
        BY ElementOf
      <4>2. ages[j] \in 0..ages[i]
        BY <3>1, <4>1 DEF OldestFirst
      <4> QED BY <1>4, <4>1, <4>2, RecentIs
    <3>2. CASE j = i
      BY <1>4, <3>2
    <3> QED BY <3>1, <3>2
  <2>2. i - 1 \in S
    BY <1>1, <2>1
  <2>3. d <= i - 1
    BY <1>3, <2>2
  <2>4. d \in Nat /\ i \in Nat
    BY <1>1
  <2> QED BY <1>4, <2>3, <2>4
<1>5. d \in 0..Len(ages) /\ \A i \in 1..Len(ages) : Recent(ages[i]) <=> i > d
  <2>1. d \in 0..Len(ages) /\ \A i \in 1..Len(ages) : i > d => Recent(ages[i])
    BY <1>3
  <2>2. \A i \in 1..Len(ages) : Recent(ages[i]) => i > d
    BY <1>1, <1>4, <2>1
  <2> QED BY <2>1, <2>2
<1> DEFINE lapsed == CHOOSE n \in 0..Len(ages) :
                       \A i \in DOMAIN ages : Recent(ages[i]) <=> i > n
<1> HIDE DEF S
<1>6. lapsed \in 0..Len(ages) /\ \A i \in 1..Len(ages) : Recent(ages[i]) <=> i > lapsed
  BY <1>1, <1>5
<1>7. Current(ages) = SubSeq(ages, lapsed + 1, Len(ages))
  BY DEF Current
<1> HIDE DEF lapsed
<1> QED BY <1>6, <1>7

(***************************************************************************)
(* The invariant: what the code keeps under a key is what was let through  *)
(* since the last success, behind attempts that have lapsed.               *)
(***************************************************************************)
Tracks(kept, through) ==
  LET lapsed == Len(kept) - Len(through) IN
  /\ kept \in Seq(0..Window) /\ Len(kept) <= Limit
  /\ through \in Seq(0..(Window - 1)) /\ OldestFirst(through)
  /\ lapsed >= 0
  /\ \A i \in 1..lapsed : kept[i] = Window
  /\ \A i \in 1..Len(through) : kept[lapsed + i] = through[i]

IInv ==
  /\ pc \in [Handlers -> {"idle", "verify", "succeeded"}]
  /\ key \in [Handlers -> Keys]
  /\ attempts = [k \in Keys |-> attempts[k]]
  /\ granted = [k \in Keys |-> granted[k]]
  /\ \A k \in Keys : Tracks(attempts[k], granted[k])

LEMMA TracksType ==
  ASSUME NEW kept, NEW through, Tracks(kept, through)
  PROVE  /\ kept \in Seq(0..Window) /\ Len(kept) \in Nat /\ Len(kept) <= Limit
         /\ through \in Seq(0..(Window - 1)) /\ through \in Seq(0..Window)
         /\ Len(through) \in Nat /\ Len(through) <= Len(kept)
         /\ Len(kept) - Len(through) \in 0..Len(kept)
<1>1. /\ kept \in Seq(0..Window) /\ Len(kept) <= Limit
      /\ through \in Seq(0..(Window - 1)) /\ Len(kept) - Len(through) >= 0
  BY DEF Tracks
<1>2. Len(kept) \in Nat /\ Len(through) \in Nat
  BY <1>1
<1>3. through \in Seq(0..Window)
  <2>1. \A i \in 1..Len(through) : through[i] \in 0..Window
    BY <1>1, LimiterAssumption
  <2> QED BY <1>1, <1>2, <2>1, Widened
<1> QED BY <1>1, <1>2, <1>3

(* The filter returns the attempts let through that have not lapsed.       *)
LEMMA FilterTracked ==
  ASSUME NEW kept, NEW through, Tracks(kept, through)
  PROVE  Filter(kept) = through
<1> DEFINE d == Len(kept) - Len(through)
<1>1. /\ kept \in Seq(0..Window) /\ Len(kept) \in Nat
      /\ through \in Seq(0..Window) /\ through \in Seq(0..(Window - 1)) /\ Len(through) \in Nat
      /\ d \in 0..Len(kept)
  BY TracksType
<1>2. /\ \A i \in 1..d : kept[i] = Window
      /\ \A i \in 1..Len(through) : kept[d + i] = through[i]
  BY DEF Tracks
<1>3. ASSUME NEW i \in 1..Len(kept) PROVE Recent(kept[i]) <=> i > d
  <2>1. CASE i <= d
    BY <1>1, <1>2, <2>1, LimiterAssumption DEF Recent
  <2>2. CASE i > d
    <3>1. i - d \in 1..Len(through) /\ d + (i - d) = i
      BY <1>1, <2>2
    <3>2. kept[i] = through[i - d]
      BY <1>2, <3>1
    <3>3. through[i - d] \in 0..(Window - 1) /\ kept[i] \in 0..Window
      BY <1>1, <3>1, ElementOf
    <3> QED BY <2>2, <3>2, <3>3, RecentIs
  <2> QED BY <1>1, <2>1, <2>2
<1>4. Len(kept) - d = Len(through)
  BY <1>1
<1> HIDE DEF d
<1>5. Filter(kept) = SubSeq(kept, d + 1, Len(kept))
  BY <1>1, <1>3, FilterIs
<1>6. /\ SubSeq(kept, d + 1, Len(kept)) \in Seq(0..Window)
      /\ Len(SubSeq(kept, d + 1, Len(kept))) = Len(through)
      /\ \A i \in 1..Len(through) : SubSeq(kept, d + 1, Len(kept))[i] = through[i]
  <2>1. /\ SubSeq(kept, d + 1, Len(kept)) \in Seq(0..Window)
        /\ Len(SubSeq(kept, d + 1, Len(kept))) = Len(kept) - d
        /\ \A i \in 1..(Len(kept) - d) : SubSeq(kept, d + 1, Len(kept))[i] = kept[d + i]
    BY <1>1, Rest
  <2> QED BY <1>2, <1>4, <2>1
<1> QED BY <1>1, <1>5, <1>6, SeqEqual

(* An attempt that is let through is noted behind the others.              *)
LEMMA TracksAllow ==
  ASSUME NEW through \in Seq(0..(Window - 1)), OldestFirst(through), Len(through) < Limit
  PROVE  Tracks(Append(through, 0), Append(through, 0))
<1> DEFINE new == Append(through, 0)
<1>1. 0 \in 0..(Window - 1) /\ Window \in Nat /\ Limit \in Nat
  BY LimiterAssumption
<1>2. /\ new \in Seq(0..(Window - 1)) /\ Len(new) = Len(through) + 1 /\ Len(through) \in Nat
      /\ \A i \in 1..Len(new) : new[i] = IF i = Len(through) + 1 THEN 0 ELSE through[i]
  BY <1>1
<1> HIDE DEF new
<1>3. \A i \in 1..Len(new) : new[i] \in 0..(Window - 1) /\ new[i] \in 0..Window
  BY <1>1, <1>2
<1>4. OldestFirst(new)
  <2> SUFFICES ASSUME NEW i \in 1..Len(new), NEW j \in 1..Len(new), i < j
               PROVE  new[j] <= new[i]
    BY DEF OldestFirst
  <2>1. new[i] >= 0
    BY <1>1, <1>3
  <2>2. CASE j = Len(through) + 1
    BY <1>2, <2>1, <2>2
  <2>3. CASE j # Len(through) + 1
    BY <1>2, <2>3 DEF OldestFirst
  <2> QED BY <2>2, <2>3
<1>5. new \in Seq(0..Window)
  <2> QED BY <1>2, <1>3, Widened
<1> QED BY <1>1, <1>2, <1>4, <1>5 DEF Tracks, new

(* A refusal drops what has lapsed.                                        *)
LEMMA TracksRefuse ==
  ASSUME NEW kept, NEW through, Tracks(kept, through)
  PROVE  Tracks(through, through)
<1>1. /\ through \in Seq(0..Window) /\ through \in Seq(0..(Window - 1))
      /\ Len(through) \in Nat /\ Len(through) <= Limit /\ OldestFirst(through)
  BY TracksType, LimiterAssumption DEF Tracks
<1> QED BY <1>1 DEF Tracks

LEMMA TracksNothing == Tracks(<<>>, <<>>)
BY LimiterAssumption DEF Tracks, OldestFirst

(* Time passes over both alike.                                            *)
LEMMA TracksTick ==
  ASSUME NEW kept, NEW through, Tracks(kept, through)
  PROVE  Tracks(Aged(kept), Current(Aged(through)))
<1> DEFINE d == Len(kept) - Len(through)
           older == Aged(through)
<1>1. /\ kept \in Seq(0..Window) /\ Len(kept) \in Nat /\ Len(kept) <= Limit
      /\ through \in Seq(0..Window) /\ through \in Seq(0..(Window - 1)) /\ Len(through) \in Nat
      /\ d \in 0..Len(kept)
  BY TracksType
<1>2. /\ OldestFirst(through)
      /\ \A i \in 1..d : kept[i] = Window
      /\ \A i \in 1..Len(through) : kept[d + i] = through[i]
  BY DEF Tracks
<1>3. /\ Aged(kept) \in Seq(0..Window) /\ Len(Aged(kept)) = Len(kept)
      /\ \A i \in 1..Len(kept) :
           Aged(kept)[i] = IF kept[i] < Window THEN kept[i] + 1 ELSE Window
  BY <1>1, AgedType
<1>4. /\ older \in Seq(0..Window) /\ Len(older) = Len(through)
      /\ \A i \in 1..Len(through) :
           older[i] = IF through[i] < Window THEN through[i] + 1 ELSE Window
  BY <1>1, AgedType
<1> HIDE DEF older
<1>5. OldestFirst(older)
  <2> SUFFICES ASSUME NEW i \in 1..Len(through), NEW j \in 1..Len(through), i < j
               PROVE  older[j] <= older[i]
    BY <1>4 DEF OldestFirst
  <2>1. through[i] \in 0..(Window - 1) /\ through[j] \in 0..(Window - 1)
    BY <1>1, ElementOf
  <2>2. through[j] <= through[i]
    BY <1>2 DEF OldestFirst
  <2>3. older[i] = through[i] + 1 /\ older[j] = through[j] + 1
    BY <1>4, <2>1, WindowType
  <2> QED BY <2>1, <2>2, <2>3, WindowType
<1>6. PICK e \in 0..Len(through) :
        /\ \A i \in 1..Len(through) : Recent(older[i]) <=> i > e
        /\ Current(older) = SubSeq(older, e + 1, Len(older))
  BY <1>4, <1>5, CurrentIs
<1> DEFINE new == Current(older)
<1>7. /\ new \in Seq(0..Window) /\ Len(new) = Len(through) - e
      /\ \A i \in 1..(Len(through) - e) : new[i] = older[e + i]
  <2>1. /\ SubSeq(older, e + 1, Len(older)) \in Seq(0..Window)
        /\ Len(SubSeq(older, e + 1, Len(older))) = Len(older) - e
        /\ \A i \in 1..(Len(older) - e) :
             SubSeq(older, e + 1, Len(older))[i] = older[e + i]
    <3>1. older \in Seq(0..Window) /\ e \in 0..Len(older)
      BY <1>4
    <3> QED BY <3>1, Rest, Zenon
  <2>2. new = SubSeq(older, e + 1, Len(older)) /\ Len(older) = Len(through)
    BY <1>4, <1>6
  <2> HIDE DEF new
  <2>3. /\ new \in Seq(0..Window) /\ Len(new) = Len(older) - e
        /\ \A i \in 1..(Len(older) - e) : new[i] = older[e + i]
    BY <2>1, <2>2, Zenon
  <2> QED BY <2>2, <2>3
<1> HIDE DEF new
<1>8. ASSUME NEW i \in 1..Len(new)
      PROVE  /\ e + i \in 1..Len(through) /\ new[i] = older[e + i]
             /\ new[i] \in 0..(Window - 1)
  <2>1. e + i \in 1..Len(through) /\ e + i > e /\ new[i] = older[e + i]
    BY <1>1, <1>7
  <2>2. Recent(older[e + i]) /\ older[e + i] \in 0..Window
    <3>1. older[e + i] \in 0..Window
      BY <1>4, <2>1, ElementOf
    <3> QED BY <1>6, <2>1, <3>1
  <2>3. older[e + i] \in 0..(Window - 1)
    BY ONLY <2>2, WindowType DEF Recent
  <2> QED BY <2>1, <2>3
<1>9. new \in Seq(0..(Window - 1))
  <2>1. \A i \in 1..Len(new) : new[i] \in 0..(Window - 1)
    BY <1>8
  <2> QED BY <1>7, <2>1, Widened
<1>10. OldestFirst(new)
  <2> SUFFICES ASSUME NEW i \in 1..Len(new), NEW j \in 1..Len(new), i < j
               PROVE  new[j] <= new[i]
    BY DEF OldestFirst
  <2>1. e + i < e + j /\ e + i \in 1..Len(older) /\ e + j \in 1..Len(older)
    BY <1>4, <1>8, <1>7
  <2> QED BY <1>5, <1>8, <2>1 DEF OldestFirst
<1>11. Len(Aged(kept)) - Len(new) = d + e /\ d + e >= 0
  BY <1>1, <1>3, <1>7
<1>12. ASSUME NEW i \in 1..(d + e) PROVE Aged(kept)[i] = Window
  <2>1. CASE i <= d
    BY <1>1, <1>2, <1>3, <2>1, LimiterAssumption
  <2>2. CASE i > d
    <3>1. i - d \in 1..Len(through) /\ ~(i - d > e) /\ d + (i - d) = i /\ i \in 1..Len(kept)
      BY <1>1, <2>2
    <3>2. kept[i] = through[i - d]
      BY <1>2, <3>1
    <3>3. Aged(kept)[i] = older[i - d]
      BY <1>3, <1>4, <3>1, <3>2
    <3>4. ~Recent(older[i - d]) /\ older[i - d] \in 0..Window
      <4>1. older[i - d] \in 0..Window
        BY <1>4, <3>1, ElementOf
      <4> QED BY <1>6, <3>1, <4>1
    <3>5. older[i - d] = Window
      BY ONLY <3>4, WindowType DEF Recent
    <3> QED BY <3>3, <3>5
  <2> QED BY <1>1, <2>1, <2>2
<1>13. ASSUME NEW i \in 1..Len(new) PROVE Aged(kept)[(d + e) + i] = new[i]
  <2>1. e + i \in 1..Len(through) /\ d + (e + i) = (d + e) + i /\ d + (e + i) \in 1..Len(kept)
    BY <1>1, <1>8
  <2>2. kept[d + (e + i)] = through[e + i]
    BY <1>2, <2>1
  <2>3. Aged(kept)[(d + e) + i] = older[e + i]
    BY <1>3, <1>4, <2>1, <2>2
  <2> QED BY <1>8, <2>3
<1> HIDE DEF d
<1>14. Tracks(Aged(kept), new)
  BY <1>1, <1>3, <1>9, <1>10, <1>11, <1>12, <1>13 DEF Tracks
<1> QED BY <1>14 DEF new, older

LEMMA InvInit == Init => IInv
<1> SUFFICES ASSUME Init PROVE IInv
  OBVIOUS
<1>1. ASSUME NEW k \in Keys PROVE Tracks(attempts[k], granted[k])
  BY TracksNothing DEF Init
<1> QED BY <1>1 DEF Init, IInv

(* A step that touches only what is kept under one key.                    *)
LEMMA OneKey ==
  ASSUME IInv, NEW k \in Keys, NEW kept, NEW through, Tracks(kept, through),
         attempts' = [attempts EXCEPT ![k] = kept],
         granted' = [granted EXCEPT ![k] = through]
  PROVE  /\ attempts' = [l \in Keys |-> attempts'[l]]
         /\ granted' = [l \in Keys |-> granted'[l]]
         /\ \A l \in Keys : Tracks(attempts'[l], granted'[l])
<1>1. /\ attempts' = [l \in Keys |-> attempts'[l]]
      /\ granted' = [l \in Keys |-> granted'[l]]
      /\ attempts'[k] = kept /\ granted'[k] = through
      /\ \A l \in Keys \ {k} : attempts'[l] = attempts[l] /\ granted'[l] = granted[l]
  BY DEF IInv
<1>2. ASSUME NEW l \in Keys PROVE Tracks(attempts'[l], granted'[l])
  <2>1. CASE l = k
    BY <1>1, <2>1
  <2>2. CASE l # k
    BY <1>1, <2>2 DEF IInv
  <2> QED BY <2>1, <2>2
<1> QED BY <1>1, <1>2

LEMMA InvNext == IInv /\ [Next]_vars => IInv'
<1> SUFFICES ASSUME IInv, [Next]_vars PROVE IInv'
  OBVIOUS
<1>0. ASSUME NEW k \in Keys
      PROVE  /\ Tracks(attempts[k], granted[k]) /\ Filter(attempts[k]) = granted[k]
             /\ granted[k] \in Seq(0..(Window - 1)) /\ OldestFirst(granted[k])
  <2>1. Tracks(attempts[k], granted[k])
    BY DEF IInv
  <2> QED BY <2>1, FilterTracked DEF Tracks
<1>1. ASSUME NEW h \in Handlers, NEW k \in Keys, Allow(h, k) PROVE IInv'
  <2> DEFINE noted == Append(granted[k], 0)
  <2>1. /\ Len(granted[k]) < Limit /\ key' = [key EXCEPT ![h] = k]
        /\ attempts' = [attempts EXCEPT ![k] = noted]
        /\ granted' = [granted EXCEPT ![k] = noted]
        /\ pc' = [pc EXCEPT ![h] = "verify"]
    BY <1>0, <1>1 DEF Allow
  <2>2. Tracks(noted, noted)
    BY <1>0, <2>1, TracksAllow
  <2> HIDE DEF noted
  <2>3. /\ attempts' = [l \in Keys |-> attempts'[l]]
        /\ granted' = [l \in Keys |-> granted'[l]]
        /\ \A l \in Keys : Tracks(attempts'[l], granted'[l])
    BY <2>1, <2>2, OneKey
  <2>4. /\ pc' \in [Handlers -> {"idle", "verify", "succeeded"}]
        /\ key' \in [Handlers -> Keys]
    BY <2>1 DEF IInv
  <2> QED BY <2>3, <2>4 DEF IInv
<1>2. ASSUME NEW h \in Handlers, NEW k \in Keys, Refuse(h, k) PROVE IInv'
  <2>1. /\ key' = [key EXCEPT ![h] = k] /\ pc' = pc
        /\ attempts' = [attempts EXCEPT ![k] = granted[k]]
        /\ granted' = [granted EXCEPT ![k] = granted[k]]
    BY <1>0, <1>2 DEF Refuse, IInv
  <2>2. Tracks(granted[k], granted[k])
    BY <1>0, TracksRefuse
  <2>3. /\ attempts' = [l \in Keys |-> attempts'[l]]
        /\ granted' = [l \in Keys |-> granted'[l]]
        /\ \A l \in Keys : Tracks(attempts'[l], granted'[l])
    BY <2>1, <2>2, OneKey
  <2>4. /\ pc' \in [Handlers -> {"idle", "verify", "succeeded"}]
        /\ key' \in [Handlers -> Keys]
    BY <2>1 DEF IInv
  <2> QED BY <2>3, <2>4 DEF IInv
<1>3. ASSUME NEW h \in Handlers, Verify(h) PROVE IInv'
  <2>1. pc' \in [Handlers -> {"idle", "verify", "succeeded"}]
    BY <1>3 DEF Verify, IInv
  <2>2. UNCHANGED <<attempts, key, granted>>
    BY <1>3 DEF Verify
  <2> QED BY <2>1, <2>2 DEF IInv
<1>4. ASSUME NEW h \in Handlers, LoginSucceeded(h) PROVE IInv'
  <2>1. /\ key' = key /\ pc' = [pc EXCEPT ![h] = "idle"] /\ key[h] \in Keys
        /\ attempts' = [attempts EXCEPT ![key[h]] = <<>>]
        /\ granted' = [granted EXCEPT ![key[h]] = <<>>]
    BY <1>4 DEF LoginSucceeded, IInv
  <2>2. /\ attempts' = [l \in Keys |-> attempts'[l]]
        /\ granted' = [l \in Keys |-> granted'[l]]
        /\ \A l \in Keys : Tracks(attempts'[l], granted'[l])
    BY <2>1, TracksNothing, OneKey
  <2>3. /\ pc' \in [Handlers -> {"idle", "verify", "succeeded"}]
        /\ key' \in [Handlers -> Keys]
    BY <2>1 DEF IInv
  <2> QED BY <2>2, <2>3 DEF IInv
<1>5. ASSUME Tick PROVE IInv'
  <2>1. /\ attempts' = [k \in Keys |-> Aged(attempts[k])]
        /\ granted' = [k \in Keys |-> Current(Aged(granted[k]))]
        /\ UNCHANGED <<pc, key>>
    BY <1>5 DEF Tick
  <2>2. ASSUME NEW k \in Keys PROVE Tracks(attempts'[k], granted'[k])
    BY <1>0, <2>1, TracksTick
  <2> QED BY <2>1, <2>2 DEF IInv
<1>6. CASE UNCHANGED vars
  BY <1>6 DEF vars, IInv
<1> QED BY <1>1, <1>2, <1>3, <1>4, <1>5, <1>6 DEF Next

LEMMA Invariance == Spec => []IInv
BY InvInit, InvNext, PTL DEF Spec

(***************************************************************************)
(* What the limiter promises.                                              *)
(***************************************************************************)

(* What the limiter keeps under a key never outgrows the limit, however    *)
(* often the key is tried: a refused attempt is not noted, and one that is *)
(* let through is noted only when the filter left room (auth.go:91-96).    *)
THEOREM LimiterTypeCorrect == Spec => []TypeOK
<1>1. IInv => TypeOK
  <2> SUFFICES ASSUME IInv PROVE TypeOK
    OBVIOUS
  <2>1. ASSUME NEW k \in Keys PROVE attempts[k] \in BoundedSeq(0..Window, Limit)
    <3>1. attempts[k] \in Seq(0..Window) /\ Len(attempts[k]) \in 0..Limit
      BY TracksType, WindowType DEF IInv
    <3>2. attempts[k] \in [1..Len(attempts[k]) -> 0..Window]
      BY <3>1, SequenceIs
    <3>3. Limit \in Nat
      BY WindowType
    <3> QED BY <3>1, <3>2, <3>3, Zenon DEF BoundedSeq, SeqOf
  <2>2. attempts \in [Keys -> BoundedSeq(0..Window, Limit)]
    BY <2>1, Zenon DEF IInv
  <2> QED BY <2>2 DEF IInv, TypeOK
<1> QED BY <1>1, Invariance, PTL

(* Between two successful logins no key gets more attempts at a password   *)
(* in any window than the limit, however the handlers of concurrent        *)
(* submissions interleave (allow and LoginSucceeded, auth.go:80-104).      *)
THEOREM NeverMoreThanLimit == Spec => []AtMostLimit
<1>1. IInv => AtMostLimit
  <2> SUFFICES ASSUME IInv, NEW k \in Keys PROVE Len(granted[k]) <= Limit
    BY DEF AtMostLimit
  <2>1. Tracks(attempts[k], granted[k])
    BY DEF IInv
  <2> QED BY <2>1, TracksType, WindowType
<1> QED BY <1>1, Invariance, PTL

(* Whatever the loop finds under a key, filtering in the array it reads    *)
(* loses no recent attempt, repeats none and keeps their order, whatever   *)
(* the length of the slice (auth.go:84-90).                                *)
THEOREM FilterSound == Spec => []FilterKeepsRecent
<1>1. IInv => FilterKeepsRecent
  <2> SUFFICES ASSUME IInv, NEW k \in Keys PROVE Sieved(attempts[k], Filter(attempts[k]))
    BY DEF FilterKeepsRecent
  <2>1. attempts[k] \in Seq(0..Window)
    BY TracksType DEF IInv
  <2> QED BY <2>1, FilterSieves
<1> QED BY <1>1, Invariance, PTL

(* A key that would be refused has had its full number of attempts in the  *)
(* window since its last success: lapsed and refused attempts never count  *)
(* against it (auth.go:91-104).                                            *)
THEOREM RefusalsJustified == Spec => []RefusedOnlyWhenFull
<1>1. IInv => RefusedOnlyWhenFull
  <2> SUFFICES ASSUME IInv, NEW k \in Keys, Len(Filter(attempts[k])) >= Limit
               PROVE  Len(granted[k]) = Limit
    BY DEF RefusedOnlyWhenFull
  <2>1. Tracks(attempts[k], granted[k])
    BY DEF IInv
  <2>2. Filter(attempts[k]) = granted[k]
    BY <2>1, FilterTracked
  <2> QED BY <2>1, <2>2, TracksType, WindowType
<1> QED BY <1>1, Invariance, PTL
===============================================================================
