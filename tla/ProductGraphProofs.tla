------------------------- MODULE ProductGraphProofs -------------------------
(***************************************************************************)
(* Proofs about bp2cmake's product graph and its audit.  The first part is *)
(* about the lists and loops the model is built from: a loop is a function *)
(* on 0..n, so that it computes something, and what, is shown by induction *)
(* over a set of numbers.                                                  *)
(***************************************************************************)
EXTENDS ProductAudit, NaturalsInduction, WellFoundedInduction, SequenceTheorems, FiniteSetTheorems, TLAPS

\* Induction, about a set of numbers.
LEMMA NatSetInduction ==
  ASSUME NEW S, 0 \in S, \A n \in Nat : n \in S => n + 1 \in S
  PROVE  Nat \subseteq S
  <1> DEFINE T == {n \in Nat : n \notin S}
  <1>1. SUFFICES ASSUME T # {} PROVE FALSE
    OBVIOUS
  <1>2. IsWellFoundedOn(OpToRel(<, Nat), Nat)
    BY NatLessThanWellFounded
  <1>3. PICK x \in T : \A y \in T : ~(<<y, x>> \in OpToRel(<, Nat))
    BY <1>1, <1>2, WFMin
  <1>4. \A y \in T : ~(y < x)
    BY <1>3 DEF OpToRel
  <1>5. x \in Nat /\ x # 0 /\ x - 1 \in Nat
    <2>1. x \in Nat /\ x # 0
      OBVIOUS
    <2> QED BY <2>1
  <1>6. x - 1 \in S
    BY <1>4, <1>5
  <1>7. x \in S
    BY <1>5, <1>6
  <1> QED BY <1>3, <1>7

\* A set of numbers that has one has a least one.
LEMMA LeastExists ==
  ASSUME NEW T \in SUBSET Nat, T # {}
  PROVE  \E x \in T : \A y \in T : x <= y
  <1>1. IsWellFoundedOn(OpToRel(<, Nat), Nat)
    BY NatLessThanWellFounded
  <1>2. PICK x \in T : \A y \in T : ~(<<y, x>> \in OpToRel(<, Nat))
    BY <1>1, WFMin
  <1>3. \A y \in T : ~(y < x)
    BY <1>2 DEF OpToRel
  <1> QED BY <1>3

\* A loop over n elements, whose body is a function of what it has so far and of
\* the index, computes something.
LoopOf(first, n, step, g) == g = [i \in 0..n |-> IF i = 0 THEN first ELSE step[i][g[i-1]]]

\* A loop whose every step stays in S computes something.
LEMMA LoopComputes ==
  ASSUME NEW S, NEW first \in S, NEW n \in Nat, NEW step \in [1..n -> [S -> S]]
  PROVE  \E g \in [0..n -> S] : LoopOf(first, n, step, g)
  <1> DEFINE Done(m, g) == g = [i \in 0..m |-> IF i = 0 THEN first ELSE step[i][g[i-1]]]
             M == {m \in Nat : m <= n => \E g \in [0..m -> S] : Done(m, g)}
  <1>1. 0 \in M
    <2> DEFINE g == [i \in 0..0 |-> first]
    <2>1. g \in [0..0 -> S] /\ Done(0, g)
      OBVIOUS
    <2> QED BY <2>1
  <1>2. ASSUME NEW m \in Nat, m \in M PROVE m + 1 \in M
    <2> SUFFICES ASSUME m + 1 <= n PROVE \E g \in [0..m+1 -> S] : Done(m + 1, g)
      OBVIOUS
    <2>1. PICK g \in [0..m -> S] : Done(m, g)
      BY <1>2
    <2> DEFINE h == [i \in 0..m+1 |-> IF i = m + 1 THEN step[m + 1][g[m]] ELSE g[i]]
    <2>2. step[m + 1][g[m]] \in S
      OBVIOUS
    <2>3. h \in [0..m+1 -> S]
      BY <2>2
    <2>4. \A i \in 0..m : g[i] = IF i = 0 THEN first ELSE step[i][g[i-1]]
      BY <2>1, Zenon
    <2>5. \A i \in 0..m+1 : h[i] = IF i = 0 THEN first ELSE step[i][h[i-1]]
      <3> SUFFICES ASSUME NEW i \in 0..m+1 PROVE h[i] = IF i = 0 THEN first ELSE step[i][h[i-1]]
        OBVIOUS
      <3>1. CASE i = m + 1
        <4>1. i # 0 /\ h[i-1] = g[m] /\ h[i] = step[m + 1][g[m]]
          BY <3>1
        <4> HIDE DEF h
        <4> QED BY <3>1, <4>1
      <3>2. CASE i # m + 1
        <4>1. h[i] = g[i] /\ i \in 0..m /\ (i # 0 => h[i-1] = g[i-1])
          BY <3>2
        <4> HIDE DEF h
        <4> QED BY <2>4, <4>1
      <3> QED BY <3>1, <3>2
    <2>6. Done(m + 1, h)
      BY <2>3, <2>5
    <2> QED BY <2>3, <2>6
  <1>3. n \in M
    <2> HIDE DEF M
    <2> QED BY <1>1, <1>2, NatSetInduction
  <1>4. \E g \in [0..n -> S] : Done(n, g)
    BY <1>3
  <1> QED BY <1>4 DEF LoopOf

-----------------------------------------------------------------------------
(* Lists                                                                   *)

\* A sequence is a list, and a list of what is in any set that holds its items.
LEMMA ListIs ==
  ASSUME NEW s
  PROVE  /\ \A S : s \in Seq(S) => IsList(s) /\ Items(s) \subseteq S
         /\ IsList(s) => /\ Len(s) \in Nat /\ DOMAIN s = 1..Len(s)
                         /\ \A S : Items(s) \subseteq S => s \in Seq(S)
  <1>1. ASSUME NEW S, s \in Seq(S) PROVE IsList(s) /\ Items(s) \subseteq S
    <2>1. Len(s) \in Nat /\ DOMAIN s = 1..Len(s) /\ s \in [1..Len(s) -> S]
      BY <1>1, LenProperties
    <2>2. s \in [1..Len(s) -> Items(s)] /\ Items(s) \subseteq S
      BY <2>1 DEF Items
    <2>3. s \in Seq(Items(s))
      BY <2>1, <2>2, SeqDef
    <2> QED BY <2>2, <2>3 DEF IsList
  <1>2. ASSUME IsList(s), NEW S, Items(s) \subseteq S
        PROVE  Len(s) \in Nat /\ DOMAIN s = 1..Len(s) /\ s \in Seq(S)
    <2>1. Len(s) \in Nat /\ DOMAIN s = 1..Len(s) /\ s \in [1..Len(s) -> Items(s)]
      BY <1>2, LenProperties DEF IsList
    <2>2. s \in [1..Len(s) -> S]
      BY <1>2, <2>1
    <2> QED BY <2>1, <2>2, SeqDef
  <1> QED BY <1>1, <1>2

\* The empty list.
LEMMA NoItems == IsList(<<>>) /\ Items(<<>>) = {} /\ Len(<<>>) = 0
  <1> DEFINE e == <<>>
             S == {}
  <1>1. e \in Seq(S) /\ Len(e) = 0
    BY EmptySeq
  <1> HIDE DEF e, S
  <1>2. IsList(e) /\ Items(e) \subseteq S
    BY <1>1, ListIs
  <1> QED BY <1>1, <1>2 DEF e, S

\* One more item.
LEMMA ListAppended ==
  ASSUME NEW s, IsList(s), NEW x
  PROVE  /\ IsList(Append(s, x)) /\ Items(Append(s, x)) = Items(s) \union {x}
         /\ Len(Append(s, x)) = Len(s) + 1 /\ Append(s, x)[Len(s) + 1] = x
         /\ \A i \in 1..Len(s) : Append(s, x)[i] = s[i]
  <1> DEFINE S == Items(s) \union {x}
             t == Append(s, x)
  <1>1. s \in Seq(S) /\ x \in S /\ Len(s) \in Nat /\ DOMAIN s = 1..Len(s)
    BY ListIs
  <1> HIDE DEF S
  <1>2. /\ t \in Seq(S) /\ Len(t) = Len(s) + 1 /\ t[Len(s) + 1] = x
        /\ \A i \in 1..Len(s) : t[i] = s[i]
    BY <1>1, AppendProperties
  <1>3. IsList(t) /\ DOMAIN t = 1..Len(s) + 1
    BY <1>2, ListIs
  <1>4. Items(t) = Items(s) \union {x}
    <2> HIDE DEF t
    <2>1. DOMAIN t = (DOMAIN s) \union {Len(s) + 1}
      BY <1>1, <1>3
    <2> QED BY <1>1, <1>2, <2>1 DEF Items
  <1> QED BY <1>2, <1>3, <1>4

\* Two lists joined.
LEMMA ListsJoined ==
  ASSUME NEW s, NEW t, IsList(s), IsList(t)
  PROVE  /\ IsList(s \o t) /\ Items(s \o t) = Items(s) \union Items(t)
         /\ Len(s \o t) = Len(s) + Len(t)
         /\ \A i \in 1..Len(s) : (s \o t)[i] = s[i]
         /\ \A i \in 1..Len(t) : (s \o t)[Len(s) + i] = t[i]
  <1> DEFINE S == Items(s) \union Items(t)
             u == s \o t
  <1>1. /\ s \in Seq(S) /\ Len(s) \in Nat /\ DOMAIN s = 1..Len(s)
        /\ t \in Seq(S) /\ Len(t) \in Nat /\ DOMAIN t = 1..Len(t)
    BY ListIs
  <1> HIDE DEF S
  <1>2. /\ u \in Seq(S) /\ Len(u) = Len(s) + Len(t)
        /\ \A i \in 1..Len(s) + Len(t) : u[i] = IF i <= Len(s) THEN s[i] ELSE t[i - Len(s)]
    BY <1>1, ConcatProperties
  <1>3. IsList(u) /\ DOMAIN u = 1..Len(s) + Len(t) /\ Items(u) \subseteq S
    BY <1>2, ListIs
  <1> HIDE DEF u
  <1>4. \A i \in 1..Len(s) : u[i] = s[i] /\ i \in DOMAIN u
    BY <1>1, <1>2, <1>3
  <1>5. \A i \in 1..Len(t) : u[Len(s) + i] = t[i] /\ Len(s) + i \in DOMAIN u
    <2> SUFFICES ASSUME NEW i \in 1..Len(t) PROVE u[Len(s) + i] = t[i] /\ Len(s) + i \in DOMAIN u
      OBVIOUS
    <2>1. Len(s) + i \in 1..Len(s) + Len(t) /\ ~(Len(s) + i <= Len(s)) /\ (Len(s) + i) - Len(s) = i
      BY <1>1
    <2> QED BY <1>2, <1>3, <2>1
  <1>6. Items(u) = Items(s) \union Items(t)
    <2>1. Items(s) \subseteq Items(u)
      BY <1>1, <1>4 DEF Items
    <2>2. Items(t) \subseteq Items(u)
      BY <1>1, <1>5 DEF Items
    <2> QED BY <1>3, <2>1, <2>2 DEF S
  <1> QED BY <1>2, <1>3, <1>4, <1>5, <1>6 DEF u

\* What is left of a list without its first item.
LEMMA ListRest ==
  ASSUME NEW s, IsList(s), s # <<>>
  PROVE  /\ IsList(Tail(s)) /\ Items(s) = {Head(s)} \union Items(Tail(s))
         /\ Len(s) >= 1 /\ Head(s) = s[1] /\ Len(Tail(s)) = Len(s) - 1
         /\ \A i \in 1..Len(s) - 1 : Tail(s)[i] = s[i + 1]
  <1> DEFINE t == Tail(s)
  <1>1. s \in Seq(Items(s)) /\ Len(s) \in Nat /\ DOMAIN s = 1..Len(s)
    BY ListIs
  <1>2. Len(s) # 0 /\ Len(s) >= 1
    BY <1>1, EmptySeq
  <1>3. /\ Head(s) = s[1] /\ t \in Seq(Items(s)) /\ Len(t) = Len(s) - 1
        /\ \A i \in 1..Len(t) : t[i] = s[i + 1]
    BY <1>1, HeadTailProperties
  <1>4. IsList(t) /\ DOMAIN t = 1..Len(s) - 1
    BY <1>3, ListIs
  <1> HIDE DEF t
  <1>5. Items(s) = {s[1]} \union Items(t)
    <2>1. ASSUME NEW i \in 1..Len(s), i # 1 PROVE i - 1 \in 1..Len(s) - 1 /\ t[i - 1] = s[i]
      <3>1. i - 1 \in 1..Len(s) - 1 /\ (i - 1) + 1 = i
        BY <1>1, <2>1
      <3> QED BY <1>3, <3>1
    <2>2. \A i \in 1..Len(s) - 1 : i + 1 \in 1..Len(s)
      BY <1>1
    <2>3. 1 \in 1..Len(s)
      BY <1>1, <1>2
    <2>4. Items(s) \subseteq {s[1]} \union Items(t)
      <3> SUFFICES ASSUME NEW i \in 1..Len(s), i # 1 PROVE s[i] \in Items(t)
        BY <1>1 DEF Items
      <3> QED BY <1>4, <2>1 DEF Items
    <2>5. Items(t) \subseteq Items(s)
      <3> SUFFICES ASSUME NEW i \in 1..Len(s) - 1 PROVE t[i] \in Items(s)
        BY <1>4 DEF Items
      <3> QED BY <1>1, <1>3, <2>2 DEF Items
    <2>6. s[1] \in Items(s)
      BY <1>1, <2>3 DEF Items
    <2> QED BY <2>4, <2>5, <2>6
  <1> QED BY <1>2, <1>3, <1>4, <1>5 DEF t

\* A loop over a list that keeps the items at some of its places.
Keeps(s, K, g) ==
  g = [i \in 0..Len(s) |-> IF i = 0 THEN <<>> ELSE IF i \in K THEN Append(g[i-1], s[i]) ELSE g[i-1]]

\* It computes something, and whatever it computes holds those items.
LEMMA KeptItems ==
  ASSUME NEW s, IsList(s), NEW K \in SUBSET (1..Len(s))
  PROVE  /\ \E g : Keeps(s, K, g)
         /\ \A g : Keeps(s, K, g) => IsList(g[Len(s)]) /\ Items(g[Len(s)]) = {s[i] : i \in K}
  <1> DEFINE n == Len(s)
             S == Seq(Items(s))
             Next1(r, i) == IF i \in K THEN Append(r, s[i]) ELSE r
             step == [i \in 1..n |-> [r \in S |-> Next1(r, i)]]
  <1>1. n \in Nat /\ DOMAIN s = 1..n /\ <<>> \in S
    BY ListIs, EmptySeq
  <1>0. K \subseteq Nat /\ \A j \in K : 1 <= j /\ j <= n
    <2> HIDE DEF n
    <2>1. K \subseteq 1..n
      BY DEF n
    <2> QED BY <2>1, <1>1
  <1>2. \E g : Keeps(s, K, g)
    <2>1. \A i \in 1..n, r \in S : Next1(r, i) \in S
      <3> SUFFICES ASSUME NEW i \in 1..n, NEW r \in S PROVE Append(r, s[i]) \in S
        OBVIOUS
      <3>1. s[i] \in Items(s)
        BY <1>1 DEF Items
      <3> QED BY <3>1, AppendProperties
    <2>2. step \in [1..n -> [S -> S]]
      <3> HIDE DEF Next1, S, n
      <3> QED BY <2>1
    <2> HIDE DEF S, n
    <2> DEFINE first == <<>>
    <2>3. PICK g \in [0..n -> S] : LoopOf(first, n, step, g)
      <3>1. first \in S /\ n \in Nat /\ step \in [1..n -> [S -> S]]
        BY <1>1, <2>2
      <3> HIDE DEF step, first
      <3> QED BY <3>1, LoopComputes
    <2>4. \A i \in 0..n : i # 0 => step[i][g[i-1]] = Next1(g[i-1], i)
      <3> HIDE DEF Next1
      <3> QED BY <1>1
    <2>5. g = [i \in 0..n |-> IF i = 0 THEN <<>> ELSE Next1(g[i-1], i)]
      <3> HIDE DEF Next1, step
      <3> QED BY <2>3, <2>4 DEF LoopOf
    <2> QED BY <2>5 DEF Keeps, n
  <1>3. ASSUME NEW g, Keeps(s, K, g)
        PROVE  IsList(g[n]) /\ Items(g[n]) = {s[i] : i \in K}
    <2>1. \A i \in 0..n : g[i] = IF i = 0 THEN <<>> ELSE Next1(g[i-1], i)
      <3> HIDE DEF Next1
      <3>1. g = [i \in 0..n |-> IF i = 0 THEN <<>> ELSE Next1(g[i-1], i)]
        BY <1>3 DEF Keeps, Next1
      <3> QED BY <3>1, Zenon
    <2> HIDE DEF n
    <2> DEFINE M == {m \in Nat : m <= n =>
                       IsList(g[m]) /\ Items(g[m]) = {s[i] : i \in {j \in K : j <= m}}}
    <2>2. 0 \in M
      <3>1. g[0] = <<>>
        BY <1>1, <2>1
      <3>2. {j \in K : j <= 0} = {}
        <4> SUFFICES ASSUME NEW j \in K, j <= 0 PROVE FALSE
          OBVIOUS
        <4>1. j \in Nat /\ 1 <= j
          BY <1>0
        <4> QED BY <4>1
      <3> QED BY <3>1, <3>2, NoItems
    <2>3. ASSUME NEW m \in Nat, m \in M PROVE m + 1 \in M
      <3> SUFFICES ASSUME m + 1 <= n
                   PROVE IsList(g[m+1]) /\ Items(g[m+1]) = {s[i] : i \in {j \in K : j <= m + 1}}
        OBVIOUS
      <3>1. IsList(g[m]) /\ Items(g[m]) = {s[i] : i \in {j \in K : j <= m}}
        <4>1. m <= n
          BY <1>1
        <4> QED BY <2>3, <4>1, Zenon
      <3>2. g[m+1] = Next1(g[m], m + 1)
        <4>1. m + 1 \in 0..n /\ m + 1 # 0 /\ (m + 1) - 1 = m
          BY <1>1
        <4> HIDE DEF Next1
        <4> QED BY <2>1, <4>1
      <3>3. {j \in K : j <= m + 1} = {j \in K : j <= m} \union (IF m + 1 \in K THEN {m + 1} ELSE {})
        <4>1. ASSUME NEW j \in K PROVE j <= m + 1 <=> j <= m \/ j = m + 1
          <5>1. j \in Nat
            BY <1>0
          <5> QED BY <5>1
        <4> QED BY <4>1
      <3> HIDE DEF M
      <3>4. CASE m + 1 \in K
        <4>1. IsList(g[m+1]) /\ Items(g[m+1]) = Items(g[m]) \union {s[m+1]}
          BY <3>1, <3>2, <3>4, ListAppended
        <4>2. {j \in K : j <= m + 1} = {j \in K : j <= m} \union {m + 1}
          BY <3>3, <3>4
        <4> QED BY <3>1, <4>1, <4>2
      <3>5. CASE m + 1 \notin K
        <4>1. {j \in K : j <= m + 1} = {j \in K : j <= m} /\ g[m+1] = g[m]
          BY <3>2, <3>3, <3>5
        <4> QED BY <3>1, <4>1
      <3> QED BY <3>4, <3>5
    <2>4. n \in M
      <3> HIDE DEF M
      <3> QED BY <1>1, <2>2, <2>3, NatSetInduction
    <2>5. {j \in K : j <= n} = K
      BY <1>0
    <2> QED BY <1>1, <2>4, <2>5
  <1> QED BY <1>2, <1>3 DEF n

\* What remove_* leaves of a list.
LEMMA WithoutIs ==
  ASSUME NEW s, IsList(s), NEW gone
  PROVE  IsList(Without(s, gone)) /\ Items(Without(s, gone)) = Items(s) \ gone
  <1> DEFINE n == Len(s)
             K == {i \in 1..n : s[i] \notin gone}
             Loop(g) == g = [i \in 0..n |-> IF i = 0 THEN <<>>
                                            ELSE IF s[i] \in gone THEN g[i-1] ELSE Append(g[i-1], s[i])]
             out == CHOOSE g : Loop(g)
  <1>1. ASSUME NEW g PROVE Loop(g) <=> Keeps(s, K, g)
    <2>1. \A i \in 0..n : i # 0 => i \in 1..n
      BY ListIs
    <2> HIDE DEF n
    <2>2. \A i \in 0..n :
            (IF i = 0 THEN <<>> ELSE IF s[i] \in gone THEN g[i-1] ELSE Append(g[i-1], s[i]))
            = (IF i = 0 THEN <<>> ELSE IF i \in K THEN Append(g[i-1], s[i]) ELSE g[i-1])
      BY <2>1
    <2>3. [i \in 0..n |-> IF i = 0 THEN <<>> ELSE IF s[i] \in gone THEN g[i-1] ELSE Append(g[i-1], s[i])]
          = [i \in 0..n |-> IF i = 0 THEN <<>> ELSE IF i \in K THEN Append(g[i-1], s[i]) ELSE g[i-1]]
      <3> HIDE DEF K
      <3> QED BY <2>2
    <2> QED BY <2>3, Zenon DEF Keeps, n
  <1> HIDE DEF Loop
  <1>2. K \in SUBSET (1..Len(s))
    OBVIOUS
  <1> HIDE DEF K
  <1>3. Loop(out)
    <2>1. \E g : Loop(g)
      BY <1>1, <1>2, KeptItems
    <2> QED BY <2>1
  <1> HIDE DEF out
  <1>4. IsList(out[n]) /\ Items(out[n]) = {s[i] : i \in K}
    BY <1>1, <1>2, <1>3, KeptItems
  <1>5. {s[i] : i \in K} = Items(s) \ gone
    BY ListIs DEF K, Items
  <1>6. Without(s, gone) = out[n]
    BY Zenon DEF Without, out, Loop, n
  <1> QED BY <1>4, <1>5, <1>6

\* What add_* makes of a list.
LEMMA ExtendedIs ==
  ASSUME NEW s, NEW more, IsList(s), IsList(more)
  PROVE  IsList(Extended(s, more)) /\ Items(Extended(s, more)) = Items(s) \union Items(more)
  <1>1. IsList(Without(more, Items(s))) /\ Items(Without(more, Items(s))) = Items(more) \ Items(s)
    BY WithoutIs
  <1> QED BY <1>1, ListsJoined DEF Extended

\* What removing later occurrences leaves of a list.
LEMMA UniqueIs ==
  ASSUME NEW s, IsList(s)
  PROVE  IsList(Unique(s)) /\ Items(Unique(s)) = Items(s)
  <1> DEFINE n == Len(s)
             New(i) == \A j \in 1..i-1 : s[j] # s[i]
             K == {i \in 1..n : New(i)}
             Loop(g) == g = [i \in 0..n |-> IF i = 0 THEN <<>>
                                            ELSE IF New(i) THEN Append(g[i-1], s[i]) ELSE g[i-1]]
             out == CHOOSE g : Loop(g)
  <1>1. ASSUME NEW g PROVE Loop(g) <=> Keeps(s, K, g)
    <2>1. \A i \in 0..n : i # 0 => i \in 1..n
      BY ListIs
    <2> HIDE DEF n, New
    <2>2. \A i \in 0..n :
            (IF i = 0 THEN <<>> ELSE IF New(i) THEN Append(g[i-1], s[i]) ELSE g[i-1])
            = (IF i = 0 THEN <<>> ELSE IF i \in K THEN Append(g[i-1], s[i]) ELSE g[i-1])
      BY <2>1
    <2>3. [i \in 0..n |-> IF i = 0 THEN <<>> ELSE IF New(i) THEN Append(g[i-1], s[i]) ELSE g[i-1]]
          = [i \in 0..n |-> IF i = 0 THEN <<>> ELSE IF i \in K THEN Append(g[i-1], s[i]) ELSE g[i-1]]
      <3> HIDE DEF K
      <3> QED BY <2>2
    <2> QED BY <2>3, Zenon DEF Keeps, n
  <1> HIDE DEF Loop
  <1>2. K \in SUBSET (1..Len(s))
    OBVIOUS
  <1>3. \A i \in 1..n : \E j \in K : s[j] = s[i]
    <2> SUFFICES ASSUME NEW i \in 1..n PROVE \E j \in K : s[j] = s[i]
      OBVIOUS
    <2>0. n \in Nat
      BY ListIs
    <2> DEFINE T == {j \in 1..n : s[j] = s[i]}
    <2>1. i \in T /\ T \in SUBSET Nat
      BY <2>0
    <2>2. PICK j \in T : \A x \in T : j <= x
      <3> HIDE DEF T
      <3> QED BY <2>1, LeastExists
    <2>3. New(j)
      <3> SUFFICES ASSUME NEW x \in 1..j-1, s[x] = s[j] PROVE FALSE
        OBVIOUS
      <3>1. x \in 1..n /\ s[x] = s[i] /\ ~(j <= x)
        BY <2>0
      <3> QED BY <2>2, <3>1
    <2> QED BY <2>3
  <1>4. {s[i] : i \in K} = Items(s)
    <2>1. DOMAIN s = 1..n /\ K \subseteq 1..n
      BY ListIs
    <2> HIDE DEF K
    <2> QED BY <1>3, <2>1 DEF Items
  <1> HIDE DEF K
  <1>5. Loop(out)
    <2>1. \E g : Loop(g)
      BY <1>1, <1>2, KeptItems
    <2> QED BY <2>1
  <1> HIDE DEF out
  <1>6. IsList(out[n]) /\ Items(out[n]) = {s[i] : i \in K}
    BY <1>1, <1>2, <1>5, KeptItems
  <1>7. Unique(s) = out[n]
    BY Zenon DEF Unique, out, Loop, n, New
  <1> QED BY <1>4, <1>6, <1>7

\* Part of a list.
LEMMA ListPart ==
  ASSUME NEW s, IsList(s), NEW i \in 1..Len(s), NEW j \in i..Len(s)
  PROVE  /\ IsList(SubSeq(s, i, j)) /\ Len(SubSeq(s, i, j)) = j - i + 1
         /\ \A k \in 1..j - i + 1 : SubSeq(s, i, j)[k] = s[i + k - 1]
         /\ SubSeq(s, i, j) # <<>> /\ Head(SubSeq(s, i, j)) = s[i]
  <1> DEFINE t == SubSeq(s, i, j)
  <1>1. s \in Seq(Items(s)) /\ Len(s) \in Nat
    BY ListIs
  <1>2. i \in Nat /\ j \in Nat /\ 1 <= i /\ i <= j /\ j <= Len(s)
    BY <1>1
  <1>3. /\ t \in Seq(Items(s)) /\ Len(t) = j - i + 1
        /\ \A k \in 1..j - i + 1 : t[k] = s[i + k - 1]
    <2>1. i \in 1..Len(s) + 1 /\ j \in i - 1..Len(s)
      BY <1>1, <1>2
    <2> QED BY <1>1, <1>2, <2>1, SubSeqProperties
  <1> HIDE DEF t
  <1>4. IsList(t)
    BY <1>3, ListIs
  <1>5. t # <<>>
    BY <1>2, <1>3, NoItems
  <1>6. Head(t) = s[i]
    <2>1. Head(t) = t[1]
      BY <1>4, <1>5, ListRest
    <2>2. 1 \in 1..j - i + 1 /\ i + 1 - 1 = i
      BY <1>2
    <2> QED BY <1>3, <2>1, <2>2
  <1> QED BY <1>3, <1>4, <1>5, <1>6 DEF t

\* The least member of a set of numbers, as First finds it.
LEMMA FirstIs ==
  ASSUME NEW T \in SUBSET Nat, NEW x \in T, \A y \in T : x <= y
  PROVE  First(T) = x
  <1> DEFINE c == CHOOSE i \in T : \A j \in T : i <= j
  <1>1. c \in T /\ \A j \in T : c <= j
    BY Zenon
  <1> HIDE DEF c
  <1>2. c \in Nat /\ x \in Nat /\ c <= x /\ x <= c
    BY <1>1
  <1>3. c = x
    BY <1>2
  <1> QED BY <1>3, Zenon DEF First, c

\* What OperatorsPass leaves a command of operators.
LEMMA OnlyAnds ==
  ASSUME NEW w, IsList(w), OperatorsPass(w), NEW k \in 1..Len(w)
  PROVE  (w[k] \in Operators <=> w[k] = "&&") /\ (w[k] \in Joins <=> w[k] = "&&")
  <1>1. w[k] \in Items(w)
    BY ListIs DEF Items
  <1>2. w[k] \notin {"||", "<", ">", ";", "|", "$("}
    BY <1>1 DEF OperatorsPass
  <1> QED BY <1>2 DEF Operators, Joins

\* Where a shell would start a program.
StartsAt(w, k) == k \in 1..Len(w) /\ w[k] # "&&" /\ (k = 1 \/ w[k-1] = "&&")

\* From there on an invocation runs to the next operator.
InvocationFrom(w, k, j) ==
  /\ j \in k..Len(w) /\ (j = Len(w) \/ w[j+1] = "&&")
  /\ \A i \in k..j : w[i] # "&&"

\* Every invocation has an end.
LEMMA InvocationEnds ==
  ASSUME NEW w, IsList(w), NEW k, StartsAt(w, k)
  PROVE  \E j : InvocationFrom(w, k, j)
  <1>0. Len(w) \in Nat /\ k \in Nat /\ 1 <= k /\ k <= Len(w) /\ w[k] # "&&"
    <2>1. Len(w) \in Nat
      BY ListIs
    <2> QED BY <2>1 DEF StartsAt
  <1> DEFINE T == {j \in k..Len(w) : j = Len(w) \/ w[j+1] = "&&"}
  <1>1. Len(w) \in T /\ T \in SUBSET Nat
    BY <1>0
  <1>2. PICK j \in T : \A i \in T : j <= i
    <2> HIDE DEF T
    <2> QED BY <1>1, LeastExists
  <1>3. j \in k..Len(w) /\ (j = Len(w) \/ w[j+1] = "&&")
    OBVIOUS
  <1>4. ASSUME NEW i \in k..j PROVE w[i] # "&&"
    <2>1. CASE i = k
      BY <1>0, <2>1
    <2>2. CASE i # k
      <3>1. i - 1 \in k..Len(w) /\ (i - 1) + 1 = i /\ ~(j <= i - 1)
        BY <1>0, <1>3, <2>2
      <3>2. i - 1 \notin T
        BY <1>2, <3>1
      <3> QED BY <3>1, <3>2
    <2> QED BY <2>1, <2>2
  <1>5. InvocationFrom(w, k, j)
    BY <1>3, <1>4 DEF InvocationFrom
  <1> QED BY <1>5

\* The audit reads it as one.
LEMMA InvocationIsRead ==
  ASSUME NEW w, IsList(w), OperatorsPass(w), NEW k, StartsAt(w, k), w[k] # ":",
         NEW j, InvocationFrom(w, k, j)
  PROVE  SubSeq(w, k, j) \in Segments(w)
  <1> DEFINE Ends(x, y) ==
        /\ \A i \in x..y : w[i] \notin Joins
        /\ x = 1 \/ w[x-1] \in Joins
        /\ y = Len(w) \/ w[y+1] \in Joins
             Payload(s) == IF Head(s) = ":" THEN Tail(s) ELSE s
  <1>1. Len(w) \in Nat /\ DOMAIN w = 1..Len(w)
    BY ListIs
  <1>2. k \in 1..Len(w) /\ j \in k..Len(w) /\ k <= j /\ j \in 1..Len(w)
    <2>1. k \in 1..Len(w) /\ j \in k..Len(w)
      BY DEF StartsAt, InvocationFrom
    <2> QED BY <1>1, <2>1
  <1>3. Ends(k, j)
    <2>1. \A i \in k..j : i \in 1..Len(w)
      BY <1>1, <1>2
    <2>2. \A i \in k..j : w[i] \notin Joins
      BY <2>1, OnlyAnds DEF InvocationFrom
    <2>3. k = 1 \/ w[k-1] \in Joins
      <3>1. k # 1 => k - 1 \in 1..Len(w)
        BY <1>1, <1>2
      <3> QED BY <3>1 DEF StartsAt, Joins
    <2>4. j = Len(w) \/ w[j+1] \in Joins
      BY DEF InvocationFrom, Joins
    <2> QED BY <2>2, <2>3, <2>4
  <1> HIDE DEF Ends
  <1>4. SubSeq(w, k, j) # <<>> /\ Head(SubSeq(w, k, j)) = w[k]
    BY <1>2, ListPart
  <1>5. Payload(SubSeq(w, k, j)) = SubSeq(w, k, j)
    BY <1>4
  <1> HIDE DEF Payload
  <1>6. Segments(w) = {Payload(SubSeq(w, p[1], p[2])) :
          p \in {q \in (DOMAIN w) \X (DOMAIN w) : q[1] <= q[2] /\ Ends(q[1], q[2])}} \ {<<>>}
    BY Zenon DEF Segments, Payload, Ends
  <1>7. <<k, j>> \in {q \in (DOMAIN w) \X (DOMAIN w) : q[1] <= q[2] /\ Ends(q[1], q[2])}
    BY <1>1, <1>2, <1>3
  <1>8. Payload(SubSeq(w, k, j)) \in Segments(w)
    <2> DEFINE P == {q \in (DOMAIN w) \X (DOMAIN w) : q[1] <= q[2] /\ Ends(q[1], q[2])}
               here == <<k, j>>
    <2>1. here \in P /\ here[1] = k /\ here[2] = j
      BY <1>7
    <2> HIDE DEF P, here
    <2>2. Payload(SubSeq(w, here[1], here[2])) # <<>>
      BY <1>4, <1>5, <2>1
    <2>3. Payload(SubSeq(w, here[1], here[2])) \in Segments(w)
      BY <1>6, <2>1, <2>2, Zenon DEF P
    <2> QED BY <2>1, <2>3
  <1> QED BY <1>5, <1>8

\* So it starts no forbidden program itself,
LEMMA FirstWordAllowed ==
  ASSUME NEW w, IsList(w), OperatorsPass(w), InvocationsPass(w), NEW k, StartsAt(w, k)
  PROVE  w[k] \notin ForbiddenTools
  <1>1. CASE w[k] = ":"
    BY <1>1, ToolsAssumption
  <1>2. CASE w[k] # ":"
    <2>1. PICK j : InvocationFrom(w, k, j)
      BY InvocationEnds
    <2>2. SubSeq(w, k, j) \in Segments(w)
      BY <1>2, <2>1, InvocationIsRead
    <2>3. Head(SubSeq(w, k, j)) = w[k]
      <3>1. k \in 1..Len(w) /\ j \in k..Len(w)
        BY <2>1 DEF StartsAt, InvocationFrom
      <3> QED BY <3>1, ListPart
    <2> QED BY <2>2, <2>3, ToolsAssumption DEF InvocationsPass
  <1> QED BY <1>1, <1>2

\* and none by way of cmake -E env.
LEMMA EnvProgramAllowed ==
  ASSUME NEW w, IsList(w), OperatorsPass(w), InvocationsPass(w), NEW k, StartsAt(w, k),
         w[k] = "cmake", w[k+1] = "-E", w[k+2] = "env",
         NEW p \in k+3..Len(w), ~IsAssignment(w[p]), w[p] \notin Operators,
         \A i \in k+3..p-1 : IsAssignment(w[i])
  PROVE  w[p] \notin ForbiddenTools
  <1>0. k \in Nat /\ p \in Nat /\ Len(w) \in Nat /\ 1 <= k /\ k + 3 <= p /\ p <= Len(w)
    <2>1. Len(w) \in Nat /\ k \in 1..Len(w)
      BY ListIs DEF StartsAt
    <2> QED BY <2>1
  <1>1. PICK j : InvocationFrom(w, k, j)
    BY InvocationEnds
  <1>2. j \in k..Len(w) /\ (j = Len(w) \/ w[j+1] = "&&")
    BY <1>1 DEF InvocationFrom
  <1>3. ASSUME NEW i \in k..p PROVE w[i] # "&&"
    <2>1. i = k \/ i = k + 1 \/ i = k + 2 \/ i \in k+3..p-1 \/ i = p
      BY <1>0
    <2>2. i \in k+3..p-1 => w[i] \notin Operators
      BY ToolsAssumption
    <2>3. "&&" \in Operators
      BY DEF Operators
    <2> QED BY <2>1, <2>2, <2>3
  <1>4. p <= j
    <2> SUFFICES ASSUME ~(p <= j) PROVE FALSE
      OBVIOUS
    <2>1. j # Len(w) /\ j + 1 \in k..p
      BY <1>0, <1>2
    <2> QED BY <1>2, <1>3, <2>1
  <1> DEFINE s == SubSeq(w, k, j)
             n == j - k + 1
             q == p - k + 1
  <1>5. /\ Len(s) = n /\ Head(s) = "cmake"
        /\ \A i \in 1..n : s[i] = w[k + i - 1]
    <2>1. k \in 1..Len(w) /\ j \in k..Len(w)
      BY <1>0, <1>2
    <2> QED BY <2>1, ListPart
  <1>6. s \in Segments(w)
    BY <1>1, InvocationIsRead
  <1> HIDE DEF s
  <1>7. n \in Nat /\ q \in Nat /\ 4 <= q /\ q <= n
    BY <1>0, <1>2, <1>4
  <1>8. EnvProgram(s) \notin ForbiddenTools
    <2>1. Len(s) > 3
      BY <1>5, <1>7
    <2> QED BY <1>5, <1>6, <2>1 DEF InvocationsPass
  <1>9. s[2] = "-E" /\ s[3] = "env" /\ s[q] = w[p]
    <2>1. 2 \in 1..n /\ 3 \in 1..n /\ q \in 1..n
      BY <1>7
    <2>2. k + 2 - 1 = k + 1 /\ k + 3 - 1 = k + 2 /\ k + q - 1 = p
      BY <1>0
    <2> HIDE DEF n, q
    <2>3. s[2] = w[k + 2 - 1] /\ s[3] = w[k + 3 - 1] /\ s[q] = w[k + q - 1]
      BY <1>5, <2>1
    <2> QED BY <2>2, <2>3
  <1>10. ASSUME NEW m \in 4..q-1 PROVE IsAssignment(s[m])
    <2>1. m \in 1..n /\ k + m - 1 \in k+3..p-1
      BY <1>0, <1>2, <1>4
    <2> HIDE DEF n, q
    <2> QED BY <1>5, <2>1
  <1> DEFINE envs == {i \in 2..Len(s) : s[i] = "env"}
             words == {i \in 2..Len(s) : i > First(envs) /\ ~IsAssignment(s[i])}
  <1> HIDE DEF n, q
  <1>11. First(envs) = 3 /\ envs # {}
    <2>1. 3 \in envs /\ envs \in SUBSET Nat
      BY <1>5, <1>7, <1>9
    <2>2. \A i \in envs : 3 <= i
      <3> SUFFICES ASSUME NEW i \in envs, i = 2 PROVE FALSE
        OBVIOUS
      <3> QED BY <1>9
    <2> HIDE DEF envs
    <2> QED BY <2>1, <2>2, FirstIs
  <1>12. First(words) = q /\ words # {}
    <2>1. q \in words /\ words \in SUBSET Nat
      BY <1>5, <1>7, <1>9, <1>11
    <2>2. ASSUME NEW i \in words PROVE q <= i
      <3> SUFFICES ASSUME ~(q <= i) PROVE FALSE
        OBVIOUS
      <3>1. i \in 2..Len(s) /\ i > 3 /\ ~IsAssignment(s[i])
        BY <1>11
      <3>2. i \in 4..q-1
        BY <1>5, <1>7, <3>1
      <3> QED BY <1>10, <3>1, <3>2
    <2> HIDE DEF words
    <2> QED BY <2>1, <2>2, FirstIs
  <1>13. EnvProgram(s) = s[q]
    <2>1. EnvProgram(s) = IF envs = {} \/ words = {} THEN None ELSE s[First(words)]
      BY Zenon DEF EnvProgram, envs, words
    <2> HIDE DEF envs, words
    <2> QED BY <1>11, <1>12, <2>1
  <1> QED BY <1>8, <1>9, <1>13

\* Between them the checks on invocations and operators cover every place where
\* a shell starts a program.
LEMMA AuditedWords ==
  ASSUME NEW w, IsList(w), OperatorsPass(w), InvocationsPass(w)
  PROVE  Started(w) \cap ForbiddenTools = {}
  <1> DEFINE starts == {k \in DOMAIN w : w[k] \notin Operators /\ (k = 1 \/ w[k-1] \in Operators)}
             EnvOf(k) == {e \in k+2..Len(w) :
                            w[k] = "cmake" /\ w[k+1] = "-E" /\ w[e-1] = "env" /\ e = k + 3}
             After(e) == {j \in e..Len(w) : /\ ~IsAssignment(w[j]) /\ w[j] \notin Operators
                                            /\ \A i \in e..j-1 : IsAssignment(w[i])}
  <1>1. Started(w) = {w[k] : k \in starts \union UNION {UNION {After(e) : e \in EnvOf(k)} : k \in starts}}
    BY Zenon DEF Started, starts, EnvOf, After
  <1>2. DOMAIN w = 1..Len(w) /\ Len(w) \in Nat
    BY ListIs
  <1>3. ASSUME NEW k \in starts PROVE StartsAt(w, k) /\ k \in Nat
    <2>1. k \in 1..Len(w) /\ k \in Nat
      BY <1>2
    <2>2. w[k] # "&&"
      BY DEF Operators
    <2>3. k = 1 \/ w[k-1] = "&&"
      <3>1. k # 1 => k - 1 \in 1..Len(w)
        BY <1>2, <2>1
      <3> QED BY <3>1, OnlyAnds
    <2> QED BY <2>1, <2>2, <2>3 DEF StartsAt
  <1>4. ASSUME NEW k \in starts PROVE w[k] \notin ForbiddenTools
    <2> HIDE DEF starts
    <2> QED BY <1>3, FirstWordAllowed
  <1>5. ASSUME NEW k \in starts, NEW e \in EnvOf(k), NEW p \in After(e) PROVE w[p] \notin ForbiddenTools
    <2>1. StartsAt(w, k) /\ k \in Nat
      BY <1>3
    <2> HIDE DEF starts
    <2>2. e = k + 3 /\ w[k] = "cmake" /\ w[k+1] = "-E" /\ w[e-1] = "env"
      OBVIOUS
    <2>3. w[k+2] = "env"
      <3>1. e - 1 = k + 2
        BY <2>1, <2>2
      <3> QED BY <2>2, <3>1
    <2>4. /\ p \in k+3..Len(w) /\ ~IsAssignment(w[p]) /\ w[p] \notin Operators
          /\ \A i \in k+3..p-1 : IsAssignment(w[i])
      BY <2>2
    <2> HIDE DEF EnvOf, After
    <2> QED BY <2>1, <2>2, <2>3, <2>4, EnvProgramAllowed
  <1> HIDE DEF starts, EnvOf, After
  <1> QED BY <1>1, <1>4, <1>5

\* A command with the lost options taken out is a list of words.
LEMMA KeptIs == ASSUME NEW s, IsList(s) PROVE IsList(Kept(s))
  BY WithoutIs DEF Kept

\* The commands CMake writes for a module are lists of words.
LEMMA CompileWords ==
  ASSUME NEW t, NEW r \in Compiles(t)
  PROVE  IsList(r.words)
  <1> DEFINE first == <<Driver, "--target", "-c", "-fPIC">>
             pie == IF t.kind = "executable" THEN <<"-fPIE">> ELSE <<>>
             last == <<"-I", Handmade.include>>
             S == {Driver, "--target", "-c", "-fPIC", "-fPIE", "-I", Handmade.include}
  <1>1. first \in Seq(S) /\ pie \in Seq(S) /\ last \in Seq(S)
    <2>1. first \in Seq(S) /\ <<"-fPIE">> \in Seq(S) /\ last \in Seq(S)
      OBVIOUS
    <2>2. <<>> \in Seq(S)
      BY EmptySeq
    <2> QED BY <2>1, <2>2
  <1>2. r.words = Kept(first \o pie \o last)
    <2>1. PICK f \in t.sources :
            r = [file |-> f, module |-> t.name, words |-> Kept(first \o pie \o last)]
      BY Zenon DEF Compiles, first, pie, last
    <2> HIDE DEF first, pie, last
    <2> QED BY <2>1
  <1> HIDE DEF first, pie, last, S
  <1>3. IsList(first) /\ IsList(pie) /\ IsList(last)
    BY <1>1, ListIs
  <1>4. IsList(first \o pie \o last)
    BY <1>3, ListsJoined
  <1> QED BY <1>2, <1>4, KeptIs

\* So are the commands that link its product.
LEMMA LinkWords ==
  ASSUME NEW t
  PROVE  IsList(Link(t).words)
  <1> DEFINE mode == IF t.kind = "shared" THEN "-shared" ELSE "-pie"
             body == <<Driver, "--target", "-fuse-ld=lld", mode, "-L", Handmade.library>>
             before == <<":", "&&">>
             after == <<"&&", ":">>
  <1>1. IsList(before) /\ IsList(after)
    <2>1. before \in Seq({":", "&&"}) /\ after \in Seq({":", "&&"})
      OBVIOUS
    <2> HIDE DEF before, after
    <2> QED BY <2>1, ListIs
  <1>2. IsList(body)
    <2> HIDE DEF mode
    <2>1. body \in Seq({Driver, "--target", "-fuse-ld=lld", mode, "-L", Handmade.library})
      OBVIOUS
    <2> HIDE DEF body
    <2> QED BY <2>1, ListIs
  <1>3. Link(t).words = before \o Kept(body) \o after
    BY DEF Link
  <1> HIDE DEF before, body, after
  <1>4. IsList(Kept(body))
    BY <1>2, KeptIs
  <1>5. IsList(before \o Kept(body))
    BY <1>1, <1>4, ListsJoined
  <1>6. IsList(before \o Kept(body) \o after)
    BY <1>1, <1>5, ListsJoined
  <1> QED BY <1>3, <1>6

-----------------------------------------------------------------------------
(* What the audit has seen                                                 *)

\* What the audit asks of every command of the tree.
Allowed(w) == InvocationsPass(w) /\ OperatorsPass(w)

\* Every command is a list of words, and an accepted tree is one whose commands
\* were all allowed.
HandmadeLists == \A w \in Handmade.custom : IsList(w)
CommandLists == commands # None => \A w \in commands.ninja : IsList(w)
AuditedAll == audit = "accepted" => commands # None /\ \A w \in commands.ninja : Allowed(w)

AuditInv == HandmadeLists /\ CommandLists /\ AuditedAll

\* Nothing is audited at first.
LEMMA AuditInvInit == AuditInit => AuditInv
  <1> SUFFICES ASSUME AuditInit PROVE AuditInv
    OBVIOUS
  <1>1. HandmadeLists
    <2>1. PICK i \in Inputs :
            input = [f \in DOMAIN InputOf(i) \ {"files", "policies", "host"} |-> InputOf(i)[f]]
      BY DEF AuditInit, Init
    <2>2. input.handmade = InputOf(i).handmade
      BY <2>1, HandmadeAssumption
    <2> QED BY <2>2, HandmadeAssumption DEF HandmadeLists, Handmade
  <1>2. CommandLists /\ AuditedAll
    BY NoneAssumption DEF AuditInit, CommandLists, AuditedAll
  <1> QED BY <1>1, <1>2 DEF AuditInv

\* Nothing changes the input.
LEMMA InputStays == [AuditNext]_allVars => input' = input
  BY DEF AuditNext, Next, LoadFile, StartClosure, Close, StartEmission, EmitNext, Finish,
         CMake, Audit, Topology, allVars, vars, graphVars

\* No step changes what was audited.
LEMMA AuditInvNext == AuditInv /\ [AuditNext]_allVars => AuditInv'
  <1> SUFFICES ASSUME AuditInv, [AuditNext]_allVars PROVE AuditInv'
    OBVIOUS
  <1>1. HandmadeLists'
    <2>1. input' = input
      BY InputStays
    <2> QED BY <2>1 DEF AuditInv, HandmadeLists, Handmade
  <1>2. ASSUME UNCHANGED auditVars PROVE CommandLists' /\ AuditedAll'
    BY <1>2 DEF AuditInv, CommandLists, AuditedAll, auditVars
  <1>3. CASE CMake
    <2> DEFINE texts == {emitted[i] : i \in DOMAIN emitted}
               compiles == UNION {Compiles(t) : t \in texts}
               links == {Link(t) : t \in {u \in texts : Product(u)}}
    <2>1. commands'.ninja = {r.words : r \in compiles} \union {l.words : l \in links} \union Handmade.custom
      BY <1>3 DEF CMake
    <2>2. \A t \in texts : \A r \in Compiles(t) : IsList(r.words)
      <3> HIDE DEF texts
      <3> QED BY CompileWords
    <2>3. \A t \in texts : IsList(Link(t).words)
      <3> HIDE DEF texts
      <3> QED BY LinkWords
    <2> HIDE DEF texts
    <2>4. ASSUME NEW w \in commands'.ninja PROVE IsList(w)
      <3>1. \A r \in compiles : IsList(r.words)
        BY <2>2, Zenon
      <3>2. \A l \in links : IsList(l.words)
        BY <2>3, Zenon
      <3> HIDE DEF compiles, links
      <3> QED BY <2>1, <3>1, <3>2 DEF AuditInv, HandmadeLists
    <2>5. CommandLists'
      BY <2>4 DEF CommandLists
    <2>6. AuditedAll'
      <3>1. commands = None /\ audit' = audit
        BY <1>3 DEF CMake
      <3> QED BY <3>1 DEF AuditInv, AuditedAll
    <2> QED BY <1>1, <2>5, <2>6 DEF AuditInv
  <1>4. CASE Audit
    <2>1. commands' = commands /\ commands # None
      BY <1>4 DEF Audit
    <2>2. CommandLists'
      BY <2>1 DEF AuditInv, CommandLists
    <2>3. audit' = "accepted" => \A w \in commands.ninja : Allowed(w)
      BY <1>4 DEF Audit, Allowed
    <2>4. AuditedAll'
      BY <2>1, <2>3 DEF AuditedAll
    <2> QED BY <1>1, <2>2, <2>4 DEF AuditInv
  <1>5. CASE Topology
    <2>1. commands' = commands /\ audit' = audit
      BY <1>5 DEF Topology
    <2> QED BY <1>1, <2>1 DEF AuditInv, CommandLists, AuditedAll
  <1>6. UNCHANGED auditVars \/ CMake \/ Audit \/ Topology
    BY Zenon DEF AuditNext, allVars
  <1> QED BY <1>1, <1>2, <1>3, <1>4, <1>5, <1>6 DEF AuditInv

\* No command of an accepted graph starts a forbidden program
\* (_audit_command_invocations and _audit_shell_operators together).
THEOREM AuditLeavesNoGap == AuditSpec => []AuditSound
  <1>1. AuditInv => AuditSound
    <2> SUFFICES ASSUME AuditInv, audit = "accepted", NEW w \in commands.ninja
                 PROVE  Started(w) \cap ForbiddenTools = {}
      BY DEF AuditSound
    <2>1. IsList(w) /\ InvocationsPass(w) /\ OperatorsPass(w)
      BY DEF AuditInv, CommandLists, AuditedAll, Allowed
    <2> QED BY <2>1, AuditedWords
  <1> QED BY <1>1, AuditInvInit, AuditInvNext, PTL DEF AuditSpec

-----------------------------------------------------------------------------
(* Modules                                                                 *)

\* A list of one.
LEMMA OneItem == ASSUME NEW x PROVE IsList(<<x>>) /\ Items(<<x>>) = {x}
  <1> DEFINE s == <<x>>
  <1>1. s \in Seq({x}) /\ Len(s) = 1 /\ s[1] = x
    OBVIOUS
  <1> HIDE DEF s
  <1>2. IsList(s) /\ DOMAIN s = 1..1
    BY <1>1, ListIs
  <1>3. Items(s) = {x}
    BY <1>1, <1>2 DEF Items
  <1> QED BY <1>2, <1>3 DEF s

\* What resolve returns for a name: a module of that name, whose dependencies are lists.
ModuleOf(m, n) ==
  /\ {"name", "root", "dir", "exports", "shared", "static", "whole", "headers"} \subseteq DOMAIN m
  /\ m.name = n
  /\ IsList(m.shared) /\ IsList(m.static) /\ IsList(m.whole) /\ IsList(m.headers)

\* _to_module makes a list of every property that it reads as one.
LEMMA ToModuleIs == ASSUME NEW d, NEW map PROVE ModuleOf(ToModule(d, map), d.name)
  <1> DEFINE As(p) == IF IsList(map.lists[p]) THEN map.lists[p]
                      ELSE IF p = "export_headers" THEN <<>> ELSE <<map.lists[p]>>
             l == [p \in Lists |-> As(p)]
  <1>1. \A p \in Lists : IsList(As(p))
    BY NoItems, OneItem
  <1>2. \A p \in Lists : l[p] = As(p)
    <2> HIDE DEF As
    <2> QED OBVIOUS
  <1>3. \A p \in {"shared", "static", "whole", "headers", "export_headers"} : IsList(l[p])
    <2>1. {"shared", "static", "whole", "headers", "export_headers"} \subseteq Lists
      BY DEF Lists
    <2> HIDE DEF As, l
    <2> QED BY <1>1, <1>2, <2>1
  <1>4. ToModule(d, map) =
          [name |-> d.name, type |-> d.type, dir |-> d.dir, root |-> d.root,
           enabled |-> map.enabled # FALSE,
           srcs |-> l["srcs"], exclude |-> l["exclude"], exports |-> l["exports"],
           shared |-> l["shared"], static |-> l["static"], whole |-> l["whole"],
           headers |-> Extended(l["headers"], Unique(l["export_headers"])),
           generated |-> l["generated"], cflags |-> l["cflags"], ldflags |-> l["ldflags"]]
    BY Zenon DEF ToModule, As, l
  <1> HIDE DEF l
  <1>5. IsList(Extended(l["headers"], Unique(l["export_headers"])))
    BY <1>3, UniqueIs, ExtendedIs
  <1> QED BY <1>3, <1>4, <1>5 DEF ModuleOf

\* resolve returns nothing of a name that is not declared.
LEMMA ResolvedIs ==
  ASSUME NEW ds, NEW n, Resolve(ds, n) # None
  PROVE  ds[n] # None /\ ModuleOf(Resolve(ds, n), ds[n].name)
  <1> DEFINE map == PropertyMap(ds, n)
  <1>1. ds[n] # None
    BY Zenon DEF Resolve
  <1>2. Resolve(ds, n) = IF map = None THEN None ELSE ToModule(ds[n], Collapse(map))
    BY <1>1, Zenon DEF Resolve
  <1> HIDE DEF map
  <1>3. Resolve(ds, n) = ToModule(ds[n], Collapse(map))
    BY <1>2
  <1> QED BY <1>1, <1>3, ToModuleIs

\* The overlay changes neither its name nor its place, what it exports, takes in
\* whole or reads the headers of; it links what the closure sees that it links.
LEMMA PolicyKeeps ==
  ASSUME NEW m, NEW n, ModuleOf(m, n), NEW pol, NEW glob
  PROVE  LET a == ApplyPolicy(m, pol, glob)
         IN /\ a.name = n /\ a.root = m.root /\ a.dir = m.dir
            /\ a.exports = m.exports /\ a.whole = m.whole /\ a.headers = m.headers
            /\ IsList(pol.add_shared) =>
                 IsList(a.shared) /\ Items(a.shared) = Items(SharedAfter(m, pol))
            /\ IsList(pol.add_static) =>
                 IsList(a.static) /\ Items(a.static) = Items(StaticAfter(m, pol))
  <1> DEFINE srcs == Extended(Without(m.srcs, Items(pol.remove_srcs)), Unique(pol.add_srcs))
             shared == Extended(Without(m.shared, pol.remove_shared), Unique(pol.add_shared))
             static == Extended(Without(m.static, pol.remove_static), Unique(pol.add_static))
             a == ApplyPolicy(m, pol, glob)
             kept == {"name", "root", "dir", "exports", "whole", "headers"}
  <1>1. \A f \in DOMAIN m \ {"srcs", "shared", "static", "cflags", "ldflags"} : a[f] = m[f]
    BY DEF ApplyPolicy
  <1>2. a.shared = shared /\ a.static = static
    <2>1. "shared" \in DOMAIN m /\ "static" \in DOMAIN m
      BY DEF ModuleOf
    <2> HIDE DEF shared, static
    <2> QED BY <2>1 DEF ApplyPolicy, shared, static
  <1> HIDE DEF a
  <1>3. kept \subseteq DOMAIN m \ {"srcs", "shared", "static", "cflags", "ldflags"}
    BY DEF ModuleOf
  <1>4. /\ a.name = m.name /\ a.root = m.root /\ a.dir = m.dir
        /\ a.exports = m.exports /\ a.whole = m.whole /\ a.headers = m.headers
    BY <1>1, <1>3
  <1>5. IsList(m.shared) /\ IsList(m.static)
    BY DEF ModuleOf
  <1>6. ASSUME IsList(pol.add_shared) PROVE IsList(shared) /\ Items(shared) = Items(SharedAfter(m, pol))
    <2> DEFINE left == Without(m.shared, pol.remove_shared)
               once == Unique(pol.add_shared)
    <2>1. IsList(left) /\ IsList(once) /\ Items(once) = Items(pol.add_shared)
      BY <1>5, <1>6, WithoutIs, UniqueIs
    <2>2. shared = Extended(left, once) /\ SharedAfter(m, pol) = Extended(left, pol.add_shared)
      BY DEF SharedAfter
    <2> HIDE DEF left, once, shared
    <2>3. IsList(Extended(left, once)) /\ Items(Extended(left, once)) = Items(left) \union Items(once)
      BY <2>1, ExtendedIs
    <2>4. Items(Extended(left, pol.add_shared)) = Items(left) \union Items(pol.add_shared)
      BY <1>6, <2>1, ExtendedIs
    <2> QED BY <2>1, <2>2, <2>3, <2>4
  <1>7. ASSUME IsList(pol.add_static) PROVE IsList(static) /\ Items(static) = Items(StaticAfter(m, pol))
    <2> DEFINE left == Without(m.static, pol.remove_static)
               once == Unique(pol.add_static)
    <2>1. IsList(left) /\ IsList(once) /\ Items(once) = Items(pol.add_static)
      BY <1>5, <1>7, WithoutIs, UniqueIs
    <2>2. static = Extended(left, once) /\ StaticAfter(m, pol) = Extended(left, pol.add_static)
      BY DEF StaticAfter
    <2> HIDE DEF left, once, static
    <2>3. IsList(Extended(left, once)) /\ Items(Extended(left, once)) = Items(left) \union Items(once)
      BY <2>1, ExtendedIs
    <2>4. Items(Extended(left, pol.add_static)) = Items(left) \union Items(pol.add_static)
      BY <1>7, <2>1, ExtendedIs
    <2> QED BY <2>1, <2>2, <2>3, <2>4
  <1> HIDE DEF shared, static
  <1> QED BY <1>2, <1>4, <1>6, <1>7 DEF a, ModuleOf

-----------------------------------------------------------------------------
(* What visit goes on to                                                   *)

\* What the input says of the overlay, and what resolve made of the declarations.
PoliciesFit ==
  \A n \in Names :
    /\ IsList(policies[n].add_shared) /\ IsList(policies[n].add_static)
    /\ \A b \in Items(policies[n].remove_srcs) : b[1] = "file" => EndsWith(b[2], b[2])
ModulesFit == \A n \in Names : modules[n] # None => ModuleOf(modules[n], n)

\* What a module links, and what it absorbs, are lists.
LEMMA LinksIs ==
  ASSUME PoliciesFit, ModulesFit, NEW n, Resolves(n)
  PROVE  IsList(Links(n)) /\ IsList(AbsorbedDeps(modules[n], policies[n]))
  <1> DEFINE m == modules[n]
             pol == policies[n]
  <1>1. /\ IsList(m.shared) /\ IsList(m.static) /\ IsList(m.whole)
        /\ IsList(pol.add_shared) /\ IsList(pol.add_static)
    BY DEF Resolves, PoliciesFit, ModulesFit, ModuleOf
  <1> HIDE DEF m, pol
  <1>2. IsList(SharedAfter(m, pol)) /\ IsList(StaticAfter(m, pol))
    <2>1. IsList(Without(m.shared, pol.remove_shared)) /\ IsList(Without(m.static, pol.remove_static))
      BY <1>1, WithoutIs
    <2> QED BY <1>1, <2>1, ExtendedIs DEF SharedAfter, StaticAfter
  <1>3. IsList(Whole(m, pol)) /\ IsList(AbsorbedDeps(m, pol))
    BY <1>1, NoItems DEF Whole, AbsorbedDeps
  <1>4. IsList(LinkedDeps(m, pol))
    <2>1. IsList(SharedAfter(m, pol) \o StaticAfter(m, pol))
      BY <1>2, ListsJoined
    <2> QED BY <1>3, <2>1, ListsJoined DEF LinkedDeps
  <1> QED BY <1>3, <1>4 DEF Links, m, pol

\* So is what it links by way of what it absorbs: the loop of dependency_closure
\* over the absorbed dependencies adds a list at every turn.
LEMMA InlinedIs ==
  ASSUME PoliciesFit, ModulesFit, NEW n, Resolves(n)
  PROVE  IsList(Inlined(n))
  <1> DEFINE here == AbsorbedDeps(modules[n], policies[n])
             k == Len(here)
             U == UNION {Items(Links(x)) : x \in {y \in Names : Resolves(y)}}
             S == Seq(U)
             More(r, i) == IF here[i] \in host \/ ~Resolves(here[i]) THEN r ELSE r \o Links(here[i])
             Loop(f) == f = [i \in 0..k |->
                               IF i = 0 THEN <<>>
                               ELSE IF here[i] \in host \/ ~Resolves(here[i]) THEN f[i-1]
                               ELSE f[i-1] \o Links(here[i])]
             out == CHOOSE f : Loop(f)
             step == [i \in 1..k |-> [r \in S |-> More(r, i)]]
  <1>1. IsList(here) /\ k \in Nat /\ <<>> \in S
    BY LinksIs, ListIs, EmptySeq
  <1>2. \A i \in 1..k, r \in S : More(r, i) \in S
    <2> SUFFICES ASSUME NEW i \in 1..k, NEW r \in S, Resolves(here[i]) PROVE r \o Links(here[i]) \in S
      OBVIOUS
    <2> DEFINE x == here[i]
    <2>1. Resolves(x) /\ x \in Names
      BY DEF Resolves
    <2> HIDE DEF x
    <2>2. IsList(Links(x)) /\ Items(Links(x)) \subseteq U
      BY <2>1, LinksIs
    <2> HIDE DEF U
    <2>3. Links(x) \in Seq(U)
      BY <2>2, ListIs
    <2> QED BY <2>3, ConcatProperties DEF x
  <1> HIDE DEF U
  <1>3. step \in [1..k -> [S -> S]]
    <2> HIDE DEF More, S, k
    <2> QED BY <1>2
  <1> HIDE DEF S, here, k
  <1> DEFINE first == <<>>
  <1>4. PICK g \in [0..k -> S] : LoopOf(first, k, step, g)
    <2>1. first \in S /\ k \in Nat /\ step \in [1..k -> [S -> S]]
      BY <1>1, <1>3
    <2> HIDE DEF step, first
    <2> QED BY <2>1, LoopComputes
  <1>5. \A i \in 0..k : i # 0 => step[i][g[i-1]] = More(g[i-1], i)
    <2> HIDE DEF More
    <2> QED BY <1>1
  <1>6. g = [i \in 0..k |-> IF i = 0 THEN <<>> ELSE More(g[i-1], i)]
    <2> HIDE DEF More, step
    <2> QED BY <1>4, <1>5 DEF LoopOf
  <1>7. Loop(g)
    BY <1>6
  <1> HIDE DEF Loop
  <1>8. Loop(out)
    BY <1>7
  <1> HIDE DEF out
  <1>9. \A f : Loop(f) => f[k] \in S
    <2> SUFFICES ASSUME NEW f, Loop(f) PROVE f[k] \in S
      OBVIOUS
    <2>1. \A i \in 0..k : f[i] = IF i = 0 THEN <<>> ELSE More(f[i-1], i)
      <3>1. f = [i \in 0..k |-> IF i = 0 THEN <<>> ELSE More(f[i-1], i)]
        BY DEF Loop, More
      <3> HIDE DEF More
      <3> QED BY <3>1, Zenon
    <2> HIDE DEF More
    <2> DEFINE M == {m \in Nat : m <= k => f[m] \in S}
    <2>2. 0 \in M
      BY <1>1, <2>1
    <2>3. ASSUME NEW m \in Nat, m \in M PROVE m + 1 \in M
      <3> SUFFICES ASSUME m + 1 <= k PROVE f[m+1] \in S
        OBVIOUS
      <3>1. f[m] \in S /\ m + 1 \in 0..k /\ m + 1 \in 1..k /\ m + 1 # 0 /\ (m + 1) - 1 = m
        BY <1>1, <2>3
      <3> HIDE DEF M
      <3> QED BY <1>2, <2>1, <3>1
    <2>4. k \in M
      <3> HIDE DEF M
      <3> QED BY <1>1, <2>2, <2>3, NatSetInduction
    <2> QED BY <1>1, <2>4
  <1>10. IsList(out[k])
    <2>1. out[k] \in Seq(U)
      BY <1>8, <1>9 DEF S
    <2> QED BY <2>1, ListIs
  <1>11. Inlined(n) = out[k]
    BY Zenon DEF Inlined, out, Loop, k, here
  <1> QED BY <1>10, <1>11

\* Hence what visit goes through.
LEMMA VisitsIs ==
  ASSUME PoliciesFit, ModulesFit, NEW n, Emittable(n)
  PROVE  IsList(Visits(n))
  <1>1. Resolves(n)
    BY DEF Emittable
  <1> QED BY <1>1, LinksIs, InlinedIs, ListsJoined DEF Visits

-----------------------------------------------------------------------------
(* The search                                                              *)

\* While the product does not change, neither does what is visited.
LEMMA SameVisits ==
  ASSUME UNCHANGED product
  PROVE  /\ PoliciesFit => PoliciesFit'
         /\ ModulesFit => ModulesFit'
         /\ \A n : Emittable(n)' = Emittable(n)
         /\ \A n : Visits(n)' = Visits(n)
         /\ \A n, m : Reaches(n, m)' = Reaches(n, m)
  <1>1. modules' = modules /\ policies' = policies /\ host' = host
    BY DEF product
  <1>2. PoliciesFit => PoliciesFit'
    BY <1>1 DEF PoliciesFit
  <1>3. ModulesFit => ModulesFit'
    BY <1>1 DEF ModulesFit
  <1>4. \A n : Emittable(n)' = Emittable(n)
    BY <1>1 DEF Emittable, Resolves
  <1>5. \A n : Visits(n)' = Visits(n)
    BY <1>1 DEF Visits, Links, Inlined, Resolves
  <1>6. \A n, m : Reaches(n, m)' = Reaches(n, m)
    BY <1>1 DEF Reaches, Visited, Emittable, Resolves, Visits, Links, Inlined
  <1> QED BY <1>2, <1>3, <1>4, <1>5, <1>6

\* Whatever is visited is reached, and so is whatever that visits.
LEMMA VisitedIsReached ==
  ASSUME NEW t, NEW n \in Visited(t)
  PROVE  Reaches(t, n) /\ \A l : Reaches(l, t) => Reaches(l, n)
  BY DEF Reaches

\* The names that the search has come to, and those of a stack of calls.
Seen == {n \in Names : state[n] # "new"}
NamesOn(st) == {st[k].name : k \in DOMAIN st}

\* A call has visited, or has yet to visit, all that its module visits.
CallFits(f, seen) ==
  /\ {"name", "todo"} \subseteq DOMAIN f
  /\ Emittable(f.name) /\ IsList(f.todo) /\ Items(f.todo) \subseteq Items(Visits(f.name))
  /\ \A d \in Items(Visits(f.name)) : Emittable(d) => d \in Items(f.todo) \/ d \in seen
Calling(st, seen) == IsList(st) /\ \A k \in DOMAIN st : CallFits(st[k], seen)

\* An outer call leads to every call inside it.
Leading(st) == \A k, l \in DOMAIN st : k < l => Reaches(st[l].name, st[k].name)

\* What is done is in the order.
States ==
  /\ state \in [Names -> {"new", "visiting", "done"}]
  /\ \A n \in Names : state[n] = "done" => n \in Items(order)

\* What is on the way is on the stack.
OnTheWay(st) == \A n \in Names : state[n] = "visiting" => n \in NamesOn(st)

\* What is in the order came after what it visits, or is in a circle with it.
InPlace(i) ==
  /\ Emittable(order[i])
  /\ \A d \in Items(Visits(order[i])) :
       Emittable(d) => (\E j \in 1..i-1 : order[j] = d) \/ Reaches(d, order[i])
Ordered == IsList(order) /\ \A i \in DOMAIN order : InPlace(i)

\* The invariant of the search.
Walking ==
  /\ IsList(pending) /\ States /\ Ordered
  /\ Calling(stack, Seen) /\ Leading(stack) /\ OnTheWay(stack)

\* While the product does not change, what fits a call still does.
LEMMA SameCalls ==
  ASSUME UNCHANGED product
  PROVE  /\ Calling(stack', Seen') => Calling(stack, Seen)'
         /\ Leading(stack') => Leading(stack)'
  <1>1. Calling(stack', Seen') => Calling(stack, Seen)'
    <2>1. \A n : Emittable(n)' = Emittable(n) /\ Visits(n)' = Visits(n)
      BY SameVisits
    <2> QED BY <2>1 DEF Calling, CallFits
  <1>2. Leading(stack') => Leading(stack)'
    <2>1. \A n, m : Reaches(n, m)' = Reaches(n, m)
      BY SameVisits
    <2> QED BY <2>1 DEF Leading
  <1> QED BY <1>1, <1>2

\* Nor does what is asked of a place in the order.
LEMMA PlaceTaken ==
  ASSUME UNCHANGED product, NEW i, NEW n, order'[i] = n, Emittable(n),
         \A d \in Items(Visits(n)) :
           Emittable(d) => (\E j \in 1..i-1 : order'[j] = d) \/ Reaches(d, n)
  PROVE  InPlace(i)'
  <1>1. \A m : Emittable(m)' = Emittable(m) /\ Visits(m)' = Visits(m)
    BY SameVisits
  <1>2. \A d : Reaches(d, n)' = Reaches(d, n)
    BY SameVisits
  <1> QED BY <1>1, <1>2 DEF InPlace

\* A call on top of a stack.
OnTop(f, below, st) == st = <<f>> \o below

\* Its calls are that one and, one further down, those below it.
LEMMA CallPushed ==
  ASSUME NEW below, IsList(below), NEW f, NEW st, OnTop(f, below, st)
  PROVE  /\ IsList(st) /\ 1 \in DOMAIN st /\ st[1] = f
         /\ \A k \in DOMAIN st : k # 1 => k - 1 \in DOMAIN below /\ st[k] = below[k-1]
         /\ \A k \in DOMAIN below : k + 1 \in DOMAIN st /\ st[k+1] = below[k]
         /\ DOMAIN st \subseteq Nat /\ DOMAIN below \subseteq Nat
  <1> DEFINE one == <<f>>
  <1>1. IsList(one) /\ Len(one) = 1 /\ one[1] = f /\ st = one \o below
    BY OneItem DEF OnTop
  <1> HIDE DEF one
  <1>2. /\ IsList(st) /\ Len(st) = 1 + Len(below) /\ st[1] = f
        /\ \A i \in 1..Len(below) : st[1 + i] = below[i]
    <2>1. /\ IsList(st) /\ Len(st) = Len(one) + Len(below)
          /\ \A i \in 1..Len(one) : st[i] = one[i]
          /\ \A i \in 1..Len(below) : st[Len(one) + i] = below[i]
      <3>1. IsList(one)
        BY <1>1
      <3>2. IsList(one \o below) /\ Len(one \o below) = Len(one) + Len(below)
        BY <3>1, ListsJoined
      <3>3. \A i \in 1..Len(one) : (one \o below)[i] = one[i]
        BY <3>1, ListsJoined
      <3>4. \A i \in 1..Len(below) : (one \o below)[Len(one) + i] = below[i]
        BY <3>1, ListsJoined
      <3> QED BY <1>1, <3>2, <3>3, <3>4
    <2>2. 1 \in 1..Len(one)
      BY <1>1
    <2> QED BY <1>1, <2>1, <2>2
  <1>3. Len(below) \in Nat /\ DOMAIN below = 1..Len(below) /\ DOMAIN st = 1..Len(below) + 1
    BY <1>2, ListIs
  <1>4. ASSUME NEW k \in DOMAIN st, k # 1 PROVE k - 1 \in DOMAIN below /\ st[k] = below[k-1]
    <2>1. k - 1 \in 1..Len(below) /\ 1 + (k - 1) = k
      BY <1>3, <1>4
    <2> QED BY <1>2, <1>3, <2>1
  <1>5. ASSUME NEW k \in DOMAIN below PROVE k + 1 \in DOMAIN st /\ st[k+1] = below[k]
    <2>1. k + 1 \in 1..Len(below) + 1 /\ 1 + k = k + 1
      BY <1>3
    <2> QED BY <1>2, <1>3, <2>1
  <1>6. 1 \in DOMAIN st
    BY <1>3
  <1> QED BY <1>2, <1>3, <1>4, <1>5, <1>6

\* The stack below the innermost call.
LEMMA CallPopped ==
  ASSUME NEW st, IsList(st), st # <<>>
  PROVE  /\ IsList(Tail(st)) /\ 1 \in DOMAIN st
         /\ \A k \in DOMAIN Tail(st) : k + 1 \in DOMAIN st /\ Tail(st)[k] = st[k+1]
         /\ \A k \in DOMAIN st : k # 1 => k - 1 \in DOMAIN Tail(st) /\ Tail(st)[k-1] = st[k]
         /\ DOMAIN st \subseteq Nat /\ DOMAIN Tail(st) \subseteq Nat
  <1>1. /\ IsList(Tail(st)) /\ Len(st) >= 1 /\ Len(Tail(st)) = Len(st) - 1
        /\ \A i \in 1..Len(st) - 1 : Tail(st)[i] = st[i + 1]
    BY ListRest
  <1>2. Len(st) \in Nat /\ DOMAIN st = 1..Len(st) /\ DOMAIN Tail(st) = 1..Len(st) - 1
    BY <1>1, ListIs
  <1> DEFINE t == Tail(st)
  <1> HIDE DEF t
  <1>3. ASSUME NEW k \in DOMAIN st, k # 1 PROVE k - 1 \in DOMAIN Tail(st) /\ Tail(st)[k-1] = st[k]
    <2>1. k - 1 \in 1..Len(st) - 1 /\ (k - 1) + 1 = k
      BY <1>2, <1>3
    <2> QED BY <1>1, <1>2, <2>1
  <1>4. ASSUME NEW k \in DOMAIN Tail(st) PROVE k + 1 \in DOMAIN st /\ Tail(st)[k] = st[k+1]
    <2>1. k \in 1..Len(st) - 1 /\ k + 1 \in 1..Len(st)
      BY <1>2
    <2> QED BY <1>1, <1>2, <2>1
  <1>5. 1 \in DOMAIN st
    BY <1>1, <1>2
  <1> QED BY <1>1, <1>2, <1>3, <1>4, <1>5

\* visit(n) is entered: n is on the way, and its call is on top.
LEMMA EnterKeeps ==
  ASSUME PoliciesFit, ModulesFit, UNCHANGED product, States, Ordered,
         NEW n, NEW below, Enter(n, below),
         Calling(below, Seen \union {n}), Leading(below), OnTheWay(below),
         below # <<>> => n \in Visited(below[1].name)
  PROVE  States' /\ Ordered' /\ Calling(stack', Seen') /\ Leading(stack') /\ OnTheWay(stack)'
  <1> DEFINE f == [name |-> n, todo |-> Visits(n)]
  <1>1. /\ Emittable(n) /\ n \in Names /\ state[n] = "new" /\ order' = order
        /\ state' = [state EXCEPT ![n] = "visiting"] /\ stack' = <<f>> \o below
    BY DEF Enter, Emittable, Resolves
  <1>2. f.name = n /\ f.todo = Visits(n) /\ {"name", "todo"} \subseteq DOMAIN f
    OBVIOUS
  <1> HIDE DEF f
  <1>3. /\ IsList(stack') /\ 1 \in DOMAIN stack' /\ stack'[1] = f
        /\ \A k \in DOMAIN stack' : k # 1 => k - 1 \in DOMAIN below /\ stack'[k] = below[k-1]
        /\ \A k \in DOMAIN below : k + 1 \in DOMAIN stack' /\ stack'[k+1] = below[k]
        /\ DOMAIN stack' \subseteq Nat /\ DOMAIN below \subseteq Nat
    <2>1. IsList(below)
      BY DEF Calling
    <2>2. stack' = <<f>> \o below
      BY <1>1
    <2>3. OnTop(f, below, stack')
      BY <2>2 DEF OnTop
    <2> QED BY <2>1, <2>3, CallPushed
  <1>4. /\ state' \in [Names -> {"new", "visiting", "done"}] /\ state'[n] = "visiting"
        /\ \A x \in Names : x # n => state'[x] = state[x]
    BY <1>1 DEF States
  <1>5. States'
    BY <1>1, <1>4 DEF States
  <1>6. Ordered'
    BY <1>1, SameVisits DEF Ordered, InPlace
  <1>7. Seen' = Seen \union {n}
    BY <1>1, <1>4 DEF Seen
  <1>8. Calling(stack', Seen')
    <2>1. CallFits(f, Seen')
      <3>1. IsList(Visits(n))
        BY <1>1, VisitsIs
      <3> QED BY <1>1, <1>2, <3>1 DEF CallFits
    <2>2. \A k \in DOMAIN below : CallFits(below[k], Seen')
      BY <1>7 DEF Calling
    <2> QED BY <1>3, <2>1, <2>2 DEF Calling
  <1>9. Leading(stack')
    <2> SUFFICES ASSUME NEW k \in DOMAIN stack', NEW l \in DOMAIN stack', k < l
                 PROVE  Reaches(stack'[l].name, stack'[k].name)
      BY DEF Leading
    <2>1. k \in Nat /\ l \in Nat /\ 1 \in Nat
      BY <1>3
    <2>2. l # 1 /\ (k # 1 => k - 1 < l - 1)
      <3>1. k # 0
        <4> SUFFICES ASSUME k = 0 PROVE FALSE
          OBVIOUS
        <4>1. IsList(stack') => DOMAIN stack' = 1..Len(stack') /\ Len(stack') \in Nat
          BY ListIs
        <4>2. 0 \in 1..Len(stack') /\ Len(stack') \in Nat
          BY <1>3, <4>1
        <4> QED BY <4>2
      <3> QED BY <2>1, <3>1
    <2>3. l - 1 \in DOMAIN below /\ stack'[l] = below[l-1]
      BY <1>3, <2>2
    <2>4. CASE k # 1
      <3>1. k - 1 \in DOMAIN below /\ stack'[k] = below[k-1]
        BY <1>3, <2>4
      <3> QED BY <2>2, <2>3, <2>4, <3>1 DEF Leading
    <2>5. CASE k = 1
      <3> DEFINE p == l - 1
      <3>1. p \in DOMAIN below /\ stack'[l] = below[p] /\ stack'[k] = f /\ 1 \in DOMAIN below /\ below # <<>>
        <4>1. IsList(below) => DOMAIN below = 1..Len(below) /\ Len(below) \in Nat
          BY ListIs
        <4>2. DOMAIN below = 1..Len(below) /\ Len(below) \in Nat
          BY <4>1 DEF Calling
        <4>3. 1 \in DOMAIN below
          BY <2>3, <4>2
        <4>4. below # <<>>
          BY <4>2, <4>3, NoItems
        <4> QED BY <1>3, <2>3, <2>5, <4>3, <4>4
      <3> HIDE DEF p
      <3>2. n \in Visited(below[1].name)
        BY <3>1
      <3>3. CASE p = 1
        BY <1>2, <3>1, <3>2, <3>3, VisitedIsReached
      <3>4. CASE p # 1
        <4>1. 1 < p
          <5>1. p \in Nat /\ (IsList(below) => DOMAIN below = 1..Len(below) /\ Len(below) \in Nat)
            BY <1>3, <3>1, ListIs
          <5>2. p \in 1..Len(below) /\ Len(below) \in Nat
            BY <3>1, <5>1 DEF Calling
          <5> QED BY <3>4, <5>2
        <4>2. Reaches(below[p].name, below[1].name)
          BY <3>1, <4>1 DEF Leading
        <4> QED BY <1>2, <3>1, <3>2, <4>2, VisitedIsReached
      <3> QED BY <3>3, <3>4
    <2> QED BY <2>4, <2>5
  <1>10. OnTheWay(stack)'
    <2> SUFFICES ASSUME NEW x \in Names, state'[x] = "visiting" PROVE x \in NamesOn(stack')
      BY DEF OnTheWay, NamesOn
    <2>1. CASE x = n
      BY <1>2, <1>3, <2>1 DEF NamesOn
    <2>2. CASE x # n
      <3>1. x \in NamesOn(below)
        BY <1>4, <2>2 DEF OnTheWay
      <3>2. PICK k \in DOMAIN below : x = below[k].name
        BY <3>1 DEF NamesOn
      <3>3. k + 1 \in DOMAIN stack' /\ stack'[k+1] = below[k]
        BY <1>3
      <3> QED BY <3>2, <3>3 DEF NamesOn
    <2> QED BY <2>1, <2>2
  <1> QED BY <1>5, <1>6, <1>8, <1>9, <1>10

\* visit(n) returns at once.
LEMMA PassKeeps ==
  ASSUME UNCHANGED product, States, Ordered, NEW n, NEW below, Pass(n, below),
         Calling(below, Seen \union {n}), Leading(below), OnTheWay(below)
  PROVE  States' /\ Ordered' /\ Calling(stack', Seen') /\ Leading(stack') /\ OnTheWay(stack)'
  <1>1. state' = state /\ order' = order /\ stack' = below /\ (Emittable(n) => state[n] # "new")
    BY DEF Pass
  <1>2. States' /\ OnTheWay(stack)'
    BY <1>1 DEF States, OnTheWay, NamesOn
  <1>3. Ordered'
    BY <1>1, SameVisits DEF Ordered, InPlace
  <1>4. Seen' = Seen
    BY <1>1 DEF Seen
  <1>5. ASSUME NEW f, CallFits(f, Seen \union {n}) PROVE CallFits(f, Seen)
    <2>1. Emittable(n) => n \in Seen
      BY <1>1 DEF Seen, Emittable, Resolves
    <2> QED BY <1>5, <2>1 DEF CallFits
  <1>6. Calling(stack', Seen') /\ Leading(stack')
    BY <1>1, <1>4, <1>5 DEF Calling
  <1> QED BY <1>2, <1>3, <1>6

\* The next root is visited.
LEMMA RootKeeps ==
  ASSUME PoliciesFit, ModulesFit, Walking, VisitRoot
  PROVE  Walking'
  <1> DEFINE n == Head(pending)
             none == <<>>
  <1>1. /\ UNCHANGED product /\ stack = none /\ pending # <<>> /\ pending' = Tail(pending)
        /\ Enter(n, none) \/ Pass(n, none)
    BY DEF VisitRoot
  <1>2. /\ IsList(pending) /\ States /\ Ordered
        /\ Calling(stack, Seen) /\ Leading(stack) /\ OnTheWay(stack)
    BY DEF Walking
  <1>3. IsList(pending)'
    BY <1>1, <1>2, ListRest
  <1>4. IsList(none) /\ DOMAIN none = {} /\ none = <<>>
    BY NoItems
  <1> HIDE DEF n, none
  <1>5. Calling(none, Seen \union {n}) /\ Leading(none) /\ OnTheWay(none)
    BY <1>1, <1>2, <1>4 DEF Calling, Leading
  <1>6. States' /\ Ordered' /\ Calling(stack', Seen') /\ Leading(stack') /\ OnTheWay(stack)'
    <2>1. CASE Enter(n, none)
      BY <1>1, <1>2, <1>4, <1>5, <2>1, EnterKeeps
    <2>2. CASE Pass(n, none)
      BY <1>1, <1>2, <1>5, <2>2, PassKeeps
    <2> QED BY <1>1, <2>1, <2>2
  <1>7. Calling(stack, Seen)' /\ Leading(stack)'
    BY <1>1, <1>6, SameCalls
  <1> QED BY <1>3, <1>6, <1>7 DEF Walking

\* The innermost call goes on to the next name it has to visit.
LEMMA NextKeeps ==
  ASSUME PoliciesFit, ModulesFit, Walking, VisitNext
  PROVE  Walking'
  <1> DEFINE top == stack[1]
             n == Head(top.todo)
             moved == [top EXCEPT !.todo = Tail(@)]
             below == Rest
  <1>1. /\ UNCHANGED product /\ stack # <<>> /\ top.todo # <<>> /\ pending' = pending
        /\ Enter(n, below) \/ Pass(n, below)
    BY DEF VisitNext
  <1>2. /\ IsList(pending) /\ States /\ Ordered /\ IsList(stack)
        /\ Calling(stack, Seen) /\ Leading(stack) /\ OnTheWay(stack)
    BY DEF Walking, Calling
  <1>3. /\ IsList(Tail(stack)) /\ 1 \in DOMAIN stack
        /\ \A k \in DOMAIN Tail(stack) : k + 1 \in DOMAIN stack /\ Tail(stack)[k] = stack[k+1]
        /\ \A k \in DOMAIN stack : k # 1 => k - 1 \in DOMAIN Tail(stack) /\ Tail(stack)[k-1] = stack[k]
        /\ DOMAIN stack \subseteq Nat
    BY <1>1, <1>2, CallPopped
  <1>4. CallFits(top, Seen)
    BY <1>2, <1>3 DEF Calling
  <1>5. moved.name = top.name /\ moved.todo = Tail(top.todo) /\ {"name", "todo"} \subseteq DOMAIN moved
    <2>1. {"name", "todo"} \subseteq DOMAIN top
      BY <1>4 DEF CallFits
    <2> HIDE DEF top
    <2> QED BY <2>1
  <1>6. OnTop(moved, Tail(stack), below)
    BY DEF OnTop, Rest
  <1> HIDE DEF top, n, moved, below
  <1>7. /\ IsList(below) /\ 1 \in DOMAIN below /\ below[1] = moved
        /\ \A k \in DOMAIN below : k # 1 => k - 1 \in DOMAIN Tail(stack) /\ below[k] = Tail(stack)[k-1]
        /\ \A k \in DOMAIN Tail(stack) : k + 1 \in DOMAIN below /\ below[k+1] = Tail(stack)[k]
        /\ DOMAIN below \subseteq Nat
    <2> DEFINE rest == Tail(stack)
    <2>1. IsList(rest) /\ OnTop(moved, rest, below)
      BY <1>3, <1>6
    <2> HIDE DEF rest
    <2>2. /\ IsList(below) /\ 1 \in DOMAIN below /\ below[1] = moved
          /\ \A k \in DOMAIN below : k # 1 => k - 1 \in DOMAIN rest /\ below[k] = rest[k-1]
          /\ \A k \in DOMAIN rest : k + 1 \in DOMAIN below /\ below[k+1] = rest[k]
          /\ DOMAIN below \subseteq Nat
      BY <2>1, CallPushed
    <2> QED BY <2>2 DEF rest
  <1>8. ASSUME NEW k \in DOMAIN below, k # 1 PROVE k \in DOMAIN stack /\ below[k] = stack[k]
    <2> DEFINE j == k - 1
    <2>1. j \in DOMAIN Tail(stack) /\ below[k] = Tail(stack)[j] /\ j + 1 = k
      BY <1>7, <1>8
    <2> HIDE DEF j
    <2>2. j + 1 \in DOMAIN stack /\ Tail(stack)[j] = stack[j+1]
      BY <1>3, <2>1
    <2> QED BY <2>1, <2>2
  <1>9. ASSUME NEW k \in DOMAIN stack, k # 1 PROVE k \in DOMAIN below
    <2> DEFINE j == k - 1
    <2>1. j \in DOMAIN Tail(stack) /\ j + 1 = k
      BY <1>3, <1>9
    <2> HIDE DEF j
    <2> QED BY <1>7, <2>1
  <1>10. \A k \in DOMAIN below : k \in DOMAIN stack /\ below[k].name = stack[k].name
    BY <1>3, <1>5, <1>7, <1>8 DEF top
  <1>11. IsList(top.todo) /\ IsList(Tail(top.todo)) /\ Items(top.todo) = {n} \union Items(Tail(top.todo))
    <2>1. IsList(top.todo)
      BY <1>4 DEF CallFits
    <2> DEFINE s == top.todo
    <2>2. IsList(s) /\ s # <<>>
      BY <1>1, <2>1
    <2> HIDE DEF s
    <2>3. IsList(Tail(s)) /\ Items(s) = {Head(s)} \union Items(Tail(s))
      BY <2>2, ListRest
    <2> QED BY <2>2, <2>3 DEF s, n
  <1>12. Calling(below, Seen \union {n})
    <2>1. CallFits(moved, Seen \union {n})
      BY <1>4, <1>5, <1>11 DEF CallFits
    <2>2. ASSUME NEW k \in DOMAIN below, k # 1 PROVE CallFits(below[k], Seen \union {n})
      <3>1. CallFits(stack[k], Seen) /\ below[k] = stack[k]
        BY <1>2, <1>8, <2>2 DEF Calling
      <3> QED BY <3>1 DEF CallFits
    <2> QED BY <1>7, <2>1, <2>2 DEF Calling
  <1>13. Leading(below)
    BY <1>2, <1>10 DEF Leading
  <1>14. OnTheWay(below)
    <2>1. NamesOn(stack) \subseteq NamesOn(below)
      <3> SUFFICES ASSUME NEW k \in DOMAIN stack PROVE stack[k].name \in NamesOn(below)
        BY DEF NamesOn
      <3>1. k \in DOMAIN below
        BY <1>7, <1>9
      <3> QED BY <1>10, <3>1 DEF NamesOn
    <2> QED BY <1>2, <2>1 DEF OnTheWay
  <1>15. States' /\ Ordered' /\ Calling(stack', Seen') /\ Leading(stack') /\ OnTheWay(stack)'
    <2>1. CASE Enter(n, below)
      <3>1. n \in Visited(below[1].name)
        <4>1. n \in Names
          BY <2>1 DEF Enter, Emittable, Resolves
        <4>2. Emittable(top.name) /\ n \in Items(Visits(top.name))
          BY <1>4, <1>11 DEF CallFits
        <4>3. n \in Visited(top.name)
          BY <4>1, <4>2 DEF Visited
        <4> QED BY <1>5, <1>7, <4>3
      <3> QED BY <1>1, <1>2, <1>12, <1>13, <1>14, <2>1, <3>1, EnterKeeps
    <2>2. CASE Pass(n, below)
      BY <1>1, <1>2, <1>12, <1>13, <1>14, <2>2, PassKeeps
    <2> QED BY <1>1, <2>1, <2>2
  <1>16. Calling(stack, Seen)' /\ Leading(stack)'
    BY <1>1, <1>15, SameCalls
  <1> QED BY <1>1, <1>2, <1>15, <1>16 DEF Walking

\* The innermost call returns: its module goes to the end of the order.
LEMMA LeaveKeeps ==
  ASSUME PoliciesFit, ModulesFit, Walking, Leave
  PROVE  Walking'
  <1> DEFINE top == stack[1]
             n == top.name
             rest == Tail(stack)
  <1>1. /\ UNCHANGED product /\ stack # <<>> /\ top.todo = <<>> /\ pending' = pending
        /\ state' = [state EXCEPT ![n] = "done"] /\ order' = Append(order, n) /\ stack' = rest
    BY DEF Leave
  <1>2. /\ IsList(pending) /\ States /\ Ordered /\ IsList(stack) /\ IsList(order)
        /\ Calling(stack, Seen) /\ Leading(stack) /\ OnTheWay(stack)
    BY DEF Walking, Calling, Ordered
  <1>3. /\ IsList(rest) /\ 1 \in DOMAIN stack
        /\ \A k \in DOMAIN rest : k + 1 \in DOMAIN stack /\ rest[k] = stack[k+1]
        /\ \A k \in DOMAIN stack : k # 1 => k - 1 \in DOMAIN rest /\ rest[k-1] = stack[k]
        /\ DOMAIN stack \subseteq Nat /\ DOMAIN rest \subseteq Nat
    BY <1>1, <1>2, CallPopped
  <1>4. CallFits(top, Seen)
    BY <1>2, <1>3 DEF Calling
  <1>5. Emittable(n) /\ n \in Names /\ \A d \in Items(Visits(n)) : Emittable(d) => d \in Seen
    BY <1>1, <1>4, NoItems DEF CallFits, Emittable, Resolves
  <1>6. Len(order) \in Nat /\ DOMAIN order = 1..Len(order)
    BY <1>2, ListIs
  <1>7. /\ IsList(order') /\ Items(order') = Items(order) \union {n}
        /\ Len(order') = Len(order) + 1 /\ order'[Len(order) + 1] = n
        /\ \A i \in 1..Len(order) : order'[i] = order[i]
    BY <1>1, <1>2, ListAppended
  <1>8. DOMAIN order' = 1..Len(order) + 1
    <2>1. IsList(order') => DOMAIN order' = 1..Len(order')
      BY ListIs
    <2> QED BY <1>7, <2>1
  <1> HIDE DEF n, top, rest
  <1>9. /\ state' \in [Names -> {"new", "visiting", "done"}] /\ state'[n] = "done"
        /\ \A x \in Names : x # n => state'[x] = state[x]
    BY <1>1, <1>2, <1>5 DEF States
  <1>10. States'
    BY <1>2, <1>7, <1>9 DEF States
  <1>11. Seen \subseteq Seen'
    BY <1>9 DEF Seen
  <1>12. Calling(rest, Seen')
    <2> SUFFICES ASSUME NEW k \in DOMAIN rest PROVE CallFits(rest[k], Seen')
      BY <1>3 DEF Calling
    <2> DEFINE l == k + 1
    <2>1. l \in DOMAIN stack /\ rest[k] = stack[l]
      BY <1>3
    <2> HIDE DEF l
    <2>2. CallFits(stack[l], Seen)
      BY <1>2, <2>1 DEF Calling
    <2> QED BY <1>11, <2>1, <2>2 DEF CallFits
  <1>13. Leading(rest)
    <2> SUFFICES ASSUME NEW k \in DOMAIN rest, NEW l \in DOMAIN rest, k < l
                 PROVE  Reaches(rest[l].name, rest[k].name)
      BY DEF Leading
    <2>1. k + 1 < l + 1
      BY <1>3
    <2>2. /\ k + 1 \in DOMAIN stack /\ rest[k] = stack[k+1]
          /\ l + 1 \in DOMAIN stack /\ rest[l] = stack[l+1]
      BY <1>3
    <2> QED BY <1>2, <2>1, <2>2 DEF Leading
  <1>14. OnTheWay(stack)'
    <2> SUFFICES ASSUME NEW x \in Names, state'[x] = "visiting" PROVE x \in NamesOn(rest)
      BY <1>1 DEF OnTheWay, NamesOn
    <2>1. x # n /\ state[x] = "visiting"
      BY <1>9
    <2>2. PICK k \in DOMAIN stack : x = stack[k].name
      BY <1>2, <2>1 DEF OnTheWay, NamesOn
    <2>3. k # 1
      BY <2>1, <2>2 DEF n, top
    <2>4. k - 1 \in DOMAIN rest /\ rest[k-1] = stack[k]
      BY <1>3, <2>3
    <2> QED BY <2>2, <2>4 DEF NamesOn
  <1>15. ASSUME NEW i \in 1..Len(order) PROVE InPlace(i)'
    <2>1. InPlace(i) /\ order'[i] = order[i]
      BY <1>2, <1>6, <1>7 DEF Ordered
    <2>2. \A j \in 1..i-1 : order'[j] = order[j]
      BY <1>6, <1>7
    <2> QED BY <1>1, <2>1, <2>2, SameVisits DEF InPlace
  <1>16. ASSUME NEW last, last = Len(order) + 1 PROVE InPlace(last)'
    <2>1. ASSUME NEW d \in Items(Visits(n)), Emittable(d)
          PROVE  (\E j \in 1..last-1 : order'[j] = d) \/ Reaches(d, n)
      <3>1. d \in Names /\ (state[d] = "visiting" \/ state[d] = "done")
        BY <1>2, <1>5, <2>1 DEF Seen, States
      <3>2. CASE state[d] = "done"
        <4>1. PICK j \in 1..Len(order) : order[j] = d
          BY <1>2, <1>6, <3>1, <3>2 DEF States, Items
        <4>2. j \in 1..last-1
          BY <1>6, <1>16
        <4> QED BY <1>7, <4>1, <4>2
      <3>3. CASE state[d] = "visiting"
        <4>1. PICK k \in DOMAIN stack : d = stack[k].name
          BY <1>2, <3>1, <3>3 DEF OnTheWay, NamesOn
        <4>2. CASE k = 1
          <5>1. d = n /\ n \in Visited(n)
            BY <1>5, <2>1, <4>1, <4>2 DEF n, top, Visited
          <5> QED BY <5>1, VisitedIsReached
        <4>3. CASE k # 1
          <5>1. 1 < k
            <6>1. IsList(stack) => DOMAIN stack = 1..Len(stack) /\ Len(stack) \in Nat
              BY ListIs
            <6>2. k \in 1..Len(stack) /\ Len(stack) \in Nat
              BY <1>2, <6>1
            <6> QED BY <4>3, <6>2
          <5> QED BY <1>2, <1>3, <4>1, <5>1 DEF Leading, n, top
        <4> QED BY <4>2, <4>3
      <3> QED BY <3>1, <3>2, <3>3
    <2>2. order'[last] = n
      BY <1>7, <1>16
    <2> QED BY <1>1, <1>5, <2>1, <2>2, PlaceTaken
  <1>17. Ordered'
    <2>1. \A i \in DOMAIN order' : i \in 1..Len(order) \/ i = Len(order) + 1
      BY <1>6, <1>8
    <2> QED BY <1>7, <1>15, <1>16, <2>1 DEF Ordered
  <1>18. Calling(stack, Seen)' /\ Leading(stack)'
    <2>1. Calling(stack', Seen') /\ Leading(stack')
      BY <1>1, <1>12, <1>13
    <2> QED BY <1>1, <2>1, SameCalls
  <1> QED BY <1>1, <1>2, <1>10, <1>14, <1>17, <1>18 DEF Walking

-----------------------------------------------------------------------------
(* Declarations                                                            *)

\* Among the first k headings: those of a name, and those of them that count.
Headed(ld, k, n) == {i \in 1..k : ld[i].name = n}
CcHeaded(ld, k, n) == {i \in Headed(ld, k, n) : ld[i].type \in CcTypes}
Counting(ld, k, n) == IF CcHeaded(ld, k, n) # {} THEN CcHeaded(ld, k, n) ELSE Headed(ld, k, n)

\* What is kept of a name is what the last of them declared.
LastCounts(d, ld, C) ==
  \E i \in C : (\A j \in C : j <= i) /\ ld[i].line = d.line /\ ld[i].type = d.type
AgreesOn(ds, ld, k, n) ==
  /\ ds[n] = None <=> Counting(ld, k, n) = {}
  /\ ds[n] # None => ds[n].name = n /\ LastCounts(ds[n], ld, Counting(ld, k, n))
Agrees(ds, ld, k) == \A n \in Names : AgreesOn(ds, ld, k, n)

\* One more declaration.
Heads(h, x) == h.name = x.name /\ h.type = x.type /\ h.line = x.line

\* Keeping or replacing the incumbent agrees with the headings up to this one.
LEMMA DeclareAgrees ==
  ASSUME NEW ds, DOMAIN ds = Names, NEW ld, NEW k \in Nat, Agrees(ds, ld, k),
         NEW x, x # None, Heads(ld[k+1], x)
  PROVE  Agrees(Declare(ds, x), ld, k + 1)
  <1> SUFFICES ASSUME NEW n \in Names PROVE AgreesOn(Declare(ds, x), ld, k + 1, n)
    BY DEF Agrees
  <1> DEFINE H == Headed(ld, k, n)
             C == CcHeaded(ld, k, n)
             H1 == Headed(ld, k + 1, n)
             C1 == CcHeaded(ld, k + 1, n)
             after == Declare(ds, x)
             keeps == ds[x.name] # None /\ KeepsIncumbent(ds[x.name], x)
  <1>1. AgreesOn(ds, ld, k, n)
    BY DEF Agrees
  <1>2. after = IF keeps THEN ds ELSE [ds EXCEPT ![x.name] = x]
    BY DEF Declare
  <1>3. H1 = IF x.name = n THEN H \union {k + 1} ELSE H
    <2>1. 1..k+1 = (1..k) \union {k + 1}
      OBVIOUS
    <2> QED BY <2>1 DEF Headed, Heads
  <1>4. C1 = IF x.name = n /\ x.type \in CcTypes THEN C \union {k + 1} ELSE C
    BY <1>3 DEF CcHeaded, Heads
  <1>5. C \subseteq H /\ H \subseteq 1..k
    BY DEF Headed, CcHeaded
  <1>6. \A i \in H : i <= k + 1 /\ i # k + 1
    BY <1>5
  <1>7. \A i \in H : i \in C <=> ld[i].type \in CcTypes
    BY DEF CcHeaded
  <1>8. Counting(ld, k, n) = IF C # {} THEN C ELSE H
    BY DEF Counting
  <1>9. Counting(ld, k + 1, n) = IF C1 # {} THEN C1 ELSE H1
    BY DEF Counting
  <1> HIDE DEF H, C, H1, C1, after
  <1>10. CASE x.name # n
    <2>1. Counting(ld, k + 1, n) = Counting(ld, k, n)
      BY <1>3, <1>4, <1>8, <1>9, <1>10
    <2>2. after[n] = ds[n]
      BY <1>2, <1>10
    <2> QED BY <1>1, <2>1, <2>2 DEF AgreesOn, after
  <1>11. CASE x.name = n /\ keeps
    <2>1. after = ds /\ ds[n] # None /\ ds[n].type \in CcTypes /\ x.type \notin CcTypes
      BY <1>2, <1>11 DEF KeepsIncumbent
    <2>2. PICK i \in Counting(ld, k, n) : ld[i].type = ds[n].type
      BY <1>1, <2>1 DEF AgreesOn, LastCounts
    <2>3. C # {}
      BY <1>5, <1>7, <1>8, <2>1, <2>2
    <2>4. Counting(ld, k + 1, n) = Counting(ld, k, n)
      BY <1>4, <1>8, <1>9, <2>1, <2>3
    <2> QED BY <1>1, <2>1, <2>4 DEF AgreesOn, after
  <1>12. CASE x.name = n /\ ~keeps
    <2>1. after[n] = x
      BY <1>2, <1>12
    <2>2. k + 1 \in Counting(ld, k + 1, n) /\ \A j \in Counting(ld, k + 1, n) : j <= k + 1
      <3>1. CASE x.type \in CcTypes
        <4>1. C1 = C \union {k + 1}
          BY <1>4, <1>12, <3>1
        <4>2. Counting(ld, k + 1, n) = C \union {k + 1}
          BY <1>9, <4>1
        <4>3. \A j \in C : j <= k + 1
          BY <1>5, <1>6
        <4> QED BY <4>2, <4>3
      <3>2. CASE x.type \notin CcTypes
        <4>1. C = {}
          <5>1. CASE ds[n] = None
            BY <1>1, <1>5, <1>8, <5>1 DEF AgreesOn
          <5>2. CASE ds[n] # None
            <6>1. ds[n].type \notin CcTypes
              BY <1>12, <3>2, <5>2 DEF KeepsIncumbent
            <6>2. PICK i \in Counting(ld, k, n) : ld[i].type = ds[n].type
              BY <1>1, <5>2 DEF AgreesOn, LastCounts
            <6> QED BY <1>5, <1>7, <1>8, <6>1, <6>2
          <5> QED BY <5>1, <5>2
        <4>2. C1 = {} /\ H1 = H \union {k + 1}
          BY <1>3, <1>4, <1>12, <3>2, <4>1
        <4> QED BY <1>6, <1>9, <4>2
      <3> QED BY <3>1, <3>2
    <2>3. LastCounts(x, ld, Counting(ld, k + 1, n))
      BY <2>2 DEF LastCounts, Heads
    <2> QED BY <1>12, <2>1, <2>2, <2>3 DEF AgreesOn, after
  <1> QED BY <1>10, <1>11, <1>12

\* A declaration as the evaluator keeps it has the heading of the one in the file.
LEMMA PlacedHeads ==
  ASSUME NEW file, NEW d, {"name", "type", "line"} \subseteq DOMAIN d
  PROVE  Heads([name |-> d.name, type |-> d.type, line |-> d.line], Placed(file, d))
  <1> DEFINE place == [scope |-> BuildScope(file.assignments), dir |-> file.dir, root |-> file.root]
             p == Placed(file, d)
  <1>1. p = [f \in (DOMAIN place) \union (DOMAIN d) |-> IF f \in DOMAIN place THEN place[f] ELSE d[f]]
    BY DEF Placed
  <1>2. DOMAIN place = {"scope", "dir", "root"}
    OBVIOUS
  <1> HIDE DEF place, p
  <1>3. p.name = d.name /\ p.type = d.type /\ p.line = d.line
    BY <1>1, <1>2
  <1> QED BY <1>3 DEF Heads, p

\* The headings of a file after those of the files before it.
Follow(all, ld, mods) == all = ld \o Headings(mods)
\* They are the next headings, and those before them stay.
LEMMA HeadingsFollow ==
  ASSUME NEW ld, IsList(ld), NEW mods, IsList(mods), NEW all, Follow(all, ld, mods)
  PROVE  /\ IsList(all) /\ Len(all) = Len(ld) + Len(mods)
         /\ \A i \in 1..Len(ld) : all[i] = ld[i]
         /\ \A i \in 1..Len(mods) :
              all[Len(ld) + i] = [name |-> mods[i].name, type |-> mods[i].type, line |-> mods[i].line]
  <1> DEFINE h == Headings(mods)
             n == Len(mods)
  <1>1. n \in Nat /\ DOMAIN mods = 1..n
    BY ListIs
  <1>2. /\ h \in [1..n -> Items(h)]
        /\ \A i \in 1..n : h[i] = [name |-> mods[i].name, type |-> mods[i].type, line |-> mods[i].line]
    BY <1>1 DEF Headings, Items
  <1> HIDE DEF h, n
  <1>3. h \in Seq(Items(h)) /\ Len(h) = n
    <2>1. h \in Seq(Items(h))
      BY <1>1, <1>2, SeqDef
    <2>2. Len(h) \in Nat /\ DOMAIN h = 1..Len(h)
      BY <2>1, LenProperties
    <2>3. DOMAIN h = 1..n
      BY <1>2
    <2>4. ASSUME NEW a \in Nat, NEW b \in Nat, 1..a = 1..b PROVE ~(a < b)
      <3> SUFFICES ASSUME a < b PROVE FALSE
        OBVIOUS
      <3>1. b \in 1..b /\ b \notin 1..a
        OBVIOUS
      <3> QED BY <2>4, <3>1
    <2>5. 1..Len(h) = 1..n
      BY <2>2, <2>3
    <2>6. ~(Len(h) < n) /\ ~(n < Len(h))
      BY <1>1, <2>2, <2>4, <2>5
    <2>7. Len(h) \in Nat
      BY <2>2
    <2>8. Len(h) = n
      BY <1>1, <2>6, <2>7
    <2> QED BY <2>1, <2>8
  <1>4. IsList(h)
    BY <1>3 DEF IsList
  <1>5. IsList(ld \o h) /\ Len(ld \o h) = Len(ld) + n
    BY <1>3, <1>4, ListsJoined
  <1>6. \A i \in 1..Len(ld) : (ld \o h)[i] = ld[i]
    BY <1>4, ListsJoined
  <1>7. \A i \in 1..n : (ld \o h)[Len(ld) + i] = h[i]
    BY <1>3, <1>4, ListsJoined
  <1>8. all = ld \o h
    BY DEF Follow, h
  <1> QED BY <1>2, <1>5, <1>6, <1>7, <1>8 DEF n

\* A file whose declarations the evaluator can keep.
FileFits(file) ==
  /\ IsList(file.modules)
  /\ \A d \in Items(file.modules) : Placed(file, d) # None /\ {"name", "type", "line"} \subseteq DOMAIN d

\* A table of the names.
Table(ds) == ds = [a \in Names |-> ds[a]]

\* Its keys are the names.
LEMMA TableNames == ASSUME NEW ds, Table(ds) PROVE DOMAIN ds = Names
  <1> DEFINE t == [a \in Names |-> ds[a]]
  <1>1. DOMAIN t = Names
    OBVIOUS
  <1>2. ds = t
    BY DEF Table
  <1> HIDE DEF t
  <1> QED BY <1>1, <1>2

\* A declaration leaves it one.
LEMMA TableDeclared == ASSUME NEW ds, Table(ds), NEW x PROVE Table(Declare(ds, x))
  <1>1. DOMAIN ds = Names
    BY TableNames
  <1> DEFINE t == [ds EXCEPT ![x.name] = x]
  <1>2. t = [a \in Names |-> t[a]]
    BY <1>1
  <1>3. Table(t)
    <2> HIDE DEF t
    <2> QED BY <1>2 DEF Table
  <1> QED BY <1>3 DEF Declare

\* add_file goes through the declarations of the file, in order.
LEMMA AddFileAgrees ==
  ASSUME NEW ds, Table(ds), NEW ld, IsList(ld), Agrees(ds, ld, Len(ld)),
         NEW file, FileFits(file), NEW all, Follow(all, ld, file.modules)
  PROVE  Table(AddFile(ds, file)) /\ IsList(all) /\ Agrees(AddFile(ds, file), all, Len(all))
  <1> DEFINE mods == file.modules
             n == Len(mods)
             k == Len(ld)
             x == [i \in 1..n |-> Placed(file, mods[i])]
             T == {ds[a] : a \in Names} \union {x[i] : i \in 1..n}
             S == [Names -> T]
             Loop(g) == g = [i \in 0..n |-> IF i = 0 THEN ds ELSE Declare(g[i-1], Placed(file, mods[i]))]
             out == CHOOSE g : Loop(g)
             step == [i \in 1..n |-> [r \in S |-> Declare(r, x[i])]]
  <1>1. n \in Nat /\ k \in Nat /\ DOMAIN mods = 1..n /\ IsList(mods)
    BY ListIs DEF FileFits
  <1>2. ASSUME NEW i \in 1..n
        PROVE  /\ x[i] = Placed(file, mods[i]) /\ x[i] # None
               /\ Heads([name |-> mods[i].name, type |-> mods[i].type, line |-> mods[i].line], x[i])
    <2>1. x[i] = Placed(file, mods[i])
      OBVIOUS
    <2>2. mods[i] \in Items(mods)
      BY <1>1 DEF Items
    <2>3. Placed(file, mods[i]) # None /\ {"name", "type", "line"} \subseteq DOMAIN mods[i]
      BY <2>2 DEF FileFits
    <2> HIDE DEF x, mods, n
    <2> QED BY <2>1, <2>3, PlacedHeads
  <1>3. /\ IsList(all) /\ Len(all) = k + n
        /\ \A i \in 1..k : all[i] = ld[i]
        /\ \A i \in 1..n :
             all[k + i] = [name |-> mods[i].name, type |-> mods[i].type, line |-> mods[i].line]
    BY <1>1, HeadingsFollow
  <1> HIDE DEF x, mods, n, k
  <1>4. Agrees(ds, all, k)
    <2>1. \A a : Headed(all, k, a) = Headed(ld, k, a)
      BY <1>3 DEF Headed
    <2>2. \A a : CcHeaded(all, k, a) = CcHeaded(ld, k, a)
      <3> SUFFICES ASSUME NEW a PROVE CcHeaded(all, k, a) = CcHeaded(ld, k, a)
        OBVIOUS
      <3>1. Headed(ld, k, a) \subseteq 1..k
        BY DEF Headed
      <3> QED BY <1>3, <2>1, <3>1 DEF CcHeaded
    <2>3. \A a : Counting(all, k, a) = Counting(ld, k, a) /\ Counting(ld, k, a) \subseteq 1..k
      BY <2>1, <2>2 DEF Counting, Headed, CcHeaded
    <2>4. ASSUME NEW a, NEW d, LastCounts(d, ld, Counting(ld, k, a))
          PROVE  LastCounts(d, all, Counting(all, k, a))
      BY <1>3, <2>3, <2>4 DEF LastCounts
    <2>5. Agrees(ds, ld, k)
      BY DEF k
    <2> QED BY <2>3, <2>4, <2>5 DEF Agrees, AgreesOn
  <1>5. ds \in S
    <2> HIDE DEF T
    <2>1. \A a \in Names : ds[a] \in T
      BY DEF T
    <2>2. ds = [a \in Names |-> ds[a]]
      BY DEF Table
    <2> DEFINE t == [a \in Names |-> ds[a]]
    <2>3. t \in [Names -> T]
      BY <2>1
    <2> HIDE DEF t
    <2> QED BY <2>2, <2>3 DEF t
  <1>6. \A i \in 1..n, r \in S : Declare(r, x[i]) \in S
    <2> SUFFICES ASSUME NEW i \in 1..n, NEW r \in S PROVE Declare(r, x[i]) \in S
      OBVIOUS
    <2>1. x[i] \in T
      OBVIOUS
    <2> HIDE DEF T
    <2> QED BY <2>1 DEF Declare
  <1>7. step \in [1..n -> [S -> S]]
    <2> HIDE DEF S
    <2> QED BY <1>6
  <1> HIDE DEF S
  <1>8. PICK g \in [0..n -> S] : LoopOf(ds, n, step, g)
    <2>1. ds \in S /\ n \in Nat /\ step \in [1..n -> [S -> S]]
      BY <1>1, <1>5, <1>7
    <2> HIDE DEF step, T, Loop, out
    <2> QED BY <2>1, LoopComputes
  <1>9. \A i \in 0..n : i # 0 => step[i][g[i-1]] = Declare(g[i-1], x[i]) /\ x[i] = Placed(file, mods[i])
    <2>1. \A i \in 1..n, r \in S : step[i][r] = Declare(r, x[i])
      OBVIOUS
    <2>2. \A i \in 0..n : i # 0 => i \in 1..n /\ i - 1 \in 0..n
      BY <1>1
    <2> HIDE DEF step
    <2> QED BY <1>2, <2>1, <2>2
  <1>10. g = [i \in 0..n |-> IF i = 0 THEN ds ELSE Declare(g[i-1], Placed(file, mods[i]))]
    <2> HIDE DEF step
    <2> QED BY <1>8, <1>9 DEF LoopOf
  <1>11. Loop(g)
    BY <1>10
  <1> HIDE DEF Loop
  <1>12. Loop(out)
    BY <1>11
  <1> HIDE DEF out
  <1>13. \A i \in 0..n : out[i] = IF i = 0 THEN ds ELSE Declare(out[i-1], Placed(file, mods[i]))
    BY <1>12, Zenon DEF Loop
  <1> DEFINE M == {m \in Nat : m <= n => Table(out[m]) /\ Agrees(out[m], all, k + m)}
  <1>14. 0 \in M
    <2>1. out[0] = ds /\ k + 0 = k
      BY <1>1, <1>13
    <2> QED BY <1>4, <2>1
  <1>15. ASSUME NEW m \in Nat, m \in M PROVE m + 1 \in M
    <2> SUFFICES ASSUME m + 1 <= n PROVE Table(out[m+1]) /\ Agrees(out[m+1], all, k + (m + 1))
      OBVIOUS
    <2> DEFINE i == m + 1
    <2>1. i \in 1..n /\ i \in 0..n /\ i # 0 /\ i - 1 = m /\ k + m \in Nat /\ (k + m) + 1 = k + i /\ m <= n
      BY <1>1
    <2>2. Table(out[m]) /\ Agrees(out[m], all, k + m)
      BY <1>15, <2>1, Zenon
    <2> HIDE DEF M, i
    <2>3. out[i] = Declare(out[m], x[i])
      BY <1>2, <1>13, <2>1
    <2>4. x[i] # None /\ Heads(all[(k + m) + 1], x[i])
      BY <1>2, <1>3, <2>1
    <2>5. Table(out[i])
      BY <2>2, <2>3, TableDeclared
    <2>6. Agrees(out[i], all, (k + m) + 1)
      BY <2>1, <2>2, <2>3, <2>4, DeclareAgrees, TableNames
    <2> QED BY <2>1, <2>5, <2>6 DEF i
  <1>16. n \in M
    <2> HIDE DEF M
    <2> QED BY <1>1, <1>14, <1>15, NatSetInduction
  <1>17. AddFile(ds, file) = out[n]
    BY Zenon DEF AddFile, out, Loop, n, mods
  <1> QED BY <1>1, <1>3, <1>16, <1>17

-----------------------------------------------------------------------------
(* Emitted modules                                                         *)

\* None of the sources of an emitted module is one that the overlay removes from it.
KeptOut(e) ==
  LET n == e.name
  IN \A b \in Items(policies[n].remove_srcs), f \in e.sources :
       Len(f) = 3 /\ b = <<"file", f[3]>> => f \in AddedFiles(modules[n], policies[n])

\* _sources filters what it found by the end of the name, last of all.
LEMMA SourcesFiltered ==
  ASSUME NEW ds, NEW ms, NEW pols, NEW glob, NEW m, NEW f \in Sources(ds, ms, pols, glob, m),
         NEW b \in Items(pols[m.name].remove_srcs), b = <<"file", f[3]>>,
         b[1] = "file" => EndsWith(b[2], b[2])
  PROVE  f \in AddedFiles(m, pols[m.name])
  <1>1. b[1] = "file" /\ b[2] = f[3]
    OBVIOUS
  <1>2. EndsWith(f[3], b[2])
    BY <1>1
  <1> QED BY <1>1, <1>2 DEF Sources

\* What emit_module writes of a module.
LEMMA TextKeepsOut ==
  ASSUME PoliciesFit, ModulesFit, NEW n, Emittable(n), NEW glob, NEW cache, NEW e,
         e = EmitModule(decls, modules, policies, glob, n, cache).text
  PROVE  KeptOut(e)
  <1> DEFINE pol == policies[n]
             m == ApplyPolicy(modules[n], pol, glob)
             S == Sources(decls, modules, policies, glob, m)
             G == {<<"gensrc", s>> : s \in GeneratedSources(modules, m, policies[m.name])}
             A == {<<"gensrc", s>> : s \in Items(policies[m.name].gensrcs)}
  <1>1. n \in Names /\ ModuleOf(modules[n], n)
    BY DEF Emittable, Resolves, ModulesFit
  <1>2. m.name = n /\ m.root = modules[n].root /\ m.dir = modules[n].dir
    BY <1>1, PolicyKeeps
  <1>3. e = Described(decls, modules, policies, glob, m, cache).text
    BY DEF EmitModule
  <1> HIDE DEF m
  <1>4. e.name = m.name /\ e.sources = S \union G \union A
    BY <1>3 DEF Described
  <1>5. ASSUME NEW f \in G \union A PROVE Len(f) # 3
    <2>1. PICK s : f = <<"gensrc", s>>
      OBVIOUS
    <2> QED BY <2>1
  <1> HIDE DEF S, G, A
  <1>6. ASSUME NEW b \in Items(policies[n].remove_srcs), NEW f \in e.sources, Len(f) = 3, b = <<"file", f[3]>>
        PROVE  f \in AddedFiles(modules[n], policies[n])
    <2>1. f \in S
      BY <1>4, <1>5, <1>6
    <2>2. b[1] = "file" => EndsWith(b[2], b[2])
      BY <1>1 DEF PoliciesFit
    <2>3. b \in Items(policies[m.name].remove_srcs)
      BY <1>2
    <2>4. f \in AddedFiles(m, policies[m.name])
      BY <1>6, <2>1, <2>2, <2>3, SourcesFiltered DEF S
    <2> QED BY <1>2, <2>4 DEF AddedFiles
  <1>7. e.name = n
    BY <1>2, <1>4
  <1> QED BY <1>6, <1>7 DEF KeptOut

-----------------------------------------------------------------------------
(* The inductive invariant                                                 *)

\* What was read of the tree and of the overlay.
InputFits ==
  /\ PoliciesFit /\ IsList(input.roots) /\ IsList(files)
  /\ \A f \in Items(files) : FileFits(f)

\* What is kept is the last that counts of what was loaded.
Loaded == Table(decls) /\ IsList(loaded) /\ Agrees(decls, loaded, Len(loaded))

\* Nothing is visited or emitted before everything is loaded.
Early == phase = "load" => stack = <<>> /\ order = <<>> /\ emitted = <<>>

\* What was emitted has none of the sources removed from it.
Emitting == IsList(emitted) /\ \A i \in DOMAIN emitted : KeptOut(emitted[i])

\* All of it.
GraphInv == InputFits /\ Loaded /\ Early /\ ModulesFit /\ Walking /\ Emitting

\* Nothing is loaded, visited or emitted at first.
LEMMA GraphInvInit == AuditInit => GraphInv
  <1> SUFFICES ASSUME AuditInit PROVE GraphInv
    OBVIOUS
  <1>1. PICK i \in Inputs :
          /\ input = [f \in DOMAIN InputOf(i) \ {"files", "policies", "host"} |-> InputOf(i)[f]]
          /\ files = InputOf(i).files /\ policies = InputOf(i).policies
    BY DEF AuditInit, Init
  <1>2. ListsIn(InputOf(i))
    BY InputAssumption
  <1>3. InputFits
    <2>1. PoliciesFit
      BY <1>1, <1>2 DEF ListsIn, PoliciesFit
    <2>2. "roots" \in DOMAIN InputOf(i) /\ IsList(InputOf(i).roots) /\ IsList(InputOf(i).files)
      BY <1>2 DEF ListsIn
    <2>3. input.roots = InputOf(i).roots
      BY <1>1, <2>2
    <2>4. \A f \in Items(files) : FileFits(f)
      BY <1>1, <1>2 DEF ListsIn, FileFits
    <2> QED BY <1>1, <2>1, <2>2, <2>3, <2>4 DEF InputFits
  <1>4. /\ loaded = <<>> /\ decls = [n \in Names |-> None] /\ modules = [n \in Names |-> None]
        /\ pending = <<>> /\ stack = <<>> /\ order = <<>> /\ emitted = <<>>
        /\ state = [n \in Names |-> "new"]
    BY DEF AuditInit, Init
  <1> DEFINE none == <<>>
  <1>5. IsList(none) /\ Items(none) = {} /\ Len(none) = 0 /\ DOMAIN none = {}
    BY NoItems
  <1>6. /\ loaded = none /\ pending = none /\ stack = none /\ order = none /\ emitted = none
    BY <1>4
  <1> HIDE DEF none
  <1>7. Loaded
    <2>1. Table(decls)
      BY <1>4 DEF Table
    <2>2. \A n : Counting(loaded, Len(loaded), n) = {}
      BY <1>5, <1>6 DEF Counting, CcHeaded, Headed
    <2>3. \A n \in Names : decls[n] = None
      BY <1>4
    <2> QED BY <1>5, <1>6, <2>1, <2>2, <2>3 DEF Loaded, Agrees, AgreesOn
  <1>8. ModulesFit
    BY <1>4 DEF ModulesFit
  <1>9. Walking
    <2>1. \A n \in Names : state[n] = "new"
      BY <1>4
    <2>2. state \in [Names -> {"new", "visiting", "done"}]
      BY <1>4
    <2> QED BY <1>5, <1>6, <2>1, <2>2 DEF Walking, States, Ordered, Calling, Leading, OnTheWay
  <1>10. Early /\ Emitting
    BY <1>4, <1>5, <1>6 DEF Early, Emitting
  <1> QED BY <1>3, <1>7, <1>8, <1>9, <1>10 DEF GraphInv

-----------------------------------------------------------------------------
(* Every step keeps it                                                     *)

\* What depends on the search or on the emitted modules alone.
LEMMA WalkStays ==
  ASSUME Walking, UNCHANGED <<product, walk>>
  PROVE  Walking'
  BY SameVisits DEF Walking, walk, States, Ordered, InPlace, Calling, CallFits, Leading,
     OnTheWay, NamesOn, Seen

\* What was emitted stays as it was.
LEMMA EmittedStays ==
  ASSUME Emitting, UNCHANGED <<product, emitted>>
  PROVE  Emitting'
  BY DEF Emitting, KeptOut, product

\* add_file: the next file.
LEMMA LoadFileKeeps == GraphInv /\ LoadFile => GraphInv'
  <1> SUFFICES ASSUME GraphInv, LoadFile PROVE GraphInv'
    OBVIOUS
  <1> DEFINE file == Head(files)
  <1>1. /\ files # <<>> /\ files' = Tail(files) /\ UNCHANGED <<input, phase, emitted, product, walk>>
        /\ \/ UNCHANGED <<decls, loaded>>
           \/ decls' = AddFile(decls, file) /\ loaded' = loaded \o Headings(file.modules)
    BY DEF LoadFile
  <1>2. InputFits /\ Loaded /\ Early /\ ModulesFit /\ Walking /\ Emitting
    BY DEF GraphInv
  <1>3. IsList(Tail(files)) /\ Items(files) = {file} \union Items(Tail(files))
    <2>1. IsList(files)
      BY <1>2 DEF InputFits
    <2> QED BY <1>1, <2>1, ListRest
  <1> HIDE DEF file
  <1>4. InputFits'
    BY <1>1, <1>2, <1>3, SameVisits DEF InputFits
  <1>5. Loaded'
    <2>1. CASE UNCHANGED <<decls, loaded>>
      BY <1>2, <2>1 DEF Loaded
    <2>2. CASE decls' = AddFile(decls, file) /\ loaded' = loaded \o Headings(file.modules)
      <3>1. FileFits(file)
        BY <1>2, <1>3 DEF InputFits
      <3>2. Follow(loaded', loaded, file.modules)
        BY <2>2 DEF Follow
      <3>3. Table(decls) /\ IsList(loaded) /\ Agrees(decls, loaded, Len(loaded))
        BY <1>2 DEF Loaded
      <3>4. decls' = AddFile(decls, file)
        BY <2>2
      <3>5. Table(decls') /\ IsList(loaded') /\ Agrees(decls', loaded', Len(loaded'))
        BY <3>1, <3>2, <3>3, <3>4, AddFileAgrees
      <3> QED BY <3>5 DEF Loaded
    <2> QED BY <1>1, <2>1, <2>2
  <1>6. Early'
    BY <1>1, <1>2 DEF Early, walk
  <1>7. ModulesFit' /\ Walking' /\ Emitting'
    BY <1>1, <1>2, SameVisits, WalkStays, EmittedStays
  <1> QED BY <1>4, <1>5, <1>6, <1>7 DEF GraphInv

\* Everything kept is resolved, and the search begins at the roots.
LEMMA StartClosureKeeps == GraphInv /\ StartClosure => GraphInv'
  <1> SUFFICES ASSUME GraphInv, StartClosure PROVE GraphInv'
    OBVIOUS
  <1>1. /\ phase = "load" /\ phase' = "close" /\ pending' = input.roots
        /\ modules' = [n \in Names |-> Resolve(decls, n)]
        /\ UNCHANGED <<input, files, loaded, decls, emitted, policies, host, stack, state, order>>
    BY DEF StartClosure
  <1>2. InputFits /\ Loaded /\ Early /\ ModulesFit /\ Walking /\ Emitting
    BY DEF GraphInv
  <1> DEFINE none == <<>>
  <1>3. IsList(none) /\ Items(none) = {} /\ DOMAIN none = {}
    BY NoItems
  <1>4. stack = none /\ order = none /\ emitted = none
    BY <1>1, <1>2 DEF Early
  <1> HIDE DEF none
  <1>5. InputFits' /\ Loaded' /\ Early'
    BY <1>1, <1>2 DEF InputFits, PoliciesFit, Loaded, Early
  <1>6. ModulesFit'
    <2> SUFFICES ASSUME NEW n \in Names, modules'[n] # None PROVE ModuleOf(modules'[n], n)
      BY DEF ModulesFit
    <2>1. modules'[n] = Resolve(decls, n)
      BY <1>1
    <2>2. decls[n] # None /\ ModuleOf(modules'[n], decls[n].name)
      BY <2>1, ResolvedIs
    <2>3. decls[n].name = n
      BY <1>2, <2>2 DEF Loaded, Agrees, AgreesOn
    <2> QED BY <2>2, <2>3
  <1>7. Walking'
    <2>1. IsList(pending')
      BY <1>1, <1>2 DEF InputFits
    <2>2. States'
      BY <1>1, <1>2 DEF Walking, States
    <2>3. Ordered'
      BY <1>1, <1>3, <1>4 DEF Ordered
    <2>4. Calling(stack, Seen)' /\ Leading(stack)'
      BY <1>1, <1>3, <1>4 DEF Calling, Leading
    <2>5. OnTheWay(stack)'
      BY <1>1, <1>2 DEF Walking, OnTheWay, NamesOn
    <2> QED BY <2>1, <2>2, <2>3, <2>4, <2>5 DEF Walking
  <1>8. Emitting'
    BY <1>1, <1>3, <1>4 DEF Emitting
  <1> QED BY <1>5, <1>6, <1>7, <1>8 DEF GraphInv

\* One step of the search.
LEMMA CloseKeeps == GraphInv /\ Close => GraphInv'
  <1> SUFFICES ASSUME GraphInv, Close PROVE GraphInv'
    OBVIOUS
  <1>1. phase = "close" /\ UNCHANGED graphVars /\ (VisitRoot \/ VisitNext \/ Leave)
    BY DEF Close, ClosureStep
  <1>2. UNCHANGED product
    BY <1>1 DEF VisitRoot, VisitNext, Leave
  <1>3. InputFits /\ Loaded /\ Early /\ ModulesFit /\ Walking /\ Emitting /\ PoliciesFit
    BY DEF GraphInv, InputFits
  <1>4. Walking'
    <2>1. CASE VisitRoot BY <1>3, <2>1, RootKeeps
    <2>2. CASE VisitNext BY <1>3, <2>2, NextKeeps
    <2>3. CASE Leave BY <1>3, <2>3, LeaveKeeps
    <2> QED BY <1>1, <2>1, <2>2, <2>3
  <1>5. InputFits' /\ Loaded' /\ Early'
    BY <1>1, <1>2, <1>3, SameVisits DEF graphVars, InputFits, Loaded, Early
  <1>6. ModulesFit'
    BY <1>2, <1>3, SameVisits
  <1>7. Emitting'
    BY <1>1, <1>2, <1>3, EmittedStays DEF graphVars
  <1> QED BY <1>4, <1>5, <1>6, <1>7 DEF GraphInv

\* Steps that change the phase, or nothing.
LEMMA RestKeeps ==
  ASSUME GraphInv, UNCHANGED <<input, files, loaded, decls, emitted, product, walk>>,
         phase' # "load" \/ phase' = phase
  PROVE  GraphInv'
  <1>1. InputFits /\ Loaded /\ Early /\ ModulesFit /\ Walking /\ Emitting
    BY DEF GraphInv
  <1>2. InputFits' /\ Loaded'
    BY <1>1, SameVisits DEF InputFits, Loaded
  <1>3. Early'
    BY <1>1 DEF Early, walk
  <1>4. ModulesFit' /\ Walking' /\ Emitting'
    BY <1>1, SameVisits, WalkStays, EmittedStays
  <1> QED BY <1>2, <1>3, <1>4 DEF GraphInv

\* A module is described and emitted.
LEMMA EmitNextKeeps == GraphInv /\ EmitNext => GraphInv'
  <1> SUFFICES ASSUME GraphInv, EmitNext PROVE GraphInv'
    OBVIOUS
  <1> DEFINE i == Len(emitted) + 1
             n == order[i]
  <1>1. InputFits /\ Loaded /\ Early /\ ModulesFit /\ Walking /\ Emitting /\ PoliciesFit
    BY DEF GraphInv, InputFits
  <1>2. /\ phase = "emit" /\ phase' = phase /\ Len(emitted) < Len(order)
        /\ UNCHANGED <<input, files, loaded, decls, product, walk>>
    BY DEF EmitNext
  <1>3. PICK cache :
          emitted' = Append(emitted, EmitModule(decls, modules, policies, input.glob, n, cache).text)
    BY DEF EmitNext
  <1>4. IsList(emitted) /\ IsList(order) /\ \A j \in DOMAIN order : InPlace(j)
    BY <1>1 DEF Emitting, Walking, Ordered
  <1>5. Emittable(n)
    <2>1. Len(emitted) \in Nat /\ Len(order) \in Nat /\ DOMAIN order = 1..Len(order)
      BY <1>4, ListIs
    <2>2. i \in DOMAIN order
      BY <1>2, <2>1
    <2> QED BY <1>4, <2>2 DEF InPlace
  <1> HIDE DEF n, i
  <1> DEFINE e == EmitModule(decls, modules, policies, input.glob, n, cache).text
  <1>6. KeptOut(e)
    <2> DEFINE glob == input.glob
    <2>1. e = EmitModule(decls, modules, policies, glob, n, cache).text
      OBVIOUS
    <2> HIDE DEF e, glob
    <2> QED BY <1>1, <1>5, <2>1, TextKeepsOut
  <1>7. emitted' = Append(emitted, e)
    BY <1>3
  <1> HIDE DEF e
  <1>8. Emitting'
    <2> DEFINE k == Len(emitted)
    <2>1. /\ IsList(emitted') /\ Len(emitted') = k + 1 /\ emitted'[k + 1] = e
          /\ \A j \in 1..k : emitted'[j] = emitted[j]
      BY <1>4, <1>7, ListAppended
    <2>2. k \in Nat /\ DOMAIN emitted = 1..k
      BY <1>4, ListIs
    <2>3. DOMAIN emitted' = 1..Len(emitted')
      BY <2>1, ListIs
    <2> HIDE DEF k
    <2>4. \A j \in DOMAIN emitted' : j \in 1..k \/ j = k + 1
      BY <2>1, <2>2, <2>3
    <2>5. \A j \in DOMAIN emitted' : KeptOut(emitted'[j])
      BY <1>1, <1>6, <2>1, <2>2, <2>4 DEF Emitting
    <2> QED BY <1>2, <2>1, <2>5 DEF Emitting, KeptOut, product
  <1>9. InputFits' /\ Loaded' /\ Early'
    BY <1>1, <1>2, SameVisits DEF InputFits, Loaded, Early
  <1>10. ModulesFit' /\ Walking'
    BY <1>1, <1>2, SameVisits, WalkStays
  <1> QED BY <1>8, <1>9, <1>10 DEF GraphInv

\* No other step, and none of the audit, touches the graph.
LEMMA GraphInvNext == GraphInv /\ [AuditNext]_allVars => GraphInv'
  <1> SUFFICES ASSUME GraphInv, [AuditNext]_allVars PROVE GraphInv'
    OBVIOUS
  <1>1. CASE LoadFile BY <1>1, LoadFileKeeps
  <1>2. CASE StartClosure BY <1>2, StartClosureKeeps
  <1>3. CASE Close BY <1>3, CloseKeeps
  <1>4. CASE StartEmission
    <2>1. phase' # "load" /\ UNCHANGED <<input, files, loaded, decls, emitted, product, walk>>
      BY <1>4 DEF StartEmission
    <2> QED BY <2>1, RestKeeps
  <1>5. CASE EmitNext BY <1>5, EmitNextKeeps
  <1>6. CASE Finish
    <2>1. phase' # "load" /\ UNCHANGED <<input, files, loaded, decls, emitted, product, walk>>
      BY <1>6 DEF Finish
    <2> QED BY <2>1, RestKeeps
  <1>7. CASE UNCHANGED vars
    <2>1. phase' = phase /\ UNCHANGED <<input, files, loaded, decls, emitted, product, walk>>
      BY <1>7 DEF vars, graphVars
    <2> QED BY <2>1, RestKeeps
  <1>8. Next \/ UNCHANGED vars
    BY DEF AuditNext, CMake, Audit, Topology, allVars
  <1> QED BY <1>1, <1>2, <1>3, <1>4, <1>5, <1>6, <1>7, <1>8 DEF Next

\* Hence it always holds.
LEMMA GraphInvHolds == AuditSpec => []GraphInv
  BY GraphInvInit, GraphInvNext, PTL DEF AuditSpec

-----------------------------------------------------------------------------

\* Whatever the order of the files and of the declarations in them, the evaluator
\* keeps of each name the last C or C++ declaration, or else the last one (add_file).
THEOREM LastDeclarationCounts == AuditSpec => []CcWins
  <1>1. GraphInv => CcWins
    <2> SUFFICES ASSUME GraphInv, NEW n \in Names
                 PROVE  LET cc == {i \in Declared(n) : loaded[i].type \in CcTypes}
                            counting == IF cc # {} THEN cc ELSE Declared(n)
                        IN /\ decls[n] = None <=> counting = {}
                           /\ decls[n] # None =>
                                \E i \in counting : (\A j \in counting : j <= i)
                                                    /\ loaded[i].line = decls[n].line
      BY DEF CcWins
    <2>1. AgreesOn(decls, loaded, Len(loaded), n) /\ DOMAIN loaded = 1..Len(loaded)
      BY ListIs DEF GraphInv, Loaded, Agrees
    <2>2. Headed(loaded, Len(loaded), n) = Declared(n)
      BY <2>1 DEF Headed, Declared
    <2>3. Counting(loaded, Len(loaded), n)
            = LET cc == {i \in Declared(n) : loaded[i].type \in CcTypes}
              IN IF cc # {} THEN cc ELSE Declared(n)
      BY <2>2 DEF Counting, CcHeaded
    <2> QED BY <2>1, <2>3 DEF AgreesOn, LastCounts
  <1> QED BY <1>1, GraphInvHolds, PTL

\* No file that the overlay removes from a module is compiled into it, wherever it
\* was found, unless the overlay adds it (apply_module_policy, _sources).
THEOREM RemovedSourcesStayOut == AuditSpec => []RemovedStaysOut
  <1>1. GraphInv => RemovedStaysOut
    BY DEF GraphInv, Emitting, KeptOut, RemovedStaysOut
  <1> QED BY <1>1, GraphInvHolds, PTL

\* A module comes after everything it visits, except round a circle
\* (dependency_closure).
THEOREM DependenciesComeFirst == AuditSpec => []DepsFirst
  <1>1. GraphInv => DepsFirst
    BY DEF GraphInv, Walking, Ordered, InPlace, DepsFirst
  <1> QED BY <1>1, GraphInvHolds, PTL

-----------------------------------------------------------------------------
(* The memoised recursion of _exported_includes                            *)

\* What a call may leave; and a table of what each call leaves, in which no name
\* that was seen is forgotten.
Answers == [dirs : SUBSET DirsOf(modules), memo : Memos(modules), seen : SUBSET Names]
Answered(a) ==
  /\ a \in [Calls(modules) -> Answers]
  /\ \A c \in Calls(modules) : c.seen \subseteq a[c].seen

\* The loop over the header libraries, as one that starts from a result, adds to
\* it at every turn and closes with the memo of this call.
Question(n, r) == [name |-> n, memo |-> r.memo, seen |-> r.seen]
Start(m, c) == [dirs |-> ExportedBy(m), memo |-> c.memo, seen |-> c.seen \union {c.name}]
Sum(r, below) == [dirs |-> r.dirs \union below.dirs, memo |-> below.memo, seen |-> below.seen]
Add(m, i, r, a) == IF m.headers[i] \notin Names THEN r ELSE Sum(r, a[Question(m.headers[i], r)])
Gathering(m, c, a, g) ==
  g = [i \in 0..Len(m.headers) |-> IF i = 0 THEN Start(m, c) ELSE Add(m, i, g[i-1], a)]
Closing(c, all) ==
  [dirs |-> all.dirs, memo |-> Remembered(all.memo, c.name, all.dirs), seen |-> all.seen]

\* One turn of it.
LEMMA GatheringTurns ==
  ASSUME NEW m, NEW c, NEW a, NEW g, Gathering(m, c, a, g), NEW i \in 0..Len(m.headers)
  PROVE  g[i] = IF i = 0 THEN Start(m, c) ELSE Add(m, i, g[i-1], a)
  <1> DEFINE V(x, j) == IF j = 0 THEN Start(m, c) ELSE Add(m, j, x[j-1], a)
  <1>1. g = [j \in 0..Len(m.headers) |-> V(g, j)]
    BY Zenon DEF Gathering, V
  <1> HIDE DEF V
  <1>2. g[i] = V(g, i)
    BY <1>1, Zenon
  <1> QED BY <1>2 DEF V

\* It computes one thing.
LEMMA GatheringOnce ==
  ASSUME NEW m, Len(m.headers) \in Nat, NEW c, NEW a,
         NEW g, Gathering(m, c, a, g), NEW h, Gathering(m, c, a, h)
  PROVE  \A i \in 0..Len(m.headers) : g[i] = h[i]
  <1> DEFINE n == Len(m.headers)
             M == {i \in Nat : i <= n => g[i] = h[i]}
  <1>1. 0 \in M
    <2>1. 0 \in 0..n
      OBVIOUS
    <2>2. g[0] = Start(m, c) /\ h[0] = Start(m, c)
      BY <2>1, GatheringTurns
    <2> QED BY <2>2
  <1>2. ASSUME NEW i \in Nat, i \in M PROVE i + 1 \in M
    <2> SUFFICES ASSUME i + 1 <= n PROVE g[i+1] = h[i+1]
      OBVIOUS
    <2>1. i + 1 \in 0..n /\ i + 1 # 0 /\ (i + 1) - 1 = i /\ g[i] = h[i]
      BY <1>2
    <2>2. g[i+1] = Add(m, i + 1, g[i], a) /\ h[i+1] = Add(m, i + 1, h[i], a)
      <3> HIDE DEF M
      <3> QED BY <2>1, GatheringTurns
    <2> QED BY <2>1, <2>2
  <1>3. Nat \subseteq M
    <2> HIDE DEF M
    <2> QED BY <1>1, <1>2, NatSetInduction
  <1> QED BY <1>3

\* It is what Gathered closes.
LEMMA GatheringFound ==
  ASSUME NEW m, Len(m.headers) \in Nat, NEW c, NEW a, NEW g, Gathering(m, c, a, g)
  PROVE  Gathered(m, c, a) = Closing(c, g[Len(m.headers)])
  <1> DEFINE n == Len(m.headers)
             Asked(x, r) ==
               LET below == a[[name |-> x, memo |-> r.memo, seen |-> r.seen]]
               IN [dirs |-> r.dirs \union below.dirs, memo |-> below.memo, seen |-> below.seen]
             Loop(f) == f = [i \in 0..n |->
                 IF i = 0 THEN [dirs |-> ExportedBy(m), memo |-> c.memo, seen |-> c.seen \union {c.name}]
                 ELSE IF m.headers[i] \notin Names THEN f[i-1]
                 ELSE Asked(m.headers[i], f[i-1])]
             out == CHOOSE f : Loop(f)
  <1>1. ASSUME NEW f PROVE Loop(f) <=> Gathering(m, c, a, f)
    BY Zenon DEF Loop, Asked, Gathering, Add, Start, Sum, Question, n
  <1>2. Gathered(m, c, a) = Closing(c, out[n])
    BY Zenon DEF Gathered, Closing, out, Loop, Asked, n
  <1> HIDE DEF Loop
  <1>3. Loop(out)
    BY <1>1
  <1> HIDE DEF out
  <1>4. out[n] = g[n]
    <2>1. Gathering(m, c, a, out)
      BY <1>1, <1>3
    <2>2. n \in 0..n
      OBVIOUS
    <2> QED BY <2>1, <2>2, GatheringOnce
  <1> QED BY <1>2, <1>4

\* What is asked in a turn is a call, and what is left after it an answer again.
LEMMA QuestionIs ==
  ASSUME NEW n \in Names, NEW r \in Answers
  PROVE  /\ Question(n, r) \in Calls(modules)
         /\ Question(n, r).name = n /\ Question(n, r).memo = r.memo /\ Question(n, r).seen = r.seen
  BY DEF Question, Answers, Calls

\* What the loop starts from.
LEMMA StartIs ==
  ASSUME NEW c \in Calls(modules), Resolves(c.name)
  PROVE  /\ Start(modules[c.name], c) \in Answers
         /\ Start(modules[c.name], c).seen = c.seen \union {c.name}
  <1> DEFINE e == ExportedBy(modules[c.name])
  <1>1. e \subseteq DirsOf(modules)
    BY DEF Resolves, DirsOf
  <1>2. c.name \in Names /\ c.memo \in Memos(modules) /\ c.seen \in SUBSET Names
    BY DEF Calls
  <1> HIDE DEF e
  <1> QED BY <1>1, <1>2 DEF Start, Answers, e

\* What a turn makes of it is an answer again, and forgets no name seen.
LEMMA AddIs ==
  ASSUME NEW m, NEW i, NEW r \in Answers, NEW a, Answered(a)
  PROVE  Add(m, i, r, a) \in Answers /\ r.seen \subseteq Add(m, i, r, a).seen
  <1>1. CASE m.headers[i] \notin Names
    BY <1>1 DEF Add
  <1>2. CASE m.headers[i] \in Names
    <2> DEFINE q == Question(m.headers[i], r)
               below == a[q]
    <2>1. q \in Calls(modules) /\ q.seen = r.seen
      BY <1>2, QuestionIs
    <2> HIDE DEF q
    <2>2. below \in Answers /\ q.seen \subseteq below.seen
      BY <2>1 DEF Answered
    <2>3. Add(m, i, r, a) = Sum(r, below)
      BY <1>2 DEF Add, q
    <2> HIDE DEF below
    <2>4. /\ r.dirs \in SUBSET DirsOf(modules) /\ below.dirs \in SUBSET DirsOf(modules)
          /\ below.memo \in Memos(modules) /\ below.seen \in SUBSET Names
      BY <2>2 DEF Answers
    <2>5. Sum(r, below) \in Answers /\ Sum(r, below).seen = below.seen
      BY <2>4 DEF Sum, Answers
    <2> QED BY <2>1, <2>2, <2>3, <2>5
  <1> QED BY <1>1, <1>2

\* So is what it closes with, and the names seen stay.
LEMMA ClosingIs ==
  ASSUME NEW c \in Calls(modules), NEW r \in Answers
  PROVE  Closing(c, r) \in Answers /\ Closing(c, r).seen = r.seen
  <1>1. /\ r.dirs \in SUBSET DirsOf(modules) /\ r.memo \in Memos(modules)
        /\ r.seen \in SUBSET Names /\ c.name \in Names
    BY DEF Answers, Calls
  <1>2. Remembered(r.memo, c.name, r.dirs) \in Memos(modules)
    <2>1. r.memo.known \in SUBSET Names /\ r.memo.dirs \in [Names -> SUBSET DirsOf(modules)]
      BY <1>1 DEF Memos
    <2>2. [r.memo.dirs EXCEPT ![c.name] = r.dirs] \in [Names -> SUBSET DirsOf(modules)]
      BY <1>1, <2>1
    <2> QED BY <1>1, <2>1, <2>2 DEF Remembered, Memos
  <1> QED BY <1>1, <1>2 DEF Closing, Answers

\* Over a table of answers the loop computes answers.
LEMMA GatheringIs ==
  ASSUME NEW c \in Calls(modules), Resolves(c.name), Len(modules[c.name].headers) \in Nat,
         NEW a, Answered(a)
  PROVE  \E g : /\ Gathering(modules[c.name], c, a, g)
                /\ \A i \in 0..Len(modules[c.name].headers) :
                     g[i] \in Answers /\ c.seen \union {c.name} \subseteq g[i].seen
  <1> DEFINE m == modules[c.name]
             n == Len(m.headers)
             first == Start(m, c)
             S == {r \in Answers : c.seen \union {c.name} \subseteq r.seen}
             step == [i \in 1..n |-> [r \in S |-> Add(m, i, r, a)]]
  <1>1. first \in S
    BY StartIs
  <1>2. n \in Nat
    OBVIOUS
  <1> HIDE DEF first, m, n
  <1>3. \A i \in 1..n, r \in S : Add(m, i, r, a) \in S
    BY AddIs
  <1>4. step \in [1..n -> [S -> S]]
    <2> HIDE DEF S
    <2> QED BY <1>3
  <1> HIDE DEF S
  <1>5. PICK g \in [0..n -> S] : LoopOf(first, n, step, g)
    <2> HIDE DEF step
    <2> QED BY <1>1, <1>2, <1>4, LoopComputes
  <1>6. \A i \in 0..n : i # 0 => step[i][g[i-1]] = Add(m, i, g[i-1], a)
    BY <1>2
  <1>7. g = [i \in 0..n |-> IF i = 0 THEN Start(m, c) ELSE Add(m, i, g[i-1], a)]
    <2> HIDE DEF step
    <2> QED BY <1>5, <1>6 DEF LoopOf, first
  <1>8. Gathering(m, c, a, g)
    BY <1>7 DEF Gathering, n
  <1>9. \A i \in 0..n : g[i] \in Answers /\ c.seen \union {c.name} \subseteq g[i].seen
    BY DEF S
  <1> QED BY <1>8, <1>9 DEF n, m

\* Every module that is resolved has a list of header libraries.
LEMMA HeaderLists ==
  ASSUME ModulesFit, NEW n, Resolves(n)
  PROVE  IsList(modules[n].headers) /\ Len(modules[n].headers) \in Nat
  <1>1. IsList(modules[n].headers)
    BY DEF ModulesFit, Resolves, ModuleOf
  <1> QED BY <1>1, ListIs

\* One call leaves an answer, and forgets no name that was seen.
LEMMA AnswerIs ==
  ASSUME ModulesFit, NEW c \in Calls(modules), NEW a, Answered(a)
  PROVE  Answer(modules, c, a) \in Answers /\ c.seen \subseteq Answer(modules, c, a).seen
  <1>0. /\ c.name \in Names /\ c.memo \in Memos(modules) /\ c.seen \in SUBSET Names
        /\ c.memo.dirs \in [Names -> SUBSET DirsOf(modules)]
    BY DEF Calls, Memos
  <1>1. CASE c.name \in c.memo.known
    <2>1. Answer(modules, c, a) = [dirs |-> c.memo.dirs[c.name], memo |-> c.memo, seen |-> c.seen]
      BY <1>1 DEF Answer
    <2> QED BY <1>0, <2>1 DEF Answers
  <1>2. CASE c.name \notin c.memo.known /\ c.name \in c.seen
    <2>1. Answer(modules, c, a) = [dirs |-> {}, memo |-> c.memo, seen |-> c.seen]
      BY <1>2 DEF Answer
    <2> QED BY <1>0, <2>1 DEF Answers
  <1>3. CASE c.name \notin c.memo.known /\ c.name \notin c.seen /\ modules[c.name] = None
    <2>1. Answer(modules, c, a) = [dirs |-> {}, memo |-> c.memo, seen |-> c.seen \union {c.name}]
      BY <1>3 DEF Answer
    <2> QED BY <1>0, <2>1 DEF Answers
  <1>4. CASE c.name \notin c.memo.known /\ c.name \notin c.seen /\ modules[c.name] # None
    <2> DEFINE m == modules[c.name]
    <2>1. Answer(modules, c, a) = Gathered(m, c, a)
      BY <1>4 DEF Answer
    <2>2. Resolves(c.name)
      BY <1>0, <1>4 DEF Resolves
    <2>3. Len(m.headers) \in Nat
      BY <2>2, HeaderLists
    <2>4. PICK g : /\ Gathering(m, c, a, g)
                   /\ \A i \in 0..Len(m.headers) : g[i] \in Answers /\ c.seen \union {c.name} \subseteq g[i].seen
      BY <2>2, <2>3, GatheringIs
    <2> HIDE DEF m
    <2> DEFINE last == g[Len(m.headers)]
    <2>5. last \in Answers /\ c.seen \subseteq last.seen
      BY <2>3, <2>4
    <2>6. Gathered(m, c, a) = Closing(c, last)
      BY <2>3, <2>4, GatheringFound
    <2> HIDE DEF last
    <2> QED BY <2>1, <2>5, <2>6, ClosingIs
  <1> QED BY <1>1, <1>2, <1>3, <1>4

\* How many names a call can still see for the first time.
Unseen(c) == Cardinality(Names \ c.seen)

\* There are fewer of them in a call that has seen one more.
LEMMA UnseenIs ==
  ASSUME NEW c \in Calls(modules)
  PROVE  /\ Unseen(c) \in Nat /\ Cardinality(Names) \in Nat /\ Unseen(c) <= Cardinality(Names)
         /\ \A d \in Calls(modules) :
              c.name \notin c.seen /\ c.seen \union {c.name} \subseteq d.seen => Unseen(d) < Unseen(c)
  <1>1. /\ IsFiniteSet(Names) /\ Cardinality(Names) \in Nat
        /\ IsFiniteSet(Names \ c.seen) /\ Unseen(c) \in Nat /\ Unseen(c) <= Cardinality(Names)
    <2>1. IsFiniteSet(Names) /\ Names \ c.seen \in SUBSET Names
      BY NamesAssumption
    <2>2. IsFiniteSet(Names \ c.seen) /\ Cardinality(Names \ c.seen) <= Cardinality(Names)
      BY <2>1, FS_Subset
    <2> QED BY <2>1, <2>2, FS_CardinalityType DEF Unseen
  <1>2. ASSUME NEW d \in Calls(modules), c.name \notin c.seen, c.seen \union {c.name} \subseteq d.seen
        PROVE  Unseen(d) < Unseen(c)
    <2> DEFINE C == Names \ c.seen
               D == Names \ d.seen
    <2>1. c.name \in C /\ c.name \notin D /\ D \in SUBSET C
      BY <1>2 DEF Calls
    <2>2. IsFiniteSet(C) /\ Cardinality(C) \in Nat /\ Cardinality(C) = Unseen(c) /\ Cardinality(D) = Unseen(d)
      BY <1>1 DEF Unseen
    <2> HIDE DEF C, D
    <2>3. IsFiniteSet(D) /\ Cardinality(D) <= Cardinality(C) /\ Cardinality(C) # Cardinality(D)
      BY <2>1, <2>2, FS_Subset
    <2>4. Cardinality(D) \in Nat
      BY <2>3, FS_CardinalityType
    <2> QED BY <2>2, <2>3, <2>4
  <1> QED BY <1>1, <1>2

\* Two tables of what calls leave, where few names are unseen.
Agree(a, b, k) == \A c \in Calls(modules) : Unseen(c) < k => a[c] = b[c]

\* A call asks only calls that have seen its own name besides, so that what it
\* leaves depends on the table only where fewer are unseen.
LEMMA AnswersAgree ==
  ASSUME ModulesFit, NEW a, Answered(a), NEW k \in Nat, NEW b, Agree(a, b, k),
         NEW c \in Calls(modules), Unseen(c) < k + 1
  PROVE  Answer(modules, c, a) = Answer(modules, c, b)
  <1>1. CASE c.name \in c.memo.known \/ c.name \in c.seen \/ modules[c.name] = None
    BY <1>1, Zenon DEF Answer
  <1>2. CASE c.name \notin c.memo.known /\ c.name \notin c.seen /\ modules[c.name] # None
    <2> DEFINE m == modules[c.name]
               n == Len(m.headers)
    <2>1. Answer(modules, c, a) = Gathered(m, c, a) /\ Answer(modules, c, b) = Gathered(m, c, b)
      BY <1>2 DEF Answer
    <2>2. Resolves(c.name)
      BY <1>2 DEF Resolves, Calls
    <2>3. n \in Nat
      BY <2>2, HeaderLists
    <2>4. PICK g : /\ Gathering(m, c, a, g)
                   /\ \A i \in 0..n : g[i] \in Answers /\ c.seen \union {c.name} \subseteq g[i].seen
      BY <2>2, <2>3, GatheringIs
    <2> HIDE DEF m
    <2>5. \A i \in 0..n : i # 0 => Add(m, i, g[i-1], a) = Add(m, i, g[i-1], b)
      <3> SUFFICES ASSUME NEW i \in 0..n, i # 0, m.headers[i] \in Names
                   PROVE  Add(m, i, g[i-1], a) = Add(m, i, g[i-1], b)
        BY DEF Add
      <3> DEFINE r == g[i-1]
                 q == Question(m.headers[i], r)
      <3>1. r \in Answers /\ c.seen \union {c.name} \subseteq r.seen
        BY <2>3, <2>4
      <3> HIDE DEF r
      <3>2. q \in Calls(modules) /\ q.seen = r.seen
        BY <3>1, QuestionIs
      <3>3. Add(m, i, r, a) = Sum(r, a[q]) /\ Add(m, i, r, b) = Sum(r, b[q])
        BY DEF Add
      <3> HIDE DEF q
      <3>4. Unseen(q) < Unseen(c)
        BY <1>2, <3>1, <3>2, UnseenIs
      <3>5. Unseen(q) \in Nat /\ Unseen(c) \in Nat
        BY <3>2, UnseenIs
      <3>6. a[q] = b[q]
        BY <3>2, <3>4, <3>5 DEF Agree
      <3> QED BY <3>3, <3>6 DEF r
    <2>6. Gathering(m, c, b, g)
      <3> HIDE DEF n
      <3>1. g = [i \in 0..n |-> IF i = 0 THEN Start(m, c) ELSE Add(m, i, g[i-1], a)]
        BY <2>4 DEF Gathering, n
      <3>2. [i \in 0..n |-> IF i = 0 THEN Start(m, c) ELSE Add(m, i, g[i-1], a)]
            = [i \in 0..n |-> IF i = 0 THEN Start(m, c) ELSE Add(m, i, g[i-1], b)]
        BY <2>5
      <3>3. g = [i \in 0..n |-> IF i = 0 THEN Start(m, c) ELSE Add(m, i, g[i-1], b)]
        BY <3>1, <3>2, Zenon
      <3> QED BY <3>3 DEF Gathering, n
    <2>7. Gathered(m, c, a) = Closing(c, g[n]) /\ Gathered(m, c, b) = Closing(c, g[n])
      BY <2>3, <2>4, <2>6, GatheringFound
    <2> QED BY <2>1, <2>7
  <1> QED BY <1>1, <1>2

\* A table that says of each call what that call leaves.
Solves(b) == b = [c \in Calls(modules) |-> Answer(modules, c, b)]

\* It says that of every call.
LEMMA SolutionAt ==
  ASSUME NEW b, Solves(b), NEW c \in Calls(modules)
  PROVE  b[c] = Answer(modules, c, b)
  <1> DEFINE V(d) == Answer(modules, d, b)
  <1>1. b = [d \in Calls(modules) |-> V(d)]
    BY DEF Solves
  <1> HIDE DEF V
  <1>2. b[c] = V(c)
    BY <1>1, Zenon
  <1> QED BY <1>2 DEF V

\* There is no other one beside a table of answers.
LEMMA OneSolution ==
  ASSUME ModulesFit, NEW a, Answered(a), Solves(a), NEW b, Solves(b)
  PROVE  b = a
  <1> DEFINE M == {k \in Nat : Agree(a, b, k)}
  <1>1. 0 \in M
    BY UnseenIs DEF Agree
  <1>2. ASSUME NEW k \in Nat, k \in M PROVE k + 1 \in M
    <2>1. Agree(a, b, k)
      BY <1>2
    <2>2. ASSUME NEW c \in Calls(modules), Unseen(c) < k + 1 PROVE a[c] = b[c]
      <3>1. a[c] = Answer(modules, c, a) /\ b[c] = Answer(modules, c, b)
        BY SolutionAt
      <3> HIDE DEF M
      <3> QED BY <2>1, <2>2, <3>1, AnswersAgree
    <2> QED BY <2>2 DEF Agree
  <1>3. Nat \subseteq M
    <2> HIDE DEF M
    <2> QED BY <1>1, <1>2, NatSetInduction
  <1>4. \A c \in Calls(modules) : a[c] = b[c]
    <2> SUFFICES ASSUME NEW c \in Calls(modules) PROVE a[c] = b[c]
      OBVIOUS
    <2> DEFINE k == Unseen(c) + 1
    <2>1. Unseen(c) \in Nat /\ k \in Nat /\ Unseen(c) < k
      BY UnseenIs
    <2> HIDE DEF k
    <2>2. Agree(a, b, k)
      BY <1>3, <2>1
    <2> QED BY <2>1, <2>2 DEF Agree
  <1>5. /\ a = [c \in Calls(modules) |-> a[c]]
        /\ b = [c \in Calls(modules) |-> b[c]]
    <2> DEFINE A(c) == Answer(modules, c, a)
               B(c) == Answer(modules, c, b)
    <2>1. a = [c \in Calls(modules) |-> A(c)] /\ b = [c \in Calls(modules) |-> B(c)]
      BY DEF Solves
    <2> HIDE DEF A, B
    <2> QED BY <2>1
  <1> QED BY <1>4, <1>5

\* There is one: asking every call again, more times than there are names, comes
\* to a table that asking once more does not change.
LEMMA SolutionFound ==
  ASSUME ModulesFit
  PROVE  \E a : Answered(a) /\ Solves(a)
  <1> DEFINE C == Calls(modules)
             first == [c \in C |-> [dirs |-> {}, memo |-> c.memo, seen |-> c.seen]]
             n == Cardinality(Names) + 1
             S == {a \in [C -> Answers] : Answered(a)}
             Run(a) == [c \in C |-> Answer(modules, c, a)]
             step == [i \in 1..n+1 |-> [a \in S |-> Run(a)]]
  <1>1. first \in S
    <2>1. ASSUME NEW c \in C
          PROVE  [dirs |-> {}, memo |-> c.memo, seen |-> c.seen] \in Answers
      BY DEF Calls, Answers
    <2>2. first \in [C -> Answers] /\ \A c \in C : first[c].seen = c.seen
      BY <2>1
    <2> HIDE DEF first
    <2> QED BY <2>2 DEF Answered
  <1>2. n \in Nat /\ n + 1 \in Nat
    <2>1. Cardinality(Names) \in Nat
      BY NamesAssumption, FS_CardinalityType
    <2> QED BY <2>1
  <1>3. ASSUME NEW a \in S PROVE Run(a) \in S
    <2>1. \A c \in C : Answer(modules, c, a) \in Answers /\ c.seen \subseteq Answer(modules, c, a).seen
      BY AnswerIs
    <2>2. Run(a) \in [C -> Answers] /\ \A c \in C : c.seen \subseteq Run(a)[c].seen
      <3> DEFINE V(c) == Answer(modules, c, a)
      <3>1. \A c \in C : V(c) \in Answers /\ c.seen \subseteq V(c).seen
        BY <2>1
      <3>2. Run(a) = [c \in C |-> V(c)]
        OBVIOUS
      <3> HIDE DEF V, Run
      <3> QED BY <3>1, <3>2
    <2> HIDE DEF Run
    <2> QED BY <2>2 DEF Answered
  <1> HIDE DEF first, S, Run
  <1>4. step \in [1..n+1 -> [S -> S]]
    BY <1>3
  <1>5. PICK g \in [0..n+1 -> S] : LoopOf(first, n + 1, step, g)
    <2> HIDE DEF step, n
    <2> QED BY <1>1, <1>2, <1>4, LoopComputes
  <1>6. \A i \in 0..n : g[i+1] = Run(g[i])
    <2> SUFFICES ASSUME NEW i \in 0..n PROVE g[i+1] = Run(g[i])
      OBVIOUS
    <2>1. i + 1 \in 0..n+1 /\ i + 1 # 0 /\ (i + 1) - 1 = i /\ i + 1 \in 1..n+1 /\ i \in 0..n+1
      BY <1>2
    <2> HIDE DEF n
    <2>2. g[i+1] = step[i+1][g[i]]
      <3> HIDE DEF step
      <3> QED BY <1>5, <2>1 DEF LoopOf
    <2>3. g[i] \in S
      BY <2>1
    <2> QED BY <2>1, <2>2, <2>3
  <1>7. ASSUME NEW a \in S PROVE Answered(a) /\ \A c \in C : Run(a)[c] = Answer(modules, c, a)
    BY DEF S, Run
  <1> DEFINE M == {i \in Nat : i <= n => Agree(g[i], g[i+1], i)}
  <1>8. 0 \in M
    BY UnseenIs DEF Agree
  <1>9. ASSUME NEW i \in Nat, i \in M PROVE i + 1 \in M
    <2> SUFFICES ASSUME i + 1 <= n PROVE Agree(g[i+1], g[(i+1)+1], i + 1)
      OBVIOUS
    <2>1. i \in 0..n /\ i + 1 \in 0..n /\ i <= n /\ i \in 0..n+1 /\ i + 1 \in 0..n+1
      BY <1>2
    <2>2. Agree(g[i], g[i+1], i)
      BY <1>9, <2>1
    <2> HIDE DEF n, M
    <2>3. g[i] \in S /\ g[i+1] \in S /\ g[i+1] = Run(g[i]) /\ g[(i+1)+1] = Run(g[i+1])
      BY <1>6, <2>1
    <2>4. ASSUME NEW c \in C, Unseen(c) < i + 1 PROVE Run(g[i])[c] = Run(g[i+1])[c]
      <3>1. Answer(modules, c, g[i]) = Answer(modules, c, g[i+1])
        BY <1>7, <2>2, <2>3, <2>4, AnswersAgree
      <3>2. Run(g[i])[c] = Answer(modules, c, g[i]) /\ Run(g[i+1])[c] = Answer(modules, c, g[i+1])
        <4>1. g[i] \in S /\ g[i+1] \in S
          BY <2>3
        <4> QED BY <1>7, <4>1
      <3> QED BY <3>1, <3>2
    <2> QED BY <2>3, <2>4 DEF Agree
  <1>10. Nat \subseteq M
    <2> HIDE DEF M
    <2> QED BY <1>8, <1>9, NatSetInduction
  <1>11. g[n] \in S /\ g[n+1] = Run(g[n]) /\ Agree(g[n], g[n+1], n)
    <2>1. n \in 0..n /\ n \in 0..n+1 /\ n \in M /\ n <= n
      BY <1>2, <1>10
    <2> QED BY <1>6, <2>1
  <1> DEFINE a == g[n]
  <1>12. \A c \in C : a[c] = Run(a)[c]
    <2> SUFFICES ASSUME NEW c \in C PROVE a[c] = Run(a)[c]
      OBVIOUS
    <2>1. Unseen(c) < n
      <3>1. Unseen(c) \in Nat /\ Cardinality(Names) \in Nat /\ Unseen(c) <= Cardinality(Names)
        BY UnseenIs
      <3> QED BY <3>1
    <2> HIDE DEF n
    <2> QED BY <1>11, <2>1 DEF Agree
  <1>13. a \in [C -> Answers] /\ Answered(a)
    BY <1>11 DEF S
  <1> HIDE DEF a, n
  <1>14. a = Run(a)
    <2>1. a = [c \in C |-> a[c]]
      BY <1>13
    <2>2. Run(a) = [c \in C |-> Run(a)[c]]
      BY DEF Run
    <2>3. [c \in C |-> a[c]] = [c \in C |-> Run(a)[c]]
      BY <1>12
    <2> QED BY <2>1, <2>2, <2>3
  <1>15. Solves(a)
    BY <1>14 DEF Solves, Run
  <1> QED BY <1>13, <1>15

\* What _exported_includes leaves is what such a table says.
LEMMA ExportedIs ==
  ASSUME ModulesFit
  PROVE  \E a : /\ Answered(a) /\ Solves(a)
                /\ \A n, memory : Exported(modules, n, memory)
                                = a[[name |-> n, memo |-> memory, seen |-> {}]]
  <1> DEFINE out == CHOOSE b : Solves(b)
  <1>1. PICK a : Answered(a) /\ Solves(a)
    BY SolutionFound
  <1>2. Solves(out)
    BY <1>1
  <1>3. \A n, memory : Exported(modules, n, memory) = out[[name |-> n, memo |-> memory, seen |-> {}]]
    BY Zenon DEF Exported, out, Solves
  <1> HIDE DEF out
  <1>4. out = a
    BY <1>1, <1>2, OneSolution
  <1> QED BY <1>1, <1>3, <1>4

\* What a module exports, and what it and the header libraries below it do.
Exports(n) == IF Resolves(n) THEN ExportedBy(modules[n]) ELSE {}
AllExports(n) == UNION {Exports(h) : h \in {n} \union HeaderReach(n)}
NoHeaderCircle == \A n \in Names : n \notin HeaderReach(n)

\* The header libraries below a module are the ones it uses and those below them.
LEMMA HeadersBelow ==
  ASSUME NEW n
  PROVE  /\ HeaderReach(n) = UNION {{h} \union HeaderReach(h) : h \in UsedHeaders(n)}
         /\ ~Resolves(n) => HeaderReach(n) = {}
  <1> DEFINE Complete(S) == \A m \in S : UsedHeaders(m) \subseteq S
             T == UNION {{h} \union HeaderReach(h) : h \in UsedHeaders(n)}
  <1>1. \A x : HeaderReach(x) = {h \in Names : \A S \in SUBSET Names :
                                   UsedHeaders(x) \subseteq S /\ Complete(S) => h \in S}
    BY DEF HeaderReach
  <1>2. \A x : UsedHeaders(x) \subseteq Names /\ HeaderReach(x) \subseteq Names
    BY <1>1 DEF UsedHeaders
  <1>3. ASSUME NEW x, NEW m \in HeaderReach(x), NEW h \in UsedHeaders(m) PROVE h \in HeaderReach(x)
    BY <1>1, <1>2
  <1>4. ASSUME NEW x, NEW h \in UsedHeaders(x)
        PROVE  h \in HeaderReach(x) /\ HeaderReach(h) \subseteq HeaderReach(x)
    BY <1>1, <1>2
  <1> HIDE DEF Complete
  <1>5. T \subseteq HeaderReach(n)
    BY <1>4
  <1>6. T \in SUBSET Names /\ UsedHeaders(n) \subseteq T
    BY <1>2
  <1>7. Complete(T)
    <2>1. ASSUME NEW m \in T PROVE UsedHeaders(m) \subseteq T
      <3>1. PICK h \in UsedHeaders(n) : m = h \/ m \in HeaderReach(h)
        OBVIOUS
      <3>2. UsedHeaders(m) \subseteq HeaderReach(h)
        BY <1>3, <1>4, <3>1
      <3> QED BY <3>1, <3>2
    <2> QED BY <2>1 DEF Complete
  <1>8. HeaderReach(n) \subseteq T
    <2> HIDE DEF T
    <2> QED BY <1>1, <1>6, <1>7
  <1>9. ~Resolves(n) => UsedHeaders(n) = {}
    BY DEF UsedHeaders
  <1>10. HeaderReach(n) = T
    BY <1>5, <1>8
  <1> QED BY <1>9, <1>10

\* All that a module exports is what it exports itself and what its header libraries do.
LEMMA ExportsBelow ==
  ASSUME NEW n
  PROVE  /\ AllExports(n) = Exports(n) \union UNION {AllExports(h) : h \in UsedHeaders(n)}
         /\ ~Resolves(n) => AllExports(n) = {}
  <1>1. /\ HeaderReach(n) = UNION {{h} \union HeaderReach(h) : h \in UsedHeaders(n)}
        /\ ~Resolves(n) => HeaderReach(n) = {}
    BY HeadersBelow
  <1>2. ~Resolves(n) => AllExports(n) = {}
    BY <1>1 DEF AllExports, Exports
  <1>3. AllExports(n) = Exports(n) \union UNION {AllExports(h) : h \in UsedHeaders(n)}
    BY <1>1 DEF AllExports
  <1> QED BY <1>2, <1>3

\* What the memo knows of a name is all that it exports; and every name seen is
\* known, is no module, or is on the way, one of A.
Truthful(memory) == \A n \in memory.known : AllExports(n) \subseteq memory.dirs[n]
Accounted(memory, seen, A) == \A x \in seen : x \in memory.known \/ ~Resolves(x) \/ x \in A

\* A call that is asked while the calls of A are on the way; what it must leave.
Asked(c, A) ==
  /\ Truthful(c.memo) /\ Accounted(c.memo, c.seen, A)
  /\ A \cap ({c.name} \union HeaderReach(c.name)) = {}
Told(n, A, r) ==
  /\ AllExports(n) \subseteq r.dirs
  /\ Truthful(r.memo) /\ Accounted(r.memo, r.seen, A)

\* A table that is right of the calls with few names unseen.
Right(a, k) ==
  \A c \in Calls(modules), A \in SUBSET Names : Unseen(c) < k /\ Asked(c, A) => Told(c.name, A, a[c])

\* What the loop has gathered after i header libraries.
GatheredUpTo(m, i, A, r) ==
  /\ ExportedBy(m) \subseteq r.dirs
  /\ \A j \in 1..i : m.headers[j] \in Names => AllExports(m.headers[j]) \subseteq r.dirs
  /\ Truthful(r.memo) /\ Accounted(r.memo, r.seen, A)

\* One more.
LEMMA GatheredOneMore ==
  ASSUME NEW m, NEW i \in Nat, NEW A \in SUBSET Names, NEW r \in Answers, GatheredUpTo(m, i, A, r),
         NEW a,
         LET q == Question(m.headers[i+1], r)
         IN m.headers[i+1] \in Names => Told(m.headers[i+1], A, a[q])
  PROVE  GatheredUpTo(m, i + 1, A, Add(m, i + 1, r, a))
  <1>0. \A j \in 1..i+1 : j \in 1..i \/ j = i + 1
    OBVIOUS
  <1>1. CASE m.headers[i+1] \notin Names
    <2>1. Add(m, i + 1, r, a) = r
      BY <1>1 DEF Add
    <2> QED BY <1>0, <1>1, <2>1 DEF GatheredUpTo
  <1>2. CASE m.headers[i+1] \in Names
    <2> DEFINE below == a[Question(m.headers[i+1], r)]
    <2>1. Add(m, i + 1, r, a) = Sum(r, below)
      BY <1>2 DEF Add
    <2>2. Told(m.headers[i+1], A, below)
      BY <1>2
    <2> HIDE DEF below
    <2>3. /\ Sum(r, below).dirs = r.dirs \union below.dirs
          /\ Sum(r, below).memo = below.memo /\ Sum(r, below).seen = below.seen
      BY DEF Sum
    <2> DEFINE s == Sum(r, below)
    <2>4. GatheredUpTo(m, i + 1, A, s)
      <3>1. Truthful(s.memo) /\ Accounted(s.memo, s.seen, A)
        BY <2>2, <2>3 DEF Told
      <3>2. ExportedBy(m) \subseteq s.dirs
        BY <2>3 DEF GatheredUpTo
      <3>3. ASSUME NEW j \in 1..i+1, m.headers[j] \in Names PROVE AllExports(m.headers[j]) \subseteq s.dirs
        <4>1. CASE j \in 1..i BY <2>3, <3>3, <4>1 DEF GatheredUpTo
        <4>2. CASE j = i + 1 BY <2>2, <2>3, <4>2 DEF Told
        <4> QED BY <1>0, <4>1, <4>2
      <3> HIDE DEF s
      <3> QED BY <3>1, <3>2, <3>3 DEF GatheredUpTo
    <2> QED BY <2>1, <2>4
  <1> QED BY <1>1, <1>2

\* The loop, over a table that is right where fewer names are unseen.
LEMMA GatheringRight ==
  ASSUME ModulesFit, NoHeaderCircle, NEW a, Answered(a), NEW k \in Nat, Right(a, k),
         NEW c \in Calls(modules), Unseen(c) < k + 1, NEW A \in SUBSET Names, Asked(c, A),
         Resolves(c.name), c.name \notin c.seen
  PROVE  Told(c.name, A, Gathered(modules[c.name], c, a))
  <1> DEFINE m == modules[c.name]
             n == Len(m.headers)
             B == A \union {c.name}
  <1>1. n \in Nat /\ IsList(m.headers) /\ DOMAIN m.headers = 1..n
    BY HeaderLists, ListIs
  <1>2. PICK g : /\ Gathering(m, c, a, g)
                 /\ \A i \in 0..n : g[i] \in Answers /\ c.seen \union {c.name} \subseteq g[i].seen
    BY <1>1, GatheringIs
  <1>3. c.name \in Names /\ c.memo.known \in SUBSET Names
    BY DEF Calls, Memos
  <1>4. /\ UsedHeaders(c.name) = {m.headers[i] : i \in 1..n} \cap Names
        /\ Exports(c.name) = ExportedBy(m)
    BY <1>1 DEF UsedHeaders, Exports, Items
  <1>5. B \in SUBSET Names
    BY <1>3
  <1> HIDE DEF m
  <1> DEFINE M == {i \in Nat : i <= n => GatheredUpTo(m, i, B, g[i])}
  <1>6. 0 \in M
    <2>1. g[0] = Start(m, c)
      <3>1. 0 \in 0..n
        BY <1>1
      <3> QED BY <1>2, <3>1, GatheringTurns
    <2>2. Truthful(c.memo) /\ Accounted(c.memo, c.seen \union {c.name}, B)
      BY DEF Asked, Accounted
    <2> HIDE DEF B
    <2>3. GatheredUpTo(m, 0, B, Start(m, c))
      <3>1. /\ Start(m, c).dirs = ExportedBy(m) /\ Start(m, c).memo = c.memo
            /\ Start(m, c).seen = c.seen \union {c.name}
        BY DEF Start
      <3>2. \A j \in 1..0 : FALSE
        OBVIOUS
      <3> QED BY <2>2, <3>1, <3>2 DEF GatheredUpTo
    <2> QED BY <2>1, <2>3
  <1>7. ASSUME NEW i \in Nat, i \in M PROVE i + 1 \in M
    <2> SUFFICES ASSUME i + 1 <= n PROVE GatheredUpTo(m, i + 1, B, g[i+1])
      OBVIOUS
    <2>1. i \in 0..n /\ i + 1 \in 0..n /\ i + 1 \in 1..n /\ i + 1 # 0 /\ (i + 1) - 1 = i /\ i <= n
      BY <1>1
    <2> DEFINE r == g[i]
               h == m.headers[i+1]
               q == Question(h, r)
    <2>2. GatheredUpTo(m, i, B, r)
      BY <1>7, <2>1
    <2>3. r \in Answers /\ c.seen \union {c.name} \subseteq r.seen
      BY <1>2, <2>1
    <2> HIDE DEF M, n
    <2>4. g[i+1] = Add(m, i + 1, r, a)
      BY <1>2, <2>1, GatheringTurns DEF n
    <2> HIDE DEF r
    <2>5. ASSUME h \in Names PROVE Told(h, B, a[q])
      <3>1. q \in Calls(modules) /\ q.name = h /\ q.memo = r.memo /\ q.seen = r.seen
        BY <2>3, <2>5, QuestionIs
      <3>2. h \in UsedHeaders(c.name)
        BY <1>4, <2>1, <2>5
      <3>3. {h} \union HeaderReach(h) \subseteq HeaderReach(c.name)
        BY <3>2, HeadersBelow
      <3>4. B \cap ({h} \union HeaderReach(h)) = {}
        BY <1>3, <3>3 DEF Asked, NoHeaderCircle
      <3> HIDE DEF h, q, B
      <3>5. Asked(q, B)
        BY <2>2, <3>1, <3>4 DEF Asked, GatheredUpTo
      <3>6. Unseen(q) < k
        <4>1. Unseen(q) < Unseen(c) /\ Unseen(q) \in Nat /\ Unseen(c) \in Nat
          BY <2>3, <3>1, UnseenIs
        <4> QED BY <4>1
      <3> QED BY <1>5, <3>1, <3>5, <3>6 DEF Right
    <2> HIDE DEF B
    <2>6. GatheredUpTo(m, i + 1, B, Add(m, i + 1, r, a))
      BY <1>5, <2>2, <2>3, <2>5, GatheredOneMore
    <2> QED BY <2>4, <2>6
  <1>8. Nat \subseteq M
    <2> HIDE DEF M
    <2> QED BY <1>6, <1>7, NatSetInduction
  <1> DEFINE all == g[n]
  <1>9. GatheredUpTo(m, n, B, all) /\ all \in Answers
    <2>1. n \in M
      <3> HIDE DEF M, n
      <3> QED BY <1>1, <1>8
    <2>2. n <= n /\ n \in 0..n
      BY <1>1
    <2> QED BY <1>2, <2>1, <2>2
  <1> HIDE DEF M
  <1>10. Gathered(m, c, a) = Closing(c, all)
    BY <1>1, <1>2, GatheringFound
  <1> HIDE DEF all
  <1>11. AllExports(c.name) \subseteq all.dirs
    <2>1. AllExports(c.name) = ExportedBy(m) \union UNION {AllExports(h) : h \in UsedHeaders(c.name)}
      BY <1>4, ExportsBelow
    <2>2. \A h \in UsedHeaders(c.name) : AllExports(h) \subseteq all.dirs
      BY <1>4, <1>9 DEF GatheredUpTo
    <2> QED BY <1>9, <2>1, <2>2 DEF GatheredUpTo
  <1> DEFINE memory == Remembered(all.memo, c.name, all.dirs)
  <1>12. /\ memory.known = all.memo.known \union {c.name}
         /\ memory.dirs[c.name] = all.dirs
         /\ \A x \in all.memo.known \ {c.name} : memory.dirs[x] = all.memo.dirs[x]
    <2>1. all.memo.dirs \in [Names -> SUBSET DirsOf(modules)] /\ all.memo.known \in SUBSET Names
      BY <1>9 DEF Answers, Memos
    <2> QED BY <1>3, <2>1 DEF Remembered
  <1> HIDE DEF memory
  <1>13. Truthful(memory)
    <2>1. Truthful(all.memo)
      BY <1>9 DEF GatheredUpTo
    <2> QED BY <1>11, <1>12, <2>1 DEF Truthful
  <1>14. Accounted(memory, all.seen, A)
    <2>1. Accounted(all.memo, all.seen, B)
      BY <1>9 DEF GatheredUpTo
    <2> QED BY <1>12, <2>1 DEF Accounted
  <1>15. Told(c.name, A, Closing(c, all))
    <2>1. Closing(c, all).dirs = all.dirs /\ Closing(c, all).memo = memory /\ Closing(c, all).seen = all.seen
      BY DEF Closing, memory
    <2> QED BY <1>11, <1>13, <1>14, <2>1 DEF Told
  <1> QED BY <1>10, <1>15 DEF m

\* One call.
LEMMA AnswerRight ==
  ASSUME ModulesFit, NoHeaderCircle, NEW a, Answered(a), NEW k \in Nat, Right(a, k),
         NEW c \in Calls(modules), Unseen(c) < k + 1, NEW A \in SUBSET Names, Asked(c, A)
  PROVE  Told(c.name, A, Answer(modules, c, a))
  <1>1. CASE c.name \in c.memo.known
    <2>1. Answer(modules, c, a) = [dirs |-> c.memo.dirs[c.name], memo |-> c.memo, seen |-> c.seen]
      BY <1>1 DEF Answer
    <2> QED BY <1>1, <2>1 DEF Asked, Told, Truthful
  <1>2. CASE c.name \notin c.memo.known /\ c.name \in c.seen
    <2>1. Answer(modules, c, a) = [dirs |-> {}, memo |-> c.memo, seen |-> c.seen]
      BY <1>2 DEF Answer
    <2>2. ~Resolves(c.name)
      BY <1>2 DEF Asked, Accounted
    <2>3. AllExports(c.name) = {}
      BY <2>2, ExportsBelow
    <2> QED BY <2>1, <2>3 DEF Asked, Told
  <1>3. CASE c.name \notin c.memo.known /\ c.name \notin c.seen /\ modules[c.name] = None
    <2>1. Answer(modules, c, a) = [dirs |-> {}, memo |-> c.memo, seen |-> c.seen \union {c.name}]
      BY <1>3 DEF Answer
    <2>2. ~Resolves(c.name)
      BY <1>3 DEF Resolves
    <2>3. AllExports(c.name) = {}
      BY <2>2, ExportsBelow
    <2>4. Accounted(c.memo, c.seen \union {c.name}, A)
      BY <2>2 DEF Asked, Accounted
    <2> QED BY <2>1, <2>3, <2>4 DEF Asked, Told
  <1>4. CASE c.name \notin c.memo.known /\ c.name \notin c.seen /\ modules[c.name] # None
    <2>1. Answer(modules, c, a) = Gathered(modules[c.name], c, a)
      BY <1>4 DEF Answer
    <2>2. Resolves(c.name)
      BY <1>4 DEF Resolves, Calls
    <2> QED BY <1>4, <2>1, <2>2, GatheringRight
  <1> QED BY <1>1, <1>2, <1>3, <1>4

\* So _exported_includes, called with a memo that tells no less than it should,
\* finds all that a module exports, and leaves such a memo.
LEMMA ExportedTells ==
  ASSUME ModulesFit, NEW n \in Names, NEW memory \in Memos(modules)
  PROVE  LET r == Exported(modules, n, memory)
         IN /\ r \in Answers
            /\ NoHeaderCircle /\ Truthful(memory) => AllExports(n) \subseteq r.dirs /\ Truthful(r.memo)
  <1> DEFINE c == [name |-> n, memo |-> memory, seen |-> {}]
  <1>1. PICK a : Answered(a) /\ Solves(a) /\ Exported(modules, n, memory) = a[c]
    BY ExportedIs
  <1>2. c \in Calls(modules) /\ c.name = n /\ c.memo = memory /\ c.seen = {}
    BY DEF Calls
  <1> HIDE DEF c
  <1>3. a[c] \in Answers
    BY <1>1, <1>2 DEF Answered
  <1>4. ASSUME NoHeaderCircle, Truthful(memory)
        PROVE  AllExports(n) \subseteq a[c].dirs /\ Truthful(a[c].memo)
    <2> DEFINE M == {k \in Nat : Right(a, k)}
    <2>1. 0 \in M
      BY UnseenIs DEF Right
    <2>2. ASSUME NEW k \in Nat, k \in M PROVE k + 1 \in M
      <3>1. Right(a, k)
        BY <2>2
      <3>2. ASSUME NEW d \in Calls(modules), NEW A \in SUBSET Names, Unseen(d) < k + 1, Asked(d, A)
            PROVE  Told(d.name, A, a[d])
        <4>1. a[d] = Answer(modules, d, a)
          BY <1>1, SolutionAt
        <4> HIDE DEF M
        <4> QED BY <1>1, <1>4, <3>1, <3>2, <4>1, AnswerRight
      <3> QED BY <3>2 DEF Right
    <2>3. Nat \subseteq M
      <3> HIDE DEF M
      <3> QED BY <2>1, <2>2, NatSetInduction
    <2>4. Unseen(c) \in Nat /\ Unseen(c) + 1 \in Nat /\ Unseen(c) < Unseen(c) + 1
      BY <1>2, UnseenIs
    <2>5. Right(a, Unseen(c) + 1)
      BY <2>3, <2>4
    <2>6. Asked(c, {})
      BY <1>2, <1>4 DEF Asked, Accounted
    <2>7. Told(n, {}, a[c])
      <3>1. {} \in SUBSET Names
        OBVIOUS
      <3> QED BY <1>2, <2>4, <2>5, <2>6, <3>1 DEF Right
    <2> QED BY <2>7 DEF Told
  <1> QED BY <1>1, <1>3, <1>4

-----------------------------------------------------------------------------
(* The include directories of a module                                     *)

\* The names _include_dirs asks for, and its loop over them.
AskedFor(m) == m.headers \o m.whole \o m.shared \o m.static
Turn(n, r) ==
  IF n \notin Names THEN r
  ELSE LET below == Exported(modules, n, r.memo)
       IN [dirs |-> r.dirs \union below.dirs, memo |-> below.memo]
Including(m, memory, g) ==
  g = [i \in 0..Len(AskedFor(m)) |->
         IF i = 0 THEN [dirs |-> ExportedBy(m), memo |-> memory] ELSE Turn(AskedFor(m)[i], g[i-1])]

\* One turn of it.
LEMMA IncludingTurns ==
  ASSUME NEW m, NEW memory, NEW g, Including(m, memory, g), NEW i \in 0..Len(AskedFor(m))
  PROVE  g[i] = IF i = 0 THEN [dirs |-> ExportedBy(m), memo |-> memory] ELSE Turn(AskedFor(m)[i], g[i-1])
  <1> DEFINE V(x, j) == IF j = 0 THEN [dirs |-> ExportedBy(m), memo |-> memory]
                        ELSE Turn(AskedFor(m)[j], x[j-1])
  <1>1. g = [j \in 0..Len(AskedFor(m)) |-> V(g, j)]
    BY Zenon DEF Including, V
  <1> HIDE DEF V
  <1>2. g[i] = V(g, i)
    BY <1>1, Zenon
  <1> QED BY <1>2 DEF V

\* What a turn leaves: a memo, which tells no less than the one before it, and
\* besides what there was all that the name exports.
LEMMA TurnTells ==
  ASSUME ModulesFit, NEW n, NEW X, DirsOf(modules) \subseteq X,
         NEW r \in [dirs : SUBSET X, memo : Memos(modules)]
  PROVE  /\ Turn(n, r) \in [dirs : SUBSET X, memo : Memos(modules)]
         /\ NoHeaderCircle /\ Truthful(r.memo) =>
              /\ r.dirs \subseteq Turn(n, r).dirs /\ Truthful(Turn(n, r).memo)
              /\ n \in Names => AllExports(n) \subseteq Turn(n, r).dirs
  <1>1. CASE n \notin Names
    BY <1>1 DEF Turn
  <1>2. CASE n \in Names
    <2> DEFINE below == Exported(modules, n, r.memo)
    <2>1. /\ below \in Answers
          /\ NoHeaderCircle /\ Truthful(r.memo) => AllExports(n) \subseteq below.dirs /\ Truthful(below.memo)
      BY <1>2, ExportedTells
    <2>2. Turn(n, r) = [dirs |-> r.dirs \union below.dirs, memo |-> below.memo]
      BY <1>2 DEF Turn
    <2> HIDE DEF below
    <2>3. below.dirs \in SUBSET DirsOf(modules) /\ below.memo \in Memos(modules)
      BY <2>1 DEF Answers
    <2>4. Turn(n, r).dirs = r.dirs \union below.dirs /\ Turn(n, r).memo = below.memo
      BY <2>2
    <2> QED BY <1>2, <2>1, <2>2, <2>3, <2>4
  <1> QED BY <1>1, <1>2

\* What the whole loop leaves.
LEMMA IncludingTells ==
  ASSUME ModulesFit, NEW m, IsList(AskedFor(m)), NEW memory \in Memos(modules)
  PROVE  /\ \E g : Including(m, memory, g)
         /\ \A g : Including(m, memory, g) =>
              LET r == g[Len(AskedFor(m))]
              IN /\ r.memo \in Memos(modules)
                 /\ NoHeaderCircle /\ Truthful(memory) =>
                      /\ Truthful(r.memo)
                      /\ \A n \in Items(AskedFor(m)) \cap Names : AllExports(n) \subseteq r.dirs
  <1> DEFINE s == AskedFor(m)
             k == Len(s)
             X == ExportedBy(m) \union DirsOf(modules)
             S == [dirs : SUBSET X, memo : Memos(modules)]
             first == [dirs |-> ExportedBy(m), memo |-> memory]
             step == [i \in 1..k |-> [r \in S |-> Turn(s[i], r)]]
  <1>1. k \in Nat /\ DOMAIN s = 1..k
    BY ListIs
  <1>2. first \in S /\ DirsOf(modules) \subseteq X
    OBVIOUS
  <1>3. \E g : Including(m, memory, g)
    <2> HIDE DEF first, X
    <2>1. \A i \in 1..k, r \in S : Turn(s[i], r) \in S
      <3> HIDE DEF s, k
      <3> QED BY <1>2, TurnTells
    <2> HIDE DEF S, s, k
    <2>2. step \in [1..k -> [S -> S]]
      BY <2>1
    <2>3. PICK g \in [0..k -> S] : LoopOf(first, k, step, g)
      <3> HIDE DEF step
      <3> QED BY <1>1, <1>2, <2>2, LoopComputes
    <2>4. \A i \in 0..k : i # 0 => step[i][g[i-1]] = Turn(s[i], g[i-1])
      BY <1>1
    <2>5. g = [i \in 0..k |-> IF i = 0 THEN first ELSE Turn(s[i], g[i-1])]
      <3> HIDE DEF step
      <3> QED BY <2>3, <2>4 DEF LoopOf
    <2> QED BY <2>5 DEF Including, first, s, k
  <1>4. ASSUME NEW g, Including(m, memory, g)
        PROVE  /\ g[k].memo \in Memos(modules)
               /\ NoHeaderCircle /\ Truthful(memory) =>
                    /\ Truthful(g[k].memo)
                    /\ \A n \in Items(s) \cap Names : AllExports(n) \subseteq g[k].dirs
    <2> DEFINE Tells(i, r) ==
                 NoHeaderCircle /\ Truthful(memory) =>
                   /\ Truthful(r.memo)
                   /\ \A j \in 1..i : s[j] \in Names => AllExports(s[j]) \subseteq r.dirs
               M == {i \in Nat : i <= k => g[i] \in S /\ Tells(i, g[i])}
    <2>0. \A i \in 0..k : g[i] = IF i = 0 THEN first ELSE Turn(s[i], g[i-1])
      BY <1>4, IncludingTurns
    <2>1. 0 \in M
      <3>1. g[0] = first /\ first.memo = memory
        BY <1>1, <2>0
      <3>2. Tells(0, g[0])
        BY <3>1
      <3> QED BY <1>2, <3>1, <3>2
    <2>2. ASSUME NEW i \in Nat, i \in M PROVE i + 1 \in M
      <3> SUFFICES ASSUME i + 1 <= k PROVE g[i+1] \in S /\ Tells(i + 1, g[i+1])
        OBVIOUS
      <3>1. i + 1 \in 0..k /\ i + 1 # 0 /\ (i + 1) - 1 = i /\ i <= k
        BY <1>1
      <3>2. g[i] \in S /\ Tells(i, g[i])
        BY <2>2, <3>1
      <3>3. g[i+1] = Turn(s[i+1], g[i])
        <4> HIDE DEF M, first, s, k
        <4> QED BY <2>0, <3>1
      <3>4. /\ Turn(s[i+1], g[i]) \in S
            /\ NoHeaderCircle /\ Truthful(g[i].memo) =>
                 /\ g[i].dirs \subseteq Turn(s[i+1], g[i]).dirs /\ Truthful(Turn(s[i+1], g[i]).memo)
                 /\ s[i+1] \in Names => AllExports(s[i+1]) \subseteq Turn(s[i+1], g[i]).dirs
        <4> HIDE DEF M, s, X, Tells
        <4> QED BY <1>2, <3>2, TurnTells
      <3> HIDE DEF M, S, s
      <3>5. \A j \in 1..i+1 : j \in 1..i \/ j = i + 1
        OBVIOUS
      <3>6. Tells(i + 1, g[i+1])
        <4> SUFFICES ASSUME NoHeaderCircle, Truthful(memory)
                     PROVE  /\ Truthful(g[i+1].memo)
                            /\ \A j \in 1..i+1 : s[j] \in Names => AllExports(s[j]) \subseteq g[i+1].dirs
          OBVIOUS
        <4>1. Truthful(g[i].memo) /\ \A j \in 1..i : s[j] \in Names => AllExports(s[j]) \subseteq g[i].dirs
          BY <3>2
        <4> QED BY <3>3, <3>4, <3>5, <4>1
      <3> QED BY <3>3, <3>4, <3>6
    <2>3. Nat \subseteq M
      <3> HIDE DEF M
      <3> QED BY <2>1, <2>2, NatSetInduction
    <2>4. k \in M
      <3> HIDE DEF M, k
      <3> QED BY <1>1, <2>3
    <2>5. g[k] \in S /\ Tells(k, g[k])
      <3>1. k <= k
        BY <1>1
      <3> QED BY <2>4, <3>1
    <2>6. Items(s) = {s[j] : j \in 1..k}
      BY <1>1 DEF Items
    <2> HIDE DEF M, s, k
    <2> QED BY <2>5, <2>6
  <1> QED BY <1>3, <1>4 DEF s, k

\* What _include_dirs leaves.
LEMMA IncludesTell ==
  ASSUME ModulesFit, NEW m, NEW memory \in Memos(modules),
         IsList(m.headers), IsList(m.whole), IsList(m.shared), IsList(m.static)
  PROVE  LET r == Includes(modules, m, memory)
         IN /\ r.memo \in Memos(modules)
            /\ NoHeaderCircle /\ Truthful(memory) =>
                 /\ Truthful(r.memo)
                 /\ \A n \in (Items(m.headers) \union Items(m.whole) \union Items(m.shared)
                              \union Items(m.static)) \cap Names : AllExports(n) \subseteq r.dirs
  <1> DEFINE s == m.headers \o m.whole \o m.shared \o m.static
             And(n, r) ==
               LET below == Exported(modules, n, r.memo)
               IN [dirs |-> r.dirs \union below.dirs, memo |-> below.memo]
             Loop(f) == f = [i \in 0..Len(s) |->
                 IF i = 0 THEN [dirs |-> ExportedBy(m), memo |-> memory]
                 ELSE IF s[i] \notin Names THEN f[i-1]
                 ELSE And(s[i], f[i-1])]
             out == CHOOSE f : Loop(f)
  <1>1. IsList(m.headers \o m.whole) /\ Items(m.headers \o m.whole) = Items(m.headers) \union Items(m.whole)
    BY ListsJoined
  <1>2. /\ IsList(m.headers \o m.whole \o m.shared)
        /\ Items(m.headers \o m.whole \o m.shared)
             = Items(m.headers) \union Items(m.whole) \union Items(m.shared)
    BY <1>1, ListsJoined
  <1>3. /\ IsList(AskedFor(m))
        /\ Items(AskedFor(m))
             = Items(m.headers) \union Items(m.whole) \union Items(m.shared) \union Items(m.static)
    BY <1>2, ListsJoined DEF AskedFor
  <1>4. ASSUME NEW f PROVE Loop(f) <=> Including(m, memory, f)
    BY Zenon DEF Loop, And, Including, Turn, AskedFor, s
  <1>5. Includes(modules, m, memory) = out[Len(s)]
    BY Zenon DEF Includes, out, Loop, And, s
  <1>6. s = AskedFor(m)
    BY DEF AskedFor
  <1> HIDE DEF Loop, s
  <1>7. Loop(out)
    <2>1. \E f : Loop(f)
      BY <1>3, <1>4, IncludingTells
    <2> QED BY <2>1
  <1> HIDE DEF out
  <1>8. Including(m, memory, out)
    BY <1>4, <1>7
  <1> QED BY <1>3, <1>5, <1>6, <1>8, IncludingTells

\* A module whose include directories are complete.
SeesAll(e) ==
  \A n \in Items(modules[e.name].headers) \union Items(modules[e.name].whole) \union e.links :
    AllExports(n) \subseteq e.includes

\* The memo is one, empty until everything is loaded.
MemoFits == memo \in Memos(modules) /\ (phase = "load" => memo = NoMemo)

\* Unless header libraries depend on each other in a circle, what the memo knows
\* of a name is all that it exports, and every emitted module sees all it should.
HeadersComplete ==
  NoHeaderCircle => Truthful(memo) /\ \A i \in DOMAIN emitted : SeesAll(emitted[i])

HeaderInv == MemoFits /\ HeadersComplete

\* The empty memo is one whatever the modules, and tells all it should.
LEMMA NoMemoFits == ASSUME NEW ms PROVE NoMemo \in Memos(ms) /\ Truthful(NoMemo)
  BY DEF NoMemo, Memos, Truthful

\* What is described of a module that is emitted.
LEMMA DescribedTells ==
  ASSUME PoliciesFit, ModulesFit, NEW n, Emittable(n), NEW glob, NEW memory \in Memos(modules)
  PROVE  LET d == EmitModule(decls, modules, policies, glob, n, memory)
         IN /\ d.memo \in Memos(modules)
            /\ NoHeaderCircle /\ Truthful(memory) => Truthful(d.memo) /\ SeesAll(d.text)
  <1> DEFINE m == ApplyPolicy(modules[n], policies[n], glob)
             inc == Includes(modules, m, memory)
             d == EmitModule(decls, modules, policies, glob, n, memory)
  <1>1. n \in Names /\ ModuleOf(modules[n], n)
    BY DEF Emittable, Resolves, ModulesFit
  <1>2. IsList(policies[n].add_shared) /\ IsList(policies[n].add_static)
    BY <1>1 DEF PoliciesFit
  <1>3. /\ m.name = n /\ m.whole = modules[n].whole /\ m.headers = modules[n].headers
        /\ IsList(m.shared) /\ IsList(m.static)
    BY <1>1, <1>2, PolicyKeeps
  <1>4. IsList(m.whole) /\ IsList(m.headers)
    BY <1>1, <1>3 DEF ModuleOf
  <1> HIDE DEF m
  <1>5. /\ inc.memo \in Memos(modules)
        /\ NoHeaderCircle /\ Truthful(memory) =>
             /\ Truthful(inc.memo)
             /\ \A x \in (Items(m.headers) \union Items(m.whole) \union Items(m.shared)
                          \union Items(m.static)) \cap Names : AllExports(x) \subseteq inc.dirs
    BY <1>3, <1>4, IncludesTell
  <1> HIDE DEF inc
  <1>6. d = Described(decls, modules, policies, glob, m, memory)
    BY Zenon DEF EmitModule, m, d
  <1> HIDE DEF d
  <1>7. /\ d.memo = inc.memo /\ d.text.name = m.name /\ d.text.includes = inc.dirs
        /\ d.text.links = LinkLibs(modules, m, policies[m.name])
    BY <1>6 DEF Described, inc
  <1>8. d.text.links \subseteq Items(m.shared) \union Items(m.static)
    BY <1>7 DEF LinkLibs
  <1>9. \A x : x \notin Names => AllExports(x) = {}
    BY ExportsBelow DEF Resolves
  <1>10. ASSUME NoHeaderCircle, Truthful(memory) PROVE SeesAll(d.text)
    <2>1. \A x \in Items(m.headers) \union Items(m.whole) \union d.text.links :
            AllExports(x) \subseteq d.text.includes
      BY <1>5, <1>7, <1>8, <1>9, <1>10
    <2> QED BY <1>3, <1>7, <2>1 DEF SeesAll
  <1> QED BY <1>5, <1>7, <1>10 DEF d

\* While the modules do not change, neither does what they export.
LEMMA SameExports ==
  ASSUME modules' = modules
  PROVE  /\ \A n : AllExports(n)' = AllExports(n)
         /\ NoHeaderCircle' = NoHeaderCircle
         /\ Truthful(memo)' = Truthful(memo')
         /\ \A i : SeesAll(emitted[i])' = SeesAll(emitted'[i])
  <1>1. \A n : UsedHeaders(n)' = UsedHeaders(n) /\ Exports(n)' = Exports(n)
    BY DEF UsedHeaders, Exports, Resolves
  <1>2. \A n : HeaderReach(n)' = HeaderReach(n)
    BY <1>1 DEF HeaderReach
  <1>3. \A n : AllExports(n)' = AllExports(n)
    BY <1>1, <1>2 DEF AllExports
  <1> QED BY <1>2, <1>3 DEF NoHeaderCircle, Truthful, SeesAll

\* Nothing is known or emitted at first.
LEMMA HeaderInvInit == AuditInit => HeaderInv
  <1> SUFFICES ASSUME AuditInit PROVE HeaderInv
    OBVIOUS
  <1>1. memo = NoMemo /\ emitted = <<>>
    BY DEF AuditInit, Init
  <1>2. NoMemo \in Memos(modules) /\ Truthful(NoMemo)
    BY NoMemoFits
  <1>3. \A i \in DOMAIN emitted : FALSE
    BY <1>1, NoItems DEF Items
  <1> QED BY <1>1, <1>2, <1>3 DEF HeaderInv, MemoFits, HeadersComplete

\* Everything is resolved while the memo is empty and nothing is emitted.
LEMMA StartClosureTells == GraphInv /\ HeaderInv /\ StartClosure => HeaderInv'
  <1> SUFFICES ASSUME GraphInv, HeaderInv, StartClosure PROVE HeaderInv'
    OBVIOUS
  <1>1. memo' = NoMemo /\ emitted' = <<>> /\ phase' # "load"
    BY DEF StartClosure, HeaderInv, MemoFits, GraphInv, Early
  <1>2. MemoFits'
    <2>1. NoMemo \in Memos(modules')
      BY NoMemoFits
    <2>2. memo' \in Memos(modules)'
      BY <1>1, <2>1 DEF Memos, DirsOf
    <2> QED BY <1>1, <2>2 DEF MemoFits
  <1>3. Truthful(memo)'
    BY <1>1 DEF Truthful, NoMemo
  <1>4. \A i \in DOMAIN emitted' : FALSE
    BY <1>1, NoItems DEF Items
  <1> QED BY <1>2, <1>3, <1>4 DEF HeaderInv, HeadersComplete

\* A module is described for the manifest and again for the CMake file, with the
\* memo that the first leaves.
LEMMA EmitNextTells == GraphInv /\ HeaderInv /\ EmitNext => HeaderInv'
  <1> SUFFICES ASSUME GraphInv, HeaderInv, EmitNext PROVE HeaderInv'
    OBVIOUS
  <1> DEFINE k == Len(emitted)
             n == order[k + 1]
             entry == ModuleManifest(decls, modules, policies, input.glob, n, memo)
             chunk == EmitModule(decls, modules, policies, input.glob, n, entry.memo)
  <1>1. /\ emitted' = Append(emitted, chunk.text) /\ memo' = chunk.memo
        /\ phase' = phase /\ phase = "emit" /\ UNCHANGED product /\ k < Len(order)
    BY DEF EmitNext
  <1>2. PoliciesFit /\ ModulesFit /\ IsList(emitted) /\ IsList(order)
    BY DEF GraphInv, InputFits, Walking, Ordered, Emitting
  <1>3. k \in Nat /\ DOMAIN emitted = 1..k /\ k + 1 \in DOMAIN order
    <2>1. k \in Nat /\ DOMAIN emitted = 1..k /\ Len(order) \in Nat /\ DOMAIN order = 1..Len(order)
      BY <1>2, ListIs
    <2> HIDE DEF k
    <2> QED BY <1>1, <2>1
  <1>4. Emittable(n)
    BY <1>3 DEF GraphInv, Walking, Ordered, InPlace
  <1>5. entry = EmitModule(decls, modules, policies, input.glob, n, memo)
    BY DEF ModuleManifest, EmitModule
  <1> HIDE DEF n, entry
  <1>6. memo \in Memos(modules)
    BY DEF HeaderInv, MemoFits
  <1>7. /\ entry.memo \in Memos(modules)
        /\ NoHeaderCircle /\ Truthful(memo) => Truthful(entry.memo)
    BY <1>2, <1>4, <1>5, <1>6, DescribedTells
  <1>8. /\ chunk.memo \in Memos(modules)
        /\ NoHeaderCircle /\ Truthful(entry.memo) => Truthful(chunk.memo) /\ SeesAll(chunk.text)
    BY <1>2, <1>4, <1>7, DescribedTells
  <1> DEFINE e == chunk.text
  <1>9. /\ DOMAIN emitted' = 1..k+1 /\ emitted'[k + 1] = e
        /\ \A i \in 1..k : emitted'[i] = emitted[i]
    <2>1. emitted' = Append(emitted, e)
      BY <1>1
    <2> HIDE DEF e, k
    <2>2. /\ IsList(Append(emitted, e)) /\ Len(Append(emitted, e)) = Len(emitted) + 1
          /\ Append(emitted, e)[Len(emitted) + 1] = e
          /\ \A i \in 1..Len(emitted) : Append(emitted, e)[i] = emitted[i]
      BY <1>2, ListAppended
    <2>3. DOMAIN Append(emitted, e) = 1..Len(emitted) + 1
      BY <2>2, ListIs
    <2> QED BY <2>1, <2>2, <2>3 DEF k
  <1>10. modules' = modules
    BY <1>1 DEF product
  <1>11. MemoFits'
    <2>1. memo' \in Memos(modules)'
      BY <1>1, <1>8, <1>10 DEF Memos, DirsOf
    <2> QED BY <1>1, <2>1 DEF MemoFits
  <1> HIDE DEF chunk, e, k
  <1>12. ASSUME NoHeaderCircle PROVE Truthful(memo') /\ \A i \in DOMAIN emitted' : SeesAll(emitted'[i])
    <2>1. Truthful(memo) /\ \A i \in DOMAIN emitted : SeesAll(emitted[i])
      BY <1>12 DEF HeaderInv, HeadersComplete
    <2>2. Truthful(memo') /\ SeesAll(e)
      BY <1>1, <1>7, <1>8, <1>12, <2>1 DEF e
    <2>3. \A i \in 1..k+1 : i \in 1..k \/ i = k + 1
      BY <1>3
    <2> QED BY <1>3, <1>9, <2>1, <2>2, <2>3
  <1>13. HeadersComplete'
    <2>1. NoHeaderCircle' = NoHeaderCircle /\ Truthful(memo)' = Truthful(memo')
          /\ \A i : SeesAll(emitted[i])' = SeesAll(emitted'[i])
      BY <1>10, SameExports
    <2> QED BY <1>12, <2>1 DEF HeadersComplete
  <1> QED BY <1>11, <1>13 DEF HeaderInv

\* No other step touches the memo or what was emitted.
LEMMA HeaderInvNext == GraphInv /\ HeaderInv /\ [AuditNext]_allVars => HeaderInv'
  <1> SUFFICES ASSUME GraphInv, HeaderInv, [AuditNext]_allVars PROVE HeaderInv'
    OBVIOUS
  <1>1. CASE StartClosure BY <1>1, StartClosureTells
  <1>2. CASE EmitNext BY <1>2, EmitNextTells
  <1>3. ASSUME UNCHANGED <<memo, emitted, modules>>, phase' = "load" => phase = "load"
        PROVE  HeaderInv'
    <2>1. NoHeaderCircle' = NoHeaderCircle /\ Truthful(memo)' = Truthful(memo')
          /\ \A i : SeesAll(emitted[i])' = SeesAll(emitted'[i])
      BY <1>3, SameExports
    <2>2. HeadersComplete'
      BY <1>3, <2>1 DEF HeaderInv, HeadersComplete
    <2>3. MemoFits'
      BY <1>3 DEF HeaderInv, MemoFits, Memos, DirsOf
    <2> QED BY <2>2, <2>3 DEF HeaderInv
  <1>4. CASE LoadFile BY <1>3, <1>4 DEF LoadFile, product
  <1>5. CASE Close
    <2>1. UNCHANGED graphVars /\ UNCHANGED product
      BY <1>5 DEF Close, ClosureStep, VisitRoot, VisitNext, Leave
    <2> QED BY <1>3, <2>1 DEF graphVars, product
  <1>6. CASE StartEmission BY <1>3, <1>6 DEF StartEmission, product
  <1>7. CASE Finish BY <1>3, <1>7 DEF Finish, product
  <1>8. CASE UNCHANGED vars BY <1>3, <1>8 DEF vars, graphVars, product
  <1>9. Next \/ UNCHANGED vars
    BY DEF AuditNext, CMake, Audit, Topology, allVars
  <1> QED BY <1>1, <1>2, <1>4, <1>5, <1>6, <1>7, <1>8, <1>9 DEF Next

\* When header libraries do not depend on each other in a circle, a module sees
\* every directory that its libraries export, directly or through header
\* libraries, whichever modules were emitted before it (_exported_includes).
THEOREM HeadersAreComplete == AuditSpec => []ExportsComplete
  <1>1. HeaderInv => ExportsComplete
    <2>1. \A n : AllExports(n) = UNION {IF Resolves(h) THEN ExportedBy(modules[h]) ELSE {} :
                                          h \in {n} \union HeaderReach(n)}
      BY DEF AllExports, Exports
    <2>2. ASSUME NEW n, NEW X, AllExports(n) \subseteq X, NEW h \in {n} \union HeaderReach(n)
          PROVE  (IF Resolves(h) THEN ExportedBy(modules[h]) ELSE {}) \subseteq X
      BY <2>1, <2>2
    <2> QED BY <2>2 DEF HeaderInv, HeadersComplete, NoHeaderCircle, SeesAll, ExportsComplete
  <1> QED BY <1>1, HeaderInvInit, HeaderInvNext, GraphInvHolds, PTL DEF AuditSpec

-----------------------------------------------------------------------------
(* A graph that nothing disturbs                                           *)

\* Nothing taken out of a list leaves the list.
LEMMA WithoutNothing == ASSUME NEW s, IsList(s) PROVE Without(s, {}) = s
  <1> DEFINE n == Len(s)
             Loop(g) == g = [i \in 0..n |-> IF i = 0 THEN <<>>
                                            ELSE IF s[i] \in {} THEN g[i-1] ELSE Append(g[i-1], s[i])]
             out == CHOOSE g : Loop(g)
             K == 1..Len(s)
  <1>1. n \in Nat /\ DOMAIN s = 1..n
    BY ListIs
  <1>2. ASSUME NEW g PROVE Loop(g) <=> Keeps(s, K, g)
    <2>1. \A i \in 0..n : i # 0 => i \in K
      BY <1>1
    <2> HIDE DEF n, K
    <2>2. \A i \in 0..n :
            (IF i = 0 THEN <<>> ELSE IF s[i] \in {} THEN g[i-1] ELSE Append(g[i-1], s[i]))
            = (IF i = 0 THEN <<>> ELSE IF i \in K THEN Append(g[i-1], s[i]) ELSE g[i-1])
      BY <2>1
    <2>3. [i \in 0..n |-> IF i = 0 THEN <<>> ELSE IF s[i] \in {} THEN g[i-1] ELSE Append(g[i-1], s[i])]
          = [i \in 0..n |-> IF i = 0 THEN <<>> ELSE IF i \in K THEN Append(g[i-1], s[i]) ELSE g[i-1]]
      BY <2>2
    <2> QED BY <2>3, Zenon DEF Keeps, n
  <1>3. Without(s, {}) = out[n]
    BY Zenon DEF Without, out, Loop, n
  <1>4. ASSUME NEW g, Loop(g), NEW i \in 0..n PROVE g[i] = IF i = 0 THEN <<>> ELSE Append(g[i-1], s[i])
    <2> DEFINE V(j) == IF j = 0 THEN <<>> ELSE IF s[j] \in {} THEN g[j-1] ELSE Append(g[j-1], s[j])
    <2>1. g = [j \in 0..n |-> V(j)]
      BY <1>4
    <2> HIDE DEF V
    <2>2. g[i] = V(i)
      BY <2>1, Zenon
    <2> QED BY <2>2 DEF V
  <1> HIDE DEF Loop
  <1>5. Loop(out)
    <2>1. \E g : Loop(g)
      BY <1>2, KeptItems
    <2> QED BY <2>1
  <1> HIDE DEF out
  <1> DEFINE M == {i \in Nat : i <= n => /\ IsList(out[i]) /\ Len(out[i]) = i
                                         /\ \A j \in 1..i : out[i][j] = s[j]}
  <1>6. 0 \in M
    <2>1. out[0] = <<>>
      BY <1>1, <1>4, <1>5
    <2> QED BY <2>1, NoItems
  <1>7. ASSUME NEW i \in Nat, i \in M PROVE i + 1 \in M
    <2> SUFFICES ASSUME i + 1 <= n
                 PROVE  /\ IsList(out[i+1]) /\ Len(out[i+1]) = i + 1
                        /\ \A j \in 1..i+1 : out[i+1][j] = s[j]
      OBVIOUS
    <2>1. i + 1 \in 0..n /\ i + 1 # 0 /\ (i + 1) - 1 = i /\ i <= n
      BY <1>1
    <2>2. IsList(out[i]) /\ Len(out[i]) = i /\ \A j \in 1..i : out[i][j] = s[j]
      BY <1>7, <2>1
    <2> HIDE DEF M, n
    <2>3. out[i+1] = Append(out[i], s[i+1])
      BY <1>4, <1>5, <2>1
    <2>4. /\ IsList(out[i+1]) /\ Len(out[i+1]) = i + 1 /\ out[i+1][i+1] = s[i+1]
          /\ \A j \in 1..i : out[i+1][j] = out[i][j]
      BY <2>2, <2>3, ListAppended
    <2>5. \A j \in 1..i+1 : j \in 1..i \/ j = i + 1
      OBVIOUS
    <2> QED BY <2>2, <2>4, <2>5
  <1>8. n \in M
    <2> HIDE DEF M, n
    <2> QED BY <1>1, <1>6, <1>7, NatSetInduction
  <1> DEFINE t == out[n]
  <1>9. IsList(t) /\ Len(t) = n /\ \A j \in 1..n : t[j] = s[j]
    BY <1>1, <1>8
  <1> HIDE DEF t, M
  <1>10. s \in Seq(Items(s)) /\ t \in Seq(Items(t))
    BY <1>9 DEF IsList
  <1>11. t = s
    <2>1. t = [j \in 1..n |-> t[j]] /\ s = [j \in 1..n |-> s[j]]
      BY <1>1, <1>9, <1>10, SeqDef, LenProperties DEF n
    <2>2. [j \in 1..n |-> t[j]] = [j \in 1..n |-> s[j]]
      BY <1>9
    <2> QED BY <2>1, <2>2
  <1> QED BY <1>3, <1>11 DEF t

\* What the audit reads as an invocation.
LEMMA SegmentIs ==
  ASSUME NEW w, IsList(w), NEW s \in Segments(w)
  PROVE  \E i, j \in 1..Len(w) :
           /\ i <= j /\ \A k \in i..j : w[k] \notin Joins
           /\ i = 1 \/ w[i-1] \in Joins
           /\ j = Len(w) \/ w[j+1] \in Joins
           /\ s # <<>> /\ s = IF w[i] = ":" THEN Tail(SubSeq(w, i, j)) ELSE SubSeq(w, i, j)
  <1> DEFINE Ends(x, y) ==
        /\ \A i \in x..y : w[i] \notin Joins
        /\ x = 1 \/ w[x-1] \in Joins
        /\ y = Len(w) \/ w[y+1] \in Joins
             Payload(x) == IF Head(x) = ":" THEN Tail(x) ELSE x
             P == {q \in (DOMAIN w) \X (DOMAIN w) : q[1] <= q[2] /\ Ends(q[1], q[2])}
  <1>1. Len(w) \in Nat /\ DOMAIN w = 1..Len(w)
    BY ListIs
  <1>2. Segments(w) = {Payload(SubSeq(w, p[1], p[2])) : p \in P} \ {<<>>}
    BY Zenon DEF Segments, Payload, Ends, P
  <1> HIDE DEF Payload, P
  <1>3. PICK p \in P : s = Payload(SubSeq(w, p[1], p[2]))
    BY <1>2
  <1>4. s # <<>>
    BY <1>2
  <1> DEFINE i == p[1]
             j == p[2]
  <1>5. i \in 1..Len(w) /\ j \in 1..Len(w) /\ i <= j /\ Ends(i, j)
    BY <1>1 DEF P
  <1> HIDE DEF Ends, i, j
  <1>6. s = Payload(SubSeq(w, i, j))
    BY <1>3 DEF i, j
  <1>7. Head(SubSeq(w, i, j)) = w[i]
    <2>1. j \in i..Len(w)
      BY <1>1, <1>5
    <2> QED BY <1>5, <2>1, ListPart
  <1>8. s = IF w[i] = ":" THEN Tail(SubSeq(w, i, j)) ELSE SubSeq(w, i, j)
    BY <1>6, <1>7 DEF Payload
  <1>9. /\ \A k \in i..j : w[k] \notin Joins
        /\ i = 1 \/ w[i-1] \in Joins
        /\ j = Len(w) \/ w[j+1] \in Joins
    BY <1>5 DEF Ends
  <1> QED BY <1>4, <1>5, <1>8, <1>9

\* Commands that are one invocation of the driver, alone or between two colons.
LEMMA DriverAlone ==
  ASSUME NEW w, IsList(w), Items(w) \cap Joins = {}, w[1] = "clang", NEW s \in Segments(w)
  PROVE  Head(s) = "clang"
  <1>1. PICK i, j \in 1..Len(w) :
          /\ i <= j /\ \A k \in i..j : w[k] \notin Joins
          /\ i = 1 \/ w[i-1] \in Joins
          /\ j = Len(w) \/ w[j+1] \in Joins
          /\ s # <<>> /\ s = IF w[i] = ":" THEN Tail(SubSeq(w, i, j)) ELSE SubSeq(w, i, j)
    BY SegmentIs
  <1>2. Len(w) \in Nat /\ DOMAIN w = 1..Len(w)
    BY ListIs
  <1>3. i = 1
    <2>1. i # 1 => i - 1 \in DOMAIN w
      BY <1>2
    <2> QED BY <1>1, <2>1 DEF Items
  <1>4. s = SubSeq(w, i, j) /\ j \in i..Len(w)
    BY <1>1, <1>2, <1>3
  <1> QED BY <1>3, <1>4, ListPart

\* In a link command the only invocation between the two ":" is the driver's.
LEMMA DriverBetween ==
  ASSUME NEW w, IsList(w), Len(w) = 10, w[1] = ":", w[2] = "&&", w[3] = "clang", w[9] = "&&", w[10] = ":",
         \A k \in 3..8 : w[k] \notin Joins, NEW s \in Segments(w)
  PROVE  Head(s) = "clang"
  <1>1. PICK i, j \in 1..Len(w) :
          /\ i <= j /\ \A k \in i..j : w[k] \notin Joins
          /\ i = 1 \/ w[i-1] \in Joins
          /\ s # <<>> /\ s = IF w[i] = ":" THEN Tail(SubSeq(w, i, j)) ELSE SubSeq(w, i, j)
    BY SegmentIs
  <1>2. i \in 1..10 /\ j \in 1..10 /\ j \in i..Len(w)
    BY <1>1
  <1>3. ":" \notin Joins /\ "&&" \in Joins
    BY DEF Joins
  <1>4. i \in {1, 3, 10}
    <2>1. i # 1 => i - 1 \in {2, 9}
      <3> SUFFICES ASSUME i # 1 PROVE i - 1 \in {2, 9}
        OBVIOUS
      <3>1. w[i-1] \in Joins /\ i - 1 \in 1..9
        BY <1>1, <1>2
      <3>2. i - 1 = 1 \/ i - 1 \in 3..8 \/ i - 1 \in {2, 9}
        BY <3>1
      <3> QED BY <1>3, <3>1, <3>2
    <2> QED BY <1>2, <2>1
  <1>5. \A k \in i..j : k # 2
    BY <1>1, <1>3
  <1>6. CASE i = 3
    <2>1. s = SubSeq(w, i, j)
      BY <1>1, <1>6
    <2> QED BY <1>2, <1>6, <2>1, ListPart
  <1>7. CASE i = 1 \/ i = 10
    <2>1. i = j
      BY <1>2, <1>5, <1>7
    <2>2. s = Tail(SubSeq(w, i, j))
      BY <1>1, <1>7
    <2>3. IsList(SubSeq(w, i, j)) /\ Len(SubSeq(w, i, j)) = j - i + 1 /\ SubSeq(w, i, j) # <<>>
      BY <1>2, ListPart
    <2>4. IsList(s) /\ Len(s) = Len(SubSeq(w, i, j)) - 1
      BY <2>2, <2>3, ListRest
    <2>5. Len(s) = 0
      BY <1>2, <2>1, <2>3, <2>4
    <2>6. s = <<>>
      BY <2>4, <2>5, EmptySeq DEF IsList
    <2> QED BY <1>1, <2>6
  <1> QED BY <1>4, <1>6, <1>7

\* The search paths of hand-written files are words that mean nothing to a shell
\* or to the driver.
HandmadeFits == {Handmade.include, Handmade.library} \cap Reserved = {}

\* A command all of whose invocations are of the driver passes.
LEMMA DriverPasses ==
  ASSUME NEW w, IsList(w), w # <<>>, w[1] # "cd", \A s \in Segments(w) : Head(s) = "clang",
         Items(w) \cap {"||", "<", ">", ";", "|", "$("} = {}
  PROVE  InvocationsPass(w) /\ OperatorsPass(w)
  <1>1. Head(w) = w[1]
    BY ListRest
  <1>2. OperatorsPass(w)
    BY <1>1 DEF OperatorsPass
  <1>3. InvocationsPass(w)
    BY ToolsAssumption DEF InvocationsPass
  <1> QED BY <1>2, <1>3

\* A compile command of a tree that nothing disturbs.
LEMMA CleanCompile ==
  ASSUME HandmadeFits, Undisturbed, NEW t, NEW r \in Compiles(t)
  PROVE  /\ r.module = t.name /\ Head(r.words) = "clang"
         /\ {"--target", "-c", "-fPIC"} \subseteq Items(r.words)
         /\ t.kind = "executable" => "-fPIE" \in Items(r.words)
         /\ InvocationsPass(r.words) /\ OperatorsPass(r.words) /\ SearchPathsPass(r.words)
  <1> DEFINE first == <<"clang", "--target", "-c", "-fPIC">>
             pie == IF t.kind = "executable" THEN <<"-fPIE">> ELSE <<>>
             last == <<"-I", Handmade.include>>
             u == first \o pie
             w == u \o last
             F == {"clang", "--target", "-c", "-fPIC"}
             Words == {"clang", "--target", "-c", "-fPIC", "-fPIE"}
  <1>1. IsList(first) /\ Len(first) = 4 /\ first[1] = "clang" /\ Items(first) = F
    <2>1. first \in Seq(F) /\ Len(first) = 4
      OBVIOUS
    <2>2. first[1] = "clang" /\ first[2] = "--target" /\ first[3] = "-c" /\ first[4] = "-fPIC"
      OBVIOUS
    <2> HIDE DEF first
    <2>3. IsList(first) /\ DOMAIN first = 1..4
      BY <2>1, ListIs
    <2>4. Items(first) = {first[1], first[2], first[3], first[4]}
      <3>1. 1..4 = {1, 2, 3, 4}
        OBVIOUS
      <3> QED BY <2>3, <3>1 DEF Items
    <2> QED BY <2>1, <2>2, <2>3, <2>4
  <1>2. /\ IsList(pie) /\ Len(pie) \in Nat
        /\ Items(pie) = IF t.kind = "executable" THEN {"-fPIE"} ELSE {}
    <2>1. IsList(pie) /\ Items(pie) = IF t.kind = "executable" THEN {"-fPIE"} ELSE {}
      BY NoItems, OneItem
    <2> HIDE DEF pie
    <2> QED BY <2>1, ListIs
  <1>3. IsList(last) /\ Len(last) = 2 /\ last[1] = "-I" /\ last[2] = Handmade.include
    <2> DEFINE T == {"-I", Handmade.include}
    <2>1. last \in Seq(T) /\ Len(last) = 2 /\ last[1] = "-I" /\ last[2] = Handmade.include
      OBVIOUS
    <2> HIDE DEF last, T
    <2> QED BY <2>1, ListIs
  <1>4. r.module = t.name /\ r.words = Kept(w)
    <2>1. Driver = "clang"
      BY DEF Undisturbed, Driver
    <2>2. PICK f \in t.sources : r = [file |-> f, module |-> t.name, words |-> Kept(w)]
      BY <2>1, Zenon DEF Compiles, first, pie, last, u, w
    <2> HIDE DEF w
    <2> QED BY <2>2
  <1> HIDE DEF first, pie, last
  <1>5. /\ IsList(u) /\ Items(u) = F \union Items(pie) /\ Len(u) \in Nat /\ Len(u) >= 4 /\ u[1] = "clang"
        /\ DOMAIN u = 1..Len(u)
    <2>1. /\ IsList(u) /\ Items(u) = Items(first) \union Items(pie) /\ Len(u) = Len(first) + Len(pie)
          /\ \A i \in 1..Len(first) : u[i] = first[i]
      BY <1>1, <1>2, ListsJoined
    <2>2. 1 \in 1..Len(first)
      BY <1>1
    <2> HIDE DEF u
    <2>3. DOMAIN u = 1..Len(u)
      BY <2>1, ListIs
    <2> QED BY <1>1, <1>2, <2>1, <2>2, <2>3
  <1>6. Items(u) \subseteq Words
    BY <1>2, <1>5
  <1> HIDE DEF u
  <1>7. /\ IsList(w) /\ Len(w) = Len(u) + 2 /\ Items(w) = Items(u) \union Items(last)
        /\ \A i \in 1..Len(u) : w[i] = u[i]
        /\ w[Len(u) + 1] = "-I" /\ w[Len(u) + 2] = Handmade.include
    <2>0. IsList(u) /\ IsList(last)
      BY <1>3, <1>5
    <2>3. IsList(w) /\ Items(w) = Items(u) \union Items(last) /\ Len(w) = Len(u) + Len(last)
      BY <2>0, ListsJoined
    <2>4. \A i \in 1..Len(u) : w[i] = u[i]
      BY <2>0, ListsJoined
    <2>5. \A i \in 1..Len(last) : w[Len(u) + i] = last[i]
      BY <2>0, ListsJoined
    <2> HIDE DEF w
    <2>1. /\ IsList(w) /\ Items(w) = Items(u) \union Items(last) /\ Len(w) = Len(u) + Len(last)
          /\ \A i \in 1..Len(u) : w[i] = u[i]
          /\ \A i \in 1..Len(last) : w[Len(u) + i] = last[i]
      BY <2>3, <2>4, <2>5
    <2>2. 1 \in 1..Len(last) /\ 2 \in 1..Len(last)
      BY <1>3
    <2> QED BY <1>3, <2>1, <2>2
  <1> HIDE DEF w
  <1>8. DOMAIN w = 1..Len(w) /\ w # <<>> /\ w[1] = "clang"
    <2>1. DOMAIN w = 1..Len(w)
      BY <1>7, ListIs
    <2>2. w # <<>>
      BY <1>5, <1>7, NoItems
    <2> QED BY <1>5, <1>7, <2>1, <2>2
  <1>9. r.words = w
    BY <1>4, <1>7, WithoutNothing DEF Kept, Undisturbed
  <1>10. /\ Items(w) \cap {"||", "<", ">", ";", "|", "$("} = {}
         /\ Items(w) \cap Joins = {}
    <2>1. Items(last) = {"-I", Handmade.include}
      <3>1. DOMAIN last = 1..2
        BY <1>3, ListIs
      <3>2. 1..2 = {1, 2}
        OBVIOUS
      <3> QED BY <1>3, <3>1, <3>2 DEF Items
    <2>2. Items(w) \subseteq Words \union {"-I", Handmade.include}
      BY <1>6, <1>7, <2>1
    <2>3. Handmade.include \notin {"||", "<", ">", ";", "|", "$(", "&&"}
      BY DEF HandmadeFits, Reserved
    <2> QED BY <2>2, <2>3 DEF Joins
  <1>11. SearchPathsPass(w)
    <2> SUFFICES ASSUME NEW k \in DOMAIN w, w[k] \in {"-I", "-L", "-isystem", "--sysroot"}, k < Len(w)
                 PROVE  BelowRoots(w[k+1])
      BY DEF SearchPathsPass
    <2>1. k \in Nat /\ 1 <= k /\ k < Len(u) + 2
      BY <1>7, <1>8
    <2>2. k \notin 1..Len(u)
      <3> SUFFICES ASSUME k \in 1..Len(u) PROVE FALSE
        OBVIOUS
      <3>1. w[k] \in Words
        BY <1>5, <1>6, <1>7 DEF Items
      <3> QED BY <3>1
    <2>3. k = Len(u) + 1 /\ k + 1 = Len(u) + 2
      BY <1>5, <2>1, <2>2
    <2> QED BY <1>7, <2>3 DEF Undisturbed
  <1>12. InvocationsPass(w) /\ OperatorsPass(w)
    <2>1. \A s \in Segments(w) : Head(s) = "clang"
      BY <1>7, <1>8, <1>10, DriverAlone
    <2> QED BY <1>7, <1>8, <1>10, <2>1, DriverPasses
  <1>13. Head(w) = "clang"
    BY <1>7, <1>8, ListRest
  <1> QED BY <1>2, <1>4, <1>5, <1>7, <1>9, <1>11, <1>12, <1>13

\* A list made of two.
Joined(u, s, t) == u = s \o t
\* Its items are those of the first and then those of the second.
LEMMA JoinedIs ==
  ASSUME NEW s, IsList(s), NEW t, IsList(t), NEW u, Joined(u, s, t)
  PROVE  /\ IsList(u) /\ Len(u) = Len(s) + Len(t)
         /\ \A i \in 1..Len(s) : u[i] = s[i]
         /\ \A i \in 1..Len(t) : u[Len(s) + i] = t[i]
  <1>1. IsList(s \o t) /\ Len(s \o t) = Len(s) + Len(t)
    BY ListsJoined
  <1>2. \A i \in 1..Len(s) : (s \o t)[i] = s[i]
    BY ListsJoined
  <1>3. \A i \in 1..Len(t) : (s \o t)[Len(s) + i] = t[i]
    BY ListsJoined
  <1> QED BY <1>1, <1>2, <1>3 DEF Joined

\* The words that link a product of a tree that nothing disturbs, one by one.
LinkLine(w, mode) ==
  /\ IsList(w) /\ Len(w) = 10
  /\ w[1] = ":" /\ w[2] = "&&" /\ w[3] = "clang" /\ w[4] = "--target" /\ w[5] = "-fuse-ld=lld"
  /\ w[6] = mode /\ w[7] = "-L" /\ w[8] = Handmade.library /\ w[9] = "&&" /\ w[10] = ":"

\* Between the two pairs there is the command itself.
Pair(p, x, y) == IsList(p) /\ Len(p) = 2 /\ p[1] = x /\ p[2] = y
Body(b, mode) ==
  /\ IsList(b) /\ Len(b) = 6
  /\ b[1] = "clang" /\ b[2] = "--target" /\ b[3] = "-fuse-ld=lld"
  /\ b[4] = mode /\ b[5] = "-L" /\ b[6] = Handmade.library
\* Joined in order they are such a line.
LEMMA LinkLineIs ==
  ASSUME NEW before, Pair(before, ":", "&&"), NEW body, NEW mode, Body(body, mode),
         NEW after, Pair(after, "&&", ":"), NEW v, Joined(v, before, body), NEW w, Joined(w, v, after)
  PROVE  LinkLine(w, mode)
  <1>2. /\ IsList(before) /\ Len(before) = 2 /\ before[1] = ":" /\ before[2] = "&&"
        /\ IsList(after) /\ Len(after) = 2 /\ after[1] = "&&" /\ after[2] = ":"
    BY DEF Pair
  <1>3. /\ IsList(body) /\ Len(body) = 6
        /\ body[1] = "clang" /\ body[2] = "--target" /\ body[3] = "-fuse-ld=lld"
        /\ body[4] = mode /\ body[5] = "-L" /\ body[6] = Handmade.library
    BY DEF Body
  <1>7. /\ IsList(v) /\ Len(v) = 2 + 6
        /\ \A i \in 1..2 : v[i] = before[i]
        /\ \A i \in 1..6 : v[2 + i] = body[i]
    <2>1. /\ IsList(v) /\ Len(v) = Len(before) + Len(body)
          /\ \A i \in 1..Len(before) : v[i] = before[i]
          /\ \A i \in 1..Len(body) : v[Len(before) + i] = body[i]
      <3>1. IsList(before) /\ IsList(body) /\ Joined(v, before, body)
        BY <1>2, <1>3
      <3> QED BY <3>1, JoinedIs
    <2> QED BY <1>2, <1>3, <2>1
  <1>8. Len(v) = 8
    BY <1>7
  <1>9. /\ IsList(w) /\ Len(w) = 8 + 2
        /\ \A i \in 1..8 : w[i] = v[i]
        /\ \A i \in 1..2 : w[8 + i] = after[i]
    <2>1. /\ IsList(w) /\ Len(w) = Len(v) + Len(after)
          /\ \A i \in 1..Len(v) : w[i] = v[i]
          /\ \A i \in 1..Len(after) : w[Len(v) + i] = after[i]
      <3>1. IsList(v) /\ IsList(after) /\ Joined(w, v, after)
        BY <1>2, <1>7
      <3> QED BY <3>1, JoinedIs
    <2> QED BY <1>2, <1>8, <2>1
  <1>10. w[1] = ":" /\ w[2] = "&&"
    <2>1. 1 \in 1..2 /\ 2 \in 1..2 /\ 1 \in 1..8 /\ 2 \in 1..8
      OBVIOUS
    <2> QED BY <1>2, <1>7, <1>9, <2>1
  <1>11. \A i \in 1..6 : w[2 + i] = body[i]
    <2>1. \A i \in 1..6 : 2 + i \in 1..8
      OBVIOUS
    <2> QED BY <1>7, <1>9, <2>1
  <1>12. w[3] = body[1] /\ w[4] = body[2] /\ w[5] = body[3] /\ w[6] = body[4] /\ w[7] = body[5] /\ w[8] = body[6]
    <2>1. 2 + 1 = 3 /\ 2 + 2 = 4 /\ 2 + 3 = 5 /\ 2 + 4 = 6 /\ 2 + 5 = 7 /\ 2 + 6 = 8
      OBVIOUS
    <2>2. 1 \in 1..6 /\ 2 \in 1..6 /\ 3 \in 1..6 /\ 4 \in 1..6 /\ 5 \in 1..6 /\ 6 \in 1..6
      OBVIOUS
    <2> QED BY <1>11, <2>1, <2>2
  <1>13. w[9] = "&&" /\ w[10] = ":"
    <2>1. 8 + 1 = 9 /\ 8 + 2 = 10 /\ 1 \in 1..2 /\ 2 \in 1..2
      OBVIOUS
    <2> QED BY <1>2, <1>9, <2>1
  <1>14. Len(w) = 10
    BY <1>9
  <1> QED BY <1>3, <1>9, <1>10, <1>12, <1>13, <1>14 DEF LinkLine

\* The words CMake writes to link a product.
LEMMA LinkWordsAre ==
  ASSUME Undisturbed, NEW t
  PROVE  LinkLine(Link(t).words, IF t.kind = "shared" THEN "-shared" ELSE "-pie")
  <1> DEFINE mode == IF t.kind = "shared" THEN "-shared" ELSE "-pie"
             body == <<"clang", "--target", "-fuse-ld=lld", mode, "-L", Handmade.library>>
             before == <<":", "&&">>
             after == <<"&&", ":">>
             v == before \o body
             w == v \o after
  <1>1. Link(t).words = before \o Kept(body) \o after
    <2>1. Driver = "clang"
      BY DEF Undisturbed, Driver
    <2> QED BY <2>1 DEF Link
  <1> HIDE DEF mode
  <1>2. /\ IsList(before) /\ Len(before) = 2 /\ before[1] = ":" /\ before[2] = "&&"
        /\ IsList(after) /\ Len(after) = 2 /\ after[1] = "&&" /\ after[2] = ":"
    <2> DEFINE T == {":", "&&"}
    <2>1. /\ before \in Seq(T) /\ Len(before) = 2 /\ before[1] = ":" /\ before[2] = "&&"
          /\ after \in Seq(T) /\ Len(after) = 2 /\ after[1] = "&&" /\ after[2] = ":"
      OBVIOUS
    <2> HIDE DEF before, after, T
    <2> QED BY <2>1, ListIs
  <1>3. /\ IsList(body) /\ Len(body) = 6
        /\ body[1] = "clang" /\ body[2] = "--target" /\ body[3] = "-fuse-ld=lld"
        /\ body[4] = mode /\ body[5] = "-L" /\ body[6] = Handmade.library
    <2> DEFINE lib == Handmade.library
               T == {"clang", "--target", "-fuse-ld=lld", mode, "-L", lib}
    <2> HIDE DEF lib
    <2>1. body = <<"clang", "--target", "-fuse-ld=lld", mode, "-L", lib>>
      BY DEF lib
    <2> HIDE DEF body
    <2>2. /\ body \in Seq(T) /\ Len(body) = 6
          /\ body[1] = "clang" /\ body[2] = "--target" /\ body[3] = "-fuse-ld=lld"
          /\ body[4] = mode /\ body[5] = "-L" /\ body[6] = lib
      BY <2>1
    <2> HIDE DEF T
    <2> QED BY <2>2, ListIs DEF lib
  <1> HIDE DEF before, body, after
  <1>4. Kept(body) = body
    BY <1>3, WithoutNothing DEF Kept, Undisturbed
  <1>5. Link(t).words = w
    BY <1>1, <1>4
  <1>6. Joined(v, before, body) /\ Joined(w, v, after)
    BY DEF Joined
  <1> HIDE DEF v, w
  <1>7. Pair(before, ":", "&&") /\ Pair(after, "&&", ":") /\ Body(body, mode)
    BY <1>2, <1>3 DEF Pair, Body
  <1>8. LinkLine(w, mode)
    BY <1>6, <1>7, LinkLineIs
  <1> QED BY <1>5, <1>8 DEF mode

\* They pass.
LEMMA LinkLinePasses ==
  ASSUME HandmadeFits, BelowRoots(Handmade.library), NEW mode \in {"-shared", "-pie"},
         NEW w, LinkLine(w, mode)
  PROVE  /\ InvocationsPass(w) /\ OperatorsPass(w) /\ SearchPathsPass(w)
         /\ \E s \in Segments(w) : Head(s) = "clang" /\ {"--target", "-fuse-ld=lld", mode} \subseteq Items(s)
  <1>1. IsList(w) /\ Len(w) = 10 /\ DOMAIN w = 1..10 /\ w # <<>>
    <2>1. IsList(w) /\ Len(w) = 10
      BY DEF LinkLine
    <2>2. DOMAIN w = 1..10
      BY <2>1, ListIs
    <2>3. w # <<>>
      BY <2>1, NoItems
    <2> QED BY <2>1, <2>2, <2>3
  <1>2. Handmade.library \notin {"||", "<", ">", ";", "|", "$(", "&&", "-I", "-L", "-isystem", "--sysroot"}
    BY DEF HandmadeFits, Reserved
  <1>3. Items(w) \subseteq {":", "&&", "clang", "--target", "-fuse-ld=lld", mode, "-L", Handmade.library}
    <2>1. \A i \in 1..10 : i \in {1, 2, 3, 4, 5, 6, 7, 8, 9, 10}
      OBVIOUS
    <2> QED BY <1>1, <2>1 DEF Items, LinkLine
  <1>4. Items(w) \cap {"||", "<", ">", ";", "|", "$("} = {}
    BY <1>2, <1>3
  <1>5. \A k \in 3..8 : w[k] \notin Joins
    <2>1. \A k \in 3..8 : k \in {3, 4, 5, 6, 7, 8}
      OBVIOUS
    <2> QED BY <1>2, <2>1 DEF LinkLine, Joins
  <1>6. \A s \in Segments(w) : Head(s) = "clang"
    BY <1>1, <1>5, DriverBetween DEF LinkLine
  <1>7. InvocationsPass(w) /\ OperatorsPass(w)
    <2>1. w[1] # "cd"
      BY DEF LinkLine
    <2> QED BY <1>1, <1>4, <1>6, <2>1, DriverPasses
  <1>8. SearchPathsPass(w)
    <2> SUFFICES ASSUME NEW k \in DOMAIN w, w[k] \in {"-I", "-L", "-isystem", "--sysroot"}, k < Len(w)
                 PROVE  BelowRoots(w[k+1])
      BY DEF SearchPathsPass
    <2>1. k \in {1, 2, 3, 4, 5, 6, 7, 8, 9, 10}
      BY <1>1
    <2>2. k = 7
      BY <1>2, <2>1 DEF LinkLine
    <2>3. w[k+1] = Handmade.library
      <3>1. k + 1 = 8
        BY <2>2
      <3> QED BY <3>1 DEF LinkLine
    <2> QED BY <2>3
  <1>9. \E s \in Segments(w) : Head(s) = "clang" /\ {"--target", "-fuse-ld=lld", mode} \subseteq Items(s)
    <2> DEFINE a == 3
               b == 8
               s == SubSeq(w, a, b)
    <2>1. InvocationFrom(w, 3, 8)
      <3>1. 8 \in 3..Len(w) /\ 8 + 1 = 9
        BY <1>1
      <3> QED BY <1>5, <3>1 DEF InvocationFrom, LinkLine, Joins
    <2>2. StartsAt(w, 3) /\ w[3] # ":"
      <3>1. 3 \in 1..Len(w) /\ 3 - 1 = 2
        BY <1>1
      <3> QED BY <3>1 DEF StartsAt, LinkLine
    <2>3. s \in Segments(w)
      BY <1>1, <1>7, <2>1, <2>2, InvocationIsRead
    <2>4. /\ IsList(s) /\ Len(s) = 6 /\ \A k \in 1..6 : s[k] = w[3 + k - 1]
          /\ Head(s) = w[3]
      <3>1. a \in 1..Len(w) /\ b \in a..Len(w) /\ b - a + 1 = 6 /\ a = 3
        BY <1>1
      <3> HIDE DEF a, b
      <3>2. /\ IsList(s) /\ Len(s) = b - a + 1 /\ \A k \in 1..b - a + 1 : s[k] = w[a + k - 1]
            /\ Head(s) = w[a]
        BY <1>1, <3>1, ListPart
      <3> HIDE DEF s
      <3> QED BY <3>1, <3>2
    <2> HIDE DEF s
    <2>5. DOMAIN s = 1..6
      BY <2>4, ListIs
    <2>6. s[2] = w[4] /\ s[3] = w[5] /\ s[4] = w[6]
      <3>1. 2 \in 1..6 /\ 3 \in 1..6 /\ 4 \in 1..6 /\ 3 + 2 - 1 = 4 /\ 3 + 3 - 1 = 5 /\ 3 + 4 - 1 = 6
        OBVIOUS
      <3> QED BY <2>4, <3>1
    <2>7. {s[2], s[3], s[4]} \subseteq Items(s)
      BY <2>5 DEF Items
    <2> QED BY <2>3, <2>4, <2>6, <2>7 DEF LinkLine
  <1> QED BY <1>7, <1>8, <1>9

\* A link command of a tree that nothing disturbs.
LEMMA CleanLink ==
  ASSUME HandmadeFits, Undisturbed, NEW t
  PROVE  LinkPasses(Link(t)) /\ InvocationsPass(Link(t).words) /\ OperatorsPass(Link(t).words)
  <1> DEFINE l == Link(t)
             mode == IF t.kind = "shared" THEN "-shared" ELSE "-pie"
  <1>1. LinkLine(l.words, mode)
    BY LinkWordsAre
  <1>2. l.kind = t.kind
    BY DEF Link
  <1>3. mode \in {"-shared", "-pie"} /\ (t.kind = "shared" => mode = "-shared")
        /\ (t.kind = "executable" => mode = "-pie")
    OBVIOUS
  <1> HIDE DEF l, mode
  <1>4. /\ InvocationsPass(l.words) /\ OperatorsPass(l.words) /\ SearchPathsPass(l.words)
        /\ \E s \in Segments(l.words) :
             Head(s) = "clang" /\ {"--target", "-fuse-ld=lld", mode} \subseteq Items(s)
    BY <1>1, <1>3, LinkLinePasses DEF Undisturbed
  <1>5. LinkPasses(l)
    BY <1>2, <1>3, <1>4 DEF LinkPasses
  <1> QED BY <1>4, <1>5 DEF l

\* The tree that CMake makes, and what the audit and the topology check ask of it.
Texts == {emitted[i] : i \in DOMAIN emitted}
TreeCompiles == UNION {Compiles(t) : t \in Texts}
TreeLinks == {Link(t) : t \in {u \in Texts : Product(u)}}
Tree ==
  [compiles |-> TreeCompiles, links |-> TreeLinks,
   ninja |-> {r.words : r \in TreeCompiles} \union {l.words : l \in TreeLinks} \union Handmade.custom]
AuditPasses ==
  /\ commands.compiles # {}
  /\ \A r \in commands.compiles : CompilePasses(r)
  /\ \A w \in commands.ninja : InvocationsPass(w) /\ OperatorsPass(w)
  /\ \A l \in commands.links : LinkPasses(l)
TopologyPasses ==
  /\ Staged # {}
  /\ \A n \in Staged : \A d \in Needed(n) : d \in Staged \/ SystemLibrary(d)
  /\ CompilerDso \in Staged /\ RuntimeDso \in Needed(CompilerDso)
  /\ RuntimeDso \in Staged => CompilerDso \notin Needed(RuntimeDso)

\* Modules of a name are of a kind.
KindsAgree == \A t, u \in Texts : t.name = u.name => t.kind = u.kind

\* The tree of a graph that nothing disturbs passes the audit.
LEMMA CleanTreePasses ==
  ASSUME HandmadeFits, Undisturbed, KindsAgree, commands = Tree, NEW e \in Texts, e.sources # {}
  PROVE  AuditPasses
  <1>1. /\ commands.compiles = TreeCompiles /\ commands.links = TreeLinks
        /\ commands.ninja = {r.words : r \in TreeCompiles} \union {l.words : l \in TreeLinks}
    BY DEF Tree, Undisturbed
  <1>2. commands.compiles # {}
    <2>1. PICK f \in e.sources : TRUE
      OBVIOUS
    <2>2. Compiles(e) # {}
      BY <2>1 DEF Compiles
    <2> QED BY <1>1, <2>2 DEF TreeCompiles
  <1>3. ASSUME NEW r \in commands.compiles
        PROVE  CompilePasses(r) /\ InvocationsPass(r.words) /\ OperatorsPass(r.words)
    <2>1. PICK t \in Texts : r \in Compiles(t)
      BY <1>1 DEF TreeCompiles
    <2>2. /\ r.module = t.name /\ Head(r.words) = "clang"
          /\ {"--target", "-c", "-fPIC"} \subseteq Items(r.words)
          /\ t.kind = "executable" => "-fPIE" \in Items(r.words)
          /\ InvocationsPass(r.words) /\ OperatorsPass(r.words) /\ SearchPathsPass(r.words)
      BY <2>1, CleanCompile
    <2>3. r.module \in Executables => t.kind = "executable"
      <3> SUFFICES ASSUME r.module \in Executables PROVE t.kind = "executable"
        OBVIOUS
      <3>1. PICK l \in commands.links : l.kind = "executable" /\ l.module = r.module
        BY DEF Executables
      <3>2. PICK u \in Texts : l = Link(u)
        BY <1>1 DEF TreeLinks
      <3>3. l.kind = u.kind /\ l.module = u.name
        BY <3>2 DEF Link
      <3> QED BY <2>2, <3>1, <3>3 DEF KindsAgree
    <2> QED BY <2>2, <2>3 DEF CompilePasses
  <1>4. ASSUME NEW l \in commands.links
        PROVE  LinkPasses(l) /\ InvocationsPass(l.words) /\ OperatorsPass(l.words)
    <2>1. PICK t \in Texts : l = Link(t)
      BY <1>1 DEF TreeLinks
    <2> QED BY <2>1, CleanLink
  <1>5. \A w \in commands.ninja : InvocationsPass(w) /\ OperatorsPass(w)
    BY <1>1, <1>3, <1>4
  <1> QED BY <1>2, <1>3, <1>4, <1>5 DEF AuditPasses

\* The stage of a graph in which whatever a module links is emitted too, or is a
\* system library, passes the topology check but for compiler and runtime.
LEMMA CleanStagePasses ==
  ASSUME commands = Tree,
         \A t \in Texts : \A d \in t.links : SystemLibrary(d) \/ \E u \in Texts : u.name = d,
         CompilerDso \in Staged, RuntimeDso \in Needed(CompilerDso), CompilerDso \notin Needed(RuntimeDso)
  PROVE  TopologyPasses
  <1>1. Staged = {t.name : t \in {u \in Texts : Product(u)}}
    <2>1. commands.links = TreeLinks
      BY DEF Tree
    <2>2. \A t : Link(t).module = t.name
      BY DEF Link
    <2> QED BY <2>1, <2>2 DEF Staged, TreeLinks
  <1>2. ASSUME NEW n, NEW d \in Needed(n) PROVE d \in Staged \/ SystemLibrary(d)
    <2>1. \A x : TextOf(x) \subseteq Texts /\ \A t \in Texts : t.name = x => t \in TextOf(x)
      BY DEF TextOf, Texts
    <2> DEFINE All == UNION {UNION {t.links : t \in TextOf(x)} : x \in StaticReach(n)}
    <2>2. d \in All /\ \A t \in TextOf(d) : t.kind # "static"
      BY DEF Needed
    <2>3. PICK x \in StaticReach(n) : d \in UNION {t.links : t \in TextOf(x)}
      BY <2>2
    <2>4. PICK t \in TextOf(x) : d \in t.links
      BY <2>3
    <2>5. CASE SystemLibrary(d)
      BY <2>5
    <2>6. CASE \E u \in Texts : u.name = d
      <3>1. PICK u \in Texts : u.name = d
        BY <2>6
      <3>2. Product(u)
        BY <2>1, <2>2, <3>1 DEF Product
      <3> QED BY <1>1, <3>1, <3>2
    <2> QED BY <2>1, <2>4, <2>5, <2>6
  <1> QED BY <1>2 DEF TopologyPasses

-----------------------------------------------------------------------------
(* What a clean graph is made of                                           *)

\* What is written of a module is of its kind, and links only what the search
\* saw that it links.
KindOf(n) == Kind(ApplyPolicy(modules[n], policies[n], input.glob), policies[n])
Describes(e, n) == e.name = n /\ e.kind = KindOf(n) /\ e.links \subseteq Items(Links(n))

\* Modules are emitted in order.
InOrder == Len(emitted) <= Len(order) /\ \A i \in DOMAIN emitted : Describes(emitted[i], order[i])

\* What a module in the order visits, the search has come to.
Followed == \A n \in Items(order) : \A d \in Items(Visits(n)) : Emittable(d) => d \in Seen

\* Nothing is emitted before the search is over, and everything in the end.
Phases ==
  /\ phase \in {"load", "close"} => emitted = <<>>
  /\ phase \in {"emit", "done"} => stack = <<>>
  /\ phase = "done" => Len(emitted) = Len(order)

\* CMake's tree is that of what was emitted, and what was refused did not pass.
Judged ==
  /\ commands # None => phase = "done" /\ commands = Tree
  /\ audit # None \/ topology # None => commands # None
  /\ audit = "refused" => ~AuditPasses
  /\ topology = "refused" => ~TopologyPasses

\* All of it.
CleanInv == HandmadeFits /\ InOrder /\ Followed /\ Phases /\ Judged

\* What a module links is visited.
LEMMA LinksAreVisited ==
  ASSUME PoliciesFit, ModulesFit, NEW n, Emittable(n)
  PROVE  Items(Links(n)) \subseteq Items(Visits(n))
  <1>1. Resolves(n)
    BY DEF Emittable
  <1>2. IsList(Links(n)) /\ IsList(Inlined(n))
    BY <1>1, LinksIs, InlinedIs
  <1>3. Items(Links(n) \o Inlined(n)) = Items(Links(n)) \union Items(Inlined(n))
    BY <1>2, ListsJoined
  <1> QED BY <1>3 DEF Visits

\* The emitter links no more than the closure saw.
LEMMA LinkLibsSeen ==
  ASSUME PoliciesFit, ModulesFit, NEW n, Resolves(n), NEW glob
  PROVE  LET a == ApplyPolicy(modules[n], policies[n], glob)
         IN a.name = n /\ Items(a.shared) \union Items(a.static) \subseteq Items(Links(n))
  <1> DEFINE m == modules[n]
             pol == policies[n]
             a == ApplyPolicy(m, pol, glob)
             sh == SharedAfter(m, pol)
             st == StaticAfter(m, pol)
             wh == Whole(m, pol)
  <1>1. ModuleOf(m, n) /\ IsList(pol.add_shared) /\ IsList(pol.add_static)
    BY DEF Resolves, PoliciesFit, ModulesFit
  <1>2. Links(n) = (sh \o st) \o wh
    BY DEF Links, LinkedDeps
  <1> HIDE DEF m, pol
  <1>3. a.name = n /\ Items(a.shared) = Items(sh) /\ Items(a.static) = Items(st)
    BY <1>1, PolicyKeeps
  <1>4. IsList(sh) /\ IsList(st) /\ IsList(wh)
    <2>1. IsList(m.shared) /\ IsList(m.static) /\ IsList(m.whole)
      BY <1>1 DEF ModuleOf
    <2>2. IsList(Without(m.shared, pol.remove_shared)) /\ IsList(Without(m.static, pol.remove_static))
      BY <2>1, WithoutIs
    <2>3. IsList(sh) /\ IsList(st)
      BY <1>1, <2>2, ExtendedIs DEF SharedAfter, StaticAfter
    <2>4. IsList(wh)
      BY <2>1, NoItems DEF Whole
    <2> QED BY <2>3, <2>4
  <1> HIDE DEF a, sh, st, wh
  <1>5. IsList(sh \o st) /\ Items(sh \o st) = Items(sh) \union Items(st)
    BY <1>4, ListsJoined
  <1>6. Items((sh \o st) \o wh) = Items(sh \o st) \union Items(wh)
    BY <1>4, <1>5, ListsJoined
  <1>7. a.name = n /\ Items(a.shared) \union Items(a.static) \subseteq Items(Links(n))
    BY <1>2, <1>3, <1>5, <1>6
  <1> QED BY <1>7 DEF a, m, pol

\* emit_module describes the module it is given.
LEMMA EmitDescribes ==
  ASSUME PoliciesFit, ModulesFit, NEW n, Emittable(n), NEW cache, NEW e,
         e = EmitModule(decls, modules, policies, input.glob, n, cache).text
  PROVE  Describes(e, n)
  <1> DEFINE m == ApplyPolicy(modules[n], policies[n], input.glob)
  <1>1. m.name = n /\ Items(m.shared) \union Items(m.static) \subseteq Items(Links(n))
    <2> DEFINE glob == input.glob
    <2> HIDE DEF glob
    <2>1. Resolves(n)
      BY DEF Emittable
    <2>2. LET a == ApplyPolicy(modules[n], policies[n], glob)
          IN a.name = n /\ Items(a.shared) \union Items(a.static) \subseteq Items(Links(n))
      BY <2>1, LinkLibsSeen
    <2> QED BY <2>2 DEF glob
  <1>2. e = Described(decls, modules, policies, input.glob, m, cache).text
    BY DEF EmitModule
  <1>3. KindOf(n) = Kind(m, policies[n])
    BY DEF KindOf
  <1> HIDE DEF m
  <1>4. /\ e.name = m.name /\ e.kind = Kind(m, policies[m.name])
        /\ e.links = LinkLibs(modules, m, policies[m.name])
    BY <1>2 DEF Described
  <1>5. e.links \subseteq Items(m.shared) \union Items(m.static)
    BY <1>4 DEF LinkLibs
  <1> QED BY <1>1, <1>3, <1>4, <1>5 DEF Describes

\* While neither product nor input changes, a description fits what it fitted.
LEMMA SameDescriptions ==
  ASSUME UNCHANGED <<product, input>>
  PROVE  \A e, n : Describes(e, n) => Describes(e, n)'
  <1>1. modules' = modules /\ policies' = policies /\ input' = input
    BY DEF product
  <1>2. \A n : KindOf(n)' = KindOf(n)
    BY <1>1 DEF KindOf
  <1>3. \A n : Links(n)' = Links(n)
    BY <1>1 DEF Links
  <1> QED BY <1>2, <1>3 DEF Describes

-----------------------------------------------------------------------------
(* Every step keeps a graph clean                                          *)

\* Nothing is visited, emitted or judged at first.
LEMMA CleanInvInit == AuditInit => CleanInv
  <1> SUFFICES ASSUME AuditInit PROVE CleanInv
    OBVIOUS
  <1>1. /\ phase = "load" /\ emitted = <<>> /\ order = <<>>
        /\ commands = None /\ audit = None /\ topology = None
    BY DEF AuditInit, Init
  <1>2. HandmadeFits
    <2>1. PICK i \in Inputs : input = [f \in DOMAIN InputOf(i) \ {"files", "policies", "host"} |-> InputOf(i)[f]]
      BY DEF AuditInit, Init
    <2>2. /\ "handmade" \in DOMAIN InputOf(i)
          /\ {InputOf(i).handmade.include, InputOf(i).handmade.library} \cap Reserved = {}
      BY HandmadeAssumption
    <2>3. input.handmade = InputOf(i).handmade
      BY <2>1, <2>2
    <2> QED BY <2>2, <2>3 DEF HandmadeFits, Handmade
  <1> DEFINE none == <<>>
  <1>3. Items(none) = {} /\ Len(none) = 0 /\ DOMAIN none = {} /\ emitted = none /\ order = none
    BY <1>1, NoItems
  <1> HIDE DEF none
  <1>4. InOrder /\ Followed
    BY <1>3 DEF InOrder, Followed
  <1>5. Phases
    BY <1>1 DEF Phases
  <1>6. Judged
    BY <1>1, NoneAssumption DEF Judged
  <1> QED BY <1>2, <1>4, <1>5, <1>6 DEF CleanInv

\* What hand-written files say does not change.
LEMMA HandmadeStays == HandmadeFits /\ [AuditNext]_allVars => HandmadeFits'
  <1> SUFFICES ASSUME HandmadeFits, [AuditNext]_allVars PROVE HandmadeFits'
    OBVIOUS
  <1>1. input' = input
    BY InputStays
  <1> QED BY <1>1 DEF HandmadeFits, Handmade

\* An empty file is in order.
LEMMA NothingInOrder ==
  ASSUME emitted = <<>>, IsList(order)
  PROVE  InOrder
  <1> DEFINE none == <<>>
  <1>1. Len(none) = 0 /\ DOMAIN none = {} /\ emitted = none
    BY NoItems
  <1>2. Len(order) \in Nat
    BY ListIs
  <1> HIDE DEF none
  <1> QED BY <1>1, <1>2 DEF InOrder

\* The descriptions, while nothing is emitted or visited.
LEMMA InOrderStays ==
  ASSUME InOrder, UNCHANGED <<product, input, emitted, order>>
  PROVE  InOrder'
  <1>1. \A e, n : Describes(e, n) => Describes(e, n)'
    BY SameDescriptions
  <1> QED BY <1>1 DEF InOrder

\* What was visited, while the search rests.
LEMMA FollowedStays ==
  ASSUME Followed, UNCHANGED <<product, walk>>
  PROVE  Followed'
  <1>1. UNCHANGED product /\ state' = state /\ order' = order
    BY DEF walk
  <1>2. (\A n : Emittable(n)' = Emittable(n)) /\ \A n : Visits(n)' = Visits(n)
    BY <1>1, SameVisits
  <1>3. Seen' = Seen
    BY <1>1 DEF Seen
  <1> QED BY <1>1, <1>2, <1>3 DEF Followed

\* A module goes to the end of the order when all that it visits has been come to.
LEMMA CloseFollows ==
  ASSUME GraphInv, Followed, ClosureStep
  PROVE  Followed' /\ UNCHANGED product
  <1>1. UNCHANGED product
    BY DEF ClosureStep, VisitRoot, VisitNext, Leave
  <1>2. (\A n : Emittable(n)' = Emittable(n)) /\ \A n : Visits(n)' = Visits(n)
    BY <1>1, SameVisits
  <1>3. /\ state \in [Names -> {"new", "visiting", "done"}] /\ IsList(order)
        /\ Calling(stack, Seen)
    BY DEF GraphInv, Walking, States, Ordered
  <1>4. CASE order' = order /\ \E n : \E below : Enter(n, below) \/ Pass(n, below)
    <2>1. PICK n, below : Enter(n, below) \/ Pass(n, below)
      BY <1>4
    <2>2. Seen \subseteq Seen'
      BY <1>3, <2>1 DEF Enter, Pass, Seen
    <2> QED BY <1>1, <1>2, <1>4, <2>2 DEF Followed
  <1>5. CASE Leave
    <2> DEFINE f == stack[1]
    <2>1. /\ stack # <<>> /\ f.todo = <<>> /\ state' = [state EXCEPT ![f.name] = "done"]
          /\ order' = Append(order, f.name)
      BY <1>5 DEF Leave
    <2>2. CallFits(f, Seen)
      <3>1. IsList(stack) /\ \A k \in DOMAIN stack : CallFits(stack[k], Seen)
        BY <1>3 DEF Calling
      <3>2. 1 \in DOMAIN stack
        BY <2>1, <3>1, CallPopped
      <3> QED BY <3>1, <3>2
    <2> HIDE DEF f
    <2>3. Seen \subseteq Seen'
      BY <1>3, <2>1 DEF Seen
    <2>4. Items(order') = Items(order) \union {f.name}
      BY <1>3, <2>1, ListAppended
    <2>5. \A d \in Items(Visits(f.name)) : Emittable(d) => d \in Seen
      BY <2>1, <2>2, NoItems DEF CallFits
    <2> QED BY <1>1, <1>2, <2>3, <2>4, <2>5 DEF Followed
  <1>6. (order' = order /\ \E n : \E below : Enter(n, below) \/ Pass(n, below)) \/ Leave
    <2>1. CASE VisitRoot
      BY <2>1 DEF VisitRoot, Enter, Pass
    <2>2. CASE VisitNext
      BY <2>2 DEF VisitNext, Enter, Pass
    <2> QED BY <2>1, <2>2 DEF ClosureStep
  <1> QED BY <1>1, <1>4, <1>5, <1>6

\* A module is described where it stands in the order.
LEMMA EmitNextInOrder ==
  ASSUME GraphInv, InOrder, EmitNext
  PROVE  InOrder'
  <1> DEFINE k == Len(emitted)
             n == order[k + 1]
             glob == input.glob
             entry == ModuleManifest(decls, modules, policies, glob, n, memo)
             cache == entry.memo
             e == EmitModule(decls, modules, policies, glob, n, cache).text
  <1>1. /\ emitted' = Append(emitted, e) /\ k < Len(order)
        /\ UNCHANGED <<product, input, order>>
    BY DEF EmitNext, walk
  <1>2. PoliciesFit /\ ModulesFit /\ IsList(emitted) /\ IsList(order)
    BY DEF GraphInv, InputFits, Walking, Ordered, Emitting
  <1>3. /\ k \in Nat /\ DOMAIN emitted = 1..k /\ Len(order) \in Nat /\ DOMAIN order = 1..Len(order)
    BY <1>2, ListIs
  <1>4. Emittable(n)
    <2>1. k + 1 \in DOMAIN order
      <3> HIDE DEF k
      <3> QED BY <1>1, <1>3
    <2> QED BY <2>1 DEF GraphInv, Walking, Ordered, InPlace
  <1>5. Describes(e, n)
    <2> HIDE DEF n, cache
    <2>1. e = EmitModule(decls, modules, policies, input.glob, n, cache).text
      OBVIOUS
    <2> HIDE DEF e
    <2> QED BY <1>2, <1>4, <2>1, EmitDescribes
  <1> HIDE DEF e
  <1>6. /\ IsList(emitted') /\ Len(emitted') = k + 1 /\ emitted'[k + 1] = e
        /\ \A i \in 1..k : emitted'[i] = emitted[i]
    BY <1>1, <1>2, ListAppended
  <1>7. DOMAIN emitted' = 1..k + 1
    BY <1>6, ListIs
  <1>8. modules' = modules /\ policies' = policies /\ input' = input /\ order' = order
    BY <1>1 DEF product
  <1>9. \A i \in DOMAIN emitted : Describes(emitted[i], order[i])
    BY DEF InOrder
  <1>10. ASSUME NEW i \in DOMAIN emitted' PROVE Describes(emitted[i], order[i])'
    <2> DEFINE x == emitted'[i]
               y == order[i]
    <2>1. Describes(x, y)
      <3>1. CASE i = k + 1
        BY <1>5, <1>6, <3>1
      <3>2. CASE i \in 1..k
        BY <1>3, <1>6, <1>9, <3>2
      <3>3. i = k + 1 \/ i \in 1..k
        <4> HIDE DEF k
        <4> QED BY <1>3, <1>7
      <3> QED BY <3>1, <3>2, <3>3
    <2> QED BY <1>8, <2>1 DEF Describes, KindOf, Links
  <1>11. Len(emitted') <= Len(order')
    <2> HIDE DEF k
    <2> QED BY <1>1, <1>3, <1>6, <1>8
  <1> QED BY <1>10, <1>11 DEF InOrder

\* While the graph does not change, neither does what CMake makes of it,
LEMMA SameTree ==
  ASSUME UNCHANGED vars
  PROVE  Tree' = Tree
  <1>1. emitted' = emitted /\ input' = input
    BY DEF vars, graphVars
  <1>2. Texts' = Texts /\ Handmade' = Handmade
    BY <1>1 DEF Texts, Handmade
  <1>3. \A t : Compiles(t)' = Compiles(t) /\ Link(t)' = Link(t)
    BY <1>2 DEF Compiles, Link, Kept, Driver
  <1>4. TreeCompiles' = TreeCompiles /\ TreeLinks' = TreeLinks
    BY <1>2, <1>3 DEF TreeCompiles, TreeLinks
  <1> QED BY <1>2, <1>4 DEF Tree

\* nor, while that does not either, what the checks say of it.
LEMMA SameVerdicts ==
  ASSUME UNCHANGED <<vars, commands>>
  PROVE  AuditPasses' = AuditPasses /\ TopologyPasses' = TopologyPasses
  <1>1. emitted' = emitted /\ input' = input /\ host' = host /\ commands' = commands
    BY DEF vars, graphVars, product
  <1>2. AuditPasses' = AuditPasses
    <2>1. \A r : CompilePasses(r)' = CompilePasses(r)
      BY <1>1 DEF CompilePasses, Executables
    <2>2. \A l : LinkPasses(l)' = LinkPasses(l)
      BY <1>1 DEF LinkPasses
    <2> QED BY <1>1, <2>1, <2>2 DEF AuditPasses
  <1>3. TopologyPasses' = TopologyPasses
    <2>1. \A n : Needed(n)' = Needed(n)
      BY <1>1 DEF Needed, StaticReach, TextOf
    <2>2. Staged' = Staged
      BY <1>1 DEF Staged
    <2>3. \A n : SystemLibrary(n)' = SystemLibrary(n)
      BY <1>1 DEF SystemLibrary
    <2> QED BY <2>1, <2>2, <2>3 DEF TopologyPasses
  <1> QED BY <1>2, <1>3

\* Once there is a tree, the graph is finished.
LEMMA GraphFinished == Judged /\ commands # None => ~Next
  <1> SUFFICES ASSUME phase = "done" PROVE ~Next
    BY DEF Judged
  <1> QED BY DEF Next, LoadFile, StartClosure, Close, StartEmission, EmitNext, Finish

\* A step of bp2cmake judges nothing.
LEMMA GraphStepJudges == Judged /\ Next /\ UNCHANGED auditVars => Judged'
  <1> SUFFICES ASSUME Judged, Next, UNCHANGED auditVars PROVE Judged'
    OBVIOUS
  <1>1. commands = None
    BY GraphFinished
  <1>2. commands' = None /\ audit' = None /\ topology' = None
    BY <1>1 DEF Judged, auditVars
  <1> QED BY <1>2, NoneAssumption DEF Judged

\* The tree that CMake makes is the tree of the graph; nothing was judged before.
LEMMA CMakeJudges == Judged /\ CMake => Judged'
  <1> SUFFICES ASSUME Judged, CMake PROVE Judged'
    OBVIOUS
  <1>1. /\ phase = "done" /\ commands = None /\ UNCHANGED <<vars, audit, topology>>
        /\ commands' = Tree
    BY DEF CMake, Tree, TreeCompiles, TreeLinks, Texts
  <1>2. phase' = "done"
    BY <1>1 DEF vars, graphVars
  <1>3. audit' = None /\ topology' = None
    BY <1>1 DEF Judged
  <1>4. commands' = Tree'
    BY <1>1, SameTree
  <1> QED BY <1>2, <1>3, <1>4, NoneAssumption DEF Judged

\* The audit and the topology check refuse what does not pass.
LEMMA ChecksJudge == Judged /\ (Audit \/ Topology \/ UNCHANGED allVars) => Judged'
  <1> SUFFICES ASSUME Judged, Audit \/ Topology \/ UNCHANGED allVars PROVE Judged'
    OBVIOUS
  <1>1. UNCHANGED <<vars, commands>>
    BY DEF Audit, Topology, allVars, auditVars
  <1>2. phase' = phase
    BY <1>1 DEF vars, graphVars
  <1>3. Tree' = Tree /\ AuditPasses' = AuditPasses /\ TopologyPasses' = TopologyPasses
    BY <1>1, SameTree, SameVerdicts
  <1>4. audit' # None \/ topology' # None => commands # None
    <2>1. CASE Audit
      BY <2>1 DEF Audit
    <2>2. CASE Topology
      BY <2>2, NoneAssumption DEF Topology, Judged
    <2>3. CASE UNCHANGED allVars
      BY <2>3 DEF allVars, auditVars, Judged
    <2> QED BY <2>1, <2>2, <2>3
  <1>5. audit' = "refused" => ~AuditPasses
    <2>1. CASE Audit
      BY <2>1 DEF Audit, AuditPasses
    <2>2. CASE Topology \/ UNCHANGED allVars
      BY <2>2 DEF Topology, allVars, auditVars, Judged
    <2> QED BY <2>1, <2>2
  <1>6. topology' = "refused" => ~TopologyPasses
    <2>1. CASE Topology
      BY <2>1 DEF Topology, TopologyPasses
    <2>2. CASE Audit \/ UNCHANGED allVars
      BY <2>2 DEF Audit, allVars, auditVars, Judged
    <2> QED BY <2>1, <2>2
  <1> QED BY <1>1, <1>2, <1>3, <1>4, <1>5, <1>6 DEF Judged

\* What a step leaves to be shown, besides what was judged.
GraphClean == InOrder /\ Followed /\ Phases

\* Everything is resolved before anything is visited or emitted.
LEMMA StartClosureClean == GraphInv /\ GraphClean /\ StartClosure => GraphClean'
  <1> SUFFICES ASSUME GraphInv, GraphClean, StartClosure PROVE GraphClean'
    OBVIOUS
  <1>1. phase' = "close" /\ emitted' = emitted /\ order' = order /\ emitted = <<>> /\ order = <<>>
    BY DEF StartClosure, GraphInv, Early
  <1> DEFINE none == <<>>
  <1>2. Items(none) = {} /\ Len(none) = 0 /\ DOMAIN none = {} /\ emitted' = none /\ order' = none
    BY <1>1, NoItems
  <1> HIDE DEF none
  <1>3. InOrder' /\ Followed'
    BY <1>2 DEF InOrder, Followed
  <1>4. Phases'
    BY <1>1 DEF Phases
  <1> QED BY <1>3, <1>4 DEF GraphClean

\* The search goes on while nothing is emitted.
LEMMA CloseClean == GraphInv /\ GraphClean /\ Close => GraphClean'
  <1> SUFFICES ASSUME GraphInv, GraphClean, Close PROVE GraphClean'
    OBVIOUS
  <1>1. /\ phase = "close" /\ phase' = phase /\ emitted' = emitted /\ emitted = <<>> /\ ClosureStep
    BY DEF Close, graphVars, GraphClean, Phases
  <1>2. Followed'
    BY <1>1, CloseFollows DEF GraphClean
  <1>3. GraphInv'
    BY CloseKeeps
  <1>4. InOrder'
    <2> DEFINE none == <<>>
    <2>1. Len(none) = 0 /\ DOMAIN none = {} /\ emitted' = none
      BY <1>1, NoItems
    <2>2. Len(order') \in Nat
      BY <1>3, ListIs DEF GraphInv, Walking, Ordered
    <2> HIDE DEF none
    <2> QED BY <2>1, <2>2 DEF InOrder
  <1>5. Phases'
    BY <1>1 DEF Phases
  <1> QED BY <1>2, <1>4, <1>5 DEF GraphClean

\* Steps that leave the search and what was emitted alone.
LEMMA RestClean ==
  ASSUME GraphClean, UNCHANGED <<input, emitted, product, walk>>, Phases'
  PROVE  GraphClean'
  <1>1. order' = order
    BY DEF walk
  <1>2. InOrder'
    BY <1>1, InOrderStays DEF GraphClean
  <1>3. Followed'
    BY FollowedStays DEF GraphClean
  <1> QED BY <1>2, <1>3 DEF GraphClean

\* A module is emitted.
LEMMA EmitNextClean == GraphInv /\ GraphClean /\ EmitNext => GraphClean'
  <1> SUFFICES ASSUME GraphInv, GraphClean, EmitNext PROVE GraphClean'
    OBVIOUS
  <1>1. phase = "emit" /\ phase' = phase /\ UNCHANGED <<product, walk>> /\ stack' = stack
    BY DEF EmitNext, walk
  <1>2. InOrder'
    BY EmitNextInOrder DEF GraphClean
  <1>3. Followed'
    BY <1>1, FollowedStays DEF GraphClean
  <1>4. Phases'
    BY <1>1 DEF GraphClean, Phases
  <1> QED BY <1>2, <1>3, <1>4 DEF GraphClean

\* Every step.
LEMMA GraphCleanNext == GraphInv /\ GraphClean /\ [AuditNext]_allVars => GraphClean'
  <1> SUFFICES ASSUME GraphInv, GraphClean, [AuditNext]_allVars PROVE GraphClean'
    OBVIOUS
  <1>1. CASE LoadFile
    <2>1. UNCHANGED <<input, emitted, product, walk>> /\ phase' = phase /\ stack' = stack /\ order' = order
      BY <1>1 DEF LoadFile, walk
    <2>2. Phases'
      BY <2>1 DEF GraphClean, Phases
    <2> QED BY <2>1, <2>2, RestClean
  <1>2. CASE StartClosure BY <1>2, StartClosureClean
  <1>3. CASE Close BY <1>3, CloseClean
  <1>4. CASE StartEmission
    <2>1. /\ UNCHANGED <<input, emitted, product, walk>> /\ phase' \in {"refused", "emit"}
          /\ stack' = stack /\ stack = <<>>
      BY <1>4 DEF StartEmission, walk, Closed
    <2>2. Phases'
      BY <2>1 DEF Phases
    <2> QED BY <2>1, <2>2, RestClean
  <1>5. CASE EmitNext BY <1>5, EmitNextClean
  <1>6. CASE Finish
    <2>1. /\ UNCHANGED <<input, emitted, product, walk>> /\ phase = "emit" /\ phase' = "done"
          /\ stack' = stack /\ emitted' = emitted /\ order' = order /\ Len(emitted) = Len(order)
      BY <1>6 DEF Finish, walk
    <2>2. Phases'
      BY <2>1 DEF GraphClean, Phases
    <2> QED BY <2>1, <2>2, RestClean
  <1>7. CASE UNCHANGED vars
    <2>1. UNCHANGED <<input, emitted, product, walk>> /\ phase' = phase /\ stack' = stack /\ order' = order
          /\ emitted' = emitted
      BY <1>7 DEF vars, graphVars, walk
    <2>2. Phases'
      BY <2>1 DEF GraphClean, Phases
    <2> QED BY <2>1, <2>2, RestClean
  <1>8. Next \/ UNCHANGED vars
    BY DEF AuditNext, CMake, Audit, Topology, allVars
  <1> QED BY <1>1, <1>2, <1>3, <1>4, <1>5, <1>6, <1>7, <1>8 DEF Next

\* No step disturbs it.
LEMMA CleanInvNext == GraphInv /\ CleanInv /\ [AuditNext]_allVars => CleanInv'
  <1> SUFFICES ASSUME GraphInv, CleanInv, [AuditNext]_allVars PROVE CleanInv'
    OBVIOUS
  <1>1. HandmadeFits'
    BY HandmadeStays DEF CleanInv
  <1>2. GraphClean'
    BY GraphCleanNext DEF CleanInv, GraphClean
  <1>3. Judged'
    <2>1. Judged
      BY DEF CleanInv
    <2>2. CASE Next /\ UNCHANGED auditVars
      BY <2>1, <2>2, GraphStepJudges
    <2>3. CASE CMake
      BY <2>1, <2>3, CMakeJudges
    <2>4. CASE Audit \/ Topology \/ UNCHANGED allVars
      BY <2>1, <2>4, ChecksJudge
    <2> QED BY <2>2, <2>3, <2>4 DEF AuditNext
  <1> QED BY <1>1, <1>2, <1>3 DEF CleanInv, GraphClean

-----------------------------------------------------------------------------
\* What a finished module links is emitted too, when it is a module that builds.
LEMMA LinkedIsEmitted ==
  ASSUME GraphInv, CleanInv, phase = "done", NEW t \in Texts, NEW d \in t.links, Emittable(d)
  PROVE  \E u \in Texts : u.name = d
  <1>1. /\ PoliciesFit /\ ModulesFit /\ IsList(emitted) /\ IsList(order)
        /\ States /\ OnTheWay(stack) /\ \A j \in DOMAIN order : Emittable(order[j])
    BY DEF GraphInv, InputFits, Walking, Ordered, Emitting, InPlace
  <1>2. /\ Len(emitted) = Len(order) /\ stack = <<>>
        /\ \A i \in DOMAIN emitted : Describes(emitted[i], order[i])
        /\ Followed
    BY DEF CleanInv, Phases, InOrder
  <1>3. DOMAIN emitted = DOMAIN order
    BY <1>1, <1>2, ListIs
  <1>4. PICK i \in DOMAIN emitted : t = emitted[i]
    BY DEF Texts
  <1> DEFINE n == order[i]
  <1>5. Emittable(n) /\ n \in Items(order) /\ d \in Items(Links(n))
    BY <1>1, <1>2, <1>3, <1>4 DEF Describes, Items
  <1> HIDE DEF n
  <1>6. d \in Items(Visits(n))
    BY <1>1, <1>5, LinksAreVisited
  <1>7. d \in Seen
    BY <1>2, <1>5, <1>6 DEF Followed
  <1>8. d \in Names /\ state[d] = "done"
    <2>1. d \in Names /\ state[d] \in {"visiting", "done"}
      BY <1>1, <1>7 DEF Seen, States
    <2>2. NamesOn(stack) = {}
      <3> DEFINE none == <<>>
      <3>1. DOMAIN none = {} /\ stack = none
        BY <1>2, NoItems
      <3> HIDE DEF none
      <3> QED BY <3>1 DEF NamesOn
    <2> QED BY <1>1, <2>1, <2>2 DEF OnTheWay
  <1>9. PICK j \in DOMAIN order : order[j] = d
    BY <1>1, <1>8 DEF States, Items
  <1>10. emitted[j] \in Texts /\ emitted[j].name = d
    BY <1>2, <1>3, <1>9 DEF Texts, Describes
  <1> QED BY <1>10

\* Modules of a name are described alike.
LEMMA OneKind == CleanInv => KindsAgree
  BY DEF CleanInv, InOrder, Describes, KindsAgree, Texts

\* A product graph that compiles something and that no hand-written rule disturbs
\* passes the audit, and any that does is staged unless something it links is
\* provided by nothing or compiler and runtime are amiss
\* (_audit_generated_commands, _validate_staged_topology).
THEOREM CleanGraphsPass == AuditSpec => []CleanGraphPasses
  <1>1. GraphInv /\ CleanInv => CleanGraphPasses
    <2> SUFFICES ASSUME GraphInv, CleanInv PROVE CleanGraphPasses
      OBVIOUS
    <2>1. /\ audit # None \/ topology # None => phase = "done" /\ commands = Tree
          /\ audit = "refused" => ~AuditPasses
          /\ topology = "refused" => ~TopologyPasses
      BY DEF CleanInv, Judged
    <2>2. ASSUME Undisturbed, NEW i \in DOMAIN emitted, emitted[i].sources # {}, audit = "refused"
          PROVE  FALSE
      <3>1. commands = Tree /\ ~AuditPasses
        BY <2>1, <2>2, NoneAssumption
      <3>2. emitted[i] \in Texts
        BY DEF Texts
      <3>3. HandmadeFits /\ KindsAgree
        BY OneKind DEF CleanInv
      <3> QED BY <2>2, <3>1, <3>2, <3>3, CleanTreePasses
    <2>3. ASSUME topology = "refused",
                 \A i \in DOMAIN emitted : \A n \in emitted[i].links : Emittable(n) \/ n \in host,
                 CompilerDso \in Staged, RuntimeDso \in Needed(CompilerDso),
                 CompilerDso \notin Needed(RuntimeDso)
          PROVE  FALSE
      <3>1. phase = "done" /\ commands = Tree /\ ~TopologyPasses
        BY <2>1, <2>3, NoneAssumption
      <3>2. \A t \in Texts : \A d \in t.links : SystemLibrary(d) \/ \E u \in Texts : u.name = d
        <4> SUFFICES ASSUME NEW t \in Texts, NEW d \in t.links, ~SystemLibrary(d)
                     PROVE  \E u \in Texts : u.name = d
          OBVIOUS
        <4>1. Emittable(d)
          BY <2>3 DEF Texts, SystemLibrary
        <4> QED BY <3>1, <4>1, LinkedIsEmitted
      <3> QED BY <2>3, <3>1, <3>2, CleanStagePasses
    <2> QED BY <2>2, <2>3 DEF CleanGraphPasses
  <1>2. AuditSpec => [](GraphInv /\ CleanInv)
    BY GraphInvInit, CleanInvInit, GraphInvNext, CleanInvNext, PTL DEF AuditSpec
  <1> QED BY <1>1, <1>2, PTL
=============================================================================
