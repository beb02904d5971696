-------------------------- MODULE AircraftWar_proofs --------------------------
(***************************************************************************)
(* Proofs about AircraftWar for any hit points, limits, thresholds and     *)
(* modes: cntBoss counts the bosses on the screen and those that were      *)
(* lost, never more than the level allows, and a reward never works for    *)
(* longer than the time of one.                                            *)
(*                                                                         *)
(* A list is a bag, whose copies are a finite set: what the game does to a *)
(* list adds a copy, takes one away, or maps the copies one to one into    *)
(* those there were, so that the counts follow from facts about            *)
(* cardinalities.                                                          *)
(***************************************************************************)
EXTENDS AircraftWar, FiniteSetTheorems, TLAPS

\* How many there are, at least one of each.
IsABag(bag) == bag \in [DOMAIN bag -> {n \in Nat : n > 0}]

\* A bag of members of S with finitely many copies.
BagOf(bag, S) ==
    /\ IsABag(bag) /\ Listed(bag) \subseteq S
    /\ IsFiniteSet(Copies(bag))

\* A copy is a thing with a number.
LEMMA CopiesAre ==
    ASSUME NEW bag
    PROVE  \A c : c \in Copies(bag) <=> \E x \in DOMAIN bag : \E i \in 1..bag[x] : c = <<x, i>>
BY DEF Copies, Listed

LEMMA BagIs ==
    ASSUME NEW bag, IsABag(bag)
    PROVE  /\ \A x \in DOMAIN bag : bag[x] \in Nat /\ bag[x] > 0 /\ bag[x] \in 1..bag[x]
           /\ Listed(bag) = DOMAIN bag
<1>1. bag \in [DOMAIN bag -> {n \in Nat : n > 0}]
  BY DEF IsABag
<1>2. \A x \in DOMAIN bag : bag[x] \in Nat /\ bag[x] > 0
  BY <1>1
<1>3. \A n \in Nat : n > 0 => n \in 1..n
  OBVIOUS
<1> QED BY <1>2, <1>3 DEF Listed

-----------------------------------------------------------------------------
(***************************************************************************)
(* Bags and their copies.                                                  *)
(***************************************************************************)

\* One copy more.
LEMMA AddedCopy ==
    ASSUME NEW bag, IsABag(bag), NEW x
    PROVE  /\ IsABag(BagAdd(bag, x))
           /\ DOMAIN BagAdd(bag, x) = DOMAIN bag \cup {x}
           /\ \E c : c[1] = x /\ c \notin Copies(bag) /\ Copies(BagAdd(bag, x)) = Copies(bag) \cup {c}
<1> DEFINE more == BagAdd(bag, x)
           n == IF x \in DOMAIN bag THEN bag[x] ELSE 0
<1>1. /\ n \in Nat /\ DOMAIN more = DOMAIN bag \cup {x} /\ more[x] = n + 1
      /\ \A y \in DOMAIN bag : y # x => more[y] = bag[y]
  <2>1. CASE x \in DOMAIN bag
    BY <2>1, BagIs DEF BagAdd
  <2>2. CASE x \notin DOMAIN bag
    BY <2>2 DEF BagAdd
  <2> QED BY <2>1, <2>2
<1>2. more = [y \in DOMAIN more |-> more[y]]
  BY DEF BagAdd
<1> HIDE DEF more
<1>3. \A y \in DOMAIN more : more[y] \in {i \in Nat : i > 0}
  <2>1. n + 1 \in Nat /\ n + 1 > 0
    BY <1>1
  <2>2. \A y \in DOMAIN bag : bag[y] \in Nat /\ bag[y] > 0
    BY BagIs
  <2> HIDE DEF n
  <2> QED BY <1>1, <2>1, <2>2
<1>4. IsABag(more)
  BY <1>2, <1>3 DEF IsABag
<1>5. n = 0 <=> x \notin DOMAIN bag
  BY BagIs
<1>6. <<x, n + 1>> \notin Copies(bag)
  <2> SUFFICES ASSUME <<x, n + 1>> \in Copies(bag) PROVE FALSE
    OBVIOUS
  <2>1. x \in DOMAIN bag /\ n + 1 \in 1..bag[x]
    BY CopiesAre
  <2>2. bag[x] \in Nat
    BY <2>1, BagIs
  <2> QED BY <2>1, <2>2
<1>7. ASSUME NEW c PROVE c \in Copies(more) <=> c \in Copies(bag) \cup {<<x, n + 1>>}
  <2>1. c \in Copies(more) <=> \E y \in DOMAIN more : \E i \in 1..more[y] : c = <<y, i>>
    BY CopiesAre
  <2>2. c \in Copies(bag) <=> \E y \in DOMAIN bag : \E i \in 1..bag[y] : c = <<y, i>>
    BY CopiesAre
  <2>3. ASSUME c \in Copies(more) PROVE c \in Copies(bag) \cup {<<x, n + 1>>}
    <3>1. PICK y \in DOMAIN more : \E i \in 1..more[y] : c = <<y, i>>
      BY <2>1, <2>3
    <3>2. PICK i \in 1..more[y] : c = <<y, i>>
      BY <3>1
    <3>3. CASE y # x
      BY <1>1, <2>2, <3>2, <3>3
    <3>4. CASE y = x
      <4>1. i \in 1..(n + 1)
        BY <1>1, <3>2, <3>4
      <4>2. i = n + 1 \/ (i \in 1..n /\ n # 0)
        BY <1>1, <4>1
      <4>3. CASE i \in 1..n /\ n # 0
        BY <1>5, <2>2, <3>2, <3>4, <4>3
      <4> QED BY <3>2, <3>4, <4>2, <4>3
    <3> QED BY <3>3, <3>4
  <2>4. ASSUME c \in Copies(bag) PROVE c \in Copies(more)
    <3>1. PICK y \in DOMAIN bag : \E i \in 1..bag[y] : c = <<y, i>>
      BY <2>2, <2>4
    <3>2. PICK i \in 1..bag[y] : c = <<y, i>>
      BY <3>1
    <3>3. i \in 1..more[y]
      <4>1. CASE y # x
        BY <1>1, <4>1
      <4>2. CASE y = x
        BY <1>1, <4>2
      <4> QED BY <4>1, <4>2
    <3> QED BY <1>1, <2>1, <3>2, <3>3
  <2>5. ASSUME c = <<x, n + 1>> PROVE c \in Copies(more)
    <3>1. n + 1 \in 1..(n + 1)
      BY <1>1
    <3> QED BY <1>1, <2>1, <2>5, <3>1
  <2> QED BY <2>3, <2>4, <2>5
<1>8. /\ <<x, n + 1>>[1] = x
      /\ Copies(more) = Copies(bag) \cup {<<x, n + 1>>}
  BY <1>7
<1> QED BY <1>1, <1>4, <1>6, <1>8 DEF more

\* One copy fewer.
LEMMA RemovedCopy ==
    ASSUME NEW bag, IsABag(bag), NEW x \in DOMAIN bag
    PROVE  /\ IsABag(BagRemove(bag, x))
           /\ DOMAIN BagRemove(bag, x) \subseteq DOMAIN bag
           /\ \E c : c[1] = x /\ c \in Copies(bag) /\ Copies(BagRemove(bag, x)) = Copies(bag) \ {c}
<1> DEFINE less == BagRemove(bag, x)
           n == bag[x]
<1>1. n \in Nat /\ n > 0
  BY BagIs
<1>2. /\ DOMAIN less = IF n = 1 THEN DOMAIN bag \ {x} ELSE DOMAIN bag
      /\ n # 1 => less[x] = n - 1
      /\ \A y \in DOMAIN bag : y # x => less[y] = bag[y]
      /\ less = [y \in DOMAIN less |-> less[y]]
  BY DEF BagRemove
<1>3. \A y \in DOMAIN bag : bag[y] \in Nat /\ bag[y] > 0
  BY BagIs
<1> HIDE DEF less
<1>4. \A y \in DOMAIN less : less[y] \in {i \in Nat : i > 0}
  <2>1. n # 1 => n - 1 \in Nat /\ n - 1 > 0
    BY <1>1
  <2> HIDE DEF n
  <2> QED BY <1>2, <1>3, <2>1
<1>5. IsABag(less) /\ DOMAIN less \subseteq DOMAIN bag
  BY <1>2, <1>4 DEF IsABag
<1>6. <<x, n>> \in Copies(bag)
  BY CopiesAre, BagIs
<1>7. ASSUME NEW c PROVE c \in Copies(less) <=> c \in Copies(bag) \ {<<x, n>>}
  <2>1. c \in Copies(less) <=> \E y \in DOMAIN less : \E i \in 1..less[y] : c = <<y, i>>
    BY CopiesAre
  <2>2. c \in Copies(bag) <=> \E y \in DOMAIN bag : \E i \in 1..bag[y] : c = <<y, i>>
    BY CopiesAre
  <2>3. ASSUME c \in Copies(less) PROVE c \in Copies(bag) \ {<<x, n>>}
    <3>1. PICK y \in DOMAIN less : \E i \in 1..less[y] : c = <<y, i>>
      BY <2>1, <2>3
    <3>2. PICK i \in 1..less[y] : c = <<y, i>>
      BY <3>1
    <3>3. CASE y # x
      BY <1>2, <1>5, <2>2, <3>2, <3>3
    <3>4. CASE y = x
      <4>1. n # 1 /\ i \in 1..(n - 1)
        BY <1>2, <3>1, <3>2, <3>4
      <4>2. i \in 1..n /\ i # n
        BY <1>1, <4>1
      <4> QED BY <2>2, <3>2, <3>4, <4>2
    <3> QED BY <3>3, <3>4
  <2>4. ASSUME c \in Copies(bag), c # <<x, n>> PROVE c \in Copies(less)
    <3>1. PICK y \in DOMAIN bag : \E i \in 1..bag[y] : c = <<y, i>>
      BY <2>2, <2>4
    <3>2. PICK i \in 1..bag[y] : c = <<y, i>>
      BY <3>1
    <3>3. CASE y # x
      BY <1>2, <2>1, <3>2, <3>3
    <3>4. CASE y = x
      <4>1. i \in 1..n /\ i # n
        BY <2>4, <3>2, <3>4
      <4>2. n # 1 /\ i \in 1..(n - 1)
        BY <1>1, <4>1
      <4> QED BY <1>2, <2>1, <3>2, <3>4, <4>2
    <3> QED BY <3>3, <3>4
  <2> QED BY <2>3, <2>4
<1>8. <<x, n>>[1] = x /\ Copies(less) = Copies(bag) \ {<<x, n>>}
  BY <1>7
<1> QED BY <1>5, <1>6, <1>8 DEF less

\* The bosses among the copies, and what one thing adds to them.
BossCopies(bag) == {c \in Copies(bag) : IsBoss(c[1])}

One(x) == IF IsBoss(x) THEN 1 ELSE 0

LEMMA Counts ==
    ASSUME NEW bag, NEW S, BagOf(bag, S)
    PROVE  /\ Size(bag) \in Nat /\ Bosses(bag) \in Nat /\ Bosses(bag) = Cardinality(BossCopies(bag))
           /\ IsFiniteSet(BossCopies(bag))
<1>1. IsFiniteSet(Copies(bag)) /\ BossCopies(bag) \in SUBSET Copies(bag)
  BY DEF BagOf, BossCopies
<1>2. IsFiniteSet(BossCopies(bag))
  BY <1>1, FS_Subset
<1>3. Cardinality(BossCopies(bag)) \in Nat /\ Cardinality(Copies(bag)) \in Nat
  BY <1>1, <1>2, FS_CardinalityType
<1> QED BY <1>2, <1>3 DEF Size, Bosses, BossCopies

\* What the lists hold after each thing that is done to them.
LEMMA AddedCounts ==
    ASSUME NEW bag, NEW S, BagOf(bag, S), NEW x \in S
    PROVE  /\ BagOf(BagAdd(bag, x), S)
           /\ Size(BagAdd(bag, x)) = Size(bag) + 1
           /\ Bosses(BagAdd(bag, x)) = Bosses(bag) + One(x)
<1> DEFINE more == BagAdd(bag, x)
<1>1. IsABag(bag) /\ IsFiniteSet(Copies(bag)) /\ DOMAIN bag \subseteq S
  BY DEF BagOf, Listed
<1>2. /\ IsABag(more) /\ DOMAIN more = DOMAIN bag \cup {x}
      /\ \E c : c[1] = x /\ c \notin Copies(bag) /\ Copies(more) = Copies(bag) \cup {c}
  BY <1>1, AddedCopy
<1> HIDE DEF more
<1>3. PICK c : c[1] = x /\ c \notin Copies(bag) /\ Copies(more) = Copies(bag) \cup {c}
  BY <1>2
<1>4. IsFiniteSet(Copies(more)) /\ Cardinality(Copies(more)) = Cardinality(Copies(bag)) + 1
  BY <1>1, <1>3, FS_AddElement
<1>5. BagOf(more, S)
  BY <1>1, <1>2, <1>4 DEF BagOf, Listed
<1>6. Bosses(more) = Bosses(bag) + One(x)
  <2>1. /\ Bosses(bag) = Cardinality(BossCopies(bag)) /\ IsFiniteSet(BossCopies(bag))
        /\ Bosses(bag) \in Nat /\ Bosses(more) = Cardinality(BossCopies(more))
    BY <1>5, Counts
  <2>2. CASE IsBoss(x)
    <3>1. BossCopies(more) = BossCopies(bag) \cup {c} /\ c \notin BossCopies(bag)
      BY <1>3, <2>2 DEF BossCopies
    <3>2. Cardinality(BossCopies(more)) = Cardinality(BossCopies(bag)) + 1
      BY <2>1, <3>1, FS_AddElement
    <3> QED BY <2>1, <2>2, <3>2 DEF One
  <2>3. CASE ~IsBoss(x)
    <3>1. BossCopies(more) = BossCopies(bag)
      BY <1>3, <2>3 DEF BossCopies
    <3> QED BY <2>1, <2>3, <3>1 DEF One
  <2> QED BY <2>2, <2>3
<1> QED BY <1>4, <1>5, <1>6 DEF more, Size

LEMMA RemovedCounts ==
    ASSUME NEW bag, NEW S, BagOf(bag, S), NEW x \in Listed(bag)
    PROVE  /\ BagOf(BagRemove(bag, x), S)
           /\ Size(BagRemove(bag, x)) = Size(bag) - 1
           /\ Bosses(BagRemove(bag, x)) = Bosses(bag) - One(x)
<1> DEFINE less == BagRemove(bag, x)
<1>1. IsABag(bag) /\ IsFiniteSet(Copies(bag)) /\ DOMAIN bag \subseteq S /\ x \in DOMAIN bag
  BY DEF BagOf, Listed
<1>2. /\ IsABag(less) /\ DOMAIN less \subseteq DOMAIN bag
      /\ \E c : c[1] = x /\ c \in Copies(bag) /\ Copies(less) = Copies(bag) \ {c}
  BY <1>1, RemovedCopy
<1> HIDE DEF less
<1>3. PICK c : c[1] = x /\ c \in Copies(bag) /\ Copies(less) = Copies(bag) \ {c}
  BY <1>2
<1>4. IsFiniteSet(Copies(less)) /\ Cardinality(Copies(less)) = Cardinality(Copies(bag)) - 1
  BY <1>1, <1>3, FS_RemoveElement
<1>5. BagOf(less, S)
  BY <1>1, <1>2, <1>4 DEF BagOf, Listed
<1>6. Bosses(less) = Bosses(bag) - One(x)
  <2>1. /\ Bosses(bag) = Cardinality(BossCopies(bag)) /\ IsFiniteSet(BossCopies(bag))
        /\ Bosses(bag) \in Nat /\ Bosses(less) = Cardinality(BossCopies(less))
    BY <1>5, Counts
  <2>2. CASE IsBoss(x)
    <3>1. BossCopies(less) = BossCopies(bag) \ {c} /\ c \in BossCopies(bag)
      BY <1>3, <2>2 DEF BossCopies
    <3>2. Cardinality(BossCopies(less)) = Cardinality(BossCopies(bag)) - 1
      BY <2>1, <3>1, FS_RemoveElement
    <3> QED BY <2>1, <2>2, <3>2 DEF One
  <2>3. CASE ~IsBoss(x)
    <3>1. BossCopies(less) = BossCopies(bag)
      BY <1>3, <2>3 DEF BossCopies
    <3> QED BY <2>1, <2>3, <3>1 DEF One
  <2> QED BY <2>2, <2>3
<1> QED BY <1>4, <1>5, <1>6 DEF less, Size

LEMMA BecomesCounts ==
    ASSUME NEW bag, NEW S, BagOf(bag, S), NEW x \in Listed(bag), NEW y \in S
    PROVE  /\ BagOf(Becomes(bag, x, y), S)
           /\ Size(Becomes(bag, x, y)) = Size(bag)
           /\ Bosses(Becomes(bag, x, y)) = Bosses(bag) - One(x) + One(y)
<1>1. /\ BagOf(BagRemove(bag, x), S)
      /\ Size(BagRemove(bag, x)) = Size(bag) - 1
      /\ Bosses(BagRemove(bag, x)) = Bosses(bag) - One(x)
  BY RemovedCounts
<1>2. /\ BagOf(Becomes(bag, x, y), S)
      /\ Size(Becomes(bag, x, y)) = (Size(bag) - 1) + 1
      /\ Bosses(Becomes(bag, x, y)) = (Bosses(bag) - One(x)) + One(y)
  BY <1>1, AddedCounts DEF Becomes
<1>3. Size(bag) \in Nat
  BY Counts
<1> QED BY <1>2, <1>3

\* removeIf(notValid).
LEMMA KeptCounts ==
    ASSUME NEW bag, NEW S, BagOf(bag, S)
    PROVE  /\ BagOf(Kept(bag), S)
           /\ Size(Kept(bag)) <= Size(bag)
           /\ Bosses(Kept(bag)) = Bosses(bag)
<1> DEFINE kept == Kept(bag)
<1>1. IsABag(bag) /\ IsFiniteSet(Copies(bag)) /\ DOMAIN bag \subseteq S /\ Listed(bag) = DOMAIN bag
  BY DEF BagOf, Listed
<1>2. /\ kept = [x \in Valid(bag) |-> bag[x]] /\ DOMAIN kept = Valid(bag)
      /\ Valid(bag) = {x \in DOMAIN bag : x.valid}
      /\ \A x \in Valid(bag) : kept[x] = bag[x]
  BY <1>1 DEF Kept, Valid
<1> HIDE DEF kept
<1>3. IsABag(kept)
  <2>1. \A x \in Valid(bag) : bag[x] \in {n \in Nat : n > 0}
    BY <1>1, <1>2, BagIs
  <2>2. kept \in [Valid(bag) -> {n \in Nat : n > 0}]
    BY <1>2, <2>1
  <2> QED BY <1>2, <2>2 DEF IsABag
<1>4. \A c : c \in Copies(kept) <=> c \in Copies(bag) /\ c[1].valid
  <2>1. \A c : c \in Copies(bag) <=> \E x \in DOMAIN bag : \E i \in 1..bag[x] : c = <<x, i>>
    BY CopiesAre
  <2>2. \A c : c \in Copies(kept) <=> \E x \in DOMAIN kept : \E i \in 1..kept[x] : c = <<x, i>>
    BY CopiesAre
  <2>3. ASSUME NEW c \in Copies(kept) PROVE c \in Copies(bag) /\ c[1].valid
    <3>1. PICK x \in DOMAIN kept : \E i \in 1..kept[x] : c = <<x, i>>
      BY <2>2
    <3>2. x \in DOMAIN bag /\ x.valid /\ kept[x] = bag[x] /\ c[1] = x
      BY <1>2, <3>1
    <3> QED BY <2>1, <3>1, <3>2
  <2>4. ASSUME NEW c \in Copies(bag), c[1].valid PROVE c \in Copies(kept)
    <3>1. PICK x \in DOMAIN bag : \E i \in 1..bag[x] : c = <<x, i>>
      BY <2>1
    <3>2. c[1] = x
      BY <3>1
    <3>3. x \in DOMAIN kept /\ kept[x] = bag[x]
      BY <1>2, <2>4, <3>2
    <3> QED BY <2>2, <3>1, <3>3
  <2> QED BY <2>3, <2>4
<1>5. Copies(kept) \in SUBSET Copies(bag) /\ BossCopies(kept) = BossCopies(bag)
  BY <1>4 DEF BossCopies, IsBoss
<1>6. IsFiniteSet(Copies(kept)) /\ Cardinality(Copies(kept)) <= Cardinality(Copies(bag))
  BY <1>1, <1>5, FS_Subset
<1>7. BagOf(kept, S)
  BY <1>1, <1>2, <1>3, <1>6 DEF BagOf, Listed
<1>8. Bosses(kept) = Bosses(bag)
  BY <1>5, <1>7, Counts
<1> QED BY <1>6, <1>7, <1>8 DEF kept, Size

\* A bomb makes no more of them: what becomes one and the same is told apart by
\* where it comes from.
LEMMA BombedCounts ==
    ASSUME NEW bag, NEW S, BagOf(bag, S), \A x \in S : Bombed(x) \in S
    PROVE  /\ BagOf(AllBombed(bag), S)
           /\ Size(AllBombed(bag)) <= Size(bag)
<1> DEFINE bombed == AllBombed(bag)
           From(x) == {c \in Copies(bag) : Bombed(c[1]) = x}
           D == {Bombed(e) : e \in DOMAIN bag}
<1>1. IsABag(bag) /\ IsFiniteSet(Copies(bag)) /\ DOMAIN bag \subseteq S /\ Listed(bag) = DOMAIN bag
  BY DEF BagOf, Listed
<1>2. bombed = [x \in D |-> Cardinality(From(x))]
  BY <1>1 DEF AllBombed
<1>3. DOMAIN bombed = D /\ \A x \in D : bombed[x] = Cardinality(From(x))
  BY <1>2
<1> HIDE DEF bombed
<1>4. D \subseteq S
  BY <1>1
<1>5. ASSUME NEW x \in D
      PROVE  /\ bombed[x] \in Nat /\ bombed[x] > 0
             /\ IsFiniteSet(From(x)) /\ ExistsBijection(1..bombed[x], From(x))
  <2>1. From(x) \in SUBSET Copies(bag)
    OBVIOUS
  <2>2. IsFiniteSet(From(x))
    BY <1>1, <2>1, FS_Subset
  <2>3. PICK e \in DOMAIN bag : x = Bombed(e)
    OBVIOUS
  <2>4. 1 \in 1..bag[e]
    <3>1. bag[e] \in Nat /\ bag[e] > 0
      BY <1>1, BagIs
    <3> QED BY <3>1
  <2>5. <<e, 1>> \in Copies(bag)
    BY <2>4, CopiesAre
  <2>6. <<e, 1>> \in From(x)
    BY <2>3, <2>5
  <2> HIDE DEF From
  <2>7. Cardinality(From(x)) \in Nat /\ ExistsBijection(1..Cardinality(From(x)), From(x))
    BY <2>2, FS_CardinalityType
  <2>8. Cardinality(From(x)) # 0
    BY <2>2, <2>6, FS_EmptySet
  <2> QED BY <1>3, <2>2, <2>7, <2>8
<1> DEFINE g == [x \in D |-> CHOOSE f : f \in Bijection(1..bombed[x], From(x))]
<1>6. ASSUME NEW x \in D PROVE g[x] \in Bijection(1..bombed[x], From(x))
  <2>1. \E f : f \in Bijection(1..bombed[x], From(x))
    BY <1>5 DEF ExistsBijection
  <2> HIDE DEF D, From
  <2> QED BY <2>1
<1> HIDE DEF g
<1>7. IsABag(bombed)
  <2>1. bombed \in [D -> {n \in Nat : n > 0}]
    <3>1. \A x \in D : bombed[x] \in {n \in Nat : n > 0}
      BY <1>5
    <3>2. bombed = [x \in D |-> bombed[x]]
      BY <1>2, <1>3
    <3> HIDE DEF D
    <3> QED BY <3>1, <3>2
  <2> QED BY <1>3, <2>1 DEF IsABag
<1> DEFINE T == Copies(bombed)
           h == [c \in T |-> g[c[1]][c[2]]]
<1>8. \A c \in T : \E x \in D : \E i \in 1..bombed[x] : c = <<x, i>> /\ c[1] = x /\ c[2] = i
  <2>1. \A c \in Copies(bombed) : \E x \in DOMAIN bombed : \E i \in 1..bombed[x] : c = <<x, i>>
    BY CopiesAre
  <2> HIDE DEF D
  <2> QED BY <1>3, <2>1
<1>9. ASSUME NEW x \in D, NEW i \in 1..bombed[x]
      PROVE  /\ g[x][i] \in Copies(bag) /\ Bombed(g[x][i][1]) = x
             /\ \A j \in 1..bombed[x] : g[x][i] = g[x][j] => i = j
  <2>1. g[x] \in [1..bombed[x] -> From(x)] /\ IsInjective(g[x])
    BY <1>6 DEF Bijection, Injection
  <2>2. g[x][i] \in From(x)
    <3> HIDE DEF From
    <3> QED BY <2>1
  <2>3. \A j \in 1..bombed[x] : g[x][i] = g[x][j] => i = j
    <3> HIDE DEF From
    <3> QED BY <2>1 DEF IsInjective
  <2> QED BY <2>2, <2>3
<1> HIDE DEF From, D
<1>10. h \in [T -> Copies(bag)]
  <2>1. ASSUME NEW c \in T PROVE g[c[1]][c[2]] \in Copies(bag)
    BY <1>8, <1>9
  <2> HIDE DEF T
  <2> QED BY <2>1
<1>11. ASSUME NEW c \in T, NEW d \in T, h[c] = h[d] PROVE c = d
  <2>1. PICK x \in D : \E i \in 1..bombed[x] : c = <<x, i>> /\ c[1] = x /\ c[2] = i
    BY <1>8
  <2>2. PICK i \in 1..bombed[x] : c = <<x, i>> /\ c[1] = x /\ c[2] = i
    BY <2>1
  <2>3. PICK y \in D : \E j \in 1..bombed[y] : d = <<y, j>> /\ d[1] = y /\ d[2] = j
    BY <1>8
  <2>4. PICK j \in 1..bombed[y] : d = <<y, j>> /\ d[1] = y /\ d[2] = j
    BY <2>3
  <2>5. g[x][i] = g[y][j]
    BY <1>11, <2>2, <2>4
  <2>6. x = y
    BY <1>9, <2>5
  <2>7. i = j
    BY <1>9, <2>5, <2>6
  <2> QED BY <2>2, <2>4, <2>6, <2>7
<1> HIDE DEF h, T
<1>12. h \in Injection(T, Copies(bag))
  BY <1>10, <1>11 DEF Injection, IsInjective
<1>13. IsFiniteSet(T) /\ Cardinality(T) <= Cardinality(Copies(bag))
  BY <1>1, <1>12, FS_Injection
<1> QED BY <1>3, <1>4, <1>7, <1>13 DEF T, bombed, BagOf, Size, Listed

-----------------------------------------------------------------------------
(***************************************************************************)
(* The invariant, and each action.                                         *)
(***************************************************************************)

\* The lists are finite, and cntBoss counts their bosses and the lost ones.
Counted ==
    /\ BagOf(enemyAircrafts, Enemies) /\ BagOf(leftRewards, Rewards)
    /\ cntBoss = Bosses(enemyAircrafts) + lostBosses
    /\ cntBoss <= bossLimit

\* The types that matter for the counts.
Limits ==
    /\ bossLimit \in 0..2 /\ enemyMaxNumber \in Nat
    /\ cntBoss \in Int /\ lostBosses \in Int

AircraftInv == AircraftTypeOK /\ Limits /\ Counted

\* What is needed of an empty list.
LEMMA EmptyCounts ==
    ASSUME NEW S
    PROVE  BagOf(<<>>, S) /\ Size(<<>>) = 0 /\ Bosses(<<>>) = 0
<1>1. DOMAIN <<>> = {}
  OBVIOUS
<1>2. Copies(<<>>) = {} /\ BossCopies(<<>>) = {}
  BY <1>1 DEF Copies, Listed, BossCopies
<1>3. IsFiniteSet({}) /\ Cardinality({}) = 0
  BY FS_EmptySet
<1>4. IsABag(<<>>)
  BY <1>1 DEF IsABag
<1>5. BagOf(<<>>, S)
  BY <1>1, <1>2, <1>3, <1>4 DEF BagOf, Listed
<1> QED BY <1>2, <1>3, <1>5, Counts DEF Size

\* The members of the lists.
LEMMA Members ==
    /\ \A kind \in {"mob", "elite", "boss"} :
        Enemy(kind) \in Enemies /\ One(Enemy(kind)) = IF kind = "boss" THEN 1 ELSE 0
    /\ \A e \in Enemies : /\ Vanished(e) \in Enemies /\ ~Vanished(e).valid
                          /\ Decreased(e, 1) \in Enemies /\ Decreased(e, 1).kind = e.kind
                          /\ Bombed(e) \in Enemies
    /\ \A r \in Rewards : Vanished(r) \in Rewards
    /\ \A kind \in {"blood", "bomb", "bullet"}, valid \in BOOLEAN :
        [kind |-> kind, valid |-> valid] \in Rewards
<1>1. BossHp \in Nat /\ BossHp > 0
  BY AircraftWarAssumption
<1>2. ASSUME NEW kind \in {"mob", "elite", "boss"}
      PROVE  Enemy(kind) \in Enemies /\ One(Enemy(kind)) = IF kind = "boss" THEN 1 ELSE 0
  <2>1. (IF kind = "boss" THEN BossHp ELSE 1) \in 0..BossHp
    BY <1>1
  <2>2. Enemy(kind) \in Enemies /\ Enemy(kind).kind = kind /\ Enemy(kind).valid = TRUE
    BY <2>1 DEF Enemy, Enemies
  <2> QED BY <2>2 DEF One, IsBoss
<1>3. ASSUME NEW e \in Enemies
      PROVE  /\ Vanished(e) \in Enemies /\ ~Vanished(e).valid
             /\ Decreased(e, 1) \in Enemies /\ Decreased(e, 1).kind = e.kind
  <2>1. e.hp \in Nat /\ e.hp <= BossHp /\ e.valid \in BOOLEAN
    BY <1>1 DEF Enemies
  <2>2. Vanished(e) \in Enemies /\ ~Vanished(e).valid
    BY DEF Vanished, Enemies
  <2>3. (IF e.hp > 1 THEN e.hp - 1 ELSE 0) \in 0..BossHp
    BY <1>1, <2>1
  <2>4. (e.valid /\ e.hp > 1) \in BOOLEAN
    OBVIOUS
  <2>5. Decreased(e, 1) \in Enemies /\ Decreased(e, 1).kind = e.kind
    BY <2>3, <2>4 DEF Decreased, Enemies
  <2> QED BY <2>2, <2>5
<1>4. \A e \in Enemies : Bombed(e) \in Enemies
  BY <1>3 DEF Bombed
<1>5. \A r \in Rewards : Vanished(r) \in Rewards
  BY DEF Vanished, Rewards
<1>6. \A kind \in {"blood", "bomb", "bullet"}, valid \in BOOLEAN :
        [kind |-> kind, valid |-> valid] \in Rewards
  BY DEF Rewards
<1> QED BY <1>2, <1>3, <1>4, <1>5, <1>6

\* What the game does to the hero.
LEMMA HeroStays ==
    ASSUME AircraftInv
    PROVE  /\ Refreshed \in [hp : 0..HeroHp, valid : BOOLEAN]
           /\ Decreased(hero, 1) \in [hp : 0..HeroHp, valid : BOOLEAN]
           /\ [hp |-> 0, valid |-> FALSE] \in [hp : 0..HeroHp, valid : BOOLEAN]
<1>1. HeroHp \in Nat /\ hero \in [hp : 0..HeroHp, valid : BOOLEAN]
  BY AircraftWarAssumption DEF AircraftInv, AircraftTypeOK
<1>2. /\ (IF hero.hp < HeroHp THEN hero.hp + 1 ELSE hero.hp) \in 0..HeroHp
      /\ (IF hero.hp > 1 THEN hero.hp - 1 ELSE 0) \in 0..HeroHp
      /\ 0 \in 0..HeroHp
  BY <1>1
<1>3. (hero.valid /\ hero.hp > 1) \in BOOLEAN
  OBVIOUS
<1>4. Refreshed \in [hp : 0..HeroHp, valid : BOOLEAN]
  BY <1>1, <1>2 DEF Refreshed
<1>5. Decreased(hero, 1) \in [hp : 0..HeroHp, valid : BOOLEAN]
  BY <1>1, <1>2, <1>3 DEF Decreased
<1> QED BY <1>2, <1>4, <1>5

LEMMA AircraftStart == AircraftInit => AircraftInv
<1> SUFFICES ASSUME AircraftInit PROVE AircraftInv
  OBVIOUS
<1>1. /\ {HeroHp, FirstMax} \subseteq Nat \ {0} /\ PropMaxNumber \in Nat /\ MaxScore \in Nat
  BY AircraftWarAssumption
<1>2. /\ phase = "load" /\ hero = [hp |-> HeroHp, valid |-> TRUE]
      /\ enemyAircrafts = <<>> /\ leftRewards = <<>> /\ enemyMaxNumber = FirstMax
      /\ score = 0 /\ cntBoss = 0 /\ lostBosses = 0 /\ bossLimit = BossLimitOf(mode)
      /\ strategy = "straight" /\ reward_thread = "none"
  BY DEF AircraftInit
<1>3. bossLimit \in 0..2 /\ 0 <= bossLimit
  BY <1>2 DEF BossLimitOf
<1>4. /\ BagOf(enemyAircrafts, Enemies) /\ BagOf(leftRewards, Rewards)
      /\ Size(enemyAircrafts) = 0 /\ Size(leftRewards) = 0 /\ Bosses(enemyAircrafts) = 0
  BY <1>2, EmptyCounts
<1>5. 0 \in 0..MaxScore /\ HeroHp \in 0..HeroHp
  BY <1>1
<1>6. AircraftTypeOK
  BY <1>1, <1>2, <1>4, <1>5 DEF AircraftTypeOK, BagOf
<1>7. Limits /\ Counted
  BY <1>1, <1>2, <1>3, <1>4 DEF Limits, Counted
<1> QED BY <1>6, <1>7 DEF AircraftInv

\* The counts of an enemy that joins.
LEMMA JoinedCounts ==
    ASSUME NEW bag, BagOf(bag, Enemies), enemyMaxNumber \in Nat, Size(bag) <= enemyMaxNumber,
           NEW kind \in {"mob", "elite", "boss"}
    PROVE  /\ BagOf(Joined(bag, kind), Enemies) /\ Size(Joined(bag, kind)) <= enemyMaxNumber
           /\ Bosses(Joined(bag, kind)) =
                Bosses(bag) + IF kind = "boss" /\ Joined(bag, kind) # bag THEN 1 ELSE 0
<1>1. /\ Size(bag) \in Nat /\ Bosses(bag) \in Nat
      /\ Enemy(kind) \in Enemies /\ One(Enemy(kind)) = IF kind = "boss" THEN 1 ELSE 0
  BY Counts, Members
<1>2. CASE Size(bag) < enemyMaxNumber
  <2>1. Joined(bag, kind) = BagAdd(bag, Enemy(kind))
    BY <1>2 DEF Joined
  <2>2. /\ BagOf(Joined(bag, kind), Enemies)
        /\ Size(Joined(bag, kind)) = Size(bag) + 1
        /\ Bosses(Joined(bag, kind)) = Bosses(bag) + One(Enemy(kind))
    BY <1>1, <2>1, AddedCounts
  <2>3. Joined(bag, kind) # bag
    BY <1>1, <2>2
  <2> QED BY <1>1, <1>2, <2>2, <2>3
<1>3. CASE ~(Size(bag) < enemyMaxNumber)
  <2>1. Joined(bag, kind) = bag
    BY <1>3 DEF Joined
  <2> QED BY <1>1, <2>1
<1> QED BY <1>2, <1>3

LEMMA LoadKeeps ==
    ASSUME AircraftInv, LoadAirCrafts
    PROVE  AircraftInv'
<1>1. /\ BagOf(enemyAircrafts, Enemies) /\ enemyMaxNumber \in Nat /\ Size(enemyAircrafts) <= enemyMaxNumber
      /\ Bosses(enemyAircrafts) \in Nat /\ cntBoss \in Int /\ lostBosses \in Int /\ bossLimit \in 0..2
      /\ cntBoss = Bosses(enemyAircrafts) + lostBosses /\ cntBoss <= bossLimit
  BY Counts DEF AircraftInv, AircraftTypeOK, Counted, Limits
<1>2. PICK more \in {enemyAircrafts, Joined(enemyAircrafts, "mob"), Joined(enemyAircrafts, "elite")} :
        IF BossIsDue
        THEN /\ enemyAircrafts' = Joined(more, "boss")
             /\ cntBoss' = cntBoss + 1
             /\ lostBosses' = lostBosses + IF enemyAircrafts' = more THEN 1 ELSE 0
        ELSE enemyAircrafts' = more /\ UNCHANGED <<cntBoss, lostBosses>>
  BY DEF LoadAirCrafts
<1>3. /\ phase' = "shoot"
      /\ UNCHANGED <<hero, leftRewards, score, bossLimit, enemyMaxNumber, strategy, reward_thread>>
  BY DEF LoadAirCrafts, rewardVars
<1>4. /\ BagOf(more, Enemies) /\ Size(more) <= enemyMaxNumber
      /\ Bosses(more) = Bosses(enemyAircrafts)
  <2>1. CASE more = enemyAircrafts
    BY <1>1, <2>1
  <2>2. ASSUME NEW kind \in {"mob", "elite"}, more = Joined(enemyAircrafts, kind)
        PROVE  /\ BagOf(more, Enemies) /\ Size(more) <= enemyMaxNumber
               /\ Bosses(more) = Bosses(enemyAircrafts)
    <3>1. /\ BagOf(Joined(enemyAircrafts, kind), Enemies)
          /\ Size(Joined(enemyAircrafts, kind)) <= enemyMaxNumber
          /\ Bosses(Joined(enemyAircrafts, kind)) = Bosses(enemyAircrafts) + 0
      BY <1>1, JoinedCounts
    <3> QED BY <1>1, <2>2, <3>1
  <2> QED BY <1>2, <2>1, <2>2
<1>5. /\ BagOf(enemyAircrafts', Enemies) /\ Size(enemyAircrafts') <= enemyMaxNumber
      /\ cntBoss' \in Int /\ lostBosses' \in Int
      /\ cntBoss' = Bosses(enemyAircrafts') + lostBosses' /\ cntBoss' <= bossLimit
  <2>1. CASE BossIsDue
    <3>1. cntBoss < bossLimit
      BY <2>1 DEF BossIsDue
    <3>2. /\ enemyAircrafts' = Joined(more, "boss")
          /\ cntBoss' = cntBoss + 1
          /\ lostBosses' = lostBosses + IF enemyAircrafts' = more THEN 1 ELSE 0
      BY <1>2, <2>1
    <3>3. /\ BagOf(enemyAircrafts', Enemies) /\ Size(enemyAircrafts') <= enemyMaxNumber
          /\ Bosses(enemyAircrafts') = Bosses(more) + IF enemyAircrafts' # more THEN 1 ELSE 0
      BY <1>1, <1>4, <3>2, JoinedCounts
    <3> QED BY <1>1, <1>4, <3>1, <3>2, <3>3
  <2>2. CASE ~BossIsDue
    BY <1>1, <1>2, <1>4, <2>2
  <2> QED BY <2>1, <2>2
<1>6. AircraftTypeOK'
  BY <1>3, <1>5 DEF AircraftInv, AircraftTypeOK, BagOf
<1>7. Limits' /\ Counted'
  BY <1>3, <1>5 DEF AircraftInv, Limits, Counted
<1> QED BY <1>6, <1>7 DEF AircraftInv

\* An enemy leaves the screen, or a reward.
LEMMA FliesOffKeeps ==
    ASSUME AircraftInv, FliesOff
    PROVE  AircraftInv'
<1>1. /\ BagOf(enemyAircrafts, Enemies) /\ BagOf(leftRewards, Rewards)
      /\ Bosses(enemyAircrafts) \in Nat
      /\ Listed(enemyAircrafts) \subseteq Enemies /\ Listed(leftRewards) \subseteq Rewards
  BY Counts DEF AircraftInv, Counted, AircraftTypeOK
<1>2. /\ phase = "move"
      /\ UNCHANGED <<phase, hero, score, cntBoss, lostBosses, bossLimit, enemyMaxNumber, strategy, reward_thread>>
  BY DEF FliesOff, bossVars, rewardVars
<1>3. ASSUME NEW e \in Valid(enemyAircrafts), e.kind # "boss", UNCHANGED leftRewards,
             enemyAircrafts' = Becomes(enemyAircrafts, e, Vanished(e))
      PROVE  AircraftInv'
  <2>1. e \in Listed(enemyAircrafts) /\ Vanished(e) \in Enemies /\ One(e) = 0 /\ One(Vanished(e)) = 0
    BY <1>1, <1>3, Members DEF Valid, One, IsBoss
  <2>2. /\ BagOf(enemyAircrafts', Enemies) /\ Size(enemyAircrafts') = Size(enemyAircrafts)
        /\ Bosses(enemyAircrafts') = Bosses(enemyAircrafts) - 0 + 0
    BY <1>1, <1>3, <2>1, BecomesCounts
  <2>3. Bosses(enemyAircrafts') = Bosses(enemyAircrafts)
    BY <1>1, <2>2
  <2>4. AircraftTypeOK'
    BY <1>2, <1>3, <2>2 DEF AircraftInv, AircraftTypeOK, BagOf
  <2> QED BY <1>2, <1>3, <2>2, <2>3, <2>4 DEF AircraftInv, Limits, Counted
<1>4. ASSUME NEW r \in Valid(leftRewards), UNCHANGED enemyAircrafts,
             leftRewards' = Becomes(leftRewards, r, Vanished(r))
      PROVE  AircraftInv'
  <2>1. r \in Listed(leftRewards) /\ Vanished(r) \in Rewards
    BY <1>1, Members DEF Valid
  <2>2. BagOf(leftRewards', Rewards) /\ Size(leftRewards') = Size(leftRewards)
    BY <1>1, <1>4, <2>1, BecomesCounts
  <2>3. AircraftTypeOK'
    BY <1>2, <1>4, <2>2 DEF AircraftInv, AircraftTypeOK, BagOf
  <2> QED BY <1>2, <1>4, <2>2, <2>3 DEF AircraftInv, Limits, Counted
<1> QED BY <1>3, <1>4 DEF FliesOff

LEMMA EnemyIsHitKeeps ==
    ASSUME AircraftInv, NEW e \in Enemies, NEW shot \in BOOLEAN, NEW bumps \in BOOLEAN,
           EnemyIsHit(e, shot, bumps)
    PROVE  AircraftInv'
<1> DEFINE down == IF shot THEN Decreased(e, 1) ELSE e
           killed == ~down.valid
           points == IF ~killed THEN 0 ELSE IF e.kind = "elite" THEN 2 ELSE 1
           new == Rammed(down, bumps)
           was == IF e.kind = "boss" THEN 1 ELSE 0
<1>1. /\ phase = "shots" /\ e \in Valid(enemyAircrafts)
      /\ score + points <= MaxScore /\ score' = score + points
      /\ enemyAircrafts' = Becomes(enemyAircrafts, e, new)
      /\ cntBoss' = IF killed THEN cntBoss - was ELSE cntBoss
      /\ lostBosses' = lostBosses + IF bumps /\ ~killed /\ e.kind = "boss" THEN 1 ELSE 0
      /\ IF killed /\ e.kind = "elite" /\ Size(leftRewards) < PropMaxNumber
         THEN \E kind \in {"blood", "bomb", "bullet"} :
                  leftRewards' = BagAdd(leftRewards, [kind |-> kind, valid |-> TRUE])
         ELSE UNCHANGED leftRewards
      /\ hero' = IF bumps THEN [hp |-> 0, valid |-> FALSE] ELSE hero
      /\ UNCHANGED <<phase, bossLimit, enemyMaxNumber, strategy, reward_thread>>
  BY DEF EnemyIsHit, CountedDown, rewardVars
<1>2. /\ BagOf(enemyAircrafts, Enemies) /\ BagOf(leftRewards, Rewards)
      /\ Bosses(enemyAircrafts) \in Nat /\ Size(leftRewards) \in Nat /\ Size(leftRewards) <= PropMaxNumber
      /\ cntBoss \in Int /\ lostBosses \in Int /\ bossLimit \in 0..2
      /\ cntBoss = Bosses(enemyAircrafts) + lostBosses /\ cntBoss <= bossLimit
      /\ score \in 0..MaxScore /\ PropMaxNumber \in Nat /\ MaxScore \in Nat
  BY Counts, AircraftWarAssumption DEF AircraftInv, AircraftTypeOK, Counted, Limits
<1>3. e \in Listed(enemyAircrafts) /\ e.valid
  BY <1>1 DEF Valid
<1>4. down \in Enemies /\ down.kind = e.kind /\ down.valid \in BOOLEAN
  <2>1. down \in Enemies /\ down.kind = e.kind
    BY Members
  <2> HIDE DEF down
  <2> QED BY <2>1 DEF Enemies
<1>5. /\ new \in Enemies
      /\ One(e) = was
      /\ One(new) = IF killed \/ bumps THEN 0 ELSE was
  <2> HIDE DEF down
  <2>1. CASE bumps
    <3>1. new = Vanished(down)
      BY <2>1 DEF Rammed
    <3>2. new \in Enemies /\ ~new.valid
      BY <1>4, <3>1, Members
    <3> HIDE DEF new
    <3> QED BY <1>3, <2>1, <3>2 DEF One, IsBoss
  <2>2. CASE ~bumps
    <3>1. new = down
      BY <2>2 DEF Rammed
    <3> HIDE DEF new
    <3> QED BY <1>3, <1>4, <2>2, <3>1 DEF One, IsBoss
  <2> QED BY <2>1, <2>2
<1> HIDE DEF new, down
<1>6. /\ BagOf(enemyAircrafts', Enemies) /\ Size(enemyAircrafts') = Size(enemyAircrafts)
      /\ Bosses(enemyAircrafts') = Bosses(enemyAircrafts) - One(e) + One(new)
  BY <1>1, <1>2, <1>3, <1>5, BecomesCounts
<1>7. BagOf(leftRewards', Rewards) /\ Size(leftRewards') <= PropMaxNumber
  <2>1. CASE leftRewards' = leftRewards
    BY <1>2, <2>1
  <2>2. ASSUME NEW kind \in {"blood", "bomb", "bullet"}, Size(leftRewards) < PropMaxNumber,
               leftRewards' = BagAdd(leftRewards, [kind |-> kind, valid |-> TRUE])
        PROVE  BagOf(leftRewards', Rewards) /\ Size(leftRewards') <= PropMaxNumber
    <3>1. [kind |-> kind, valid |-> TRUE] \in Rewards
      BY Members
    <3>2. BagOf(leftRewards', Rewards) /\ Size(leftRewards') = Size(leftRewards) + 1
      BY <1>2, <2>2, <3>1, AddedCounts
    <3> QED BY <1>2, <2>2, <3>2
  <2>3. CASE killed /\ e.kind = "elite" /\ Size(leftRewards) < PropMaxNumber
    BY <1>1, <2>2, <2>3
  <2>4. CASE ~(killed /\ e.kind = "elite" /\ Size(leftRewards) < PropMaxNumber)
    BY <1>1, <2>1, <2>4
  <2> QED BY <2>3, <2>4
<1>8. score' \in 0..MaxScore
  <2>1. points \in Nat
    OBVIOUS
  <2> HIDE DEF points
  <2> QED BY <1>1, <1>2, <2>1
<1>9. hero' \in [hp : 0..HeroHp, valid : BOOLEAN]
  BY <1>1, HeroStays DEF AircraftInv, AircraftTypeOK
<1>10. AircraftTypeOK'
  BY <1>1, <1>6, <1>7, <1>8, <1>9 DEF AircraftInv, AircraftTypeOK, BagOf
<1>11. /\ cntBoss' \in Int /\ lostBosses' \in Int
       /\ cntBoss' = Bosses(enemyAircrafts') + lostBosses' /\ cntBoss' <= bossLimit'
  <2>1. was \in {0, 1} /\ (e.kind = "boss" <=> was = 1)
    OBVIOUS
  <2>2. bossLimit' = bossLimit
    BY <1>1
  <2> HIDE DEF was, killed
  <2>3. CASE killed
    <3>1. cntBoss' = cntBoss - was /\ lostBosses' = lostBosses + 0 /\ One(e) = was /\ One(new) = 0
      BY <1>1, <1>5, <2>3
    <3> QED BY <1>2, <1>6, <2>1, <2>2, <3>1
  <2>4. CASE ~killed /\ bumps
    <3>1. cntBoss' = cntBoss /\ lostBosses' = lostBosses + was /\ One(e) = was /\ One(new) = 0
      BY <1>1, <1>5, <2>1, <2>4
    <3> QED BY <1>2, <1>6, <2>1, <2>2, <3>1
  <2>5. CASE ~killed /\ ~bumps
    <3>1. cntBoss' = cntBoss /\ lostBosses' = lostBosses + 0 /\ One(e) = was /\ One(new) = was
      BY <1>1, <1>5, <2>5
    <3> QED BY <1>2, <1>6, <2>1, <2>2, <3>1
  <2> QED BY <2>3, <2>4, <2>5
<1>12. Limits' /\ Counted'
  BY <1>1, <1>6, <1>7, <1>11 DEF AircraftInv, Limits, Counted
<1> QED BY <1>10, <1>12 DEF AircraftInv

\* A reward that is taken stays in the list and is not valid.
LEMMA TakenCounts ==
    ASSUME AircraftInv, NEW kind \in {"blood", "bomb", "bullet"}, Takes(kind)
    PROVE  BagOf(leftRewards', Rewards) /\ Size(leftRewards') = Size(leftRewards)
<1>1. /\ BagOf(leftRewards, Rewards) /\ [kind |-> kind, valid |-> TRUE] \in Listed(leftRewards)
      /\ [kind |-> kind, valid |-> FALSE] \in Rewards
      /\ leftRewards' = Becomes(leftRewards, [kind |-> kind, valid |-> TRUE],
                                             [kind |-> kind, valid |-> FALSE])
  BY Members DEF Takes, AircraftInv, Counted
<1> QED BY <1>1, BecomesCounts

LEMMA RewardKeeps ==
    ASSUME AircraftInv, BloodReward \/ BulletReward
    PROVE  AircraftInv'
<1>1. \E kind \in {"blood", "bullet"} : Takes(kind)
  BY DEF BloodReward, BulletReward
<1>2. BagOf(leftRewards', Rewards) /\ Size(leftRewards') = Size(leftRewards)
  BY <1>1, TakenCounts
<1>3. /\ UNCHANGED <<phase, enemyAircrafts, score, cntBoss, lostBosses, bossLimit, enemyMaxNumber, strategy>>
      /\ hero' = Refreshed \/ hero' = hero
      /\ reward_thread' \in {reward_thread, "started"}
  BY DEF BloodReward, BulletReward, bossVars, rewardVars
<1>4. hero' \in [hp : 0..HeroHp, valid : BOOLEAN]
  BY <1>3, HeroStays DEF AircraftInv, AircraftTypeOK
<1>5. AircraftTypeOK'
  BY <1>2, <1>3, <1>4 DEF AircraftInv, AircraftTypeOK, BagOf
<1> QED BY <1>2, <1>3, <1>5 DEF AircraftInv, Limits, Counted

LEMMA BombKeeps ==
    ASSUME AircraftInv, BombReward
    PROVE  AircraftInv'
<1>1. /\ enemyAircrafts' = AllBombed(enemyAircrafts)
      /\ lostBosses' = lostBosses + Bosses(enemyAircrafts) - Bosses(enemyAircrafts')
      /\ UNCHANGED <<phase, hero, score, cntBoss, bossLimit, enemyMaxNumber, strategy, reward_thread>>
  BY DEF BombReward, rewardVars
<1>2. BagOf(leftRewards', Rewards) /\ Size(leftRewards') = Size(leftRewards)
  BY TakenCounts DEF BombReward
<1>3. /\ BagOf(enemyAircrafts, Enemies) /\ \A e \in Enemies : Bombed(e) \in Enemies
      /\ Bosses(enemyAircrafts) \in Nat /\ Size(enemyAircrafts) \in Nat
      /\ lostBosses \in Int /\ cntBoss \in Int /\ enemyMaxNumber \in Nat
      /\ cntBoss = Bosses(enemyAircrafts) + lostBosses
      /\ Size(enemyAircrafts) <= enemyMaxNumber
  BY Counts, Members DEF AircraftInv, Counted, Limits, AircraftTypeOK
<1>4. /\ BagOf(AllBombed(enemyAircrafts), Enemies)
      /\ Size(AllBombed(enemyAircrafts)) <= Size(enemyAircrafts)
  BY <1>3, BombedCounts
<1>5. Size(AllBombed(enemyAircrafts)) \in Nat /\ Bosses(AllBombed(enemyAircrafts)) \in Nat
  BY <1>4, Counts
<1>6. /\ BagOf(enemyAircrafts', Enemies) /\ Size(enemyAircrafts') <= enemyMaxNumber
      /\ lostBosses' \in Int /\ cntBoss' = Bosses(enemyAircrafts') + lostBosses'
  BY <1>1, <1>3, <1>4, <1>5
<1>7. AircraftTypeOK'
  BY <1>1, <1>2, <1>6 DEF AircraftInv, AircraftTypeOK, BagOf
<1> QED BY <1>1, <1>2, <1>6, <1>7 DEF AircraftInv, Limits, Counted

LEMMA EndOfFrameKeeps ==
    ASSUME AircraftInv, EndOfFrame
    PROVE  AircraftInv'
<1>1. /\ enemyAircrafts' = Kept(enemyAircrafts) /\ leftRewards' = Kept(leftRewards)
      /\ phase' \in {"load", "over"}
      /\ UNCHANGED <<score, cntBoss, lostBosses, strategy, reward_thread>>
  BY DEF EndOfFrame, rewardVars
<1>2. /\ BagOf(enemyAircrafts, Enemies) /\ BagOf(leftRewards, Rewards)
      /\ Size(enemyAircrafts) \in Nat /\ Size(leftRewards) \in Nat
      /\ cntBoss \in Int /\ enemyMaxNumber \in Nat /\ PropMaxNumber \in Nat /\ bossLimit \in 0..2
      /\ Size(enemyAircrafts) <= enemyMaxNumber /\ Size(leftRewards) <= PropMaxNumber
      /\ cntBoss = Bosses(enemyAircrafts) + lostBosses /\ cntBoss <= bossLimit
  BY Counts, AircraftWarAssumption DEF AircraftInv, Counted, Limits, AircraftTypeOK
<1>3. /\ BagOf(enemyAircrafts', Enemies) /\ Size(enemyAircrafts') <= Size(enemyAircrafts)
      /\ Bosses(enemyAircrafts') = Bosses(enemyAircrafts)
      /\ BagOf(leftRewards', Rewards) /\ Size(leftRewards') <= Size(leftRewards)
  BY <1>1, <1>2, KeptCounts
<1>4. Size(enemyAircrafts') \in Nat /\ Size(leftRewards') \in Nat
  BY <1>3, Counts
<1>5. /\ enemyMaxNumber' \in Nat /\ enemyMaxNumber <= enemyMaxNumber'
      /\ bossLimit' \in 0..2 /\ bossLimit <= bossLimit'
      /\ hero' \in [hp : 0..HeroHp, valid : BOOLEAN]
  <2>1. CASE LevelUp
    <3>1. /\ enemyMaxNumber' = enemyMaxNumber + 1
          /\ bossLimit' = 2 \/ bossLimit' = bossLimit
          /\ hero' = Refreshed \/ hero' = hero
      BY <2>1 DEF LevelUp
    <3>2. hero' \in [hp : 0..HeroHp, valid : BOOLEAN]
      BY <3>1, HeroStays DEF AircraftInv, AircraftTypeOK
    <3> QED BY <1>2, <3>1, <3>2
  <2>2. CASE UNCHANGED <<enemyMaxNumber, bossLimit, bossThreshold, hero>>
    BY <1>2, <2>2 DEF AircraftInv, AircraftTypeOK
  <2> QED BY <2>1, <2>2 DEF EndOfFrame
<1>6. Size(enemyAircrafts') <= enemyMaxNumber' /\ Size(leftRewards') <= PropMaxNumber /\ cntBoss <= bossLimit'
  BY <1>2, <1>3, <1>4, <1>5
<1>7. AircraftTypeOK'
  BY <1>1, <1>3, <1>5, <1>6 DEF AircraftInv, AircraftTypeOK, BagOf
<1> QED BY <1>1, <1>2, <1>3, <1>5, <1>6, <1>7 DEF AircraftInv, Limits, Counted

LEMMA AnotherGameKeeps ==
    ASSUME AircraftInv, AnotherGame
    PROVE  AircraftInv'
<1>1. /\ phase' = "load" /\ enemyAircrafts' = <<>> /\ leftRewards' = <<>>
      /\ enemyMaxNumber' = FirstMax /\ cntBoss' = 0 /\ lostBosses' = 0
      /\ bossLimit' = BossLimitOf(mode')
      /\ UNCHANGED <<hero, score, strategy, reward_thread>>
  BY DEF AnotherGame, rewardVars
<1>2. FirstMax \in Nat /\ PropMaxNumber \in Nat
  BY AircraftWarAssumption
<1>3. /\ BagOf(enemyAircrafts', Enemies) /\ BagOf(leftRewards', Rewards)
      /\ Size(enemyAircrafts') = 0 /\ Size(leftRewards') = 0 /\ Bosses(enemyAircrafts') = 0
  BY <1>1, EmptyCounts
<1>4. bossLimit' \in 0..2 /\ 0 <= bossLimit'
  BY <1>1 DEF BossLimitOf
<1>5. AircraftTypeOK'
  BY <1>1, <1>2, <1>3 DEF AircraftInv, AircraftTypeOK, BagOf
<1> QED BY <1>1, <1>2, <1>3, <1>4, <1>5 DEF AircraftInv, Limits, Counted

\* The steps that leave the lists and the counters alone.
LEMMA OthersKeep ==
    ASSUME AircraftInv,
           LoadBullets \/ ShootsNothing \/ HeroIsHit \/ NextPart \/ RewardThread \/ UNCHANGED aircraftVars
    PROVE  AircraftInv'
<1>1. UNCHANGED <<enemyAircrafts, leftRewards, score, cntBoss, lostBosses, bossLimit, enemyMaxNumber>>
  BY DEF LoadBullets, ShootsNothing, HeroIsHit, NextPart, PartEnds, RewardThread, Scatters, WakesUp,
         Ends, aircraftVars, skyVars, bossVars, rewardVars
<1>2. /\ phase' \in {phase, "move", "crashed", "hits", "shots", "rewards"}
      /\ hero' = hero \/ hero' = Decreased(hero, 1)
      /\ strategy' \in {strategy, "straight", "scattered"}
      /\ reward_thread' \in {reward_thread, "asleep", "ending", "none"}
  BY DEF LoadBullets, ShootsNothing, HeroIsHit, NextPart, PartEnds, RewardThread, Scatters, WakesUp,
         Ends, aircraftVars, skyVars, bossVars, rewardVars
<1>3. hero' \in [hp : 0..HeroHp, valid : BOOLEAN]
  BY <1>2, HeroStays DEF AircraftInv, AircraftTypeOK
<1>4. AircraftTypeOK'
  BY <1>1, <1>2, <1>3 DEF AircraftInv, AircraftTypeOK
<1> QED BY <1>1, <1>4 DEF AircraftInv, Limits, Counted

\* Each step keeps the invariant.
LEMMA AircraftStep == AircraftInv /\ [AircraftNext]_aircraftVars => AircraftInv'
<1> SUFFICES ASSUME AircraftInv, [AircraftNext]_aircraftVars PROVE AircraftInv'
  OBVIOUS
<1>1. CASE LoadAirCrafts
  BY <1>1, LoadKeeps
<1>2. CASE FliesOff
  BY <1>2, FliesOffKeeps
<1>3. ASSUME NEW e \in Enemies, NEW shot \in BOOLEAN, NEW bumps \in BOOLEAN, EnemyIsHit(e, shot, bumps)
      PROVE  AircraftInv'
  BY <1>3, EnemyIsHitKeeps
<1>4. CASE BloodReward \/ BulletReward
  BY <1>4, RewardKeeps
<1>5. CASE BombReward
  BY <1>5, BombKeeps
<1>6. CASE EndOfFrame
  BY <1>6, EndOfFrameKeeps
<1>7. CASE AnotherGame
  BY <1>7, AnotherGameKeeps
<1>8. CASE LoadBullets \/ ShootsNothing \/ HeroIsHit \/ NextPart \/ RewardThread \/ UNCHANGED aircraftVars
  BY <1>8, OthersKeep
<1> QED BY <1>1, <1>2, <1>3, <1>4, <1>5, <1>6, <1>7, <1>8 DEF AircraftNext

\* cntBoss counts the bosses on the screen and those that were lost, and is never
\* above the limit of the level, whatever happens to a boss in one frame and in
\* whichever order levels and games follow (GameView.java:342, 351, 418).
THEOREM BossesAccounted == AircraftSpec => []BossesCounted
<1>1. AircraftInv => BossesCounted
  BY DEF AircraftInv, Counted, BossesCounted
<1> QED BY <1>1, AircraftStart, AircraftStep, PTL DEF AircraftSpec

-----------------------------------------------------------------------------
(***************************************************************************)
(* The thread of a BulletReward: how the hero shoots and for how long      *)
(* follows from how far the thread has come.                               *)
(***************************************************************************)

RewardInv ==
    /\ validTime = IF reward_thread = "none" THEN 0 ELSE 1
    /\ strategy = "scattered" <=> reward_thread = "asleep"

LEMMA RewardStep == RewardInv /\ [AircraftNext]_aircraftVars => RewardInv'
<1> SUFFICES ASSUME RewardInv, [AircraftNext]_aircraftVars PROVE RewardInv'
  OBVIOUS
<1>1. CASE BulletReward
  BY <1>1 DEF BulletReward, Alive, RewardInv
<1>2. CASE RewardThread
  BY <1>2 DEF RewardThread, Scatters, WakesUp, Ends, RewardInv
<1>3. CASE UNCHANGED rewardVars
  BY <1>3 DEF rewardVars, RewardInv
<1>4. BulletReward \/ RewardThread \/ UNCHANGED rewardVars
  BY DEF AircraftNext, LoadAirCrafts, LoadBullets, ShootsNothing, FliesOff, HeroIsHit, EnemyIsHit,
         BloodReward, BombReward, NextPart, PartEnds, EndOfFrame, AnotherGame, aircraftVars
<1> QED BY <1>1, <1>2, <1>3, <1>4

\* The hero shoots scattered only while a reward works, and for the time of one
\* reward, however many it takes and whenever: a reward taken while the thread of
\* an earlier one is alive adds nothing, and no later one starts before the time
\* is set back (BulletReward.java:11-29).
THEOREM NeverTwiceAsLong ==
    AircraftSpec => [](strategy = "scattered" => reward_thread = "asleep" /\ validTime = 1)
<1>1. AircraftInit => RewardInv
  BY DEF AircraftInit, RewardInv
<1>2. RewardInv => (strategy = "scattered" => reward_thread = "asleep" /\ validTime = 1)
  BY DEF RewardInv
<1> QED BY <1>1, <1>2, RewardStep, PTL DEF AircraftSpec

=============================================================================
