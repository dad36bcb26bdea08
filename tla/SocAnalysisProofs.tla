------------------------- MODULE SocAnalysisProofs --------------------------
(***************************************************************************)
(* What the analysis of the SOC finds in batches of any length, for any    *)
(* events and any rule.                                                    *)
(*                                                                         *)
(* Sorting: in a finite strict order the number of members below a member  *)
(* is its place, and a set has one listing.  The two loops (See, LeftEdges)*)
(* are recursive functions; that they are defined and what they find is    *)
(* shown by descent to a least round that fails (lemma Least).             *)
(*                                                                         *)
(* Deduplication: after n events the loop has kept and explained what Kept *)
(* and Original say (Told).  Windows: an event is in the window that ends  *)
(* at another one exactly if it Reaches it, which is what WindowOf says    *)
(* without a loop.  Order: groups are listings of sets of events.          *)
(***************************************************************************)
EXTENDS SocAnalysisProps, FiniteSetTheorems, SequenceTheorems, WellFoundedInduction, TLAPS

-----------------------------------------------------------------------------
(* Numbers and finite orders *)

\* Induction over the natural numbers, as a fact of first order.
LEMMA Least ==
  ASSUME NEW T \in SUBSET Nat, T # {}
  PROVE  \E x \in T : \A y \in T : x <= y
<1>1. \E x \in T : \A y \in T : ~(<<y, x>> \in OpToRel(<, Nat))
  <2>1. T \subseteq Nat
    OBVIOUS
  <2>. HIDE DEF OpToRel
  <2> QED
    BY <2>1, NatLessThanWellFounded, WFMin
<1>2. \A x \in T : \A y \in T : ~(<<y, x>> \in OpToRel(<, Nat)) => x <= y
  BY DEF OpToRel
<1> QED
  BY <1>1, <1>2

\* R is a strict total order of S.
Orders(R, S) ==
  /\ R \subseteq S \X S
  /\ \A i \in S : <<i, i>> \notin R
  /\ \A i, j, k \in S : <<i, j>> \in R /\ <<j, k>> \in R => <<i, k>> \in R
  /\ \A i, j \in S : i = j \/ <<i, j>> \in R \/ <<j, i>> \in R

Below(i, R, S) == {j \in S : <<j, i>> \in R}

Ranks(R, S) == [i \in S |-> Cardinality(Below(i, R, S)) + 1]

\* In a finite order the number of members below one tells its place.
LEMMA RanksAre ==
  ASSUME NEW S, IsFiniteSet(S), NEW R, Orders(R, S)
  PROVE  /\ Cardinality(S) \in Nat
         /\ Ranks(R, S) \in [S -> 1..Cardinality(S)]
         /\ \A i, j \in S : <<i, j>> \in R => Ranks(R, S)[i] < Ranks(R, S)[j]
         /\ \A k \in 1..Cardinality(S) : \E i \in S : Ranks(R, S)[i] = k
<1> DEFINE f == Ranks(R, S)
           n == Cardinality(S)
<1>1. n \in Nat
  BY FS_CardinalityType
<1>2. ASSUME NEW i \in S
      PROVE  /\ IsFiniteSet(Below(i, R, S)) /\ Cardinality(Below(i, R, S)) \in Nat
             /\ f[i] = Cardinality(Below(i, R, S)) + 1 /\ f[i] \in 1..n
  <2>1. Below(i, R, S) \in SUBSET (S \ {i})
    BY DEF Below, Orders
  <2>2. IsFiniteSet(S \ {i}) /\ Cardinality(S \ {i}) = n - 1
    BY FS_RemoveElement
  <2>3. /\ IsFiniteSet(Below(i, R, S)) /\ Cardinality(Below(i, R, S)) \in Nat
        /\ Cardinality(Below(i, R, S)) <= n - 1
    BY <2>1, <2>2, FS_Subset, FS_CardinalityType
  <2>4. f[i] = Cardinality(Below(i, R, S)) + 1
    BY DEF Ranks
  <2> QED
    BY <1>1, <2>3, <2>4
<1>3. f \in [S -> 1..n]
  BY <1>2 DEF Ranks
<1>4. ASSUME NEW i \in S, NEW j \in S, <<i, j>> \in R
      PROVE  f[i] < f[j]
  <2>1. Below(i, R, S) \cup {i} \in SUBSET Below(j, R, S) /\ i \notin Below(i, R, S)
    BY <1>4 DEF Below, Orders
  <2>2. Cardinality(Below(i, R, S) \cup {i}) = Cardinality(Below(i, R, S)) + 1
    BY <1>2, <2>1, FS_AddElement
  <2>3. Cardinality(Below(i, R, S) \cup {i}) <= Cardinality(Below(j, R, S))
    BY <1>2, <2>1, FS_Subset
  <2> QED
    BY <1>2, <2>2, <2>3
<1>5. ASSUME NEW k \in 1..n
      PROVE  \E i \in S : f[i] = k
  <2>1. \A i, j \in S : f[i] = f[j] => i = j
    <3> SUFFICES ASSUME NEW i \in S, NEW j \in S, f[i] = f[j]
                 PROVE  i = j
      OBVIOUS
    <3>1. f[i] \in Int /\ f[j] \in Int
      BY <1>2
    <3> HIDE DEF f
    <3>2. <<i, j>> \notin R /\ <<j, i>> \notin R
      BY <1>4, <3>1
    <3> QED
      BY <3>2 DEF Orders
  <2>2. f \in Injection(S, 1..n)
    BY <1>3, <2>1 DEF Injection, IsInjective
  <2>3. IsFiniteSet(1..n) /\ Cardinality(1..n) = n
    BY <1>1, FS_Interval
  <2>4. f \in Surjection(S, 1..n)
    BY <2>2, <2>3, FS_Injection
  <2> QED
    BY <1>5, <2>4 DEF Surjection
<1> QED
  BY <1>1, <1>3, <1>4, <1>5

\* The members of a finite order one after another.
Listed(R, S) ==
  [k \in 1..Cardinality(S) |-> CHOOSE i \in S : Cardinality(Below(i, R, S)) = k - 1]

LEMMA ListedIs ==
  ASSUME NEW S, IsFiniteSet(S), NEW R, Orders(R, S)
  PROVE  /\ Cardinality(S) \in Nat
         /\ Listed(R, S) \in [1..Cardinality(S) -> S]
         /\ \A i \in S : \E k \in 1..Cardinality(S) : Listed(R, S)[k] = i
         /\ \A k, l \in 1..Cardinality(S) : k < l => <<Listed(R, S)[k], Listed(R, S)[l]>> \in R
<1> DEFINE o == Listed(R, S)
           n == Cardinality(S)
<1>1. /\ n \in Nat /\ Ranks(R, S) \in [S -> 1..n]
      /\ \A i, j \in S : <<i, j>> \in R => Ranks(R, S)[i] < Ranks(R, S)[j]
      /\ \A k \in 1..n : \E i \in S : Ranks(R, S)[i] = k
  BY RanksAre
<1>2. ASSUME NEW i \in S
      PROVE  Cardinality(Below(i, R, S)) \in Nat /\ Ranks(R, S)[i] = Cardinality(Below(i, R, S)) + 1
  <2>1. Below(i, R, S) \in SUBSET S
    BY DEF Below
  <2>2. Cardinality(Below(i, R, S)) \in Nat
    BY <2>1, FS_Subset, FS_CardinalityType
  <2> QED
    BY <2>2 DEF Ranks
<1>3. ASSUME NEW k \in 1..n
      PROVE  o[k] \in S /\ Ranks(R, S)[o[k]] = k
  <2>1. PICK i \in S : Ranks(R, S)[i] = k
    BY <1>1
  <2>2. Cardinality(Below(i, R, S)) = k - 1
    BY <1>2, <2>1
  <2>3. o[k] = CHOOSE j \in S : Cardinality(Below(j, R, S)) = k - 1
    BY DEF Listed
  <2>4. o[k] \in S /\ Cardinality(Below(o[k], R, S)) = k - 1
    BY <2>2, <2>3
  <2> QED
    BY <1>2, <2>4
<1>4. o \in [1..n -> S]
  BY <1>3 DEF Listed
<1>5. ASSUME NEW k \in 1..n, NEW l \in 1..n, k < l
      PROVE  <<o[k], o[l]>> \in R
  <2>1. /\ o[k] \in S /\ o[l] \in S
        /\ Ranks(R, S)[o[k]] = k /\ Ranks(R, S)[o[l]] = l
    BY <1>3
  <2> HIDE DEF o
  <2>2. o[k] # o[l]
    BY <1>5, <2>1
  <2>3. ~(<<o[l], o[k]>> \in R)
    BY <1>1, <1>5, <2>1
  <2> QED
    BY <2>1, <2>2, <2>3 DEF Orders
<1>6. ASSUME NEW i \in S
      PROVE  \E k \in 1..n : o[k] = i
  <2>1. Ranks(R, S)[i] \in 1..n
    BY <1>1
  <2>2. o[Ranks(R, S)[i]] \in S /\ Ranks(R, S)[o[Ranks(R, S)[i]]] = Ranks(R, S)[i]
    BY <1>3, <2>1
  <2> HIDE DEF o
  <2>3. o[Ranks(R, S)[i]] = i
    <3>1. Ranks(R, S)[i] \in Int
      BY <2>1
    <3>2. <<i, o[Ranks(R, S)[i]]>> \notin R /\ <<o[Ranks(R, S)[i]], i>> \notin R
      BY <1>1, <2>2, <3>1
    <3> QED
      BY <2>2, <3>2 DEF Orders
  <2> QED
    BY <2>1, <2>3
<1> QED
  BY <1>1, <1>4, <1>5, <1>6

-----------------------------------------------------------------------------
(* Listings *)

\* What is listed of a set of numbers is in it.
LEMMA NumbersListed ==
  ASSUME NEW S \in SUBSET Nat, IsFiniteSet(S)
  PROVE  /\ Cardinality(S) \in Nat
         /\ Ascending(S) \in [1..Cardinality(S) -> S]
         /\ \A i \in S : \E k \in 1..Cardinality(S) : Ascending(S)[k] = i
         /\ \A k, l \in 1..Cardinality(S) : k < l => Ascending(S)[k] < Ascending(S)[l]
<1> DEFINE R == {p \in S \X S : p[1] < p[2]}
           n == Cardinality(S)
<1>1. \A i, j \in S : <<i, j>> \in R <=> i < j
  OBVIOUS
<1>2. Orders(R, S)
  <2>1. \A i \in S : i \in Int
    OBVIOUS
  <2>2. R \subseteq S \X S
    OBVIOUS
  <2> HIDE DEF R
  <2> QED
    BY <1>1, <2>1, <2>2 DEF Orders
<1> HIDE DEF R
<1>3. /\ n \in Nat /\ Listed(R, S) \in [1..n -> S]
      /\ \A i \in S : \E k \in 1..n : Listed(R, S)[k] = i
      /\ \A k, l \in 1..n : k < l => <<Listed(R, S)[k], Listed(R, S)[l]>> \in R
  BY <1>2, ListedIs
<1>4. Ascending(S) = Listed(R, S)
  <2>1. \A i \in S : {j \in S : j < i} = Below(i, R, S)
    BY <1>1 DEF Below
  <2>2. \A k : (CHOOSE i \in S : Cardinality({j \in S : j < i}) = k - 1)
             = CHOOSE i \in S : Cardinality(Below(i, R, S)) = k - 1
    BY <2>1
  <2>3. Ascending(S) = [k \in 1..n |-> CHOOSE i \in S : Cardinality({j \in S : j < i}) = k - 1]
    BY DEF Ascending, Ordered
  <2> QED
    BY <2>2, <2>3 DEF Listed
<1>5. \A k, l \in 1..n : k < l => Listed(R, S)[k] < Listed(R, S)[l]
  <2> SUFFICES ASSUME NEW k \in 1..n, NEW l \in 1..n, k < l
               PROVE  Listed(R, S)[k] < Listed(R, S)[l]
    OBVIOUS
  <2>1. Listed(R, S)[k] \in S /\ Listed(R, S)[l] \in S
    BY <1>3
  <2> QED
    BY <1>1, <1>3, <2>1
<1> QED
  BY <1>3, <1>4, <1>5

\* n entries of G, each before the next ones by R, that are exactly the members of S.
Lists(R, S, n, G) ==
  /\ \A k, l \in 1..n : k < l => <<G[k], G[l]>> \in R
  /\ \A x : x \in S <=> \E k \in 1..n : x = G[k]

OneWay(R, S) == \A x, y \in S : ~(<<x, y>> \in R /\ <<y, x>> \in R)

\* A set has one listing in an order, up to its k-th entry.
LEMMA SameUpTo ==
  ASSUME NEW R, NEW S, OneWay(R, S),
         NEW n \in Nat, NEW m \in Nat, NEW G, NEW H, Lists(R, S, n, G), Lists(R, S, m, H)
  PROVE  \A k \in 1..n : k <= m /\ G[k] = H[k]
<1> DEFINE Bad == {k \in 1..n : ~(k <= m /\ G[k] = H[k])}
<1> SUFFICES ASSUME Bad # {} PROVE FALSE
  OBVIOUS
<1>1. PICK k \in Bad : \A i \in Bad : k <= i
  <2>1. Bad \in SUBSET Nat
    OBVIOUS
  <2> HIDE DEF Bad
  <2> QED
    BY <2>1, Least
<1>2. \A i \in 1..(k - 1) : i \in 1..n /\ i <= m /\ i \in 1..m /\ G[i] = H[i]
  <2> SUFFICES ASSUME NEW i \in 1..(k - 1) PROVE i \in 1..n /\ i <= m /\ i \in 1..m /\ G[i] = H[i]
    OBVIOUS
  <2>1. i \in 1..n /\ i < k
    BY <1>1
  <2>2. i \notin Bad
    BY <1>1, <2>1
  <2> QED
    BY <2>1, <2>2
<1>3. k \in 1..n /\ ~(k <= m /\ G[k] = H[k])
  BY <1>1
<1> HIDE DEF Bad
<1>4. /\ \A i \in 1..n : G[i] \in S /\ \A l \in 1..n : i < l => <<G[i], G[l]>> \in R
      /\ \A i \in 1..m : H[i] \in S /\ \A l \in 1..m : i < l => <<H[i], H[l]>> \in R
      /\ \A x \in S : (\E i \in 1..n : x = G[i]) /\ \E i \in 1..m : x = H[i]
  BY DEF Lists
<1>5. \A x \in S : <<x, x>> \notin R
  BY DEF OneWay
<1>6. PICK j \in 1..m : G[k] = H[j]
  BY <1>3, <1>4
<1>7. ~(j < k)
  <2> SUFFICES ASSUME j < k PROVE FALSE
    OBVIOUS
  <2>1. j \in 1..(k - 1)
    BY <1>3
  <2>2. j \in 1..n /\ G[j] = H[j]
    BY <1>2, <2>1
  <2>3. <<G[j], G[k]>> \in R
    BY <1>3, <1>4, <2>2
  <2> QED
    <3>1. G[j] = G[k] /\ G[k] \in S
      BY <1>3, <1>4, <1>6, <2>2
    <3>2. <<G[k], G[k]>> \in R
      BY <2>3, <3>1
    <3> QED
      BY <1>5, <3>1, <3>2
<1>8. k \in 1..m /\ k < j
  BY <1>3, <1>6, <1>7
<1>9. <<H[k], G[k]>> \in R /\ H[k] \in S
  BY <1>4, <1>6, <1>8
<1>10. PICK i \in 1..n : H[k] = G[i]
  BY <1>4, <1>9
<1>11. ~(i < k)
  <2> SUFFICES ASSUME i < k PROVE FALSE
    OBVIOUS
  <2>1. i \in 1..(k - 1)
    BY <1>3
  <2>2. i \in 1..m /\ G[i] = H[i]
    BY <1>2, <2>1
  <2>3. <<H[i], H[k]>> \in R
    BY <1>4, <1>8, <2>2
  <2> QED
    <3>1. H[i] = H[k]
      BY <1>10, <2>2
    <3>2. <<H[k], H[k]>> \in R
      BY <2>3, <3>1
    <3> QED
      BY <1>5, <1>9, <3>2
<1>12. i # k
  BY <1>5, <1>9, <1>10
<1>13. <<G[k], G[i]>> \in R /\ G[k] \in S
  BY <1>3, <1>4, <1>11, <1>12
<1> QED
  BY <1>9, <1>10, <1>13 DEF OneWay

\* A set has one listing in an order.
LEMMA OneListing ==
  ASSUME NEW R, NEW S, OneWay(R, S),
         NEW n \in Nat, NEW m \in Nat, NEW G, NEW H, Lists(R, S, n, G), Lists(R, S, m, H)
  PROVE  n = m /\ \A k \in 1..n : G[k] = H[k]
<1>1. \A k \in 1..n : k <= m /\ G[k] = H[k]
  BY SameUpTo
<1>2. \A k \in 1..m : k <= n /\ H[k] = G[k]
  BY SameUpTo
<1>3. n # 0 => n \in 1..n
  OBVIOUS
<1>4. m # 0 => m \in 1..m
  OBVIOUS
<1> QED
  BY <1>1, <1>2, <1>3, <1>4

-----------------------------------------------------------------------------
(* The deduplicator *)

RoundsTo(n, batch, g) ==
  g = [m \in 0..n |-> IF m = 0 THEN NothingSeen ELSE See(g[m - 1], batch[m])]

\* The loop is defined: rounds exist up to any length.
LEMMA RoundsExist ==
  ASSUME NEW batch, NEW N \in Nat
  PROVE  \E g : RoundsTo(N, batch, g)
<1> DEFINE Without == {n \in Nat : ~\E g : RoundsTo(n, batch, g)}
<1> SUFFICES ASSUME Without # {} PROVE FALSE
  OBVIOUS
<1>1. PICK n \in Without : \A m \in Without : n <= m
  BY Least
<1>2. CASE n = 0
  <2> DEFINE g == [m \in 0..0 |-> NothingSeen]
  <2>1. g = [m \in 0..0 |-> IF m = 0 THEN NothingSeen ELSE See(g[m - 1], batch[m])]
    OBVIOUS
  <2>2. RoundsTo(0, batch, g)
    BY <2>1 DEF RoundsTo
  <2> QED
    BY <1>2, <2>2
<1>3. CASE n # 0
  <2>1. n - 1 \in Nat /\ n - 1 \notin Without
    BY <1>1, <1>3
  <2>2. PICK g : RoundsTo(n - 1, batch, g)
    BY <2>1
  <2> DEFINE h == [m \in 0..n |-> IF m = n THEN See(g[n - 1], batch[n]) ELSE g[m]]
  <2>3. \A m \in 0..(n - 1) : g[m] = IF m = 0 THEN NothingSeen ELSE See(g[m - 1], batch[m])
    BY <2>2 DEF RoundsTo
  <2>4. ASSUME NEW m \in 0..n
        PROVE  h[m] = IF m = 0 THEN NothingSeen ELSE See(h[m - 1], batch[m])
    <3>1. CASE m = n
      <4>1. h[m] = See(g[m - 1], batch[m]) /\ h[m - 1] = g[m - 1]
        BY <1>3, <3>1
      <4> QED
        BY <1>3, <3>1, <4>1
    <3>2. CASE m # n /\ m # 0
      <4>1. m \in 0..(n - 1) /\ h[m] = g[m] /\ h[m - 1] = g[m - 1]
        BY <3>2
      <4> QED
        BY <2>3, <3>2, <4>1
    <3>3. CASE m # n /\ m = 0
      <4>1. m \in 0..(n - 1) /\ h[m] = g[m]
        BY <3>3
      <4> QED
        BY <2>3, <3>3, <4>1
    <3> QED
      BY <3>1, <3>2, <3>3
  <2>5. h = [m \in 0..n |-> h[m]]
    OBVIOUS
  <2> HIDE DEF h
  <2>6. RoundsTo(n, batch, h)
    BY <2>4, <2>5 DEF RoundsTo
  <2> QED
    BY <2>6
<1> QED
  BY <1>2, <1>3

LEMMA DeduplicateRuns ==
  ASSUME NEW batch, Len(batch) \in Nat
  PROVE  \E seen : /\ seen[0] = NothingSeen
                   /\ \A n \in 1..Len(batch) : seen[n] = See(seen[n - 1], batch[n])
                   /\ Deduplicate(batch) = seen[Len(batch)]
<1> DEFINE N == Len(batch)
           seen == CHOOSE g : g = [m \in 0..N |-> IF m = 0 THEN NothingSeen
                                                   ELSE See(g[m - 1], batch[m])]
<1>1. \E g : g = [m \in 0..N |-> IF m = 0 THEN NothingSeen ELSE See(g[m - 1], batch[m])]
  BY RoundsExist DEF RoundsTo
<1>2. seen = [m \in 0..N |-> IF m = 0 THEN NothingSeen ELSE See(seen[m - 1], batch[m])]
  BY <1>1
<1>3. Deduplicate(batch) = seen[N]
  BY DEF Deduplicate
<1> HIDE DEF seen
<1>4. seen[0] = NothingSeen
  BY <1>2
<1>5. \A n \in 1..N : seen[n] = See(seen[n - 1], batch[n])
  BY <1>2
<1> QED
  BY <1>3, <1>4, <1>5

\* What the loop knows after n events.
SeenIs(E, batch, n, seen) ==
  /\ seen = [events |-> seen.events, duplicates |-> seen.duplicates, first_by_id |-> seen.first_by_id]
  /\ seen.events \in Seq(E)
  /\ \A k \in 1..Len(seen.events) : \E j \in 1..n : seen.events[k] = batch[j]
  /\ DOMAIN seen.first_by_id = {batch[j].id : j \in 1..n}
  /\ \A k, l \in 1..Len(seen.events) : seen.events[k].id = seen.events[l].id => k = l
  /\ \A j \in 1..n :
       \/ \E i \in 1..(j - 1) : batch[i].id = batch[j].id
       \/ \E k \in 1..Len(seen.events) : Fingerprint(seen.events[k]) = Fingerprint(batch[j])

LEMMA RoundKeeps ==
  ASSUME NEW E, NEW batch \in Seq(E), NEW n \in 1..Len(batch), NEW seen,
         SeenIs(E, batch, n - 1, seen)
  PROVE  SeenIs(E, batch, n, See(seen, batch[n]))
<1> DEFINE e == batch[n]
           new == See(seen, e)
<1>1. /\ n \in Nat /\ n > 0 /\ e \in E /\ Len(seen.events) \in Nat
      /\ 1..n = (1..(n - 1)) \cup {n}
  BY DEF SeenIs
<1>2. {batch[j].id : j \in 1..n} = {batch[j].id : j \in 1..(n - 1)} \cup {e.id}
  BY <1>1
<1>3. CASE e.id \in DOMAIN seen.first_by_id
  <2>1. new = [seen EXCEPT !.duplicates = Dropped(seen, e, seen.first_by_id[e.id], "event_id")]
    BY <1>3 DEF See
  <2>2. /\ new = [events |-> new.events, duplicates |-> new.duplicates, first_by_id |-> new.first_by_id]
        /\ new.events = seen.events /\ new.first_by_id = seen.first_by_id
    BY <2>1 DEF SeenIs
  <2>3. PICK i \in 1..(n - 1) : batch[i].id = e.id
    BY <1>3 DEF SeenIs
  <2>4. DOMAIN new.first_by_id = {batch[j].id : j \in 1..n}
    BY <1>2, <1>3, <2>2 DEF SeenIs
  <2>5. \A k \in 1..Len(new.events) : \E j \in 1..n : new.events[k] = batch[j]
    BY <1>1, <2>2 DEF SeenIs
  <2>6. \A j \in 1..n :
          \/ \E h \in 1..(j - 1) : batch[h].id = batch[j].id
          \/ \E k \in 1..Len(new.events) : Fingerprint(new.events[k]) = Fingerprint(batch[j])
    BY <1>1, <2>2, <2>3 DEF SeenIs
  <2> HIDE DEF new
  <2> QED
    BY <2>2, <2>4, <2>5, <2>6 DEF SeenIs, new
<1>4. CASE e.id \notin DOMAIN seen.first_by_id /\ Twins(seen, e) # {}
  <2> DEFINE twin == seen.events[CHOOSE k \in Twins(seen, e) : TRUE].id
  <2>1. new = [seen EXCEPT !.duplicates = Dropped(seen, e, twin, "content"),
                           !.first_by_id = Remembered(seen, e, twin)]
    BY <1>4 DEF See
  <2>2. /\ new = [events |-> new.events, duplicates |-> new.duplicates, first_by_id |-> new.first_by_id]
        /\ new.events = seen.events /\ new.first_by_id = Remembered(seen, e, twin)
    BY <2>1 DEF SeenIs
  <2>3. PICK k \in 1..Len(seen.events) : Fingerprint(seen.events[k]) = Fingerprint(e)
    BY <1>1, <1>4 DEF Twins, SeenIs
  <2>4. DOMAIN new.first_by_id = {batch[j].id : j \in 1..n}
    BY <1>2, <2>2 DEF SeenIs, Remembered
  <2>5. \A l \in 1..Len(new.events) : \E j \in 1..n : new.events[l] = batch[j]
    BY <1>1, <2>2 DEF SeenIs
  <2>6. \A j \in 1..n :
          \/ \E h \in 1..(j - 1) : batch[h].id = batch[j].id
          \/ \E l \in 1..Len(new.events) : Fingerprint(new.events[l]) = Fingerprint(batch[j])
    BY <1>1, <2>2, <2>3 DEF SeenIs
  <2> HIDE DEF new
  <2> QED
    BY <2>2, <2>4, <2>5, <2>6 DEF SeenIs, new
<1>5. CASE e.id \notin DOMAIN seen.first_by_id /\ Twins(seen, e) = {}
  <2>1. new = [seen EXCEPT !.events = Append(seen.events, e), !.first_by_id = Remembered(seen, e, e.id)]
    BY <1>5 DEF See
  <2>2. /\ new = [events |-> new.events, duplicates |-> new.duplicates, first_by_id |-> new.first_by_id]
        /\ new.events = Append(seen.events, e) /\ new.first_by_id = Remembered(seen, e, e.id)
    BY <2>1 DEF SeenIs
  <2>3. /\ new.events \in Seq(E) /\ Len(new.events) = Len(seen.events) + 1
        /\ new.events[Len(seen.events) + 1] = e
        /\ \A k \in 1..Len(seen.events) : new.events[k] = seen.events[k]
    BY <1>1, <2>2, AppendProperties DEF SeenIs
  <2>4. DOMAIN new.first_by_id = {batch[j].id : j \in 1..n}
    BY <1>2, <2>2 DEF SeenIs, Remembered
  <2> HIDE DEF new
  <2>5. \A k \in 1..Len(new.events) : k \in 1..Len(seen.events) \/ k = Len(seen.events) + 1
    BY <1>1, <2>3
  <2>6. \A k \in 1..Len(new.events) : \E j \in 1..n : new.events[k] = batch[j]
    BY <1>1, <2>3, <2>5 DEF SeenIs
  <2>7. \A k \in 1..Len(seen.events) : seen.events[k].id # e.id
    BY <1>5 DEF SeenIs
  <2>8. \A k, l \in 1..Len(new.events) : new.events[k].id = new.events[l].id => k = l
    BY <2>3, <2>5, <2>7 DEF SeenIs
  <2>9. \A j \in 1..n :
          \/ \E h \in 1..(j - 1) : batch[h].id = batch[j].id
          \/ \E l \in 1..Len(new.events) : Fingerprint(new.events[l]) = Fingerprint(batch[j])
    <3>1. Len(seen.events) + 1 \in 1..Len(new.events)
          /\ \A k \in 1..Len(seen.events) : k \in 1..Len(new.events)
      BY <1>1, <2>3
    <3> QED
      BY <1>1, <2>3, <3>1 DEF SeenIs
  <2> QED
    BY <2>2, <2>3, <2>4, <2>6, <2>8, <2>9 DEF SeenIs, new
<1> QED
  BY <1>3, <1>4, <1>5

\* Deduplication keeps events of the batch, no id twice, and drops an event only for
\* an earlier one with its id or one with its content that is kept.
LEMMA DeduplicateIs ==
  ASSUME NEW E, NEW batch \in Seq(E)
  PROVE  SeenIs(E, batch, Len(batch), Deduplicate(batch))
<1>1. Len(batch) \in Nat
  OBVIOUS
<1>2. PICK seen : /\ seen[0] = NothingSeen
                  /\ \A n \in 1..Len(batch) : seen[n] = See(seen[n - 1], batch[n])
                  /\ Deduplicate(batch) = seen[Len(batch)]
  BY <1>1, DeduplicateRuns
<1> DEFINE Bad == {n \in 0..Len(batch) : ~SeenIs(E, batch, n, seen[n])}
<1> SUFFICES ASSUME Bad # {} PROVE FALSE
  BY <1>1, <1>2
<1>3. PICK n \in Bad : \A m \in Bad : n <= m
  <2>1. Bad \in SUBSET Nat
    BY <1>1
  <2> QED
    BY <2>1, Least
<1>4. CASE n = 0
  <2>1. SeenIs(E, batch, 0, NothingSeen)
    <3>1. <<>> \in Seq(E) /\ Len(<<>>) = 0 /\ 1..0 = {}
      OBVIOUS
    <3> QED
      BY <3>1 DEF SeenIs, NothingSeen
  <2> QED
    BY <1>2, <1>4, <2>1
<1>5. CASE n # 0
  <2>1. n \in 1..Len(batch) /\ n - 1 \in 0..Len(batch) /\ n - 1 \notin Bad
    BY <1>1, <1>3, <1>5
  <2>2. SeenIs(E, batch, n - 1, seen[n - 1]) /\ seen[n] = See(seen[n - 1], batch[n])
    BY <1>2, <2>1
  <2>3. SeenIs(E, batch, n, seen[n])
    BY <2>1, <2>2, RoundKeeps
  <2> QED
    BY <1>3, <2>3
<1> QED
  BY <1>4, <1>5

-----------------------------------------------------------------------------
(* Batches without duplicates *)

Fresh(batch) ==
  \A k, l \in 1..Len(batch) :
    k # l => batch[k].id # batch[l].id /\ Fingerprint(batch[k]) # Fingerprint(batch[l])

\* The loop has kept all n events.
AllKept(E, batch, n, seen) ==
  /\ seen = [events |-> seen.events, duplicates |-> seen.duplicates, first_by_id |-> seen.first_by_id]
  /\ seen.events \in Seq(E) /\ Len(seen.events) = n
  /\ \A k \in 1..n : seen.events[k] = batch[k]
  /\ \A id : id \in DOMAIN seen.first_by_id <=> \E j \in 1..n : id = batch[j].id

LEMMA FreshKept ==
  ASSUME NEW E, NEW batch \in Seq(E), Fresh(batch)
  PROVE  Deduplicate(batch).events = batch
<1>1. Len(batch) \in Nat /\ \A k \in 1..Len(batch) : batch[k] \in E
  OBVIOUS
<1>2. PICK seen : /\ seen[0] = NothingSeen
                  /\ \A n \in 1..Len(batch) : seen[n] = See(seen[n - 1], batch[n])
                  /\ Deduplicate(batch) = seen[Len(batch)]
  BY <1>1, DeduplicateRuns
<1> DEFINE Bad == {n \in 0..Len(batch) : ~AllKept(E, batch, n, seen[n])}
<1>3. ASSUME Bad # {} PROVE FALSE
  <2>1. PICK n \in Bad : \A m \in Bad : n <= m
    <3>1. Bad \in SUBSET Nat
      BY <1>1
    <3> HIDE DEF Bad
    <3> QED
      BY <1>3, <3>1, Least
  <2>2. CASE n = 0
    <3>1. <<>> \in Seq(E) /\ Len(<<>>) = 0 /\ 1..0 = {}
      OBVIOUS
    <3>2. AllKept(E, batch, 0, NothingSeen)
      BY <3>1 DEF AllKept, NothingSeen
    <3> QED
      BY <1>2, <2>1, <2>2, <3>2
  <2>3. CASE n # 0
    <3> DEFINE old == seen[n - 1]
               e == batch[n]
               new == See(old, e)
    <3>1. n \in 1..Len(batch) /\ n - 1 \in 0..Len(batch) /\ n - 1 \notin Bad
      BY <1>1, <2>1, <2>3
    <3>2. AllKept(E, batch, n - 1, old) /\ seen[n] = new
      BY <1>2, <3>1
    <3> HIDE DEF Bad, old
    <3>3. /\ \A j \in 1..(n - 1) : batch[j].id # e.id /\ Fingerprint(batch[j]) # Fingerprint(e)
          /\ n \in Nat /\ e \in E
      BY <1>1, <3>1 DEF Fresh
    <3>4. e.id \notin DOMAIN old.first_by_id /\ Twins(old, e) = {}
      <4>1. e.id \notin DOMAIN old.first_by_id
        BY <3>2, <3>3 DEF AllKept
      <4>2. DOMAIN old.events = 1..(n - 1) /\ \A k \in 1..(n - 1) : old.events[k] = batch[k]
        BY <3>2 DEF AllKept
      <4>3. \A k \in DOMAIN old.events : Fingerprint(old.events[k]) # Fingerprint(e)
        BY <3>3, <4>2
      <4> QED
        BY <4>1, <4>3 DEF Twins
    <3>5. new = [old EXCEPT !.events = Append(old.events, e), !.first_by_id = Remembered(old, e, e.id)]
      BY <3>4 DEF See
    <3>6. /\ new = [events |-> new.events, duplicates |-> new.duplicates, first_by_id |-> new.first_by_id]
          /\ new.events = Append(old.events, e) /\ new.first_by_id = Remembered(old, e, e.id)
      BY <3>2, <3>5 DEF AllKept
    <3> HIDE DEF new
    <3>7. /\ new.events \in Seq(E) /\ Len(new.events) = n
          /\ new.events[n] = e /\ \A k \in 1..(n - 1) : new.events[k] = old.events[k]
      BY <3>2, <3>3, <3>6, AppendProperties DEF AllKept
    <3>8. \A k \in 1..n : new.events[k] = batch[k]
      <4>1. \A k \in 1..n : k = n \/ k \in 1..(n - 1)
        BY <3>3
      <4> QED
        BY <3>2, <3>7, <4>1 DEF AllKept
    <3>9. \A id : id \in DOMAIN new.first_by_id <=> \E j \in 1..n : id = batch[j].id
      <4>1. DOMAIN new.first_by_id = (DOMAIN old.first_by_id) \cup {e.id}
        BY <3>6 DEF Remembered
      <4>2. \A j : j \in 1..n <=> j \in 1..(n - 1) \/ j = n
        BY <3>1, <3>3
      <4> QED
        BY <3>2, <4>1, <4>2 DEF AllKept
    <3>10. AllKept(E, batch, n, new)
      BY <3>6, <3>7, <3>8, <3>9 DEF AllKept
    <3> QED
      BY <2>1, <3>2, <3>10 DEF Bad
  <2> QED
    BY <2>2, <2>3
<1>4. AllKept(E, batch, Len(batch), Deduplicate(batch))
  BY <1>1, <1>2, <1>3
<1> DEFINE events == Deduplicate(batch).events
<1>5. events \in Seq(E) /\ Len(events) = Len(batch) /\ \A k \in 1..Len(batch) : events[k] = batch[k]
  BY <1>4 DEF AllKept
<1> HIDE DEF events
<1>6. events = batch
  BY <1>1, <1>5
<1> QED
  BY <1>6 DEF events

-----------------------------------------------------------------------------
(* What is dropped, and why *)

\* A repeated id has a first position.
LEMMA FirstOf ==
  ASSUME NEW k \in Nat, k > 0
  PROVE  /\ \E f \in 1..k : SameId(f, k) /\ ~RepeatsId(f)
         /\ \A f, h \in 1..k :
              SameId(f, k) /\ ~RepeatsId(f) /\ SameId(h, k) /\ ~RepeatsId(h) => f = h
         /\ ~RepeatsId(k) => \A f \in 1..k : SameId(f, k) => f = k
<1> DEFINE Same == {f \in 1..k : SameId(f, k)}
<1>1. Same \in SUBSET Nat /\ k \in Same
  BY DEF SameId
<1>2. PICK f \in Same : \A h \in Same : f <= h
  <2> HIDE DEF Same
  <2> QED
    BY <1>1, Least
<1>3. ~RepeatsId(f)
  <2> SUFFICES ASSUME NEW j \in 1..(f - 1), SameId(j, f) PROVE FALSE
    BY DEF RepeatsId
  <2>1. j \in 1..k /\ j < f
    BY <1>2
  <2>2. SameId(j, k)
    BY <1>2 DEF SameId
  <2> QED
    BY <1>2, <2>1, <2>2
<1>4. ASSUME NEW g \in 1..k, NEW h \in 1..k, SameId(g, k), ~RepeatsId(g), SameId(h, k), ~RepeatsId(h)
      PROVE  g = h
  <2>1. SameId(g, h) /\ SameId(h, g)
    BY <1>4 DEF SameId
  <2>2. g < h => g \in 1..(h - 1)
    OBVIOUS
  <2>3. h < g => h \in 1..(g - 1)
    OBVIOUS
  <2> QED
    BY <1>4, <2>1, <2>2, <2>3 DEF RepeatsId
<1>5. ASSUME ~RepeatsId(k), NEW g \in 1..k, SameId(g, k) PROVE g = k
  <2>1. g # k => g \in 1..(k - 1)
    OBVIOUS
  <2> QED
    BY <1>5, <2>1 DEF RepeatsId
<1> QED
  BY <1>2, <1>3, <1>4, <1>5

\* An event dropped for its content has one kept event with that content before it.
LEMMA TwinOf ==
  ASSUME NEW k \in Nat, k > 0, ~RepeatsId(k), ~Kept(k)
  PROVE  /\ \E j \in 1..(k - 1) : Kept(j) /\ SameContent(j, k)
         /\ \A i, j \in 1..k : Kept(i) /\ SameContent(i, k) /\ Kept(j) /\ SameContent(j, k) => i = j
<1> DEFINE Same == {j \in 1..(k - 1) : ~RepeatsId(j) /\ SameContent(j, k)}
<1>1. Same \in SUBSET Nat /\ Same # {}
  BY DEF Kept
<1>2. PICK j \in Same : \A h \in Same : j <= h
  <2> HIDE DEF Same
  <2> QED
    BY <1>1, Least
<1>3. Kept(j)
  <2> SUFFICES ASSUME NEW h \in 1..(j - 1), ~RepeatsId(h), SameContent(h, j) PROVE FALSE
    BY <1>2 DEF Kept
  <2>1. h \in 1..(k - 1) /\ h < j
    BY <1>2
  <2>2. SameContent(h, k)
    BY <1>2 DEF SameContent
  <2> QED
    BY <1>2, <2>1, <2>2
<1>4. ASSUME NEW g \in 1..k, NEW h \in 1..k, Kept(g), SameContent(g, k), Kept(h), SameContent(h, k)
      PROVE  g = h
  <2>1. SameContent(g, h) /\ SameContent(h, g)
    BY <1>4 DEF SameContent
  <2>2. g < h => g \in 1..(h - 1)
    OBVIOUS
  <2>3. h < g => h \in 1..(g - 1)
    OBVIOUS
  <2> QED
    BY <1>4, <2>1, <2>2, <2>3 DEF Kept
<1> QED
  BY <1>2, <1>3, <1>4

\* What the original of an event is: itself if it is kept, the kept event with its
\* content if it is the first of its id, the original of the first of its id otherwise.
LEMMA OriginalIs ==
  ASSUME NEW k \in Nat, k > 0
  PROVE  /\ Kept(k) => Original(k) = k
         /\ ~RepeatsId(k) /\ ~Kept(k) =>
              /\ Original(k) \in 1..k /\ Kept(Original(k)) /\ SameContent(Original(k), k)
              /\ \A j \in 1..k : Kept(j) /\ SameContent(j, k) => j = Original(k)
         /\ \A j \in 1..k : SameId(j, k) => Original(j) = Original(k)
<1> DEFINE First(n) == CHOOSE j \in 1..n : SameId(j, n) /\ ~RepeatsId(j)
           Of(f) == CHOOSE j \in 1..f : Kept(j) /\ (j = f \/ (~Kept(f) /\ SameContent(j, f)))
<1>1. \A n : Original(n) = Of(First(n))
  BY DEF Original
<1>2. ASSUME NEW n \in Nat, n > 0
      PROVE  First(n) \in 1..n /\ SameId(First(n), n) /\ ~RepeatsId(First(n))
  <2>1. \E f \in 1..n : SameId(f, n) /\ ~RepeatsId(f)
    BY <1>2, FirstOf
  <2> QED
    BY <2>1
<1> HIDE DEF First
<1>3. ~RepeatsId(k) => First(k) = k
  BY <1>2, FirstOf
<1>4. ASSUME Kept(k) PROVE Original(k) = k
  <2>1. First(k) = k
    BY <1>3, <1>4 DEF Kept
  <2>2. Of(k) = k
    <3>1. k \in 1..k /\ Kept(k)
      BY <1>4
    <3>2. Of(k) \in 1..k /\ (Of(k) = k \/ (~Kept(k) /\ SameContent(Of(k), k)))
      BY <3>1
    <3> QED
      BY <1>4, <3>2
  <2> HIDE DEF Of
  <2> QED
    BY <1>1, <2>1, <2>2
<1>5. ASSUME ~RepeatsId(k), ~Kept(k)
      PROVE  /\ Original(k) \in 1..k /\ Kept(Original(k)) /\ SameContent(Original(k), k)
             /\ \A j \in 1..k : Kept(j) /\ SameContent(j, k) => j = Original(k)
  <2>1. First(k) = k
    BY <1>3, <1>5
  <2>2. PICK j \in 1..(k - 1) : Kept(j) /\ SameContent(j, k)
    BY <1>5, TwinOf
  <2>3. j \in 1..k
    OBVIOUS
  <2>4. Of(k) \in 1..k /\ Kept(Of(k)) /\ (Of(k) = k \/ (~Kept(k) /\ SameContent(Of(k), k)))
    BY <1>5, <2>2, <2>3
  <2> HIDE DEF Of
  <2>5. Original(k) = Of(k)
    BY <1>1, <2>1
  <2>6. Original(k) \in 1..k /\ Kept(Original(k)) /\ SameContent(Original(k), k)
    BY <1>5, <2>4, <2>5
  <2> QED
    BY <1>5, <2>6, TwinOf
<1>6. ASSUME NEW j \in 1..k, SameId(j, k) PROVE Original(j) = Original(k)
  <2>1. /\ j \in Nat /\ j > 0 /\ First(j) \in 1..j /\ SameId(First(j), j) /\ ~RepeatsId(First(j))
        /\ First(k) \in 1..k /\ SameId(First(k), k) /\ ~RepeatsId(First(k))
    BY <1>2
  <2>2. First(j) \in 1..k /\ SameId(First(j), k)
    BY <1>6, <2>1 DEF SameId
  <2>3. First(j) = First(k)
    BY <2>1, <2>2, FirstOf
  <2> HIDE DEF Of
  <2> QED
    BY <1>1, <2>3
<1> QED
  BY <1>4, <1>5, <1>6

\* The positions of S one after another.
Counts(s, S) ==
  /\ s \in Seq(Nat)
  /\ \A k, l \in 1..Len(s) : k < l => s[k] < s[l]
  /\ \A i : i \in S <=> \E k \in 1..Len(s) : s[k] = i

LEMMA CountsOn ==
  ASSUME NEW s, NEW S, Counts(s, S), NEW n \in Nat, \A i \in S : i < n
  PROVE  /\ Counts(Append(s, n), S \cup {n})
         /\ Len(Append(s, n)) = Len(s) + 1 /\ Append(s, n)[Len(s) + 1] = n
         /\ \A k \in 1..Len(s) : Append(s, n)[k] = s[k]
<1> DEFINE t == Append(s, n)
<1>1. s \in Seq(Nat) /\ Len(s) \in Nat /\ \A k \in 1..Len(s) : s[k] \in Nat /\ s[k] \in S
  BY DEF Counts
<1>2. /\ t \in Seq(Nat) /\ Len(t) = Len(s) + 1 /\ t[Len(s) + 1] = n
      /\ \A k \in 1..Len(s) : t[k] = s[k]
  BY <1>1, AppendProperties
<1> HIDE DEF t
<1>3. \A k : k \in 1..Len(t) <=> k \in 1..Len(s) \/ k = Len(s) + 1
  BY <1>1, <1>2
<1>4. \A k, l \in 1..Len(t) : k < l => t[k] < t[l]
  <2> SUFFICES ASSUME NEW k \in 1..Len(t), NEW l \in 1..Len(t), k < l PROVE t[k] < t[l]
    OBVIOUS
  <2>1. k \in 1..Len(s) /\ t[k] = s[k]
    BY <1>1, <1>2
  <2>2. CASE l \in 1..Len(s)
    BY <1>2, <2>1, <2>2 DEF Counts
  <2>3. CASE l = Len(s) + 1
    BY <1>1, <1>2, <2>1, <2>3
  <2> QED
    BY <1>3, <2>2, <2>3
<1>5. \A i : i \in S \cup {n} <=> \E k \in 1..Len(t) : t[k] = i
  <2>1. \A i : i \in S <=> \E k \in 1..Len(s) : t[k] = i
    BY <1>2 DEF Counts
  <2> QED
    BY <1>2, <1>3, <2>1
<1>6. Counts(t, S \cup {n})
  BY <1>2, <1>4, <1>5 DEF Counts
<1> QED
  BY <1>2, <1>6 DEF t

\* There is one way to list numbers in order.
LEMMA CountsOnce ==
  ASSUME NEW s, NEW S, IsFiniteSet(S), Counts(s, S)
  PROVE  s = Ascending(S)
<1> DEFINE R == {p \in Nat \X Nat : p[1] < p[2]}
           t == Ascending(S)
<1>1. s \in Seq(Nat) /\ Len(s) \in Nat /\ DOMAIN s = 1..Len(s) /\ \A k \in 1..Len(s) : s[k] \in Nat
  BY DEF Counts
<1>2. S \in SUBSET Nat
  BY <1>1 DEF Counts
<1>3. /\ Cardinality(S) \in Nat /\ t \in [1..Cardinality(S) -> S]
      /\ \A i \in S : \E k \in 1..Cardinality(S) : t[k] = i
      /\ \A k, l \in 1..Cardinality(S) : k < l => t[k] < t[l]
  BY <1>2, NumbersListed
<1> HIDE DEF t
<1> DEFINE n == Cardinality(S)
<1> HIDE DEF n
<1>4. n \in Nat /\ DOMAIN t = 1..n /\ \A k \in 1..n : t[k] \in S /\ t[k] \in Nat
  BY <1>2, <1>3 DEF n
<1>5. \A i, j \in Nat : <<i, j>> \in R <=> i < j
  OBVIOUS
<1> HIDE DEF R
<1>6. OneWay(R, S)
  <2>1. \A i, j \in Nat : ~(i < j /\ j < i)
    OBVIOUS
  <2> QED
    BY <1>2, <1>5, <2>1 DEF OneWay
<1>7. Lists(R, S, Len(s), s)
  BY <1>1, <1>5 DEF Lists, Counts
<1>8. Lists(R, S, n, t)
  BY <1>3, <1>4, <1>5 DEF Lists, n
<1>9. Len(s) = n /\ \A k \in 1..n : s[k] = t[k]
  <2> DEFINE m == Len(s)
  <2>1. m \in Nat /\ n \in Nat /\ Lists(R, S, m, s) /\ Lists(R, S, n, t)
    BY <1>1, <1>4, <1>7, <1>8
  <2> HIDE DEF m
  <2>2. m = n /\ \A k \in 1..m : s[k] = t[k]
    BY <1>6, <2>1, OneListing
  <2> QED
    BY <2>2 DEF m
<1>10. s = t
  <2>1. s = [k \in 1..n |-> s[k]] /\ t = [k \in 1..n |-> t[k]]
    BY <1>1, <1>3, <1>9 DEF n
  <2> QED
    BY <1>9, <2>1
<1> QED
  BY <1>10 DEF t

KeptTo(n)    == {k \in 1..n : Kept(k)}
DroppedTo(n) == {k \in 1..n : ~Kept(k)}

EntryOf(k) ==
  [original  |-> arrivals[Original(k)].id,
   duplicate |-> arrivals[k].id,
   reason    |-> IF RepeatsId(k) THEN "event_id" ELSE "content"]

Entries == {EntryOf(k) : k \in 1..Len(arrivals)}

\* After n events the loop has kept and explained what it should, in order.
Told(n, seen, kept, dropped) ==
  /\ Counts(kept, KeptTo(n)) /\ Counts(dropped, DroppedTo(n))
  /\ seen = [events |-> seen.events, duplicates |-> seen.duplicates, first_by_id |-> seen.first_by_id]
  /\ seen.events \in Seq(Events) /\ Len(seen.events) = Len(kept)
  /\ \A m \in 1..Len(kept) : seen.events[m] = arrivals[kept[m]]
  /\ seen.duplicates \in Seq(Entries) /\ Len(seen.duplicates) = Len(dropped)
  /\ \A m \in 1..Len(dropped) : seen.duplicates[m] = EntryOf(dropped[m])
  /\ \A id : id \in DOMAIN seen.first_by_id <=> \E j \in 1..n : id = arrivals[j].id
  /\ \A j \in 1..n : seen.first_by_id[arrivals[j].id] = arrivals[Original(j)].id

\* A dropped event is explained by the next entry.
LEMMA TellDropped ==
  ASSUME NEW n \in 1..Len(arrivals), arrivals \in Seq(Events), ~Kept(n),
         NEW seen, NEW kept, NEW dropped, Told(n - 1, seen, kept, dropped),
         NEW new,
         new = [events |-> new.events, duplicates |-> new.duplicates, first_by_id |-> new.first_by_id],
         new.events = seen.events, new.duplicates = Append(seen.duplicates, EntryOf(n)),
         \A id : id \in DOMAIN new.first_by_id <=> \E j \in 1..n : id = arrivals[j].id,
         \A j \in 1..n : new.first_by_id[arrivals[j].id] = arrivals[Original(j)].id
  PROVE  \E more : Told(n, new, kept, more)
<1> DEFINE more == Append(dropped, n)
<1>1. n \in Nat /\ \A j : j \in 1..n <=> j \in 1..(n - 1) \/ j = n
  OBVIOUS
<1>2. KeptTo(n) = KeptTo(n - 1) /\ DroppedTo(n) = DroppedTo(n - 1) \cup {n}
  BY <1>1 DEF KeptTo, DroppedTo
<1>3. \A i \in DroppedTo(n - 1) : i < n
  BY <1>1 DEF DroppedTo
<1>4. /\ Counts(kept, KeptTo(n - 1)) /\ Counts(dropped, DroppedTo(n - 1))
      /\ seen.events \in Seq(Events) /\ Len(seen.events) = Len(kept)
      /\ \A m \in 1..Len(kept) : seen.events[m] = arrivals[kept[m]]
      /\ seen.duplicates \in Seq(Entries) /\ Len(seen.duplicates) = Len(dropped)
      /\ \A m \in 1..Len(dropped) : seen.duplicates[m] = EntryOf(dropped[m])
  BY DEF Told
<1>5. /\ Counts(more, DroppedTo(n)) /\ Len(more) = Len(dropped) + 1 /\ more[Len(dropped) + 1] = n
      /\ \A k \in 1..Len(dropped) : more[k] = dropped[k]
  <2>1. Counts(dropped, DroppedTo(n - 1)) /\ n \in Nat
    BY <1>1, <1>4
  <2>2. /\ Counts(more, DroppedTo(n - 1) \cup {n})
        /\ Len(more) = Len(dropped) + 1 /\ more[Len(dropped) + 1] = n
        /\ \A k \in 1..Len(dropped) : more[k] = dropped[k]
    BY <1>3, <2>1, CountsOn
  <2> QED
    BY <1>2, <2>2
<1>6. EntryOf(n) \in Entries
  BY DEF Entries
<1>7. /\ new.duplicates \in Seq(Entries) /\ Len(new.duplicates) = Len(dropped) + 1
      /\ new.duplicates[Len(dropped) + 1] = EntryOf(n)
      /\ \A m \in 1..Len(dropped) : new.duplicates[m] = seen.duplicates[m]
  BY <1>4, <1>6, AppendProperties
<1> HIDE DEF more
<1>8. \A m \in 1..Len(more) : new.duplicates[m] = EntryOf(more[m])
  <2>1. Len(dropped) \in Nat
    BY <1>4 DEF Counts
  <2>2. \A m \in 1..Len(more) : m \in 1..Len(dropped) \/ m = Len(dropped) + 1
    BY <1>5, <2>1
  <2> QED
    BY <1>4, <1>5, <1>7, <2>2
<1>9. /\ Counts(kept, KeptTo(n)) /\ Counts(more, DroppedTo(n))
      /\ new.events \in Seq(Events) /\ Len(new.events) = Len(kept)
      /\ \A m \in 1..Len(kept) : new.events[m] = arrivals[kept[m]]
      /\ new.duplicates \in Seq(Entries) /\ Len(new.duplicates) = Len(more)
  BY <1>2, <1>4, <1>5, <1>7
<1>10. Told(n, new, kept, more)
  BY <1>8, <1>9 DEF Told
<1> QED
  BY <1>10

\* A kept event is the next of the events.
LEMMA TellKept ==
  ASSUME NEW n \in 1..Len(arrivals), arrivals \in Seq(Events), Kept(n),
         NEW seen, NEW kept, NEW dropped, Told(n - 1, seen, kept, dropped),
         NEW new,
         new = [events |-> new.events, duplicates |-> new.duplicates, first_by_id |-> new.first_by_id],
         new.events = Append(seen.events, arrivals[n]), new.duplicates = seen.duplicates,
         \A id : id \in DOMAIN new.first_by_id <=> \E j \in 1..n : id = arrivals[j].id,
         \A j \in 1..n : new.first_by_id[arrivals[j].id] = arrivals[Original(j)].id
  PROVE  \E more : Told(n, new, more, dropped)
<1> DEFINE more == Append(kept, n)
<1>1. n \in Nat /\ arrivals[n] \in Events /\ \A j : j \in 1..n <=> j \in 1..(n - 1) \/ j = n
  OBVIOUS
<1>2. DroppedTo(n) = DroppedTo(n - 1) /\ KeptTo(n) = KeptTo(n - 1) \cup {n}
  BY <1>1 DEF KeptTo, DroppedTo
<1>3. \A i \in KeptTo(n - 1) : i < n
  BY <1>1 DEF KeptTo
<1>4. /\ Counts(kept, KeptTo(n - 1)) /\ Counts(dropped, DroppedTo(n - 1))
      /\ seen.events \in Seq(Events) /\ Len(seen.events) = Len(kept)
      /\ \A m \in 1..Len(kept) : seen.events[m] = arrivals[kept[m]]
      /\ seen.duplicates \in Seq(Entries) /\ Len(seen.duplicates) = Len(dropped)
      /\ \A m \in 1..Len(dropped) : seen.duplicates[m] = EntryOf(dropped[m])
  BY DEF Told
<1>5. /\ Counts(more, KeptTo(n)) /\ Len(more) = Len(kept) + 1 /\ more[Len(kept) + 1] = n
      /\ \A k \in 1..Len(kept) : more[k] = kept[k]
  <2>1. Counts(kept, KeptTo(n - 1)) /\ n \in Nat
    BY <1>1, <1>4
  <2>2. /\ Counts(more, KeptTo(n - 1) \cup {n})
        /\ Len(more) = Len(kept) + 1 /\ more[Len(kept) + 1] = n
        /\ \A k \in 1..Len(kept) : more[k] = kept[k]
    BY <1>3, <2>1, CountsOn
  <2> QED
    BY <1>2, <2>2
<1>6. /\ new.events \in Seq(Events) /\ Len(new.events) = Len(kept) + 1
      /\ new.events[Len(kept) + 1] = arrivals[n]
      /\ \A m \in 1..Len(kept) : new.events[m] = seen.events[m]
  BY <1>1, <1>4, AppendProperties
<1> HIDE DEF more
<1>7. \A m \in 1..Len(more) : new.events[m] = arrivals[more[m]]
  <2>1. Len(kept) \in Nat
    BY <1>4 DEF Counts
  <2>2. \A m \in 1..Len(more) : m \in 1..Len(kept) \/ m = Len(kept) + 1
    BY <1>5, <2>1
  <2> QED
    BY <1>4, <1>5, <1>6, <2>2
<1>8. /\ Counts(more, KeptTo(n)) /\ Counts(dropped, DroppedTo(n))
      /\ new.events \in Seq(Events) /\ Len(new.events) = Len(more)
      /\ new.duplicates \in Seq(Entries) /\ Len(new.duplicates) = Len(dropped)
      /\ \A m \in 1..Len(dropped) : new.duplicates[m] = EntryOf(dropped[m])
  BY <1>2, <1>4, <1>5, <1>6
<1>9. Told(n, new, more, dropped)
  BY <1>7, <1>8 DEF Told
<1> QED
  BY <1>9

\* One round of the loop.
LEMMA RoundTells ==
  ASSUME NEW n \in 1..Len(arrivals), arrivals \in Seq(Events),
         NEW seen, NEW kept, NEW dropped, Told(n - 1, seen, kept, dropped)
  PROVE  \E k, d : Told(n, See(seen, arrivals[n]), k, d)
<1> DEFINE e == arrivals[n]
           new == See(seen, e)
<1>1. /\ n \in Nat /\ n > 0 /\ e \in Events
      /\ \A j : j \in 1..n <=> j \in 1..(n - 1) \/ j = n
  OBVIOUS
<1>2. /\ seen = [events |-> seen.events, duplicates |-> seen.duplicates, first_by_id |-> seen.first_by_id]
      /\ \A id : id \in DOMAIN seen.first_by_id <=> \E j \in 1..(n - 1) : id = arrivals[j].id
      /\ \A j \in 1..(n - 1) : seen.first_by_id[arrivals[j].id] = arrivals[Original(j)].id
      /\ Counts(kept, KeptTo(n - 1)) /\ DOMAIN seen.events = 1..Len(kept)
      /\ \A m \in 1..Len(kept) : seen.events[m] = arrivals[kept[m]]
  BY DEF Told
<1>3. RepeatsId(n) <=> e.id \in DOMAIN seen.first_by_id
  <2>1. RepeatsId(n) <=> \E j \in 1..(n - 1) : e.id = arrivals[j].id
    BY DEF RepeatsId, SameId
  <2> QED
    BY <1>2, <2>1
<1>4. \A id : (\E j \in 1..n : id = arrivals[j].id) <=> id \in DOMAIN seen.first_by_id \/ id = e.id
  BY <1>1, <1>2
<1>5. CASE RepeatsId(n)
  <2>1. new = [seen EXCEPT !.duplicates = Dropped(seen, e, seen.first_by_id[e.id], "event_id")]
    BY <1>3, <1>5 DEF See
  <2>2. /\ new = [events |-> new.events, duplicates |-> new.duplicates, first_by_id |-> new.first_by_id]
        /\ new.events = seen.events /\ new.first_by_id = seen.first_by_id
        /\ new.duplicates = Append(seen.duplicates,
             [original |-> seen.first_by_id[e.id], duplicate |-> e.id, reason |-> "event_id"])
    BY <1>2, <2>1 DEF Dropped
  <2>3. PICK j \in 1..(n - 1) : SameId(j, n)
    BY <1>5 DEF RepeatsId
  <2>4. Original(j) = Original(n)
    BY <1>1, <2>3, OriginalIs
  <2>5. seen.first_by_id[e.id] = arrivals[Original(n)].id
    BY <1>2, <2>3, <2>4 DEF SameId
  <2>6. ~Kept(n)
    BY <1>5 DEF Kept
  <2>7. new.duplicates = Append(seen.duplicates, EntryOf(n))
    BY <1>5, <2>2, <2>5 DEF EntryOf
  <2>8. \A id : id \in DOMAIN new.first_by_id <=> \E i \in 1..n : id = arrivals[i].id
    BY <1>3, <1>4, <1>5, <2>2
  <2>9. \A i \in 1..n : new.first_by_id[arrivals[i].id] = arrivals[Original(i)].id
    BY <1>1, <1>2, <2>2, <2>5
  <2> HIDE DEF new
  <2>10. \E more : Told(n, new, kept, more)
    BY <2>2, <2>6, <2>7, <2>8, <2>9, TellDropped
  <2> QED
    BY <2>10 DEF new
<1>6. CASE ~RepeatsId(n)
  <2>1. \A i \in 1..(n - 1) : arrivals[i].id # e.id
    BY <1>6 DEF RepeatsId, SameId
  <2>2. \A m : m \in Twins(seen, e) <=> m \in 1..Len(kept) /\ SameContent(kept[m], n)
    BY <1>2 DEF Twins, SameContent
  <2>3. \A m \in 1..Len(kept) : kept[m] \in 1..(n - 1) /\ Kept(kept[m])
    BY <1>2 DEF Counts, KeptTo
  <2>4. \A i \in 1..(n - 1) : Kept(i) => \E m \in 1..Len(kept) : kept[m] = i
    BY <1>2 DEF Counts, KeptTo
  <2>5. ASSUME NEW x, x = arrivals[Original(n)].id,
               new.first_by_id = Remembered(seen, e, x)
        PROVE  /\ \A id : id \in DOMAIN new.first_by_id <=> \E i \in 1..n : id = arrivals[i].id
               /\ \A i \in 1..n : new.first_by_id[arrivals[i].id] = arrivals[Original(i)].id
    <3> HIDE DEF new
    <3>1. \A id : id \in DOMAIN new.first_by_id <=> id \in DOMAIN seen.first_by_id \/ id = e.id
      BY <2>5 DEF Remembered
    <3>2. \A id \in DOMAIN new.first_by_id :
            new.first_by_id[id] = IF id = e.id THEN x ELSE seen.first_by_id[id]
      BY <2>5 DEF Remembered
    <3>3. \A i \in 1..n : arrivals[i].id \in DOMAIN new.first_by_id
      BY <1>4, <3>1
    <3>4. \A i \in 1..n : new.first_by_id[arrivals[i].id] = arrivals[Original(i)].id
      BY <1>1, <1>2, <2>1, <2>5, <3>2, <3>3
    <3> QED
      BY <1>4, <3>1, <3>4
  <2>6. CASE Twins(seen, e) # {}
    <3> DEFINE m == CHOOSE k \in Twins(seen, e) : TRUE
               twin == seen.events[m].id
    <3>1. m \in Twins(seen, e)
      BY <2>6
    <3>2. new = [seen EXCEPT !.duplicates = Dropped(seen, e, twin, "content"),
                             !.first_by_id = Remembered(seen, e, twin)]
      BY <1>3, <1>6, <2>6 DEF See
    <3> HIDE DEF m
    <3>3. /\ new = [events |-> new.events, duplicates |-> new.duplicates, first_by_id |-> new.first_by_id]
          /\ new.events = seen.events /\ new.first_by_id = Remembered(seen, e, twin)
          /\ new.duplicates = Append(seen.duplicates,
               [original |-> twin, duplicate |-> e.id, reason |-> "content"])
      BY <1>2, <3>2 DEF Dropped
    <3>4. /\ m \in 1..Len(kept) /\ SameContent(kept[m], n)
          /\ kept[m] \in 1..(n - 1) /\ Kept(kept[m])
      BY <2>2, <2>3, <3>1
    <3>5. ~RepeatsId(kept[m])
      BY <3>4 DEF Kept
    <3>6. ~Kept(n)
      BY <3>4, <3>5 DEF Kept
    <3>7. kept[m] = Original(n)
      BY <1>1, <1>6, <3>4, <3>6, OriginalIs
    <3>8. twin = arrivals[Original(n)].id
      BY <1>2, <3>4, <3>7
    <3> HIDE DEF twin
    <3>9. new.duplicates = Append(seen.duplicates, EntryOf(n))
      BY <1>6, <3>3, <3>8 DEF EntryOf
    <3>10. /\ \A id : id \in DOMAIN new.first_by_id <=> \E i \in 1..n : id = arrivals[i].id
           /\ \A i \in 1..n : new.first_by_id[arrivals[i].id] = arrivals[Original(i)].id
      BY <2>5, <3>3, <3>8
    <3> HIDE DEF new
    <3>11. \E more : Told(n, new, kept, more)
      BY <3>3, <3>6, <3>9, <3>10, TellDropped
    <3> QED
      BY <3>11 DEF new
  <2>7. CASE Twins(seen, e) = {}
    <3>1. new = [seen EXCEPT !.events = Append(seen.events, e), !.first_by_id = Remembered(seen, e, e.id)]
      BY <1>3, <1>6, <2>7 DEF See
    <3>2. /\ new = [events |-> new.events, duplicates |-> new.duplicates, first_by_id |-> new.first_by_id]
          /\ new.events = Append(seen.events, e) /\ new.first_by_id = Remembered(seen, e, e.id)
          /\ new.duplicates = seen.duplicates
      BY <1>2, <3>1
    <3>3. Kept(n)
      <4> SUFFICES ASSUME ~Kept(n) PROVE FALSE
        OBVIOUS
      <4>1. PICK j \in 1..(n - 1) : Kept(j) /\ SameContent(j, n)
        BY <1>1, <1>6, TwinOf
      <4> QED
        BY <2>2, <2>4, <2>7, <4>1
    <3>4. e.id = arrivals[Original(n)].id
      BY <1>1, <3>3, OriginalIs
    <3>5. /\ \A id : id \in DOMAIN new.first_by_id <=> \E i \in 1..n : id = arrivals[i].id
          /\ \A i \in 1..n : new.first_by_id[arrivals[i].id] = arrivals[Original(i)].id
      BY <2>5, <3>2, <3>4
    <3> HIDE DEF new
    <3>6. \E more : Told(n, new, more, dropped)
      BY <3>2, <3>3, <3>5, TellKept
    <3> QED
      BY <3>6 DEF new
  <2> QED
    BY <2>6, <2>7
<1> QED
  BY <1>5, <1>6

LEMMA AllTold ==
  ASSUME arrivals \in Seq(Events)
  PROVE  \E kept, dropped : Told(Len(arrivals), Deduplicate(arrivals), kept, dropped)
<1>1. Len(arrivals) \in Nat
  OBVIOUS
<1>2. PICK seen : /\ seen[0] = NothingSeen
                  /\ \A n \in 1..Len(arrivals) : seen[n] = See(seen[n - 1], arrivals[n])
                  /\ Deduplicate(arrivals) = seen[Len(arrivals)]
  BY <1>1, DeduplicateRuns
<1> DEFINE Bad == {n \in 0..Len(arrivals) : ~\E kept, dropped : Told(n, seen[n], kept, dropped)}
<1> SUFFICES ASSUME Bad # {} PROVE FALSE
  BY <1>1, <1>2
<1>3. PICK n \in Bad : \A m \in Bad : n <= m
  <2>1. Bad \in SUBSET Nat
    BY <1>1
  <2> HIDE DEF Bad
  <2> QED
    BY <2>1, Least
<1>4. CASE n = 0
  <2>1. <<>> \in Seq(Nat) /\ <<>> \in Seq(Events) /\ <<>> \in Seq(Entries) /\ Len(<<>>) = 0 /\ 1..0 = {}
    OBVIOUS
  <2>2. Counts(<<>>, KeptTo(0)) /\ Counts(<<>>, DroppedTo(0))
    BY <2>1 DEF Counts, KeptTo, DroppedTo
  <2>3. Told(0, NothingSeen, <<>>, <<>>)
    BY <2>1, <2>2 DEF Told, NothingSeen
  <2> QED
    BY <1>2, <1>3, <1>4, <2>3
<1>5. CASE n # 0
  <2>1. n \in 1..Len(arrivals) /\ n - 1 \in 0..Len(arrivals) /\ n - 1 \notin Bad
    BY <1>1, <1>3, <1>5
  <2>2. PICK kept, dropped : Told(n - 1, seen[n - 1], kept, dropped)
    BY <2>1
  <2>3. seen[n] = See(seen[n - 1], arrivals[n])
    BY <1>2, <2>1
  <2>4. \E k, d : Told(n, seen[n], k, d)
    BY <2>1, <2>2, <2>3, RoundTells
  <2> QED
    BY <1>3, <2>4
<1> QED
  BY <1>4, <1>5

-----------------------------------------------------------------------------
(* The correlation engine *)

\* Events have a place in a group.
Placed(E) == \A e \in E : e.id \in Int /\ e.time \in Int

Members(events, rule, group) ==
  {k \in DOMAIN events : events[k].type = rule.type /\ events[k].group = group}

\* The stable sort: a group lists its members, and none before an earlier one.
LEMMA GroupedIs ==
  ASSUME NEW E, Placed(E), NEW events \in Seq(E), NEW rule, NEW group
  PROVE  LET M == Members(events, rule, group)
             n == Cardinality(M)
         IN \E o \in [1..n -> M] :
              /\ n \in Nat
              /\ \A i \in M : \E k \in 1..n : o[k] = i
              /\ \A k, l \in 1..n :
                   k < l => o[k] # o[l] /\ ~Earlier(events[o[l]], events[o[k]])
              /\ Grouped(events, rule, group) = [k \in 1..n |-> events[o[k]]]
<1> DEFINE M == Members(events, rule, group)
           n == Cardinality(M)
           Before(i, j) == Earlier(events[i], events[j]) \/ (~Earlier(events[j], events[i]) /\ i < j)
           R == {p \in M \X M : Before(p[1], p[2])}
           o == Listed(R, M)
<1>1. M \in SUBSET (1..Len(events)) /\ Len(events) \in Nat
  BY DEF Members
<1>2. IsFiniteSet(M)
  <2>1. IsFiniteSet(1..Len(events))
    BY <1>1, FS_Interval
  <2> QED
    BY <1>1, <2>1, FS_Subset
<1>3. \A i \in M : events[i].time \in Int /\ events[i].id \in Int /\ i \in Int
  BY <1>1 DEF Placed
<1>4. \A i, j \in M : <<i, j>> \in R <=> Before(i, j)
  OBVIOUS
<1>5. Orders(R, M)
  <2> HIDE DEF M
  <2>1. R \subseteq M \X M
    OBVIOUS
  <2>2. \A i \in M : ~Before(i, i)
    BY <1>3 DEF Earlier
  <2>3. \A i, j, k \in M : Before(i, j) /\ Before(j, k) => Before(i, k)
    BY <1>3 DEF Earlier
  <2>4. \A i, j \in M : i = j \/ Before(i, j) \/ Before(j, i)
    BY <1>3 DEF Earlier
  <2> HIDE DEF R, Before
  <2> QED
    BY <1>4, <2>1, <2>2, <2>3, <2>4 DEF Orders
<1>6. /\ n \in Nat /\ o \in [1..n -> M]
      /\ \A i \in M : \E k \in 1..n : o[k] = i
      /\ \A k, l \in 1..n : k < l => <<o[k], o[l]>> \in R
  <2> HIDE DEF M, R
  <2> QED
    BY <1>2, <1>5, ListedIs
<1>7. Ordered(M, Before) = o
  <2>1. \A i \in M : {j \in M : Before(j, i)} = Below(i, R, M)
    BY <1>4 DEF Below
  <2>3. Ordered(M, Before)
          = [k \in 1..n |-> CHOOSE i \in M : Cardinality({j \in M : Before(j, i)}) = k - 1]
    <3> HIDE DEF M, R
    <3> QED
      BY DEF Ordered
  <2> HIDE DEF M, R, Before
  <2>2. \A k : (CHOOSE i \in M : Cardinality({j \in M : Before(j, i)}) = k - 1)
             = CHOOSE i \in M : Cardinality(Below(i, R, M)) = k - 1
    BY <2>1
  <2> QED
    BY <2>2, <2>3 DEF Listed
<1>8. Grouped(events, rule, group) = [k \in 1..n |-> events[o[k]]]
  <2>1. Grouped(events, rule, group)
          = LET order == Ordered(M, Before) IN [k \in DOMAIN order |-> events[order[k]]]
    BY DEF Grouped, Members
  <2> HIDE DEF M, R, Before, o
  <2> QED
    BY <1>6, <1>7, <2>1
<1>9. \A k, l \in 1..n : k < l => o[k] # o[l] /\ ~Earlier(events[o[l]], events[o[k]])
  <2> SUFFICES ASSUME NEW k \in 1..n, NEW l \in 1..n, k < l
               PROVE  o[k] # o[l] /\ ~Earlier(events[o[l]], events[o[k]])
    OBVIOUS
  <2>1. o[k] \in M /\ o[l] \in M /\ <<o[k], o[l]>> \in R
    BY <1>6
  <2> HIDE DEF M, o
  <2>2. Before(o[k], o[l])
    BY <1>4, <2>1
  <2> HIDE DEF R
  <2> QED
    BY <1>3, <2>1, <2>2 DEF Earlier
<1> HIDE DEF M, o
<1> QED
  BY <1>6, <1>8, <1>9 DEF M

\* One round of the sliding window: where it begins, given where it began before.
FirstFitting(g, rule, from, right) ==
  CHOOSE l \in from..right :
    /\ g[right].time - g[l].time <= rule.window
    /\ \A m \in from..(l - 1) : g[right].time - g[m].time > rule.window

FromEdge(g, rule, right, left) ==
  IF right = 1 THEN 1
  ELSE IF g[right].time - g[right - 1].time > rule.inactivity THEN right ELSE left[right - 1]

EdgesTo(n, g, rule, left) ==
  left = [right \in 1..n |-> FirstFitting(g, rule, FromEdge(g, rule, right, left), right)]

LEMMA EdgesExist ==
  ASSUME NEW g, NEW rule, NEW N \in Nat
  PROVE  \E left : EdgesTo(N, g, rule, left)
<1> DEFINE Without == {n \in Nat : ~\E left : EdgesTo(n, g, rule, left)}
<1> SUFFICES ASSUME Without # {} PROVE FALSE
  OBVIOUS
<1>1. PICK n \in Without : \A m \in Without : n <= m
  BY Least
<1>2. CASE n = 0
  <2> DEFINE left == [right \in 1..0 |-> 0]
  <2>1. 1..0 = {}
    OBVIOUS
  <2>2. EdgesTo(0, g, rule, left)
    BY <2>1 DEF EdgesTo
  <2> QED
    BY <1>2, <2>2
<1>3. CASE n # 0
  <2>1. n - 1 \in Nat /\ n - 1 \notin Without
    BY <1>1, <1>3
  <2>2. PICK left : EdgesTo(n - 1, g, rule, left)
    BY <2>1
  <2> DEFINE more == [right \in 1..n |->
               IF right = n THEN FirstFitting(g, rule, FromEdge(g, rule, n, left), n) ELSE left[right]]
  <2>3. \A right \in 1..(n - 1) :
          left[right] = FirstFitting(g, rule, FromEdge(g, rule, right, left), right)
    BY <2>2 DEF EdgesTo
  <2>4. ASSUME NEW right \in 1..n
        PROVE  more[right] = FirstFitting(g, rule, FromEdge(g, rule, right, more), right)
    <3>1. right # 1 => right - 1 \in 1..n /\ right - 1 # n
      BY <1>1
    <3>2. right # 1 => more[right - 1] = left[right - 1]
      BY <3>1
    <3>3. FromEdge(g, rule, right, more) = FromEdge(g, rule, right, left)
      <4> HIDE DEF more
      <4> QED
        BY <3>2 DEF FromEdge
    <3>4. CASE right = n
      <4>1. more[right] = FirstFitting(g, rule, FromEdge(g, rule, n, left), n)
        BY <3>4
      <4> HIDE DEF more
      <4> QED
        BY <3>3, <3>4, <4>1
    <3>5. CASE right # n
      <4>1. right \in 1..(n - 1) /\ more[right] = left[right]
        BY <1>1, <3>5
      <4> HIDE DEF more
      <4> QED
        BY <2>3, <3>3, <4>1
    <3> QED
      BY <3>4, <3>5
  <2>5. more = [right \in 1..n |-> more[right]]
    OBVIOUS
  <2> HIDE DEF more
  <2>6. EdgesTo(n, g, rule, more)
    BY <2>4, <2>5 DEF EdgesTo
  <2> QED
    BY <2>6
<1> QED
  BY <1>2, <1>3

\* A group in order of time.
InTime(g, N) ==
  /\ DOMAIN g = 1..N
  /\ \A k \in 1..N : g[k].time \in Int
  /\ \A k, l \in 1..N : k <= l => g[k].time <= g[l].time

\* l is in the window that ends at r: near enough, and no gap between.
Reaches(g, rule, l, r) ==
  /\ g[r].time - g[l].time <= rule.window
  /\ \A m \in (l + 1)..r : g[m].time - g[m - 1].time <= rule.inactivity

LEMMA FirstFittingIs ==
  ASSUME NEW N \in Nat, NEW g, InTime(g, N), NEW rule, rule.window \in Nat,
         NEW r \in 1..N, NEW from \in 1..r
  PROVE  /\ FirstFitting(g, rule, from, r) \in from..r
         /\ \A l \in from..r :
              l >= FirstFitting(g, rule, from, r) <=> g[r].time - g[l].time <= rule.window
<1> DEFINE Fit == {l \in from..r : g[r].time - g[l].time <= rule.window}
           edge == FirstFitting(g, rule, from, r)
<1>1. r \in Fit /\ Fit \in SUBSET Nat
  BY DEF InTime
<1>2. PICK l \in Fit : \A m \in Fit : l <= m
  BY <1>1, Least
<1>3. \A m \in from..(l - 1) : g[r].time - g[m].time > rule.window
  <2> SUFFICES ASSUME NEW m \in from..(l - 1) PROVE g[r].time - g[m].time > rule.window
    OBVIOUS
  <2>1. m \in from..r /\ m < l /\ m \in 1..N
    BY <1>2
  <2>2. m \notin Fit
    BY <1>2, <2>1
  <2>3. ~(g[r].time - g[m].time <= rule.window)
    BY <2>1, <2>2
  <2> QED
    BY <2>1, <2>3 DEF InTime
<1>4. /\ edge \in from..r
      /\ g[r].time - g[edge].time <= rule.window
      /\ \A m \in from..(edge - 1) : g[r].time - g[m].time > rule.window
  <2>1. l \in from..r /\ g[r].time - g[l].time <= rule.window
    BY <1>2
  <2> QED
    BY <1>3, <2>1 DEF FirstFitting
<1>5. ASSUME NEW m \in from..r
      PROVE  m >= edge <=> g[r].time - g[m].time <= rule.window
  <2> HIDE DEF edge
  <2>1. m \in 1..N /\ edge \in 1..N /\ r \in 1..N
    BY <1>4
  <2>2. g[m].time \in Int /\ g[edge].time \in Int /\ g[r].time \in Int
    BY <2>1 DEF InTime
  <2>3. CASE m >= edge
    <3>1. g[edge].time <= g[m].time
      BY <2>1, <2>3 DEF InTime
    <3> QED
      BY <1>4, <2>2, <2>3, <3>1
  <2>4. CASE m < edge
    <3>1. g[r].time - g[m].time > rule.window
      BY <1>4, <2>4
    <3> QED
      BY <2>1, <2>2, <2>4, <3>1
  <2> QED
    BY <2>1, <2>3, <2>4
<1> QED
  BY <1>4, <1>5

\* The sliding window that ends at an event holds exactly what reaches it.
LEMMA LeftEdgesAre ==
  ASSUME NEW N \in Nat, NEW g, InTime(g, N), NEW rule, rule.window \in Nat, rule.inactivity \in Int
  PROVE  \A r \in 1..N :
           /\ LeftEdges(g, rule)[r] \in 1..r
           /\ \A l \in 1..r : l >= LeftEdges(g, rule)[r] <=> Reaches(g, rule, l, r)
<1> DEFINE left == LeftEdges(g, rule)
<1>1. \A r \in 1..N : left[r] = FirstFitting(g, rule, FromEdge(g, rule, r, left), r)
  <2> DEFINE Step(f) == [right \in 1..N |-> FirstFitting(g, rule, FromEdge(g, rule, right, f), right)]
  <2>1. DOMAIN g = 1..N
    BY DEF InTime
  <2>2. left = CHOOSE f : f = Step(f)
    BY <2>1 DEF LeftEdges, FirstFitting, FromEdge
  <2>3. \E f : f = Step(f)
    <3>1. PICK f : EdgesTo(N, g, rule, f)
      BY EdgesExist
    <3>2. f = Step(f)
      BY <3>1 DEF EdgesTo
    <3> HIDE DEF Step
    <3> QED
      BY <3>2
  <2>4. left = Step(left)
    <3> HIDE DEF left, Step
    <3> QED
      BY <2>2, <2>3
  <2> HIDE DEF left
  <2> QED
    BY <2>4
<1> HIDE DEF left
<1> DEFINE Right(r) == /\ left[r] \in 1..r
                       /\ \A l \in 1..r : l >= left[r] <=> Reaches(g, rule, l, r)
           Bad == {r \in 1..N : ~Right(r)}
<1> SUFFICES ASSUME Bad # {} PROVE FALSE
  BY DEF left
<1>2. PICK r \in Bad : \A m \in Bad : r <= m
  <2>1. Bad \in SUBSET Nat
    OBVIOUS
  <2> HIDE DEF Bad
  <2> QED
    BY <2>1, Least
<1> DEFINE from == FromEdge(g, rule, r, left)
<1>3. r \in 1..N /\ left[r] = FirstFitting(g, rule, from, r)
  BY <1>1
<1>4. CASE r = 1
  <2>1. from = 1
    BY <1>4 DEF FromEdge
  <2>2. left[r] \in 1..1 /\ \A l \in 1..1 : l >= left[r] <=> g[r].time - g[l].time <= rule.window
    BY <1>3, <1>4, <2>1, FirstFittingIs
  <2>3. \A l \in 1..1 : (l + 1)..r = {}
    BY <1>4
  <2> QED
    BY <1>2, <1>4, <2>2, <2>3 DEF Reaches
<1>5. CASE r # 1 /\ g[r].time - g[r - 1].time > rule.inactivity
  <2>1. from = r /\ from \in 1..r
    BY <1>3, <1>5 DEF FromEdge
  <2> HIDE DEF from
  <2>2. left[r] \in r..r /\ \A l \in r..r : l >= left[r] <=> g[r].time - g[l].time <= rule.window
    BY <1>3, <2>1, FirstFittingIs
  <2>3. left[r] = r /\ g[r].time - g[r].time <= rule.window
    BY <1>3, <2>2
  <2>4. Reaches(g, rule, r, r)
    <3>1. (r + 1)..r = {}
      BY <1>3
    <3> QED
      BY <2>3, <3>1 DEF Reaches
  <2>5. \A l \in 1..(r - 1) : ~Reaches(g, rule, l, r)
    <3> SUFFICES ASSUME NEW l \in 1..(r - 1), Reaches(g, rule, l, r) PROVE FALSE
      OBVIOUS
    <3>1. r \in (l + 1)..r
      BY <1>3
    <3>2. g[r].time - g[r - 1].time <= rule.inactivity
      BY <3>1 DEF Reaches
    <3>3. g[r].time \in Int /\ g[r - 1].time \in Int
      BY <1>3, <1>5 DEF InTime
    <3> QED
      BY <1>5, <3>2, <3>3
  <2>6. \A l \in 1..r : l = r \/ l \in 1..(r - 1)
    BY <1>3
  <2>7. Right(r)
    BY <1>3, <2>3, <2>4, <2>5, <2>6
  <2> QED
    BY <1>2, <2>7
<1>6. CASE r # 1 /\ ~(g[r].time - g[r - 1].time > rule.inactivity)
  <2>1. from = left[r - 1]
    BY <1>6 DEF FromEdge
  <2>2. r - 1 \in 1..N /\ Right(r - 1)
    BY <1>2, <1>6
  <2>3. from \in 1..r
    BY <1>3, <2>1, <2>2
  <2> HIDE DEF from
  <2>4. left[r] \in from..r /\ \A l \in from..r : l >= left[r] <=> g[r].time - g[l].time <= rule.window
    BY <1>3, <2>3, FirstFittingIs
  <2>5. /\ \A k \in 1..N : g[k].time \in Int
        /\ g[r - 1].time <= g[r].time /\ g[r].time - g[r - 1].time <= rule.inactivity
    <3>1. g[r - 1].time \in Int /\ g[r].time \in Int
      BY <1>3, <2>2 DEF InTime
    <3> QED
      BY <1>3, <1>6, <2>2, <3>1 DEF InTime
  <2>6. ASSUME NEW l \in 1..(r - 1)
        PROVE  Reaches(g, rule, l, r) <=>
                 Reaches(g, rule, l, r - 1) /\ g[r].time - g[l].time <= rule.window
    <3>1. (l + 1)..r = ((l + 1)..(r - 1)) \cup {r}
      BY <1>3
    <3>2. g[r].time - g[l].time <= rule.window => g[r - 1].time - g[l].time <= rule.window
      <4>1. l \in 1..N
        BY <1>3
      <4>2. g[l].time \in Int /\ g[r].time \in Int /\ g[r - 1].time \in Int
        BY <1>3, <2>2, <2>5, <4>1
      <4> QED
        BY <2>5, <4>2
    <3> QED
      BY <2>5, <3>1, <3>2 DEF Reaches
  <2>7. ASSUME NEW l \in 1..r
        PROVE  l >= left[r] <=> Reaches(g, rule, l, r)
    <3>1. CASE l = r
      <4>1. (l + 1)..r = {}
        BY <3>1
      <4>2. g[r].time - g[r].time <= rule.window
        BY <1>3, <2>5
      <4> QED
        BY <2>4, <3>1, <4>1, <4>2 DEF Reaches
    <3>2. CASE l # r /\ l >= from
      <4>1. l \in 1..(r - 1) /\ l \in from..r
        BY <2>3, <3>2
      <4>2. Reaches(g, rule, l, r - 1)
        BY <2>1, <2>2, <3>2, <4>1
      <4> QED
        BY <2>4, <2>6, <4>1, <4>2
    <3>3. CASE l # r /\ ~(l >= from)
      <4>1. l \in 1..(r - 1)
        BY <3>3
      <4>2. ~Reaches(g, rule, l, r - 1)
        BY <2>1, <2>2, <3>3, <4>1
      <4>3. ~(l >= left[r])
        BY <2>3, <2>4, <3>3
      <4> QED
        BY <2>6, <4>1, <4>2, <4>3
    <3> QED
      BY <3>1, <3>2, <3>3
  <2>8. Right(r)
    BY <2>3, <2>4, <2>7
  <2> QED
    BY <1>2, <2>8
<1> QED
  BY <1>4, <1>5, <1>6

\* A group is a sequence of events of the batch, in order of time.
LEMMA GroupIs ==
  ASSUME NEW E, Placed(E), NEW events \in Seq(E), NEW rule, NEW group
  PROVE  LET G == Grouped(events, rule, group)
         IN /\ G \in Seq(E) /\ Len(G) \in Nat /\ DOMAIN G = 1..Len(G)
            /\ InTime(G, Len(G))
            /\ \A k \in 1..Len(G) : \E i \in DOMAIN events : G[k] = events[i]
<1> DEFINE M == Members(events, rule, group)
           n == Cardinality(M)
           G == Grouped(events, rule, group)
<1>1. PICK o \in [1..n -> M] :
        /\ n \in Nat
        /\ \A k, l \in 1..n : k < l => o[k] # o[l] /\ ~Earlier(events[o[l]], events[o[k]])
        /\ G = [k \in 1..n |-> events[o[k]]]
  BY GroupedIs
<1>2. \A i \in M : i \in DOMAIN events /\ events[i] \in E
  BY DEF Members
<1> HIDE DEF M, G
<1>3. \A k \in 1..n : o[k] \in M /\ G[k] = events[o[k]] /\ G[k] \in E
  BY <1>1, <1>2
<1>4. G \in [1..n -> E] /\ n \in Nat
  BY <1>1, <1>3
<1>5. G \in Seq(E) /\ Len(G) = n
  <2> HIDE DEF n
  <2> QED
    BY <1>4
<1>6. InTime(G, n)
  <2>1. \A k \in 1..n : G[k].time \in Int
    BY <1>3 DEF Placed
  <2>2. ASSUME NEW k \in 1..n, NEW l \in 1..n, k <= l
        PROVE  G[k].time <= G[l].time
    <3>1. CASE k = l
      BY <2>1, <3>1
    <3>2. CASE k # l
      <4>1. k < l
        BY <1>4, <2>2, <3>2
      <4>2. ~Earlier(G[l], G[k])
        BY <1>1, <1>3, <4>1
      <4> QED
        BY <2>1, <4>2 DEF Earlier
    <3> QED
      BY <3>1, <3>2
  <2> QED
    BY <1>4, <2>1, <2>2 DEF InTime
<1>7. \A k \in 1..n : \E i \in DOMAIN events : G[k] = events[i]
  BY <1>2, <1>3
<1> QED
  BY <1>4, <1>5, <1>6, <1>7 DEF G

\* What the windows of a group hold is of the group.
LEMMA WindowsHold ==
  ASSUME NEW E, NEW G \in Seq(E), InTime(G, Len(G)), NEW rule,
         rule.window \in Nat, rule.inactivity \in Int,
         NEW w \in Windows(G, rule)
  PROVE  \A k \in DOMAIN w : \E j \in 1..Len(G) : w[k] = G[j]
<1>1. Len(G) \in Nat /\ DOMAIN G = 1..Len(G)
  OBVIOUS
<1>2. PICK r \in 1..Len(G) : w = SubSeq(G, LeftEdges(G, rule)[r], r)
  BY <1>1 DEF Windows
<1>3. LeftEdges(G, rule)[r] \in 1..r
  BY <1>1, LeftEdgesAre
<1> DEFINE l == LeftEdges(G, rule)[r]
<1> HIDE DEF l
<1>4. l \in 1..r /\ w = SubSeq(G, l, r)
  BY <1>2, <1>3 DEF l
<1>5. /\ l \in Nat /\ r \in Nat /\ l <= r /\ r <= Len(G) /\ 1 <= l
  BY <1>1, <1>4
<1>6. DOMAIN w = 1..(r - l + 1) /\ \A k \in 1..(r - l + 1) : w[k] = G[l + k - 1]
  BY <1>4, <1>5
<1> QED
  BY <1>1, <1>5, <1>6

RulesFit(rules) == \A rule \in rules : rule.window \in Nat /\ rule.inactivity \in Int

\* An incident rests on events of the batch.
LEMMA IncidentsRest ==
  ASSUME NEW E, Placed(E), NEW batch \in Seq(E), NEW cat, RulesFit(cat.correlation),
         NEW incident \in Incidents(batch, cat)
  PROVE  incident.id.events \subseteq {batch[k].id : k \in 1..Len(batch)}
<1> DEFINE events == Deduplicate(batch).events
           In(e) == \E k \in 1..Len(batch) : e = batch[k].id
<1>1. /\ events \in Seq(E) /\ Len(batch) \in Nat /\ DOMAIN events = 1..Len(events)
      /\ \A k \in DOMAIN events : \E j \in 1..Len(batch) : events[k] = batch[j]
  BY DeduplicateIs DEF SeenIs
<1>2. CASE \E m \in Detections(events, cat.detection) : incident = DetectionIncident(m)
  <2>1. PICK m \in Detections(events, cat.detection) : incident = DetectionIncident(m)
    BY <1>2
  <2>2. PICK k \in DOMAIN events : m.event = events[k].id
    <3> HIDE DEF events
    <3> QED
      BY <2>1 DEF Detections
  <2>3. incident.id.events = {m.event}
    BY <2>1 DEF DetectionIncident
  <2> HIDE DEF events
  <2> QED
    BY <1>1, <2>2, <2>3
<1>3. CASE \E m \in Correlations(events, cat.correlation) : incident = CorrelationIncident(m)
  <2>1. PICK m \in Correlations(events, cat.correlation) : incident = CorrelationIncident(m)
    BY <1>3
  <2> HIDE DEF events
  <2>2. PICK rule \in cat.correlation, g \in Groups(events) :
          m.window \in Windows(Grouped(events, rule, g), rule)
    <3>1. PICK rule \in cat.correlation :
            m \in {[rule |-> rule.id, wording |-> rule.wording, window |-> w] :
                     w \in UNION {Windows(Grouped(events, rule, g), rule) : g \in Groups(events)}}
      BY <2>1 DEF Correlations
    <3>2. PICK w \in UNION {Windows(Grouped(events, rule, g), rule) : g \in Groups(events)} :
            m = [rule |-> rule.id, wording |-> rule.wording, window |-> w]
      BY <3>1
    <3>3. m.window = w
      BY <3>2
    <3> QED
      BY <3>2, <3>3
  <2>3. incident.id.events = {m.window[k].id : k \in DOMAIN m.window}
    BY <2>1 DEF CorrelationIncident
  <2> DEFINE G == Grouped(events, rule, g)
  <2>4. /\ G \in Seq(E) /\ InTime(G, Len(G))
        /\ \A k \in 1..Len(G) : \E i \in DOMAIN events : G[k] = events[i]
    BY <1>1, GroupIs
  <2>5. m.window \in Windows(G, rule) /\ rule.window \in Nat /\ rule.inactivity \in Int
    BY <2>2 DEF RulesFit
  <2> HIDE DEF G
  <2>6. \A k \in DOMAIN m.window : \E j \in 1..Len(G) : m.window[k] = G[j]
    BY <2>4, <2>5, WindowsHold
  <2> QED
    BY <1>1, <2>3, <2>4, <2>6
<1> QED
  BY <1>2, <1>3 DEF Incidents

\* A match of an event that is kept is an incident of its own.
LEMMA KeptIsReported ==
  ASSUME NEW batch, NEW cat, NEW k \in DOMAIN Deduplicate(batch).events, NEW rule \in cat.detection,
         Applies(rule, Deduplicate(batch).events[k]),
         rule.verdict[Deduplicate(batch).events[k].body] = "match"
  PROVE  \E incident \in Incidents(batch, cat) :
           incident.id = [kind   |-> "detection", rule |-> rule.id,
                          events |-> {Deduplicate(batch).events[k].id}]
<1> DEFINE events == Deduplicate(batch).events
           m == [rule |-> rule.id, wording |-> rule.wording, event |-> events[k].id,
                 time |-> events[k].time]
<1>1. m \in Detections(events, cat.detection)
  <2> HIDE DEF events
  <2>1. k \in {i \in DOMAIN events : Applies(rule, events[i]) /\ rule.verdict[events[i].body] = "match"}
    BY DEF events
  <2> QED
    BY <2>1 DEF Detections
<1>2. DetectionIncident(m) \in Incidents(batch, cat)
  BY <1>1 DEF Incidents
<1>3. DetectionIncident(m).id = [kind |-> "detection", rule |-> rule.id, events |-> {events[k].id}]
  BY DEF DetectionIncident
<1> QED
  BY <1>2, <1>3

-----------------------------------------------------------------------------
(* The windows of a group *)

AnalysisInv == arrivals \in Seq(Events)

LEMMA EventsPlaced == Placed(Events)
  BY PlacesAssumption DEF Placed, Events

\* The entries of a sequence from a to b.
Between(G, a, b) == {G[k] : k \in a..b}

\* A group without an id twice is in strict order, and holds the events of the group.
LEMMA GroupInOrder ==
  ASSUME NEW events \in Seq(Events), NEW group,
         \A k, l \in 1..Len(events) : events[k].id = events[l].id => k = l
  PROVE  LET G == Grouped(events, Rule, group)
         IN /\ G \in Seq(Events) /\ Len(G) \in Nat /\ DOMAIN G = 1..Len(G) /\ InTime(G, Len(G))
            /\ \A k \in 1..Len(G) : G[k].id \in Int /\ G[k].time \in Int
            /\ \A k, l \in 1..Len(G) : k < l => Earlier(G[k], G[l])
            /\ {e \in ToSet(events) : e.group = group} = Between(G, 1, Len(G))
<1> DEFINE M == Members(events, Rule, group)
           n == Cardinality(M)
           G == Grouped(events, Rule, group)
<1>1. /\ Len(events) \in Nat /\ DOMAIN events = 1..Len(events)
      /\ \A k \in 1..Len(events) : events[k] \in Events
  OBVIOUS
<1>2. /\ G \in Seq(Events) /\ Len(G) \in Nat /\ DOMAIN G = 1..Len(G) /\ InTime(G, Len(G))
  BY EventsPlaced, GroupIs
<1>3. PICK o \in [1..n -> M] :
        /\ n \in Nat
        /\ \A i \in M : \E k \in 1..n : o[k] = i
        /\ \A k, l \in 1..n : k < l => o[k] # o[l] /\ ~Earlier(events[o[l]], events[o[k]])
        /\ G = [k \in 1..n |-> events[o[k]]]
  BY EventsPlaced, GroupedIs
<1>4. \A i \in M : i \in 1..Len(events) /\ events[i].group = group
  BY <1>1 DEF Members
<1>5. \A i \in 1..Len(events) : events[i].group = group => i \in M
  BY <1>1 DEF Members, Events
<1> HIDE DEF M, G
<1>6. DOMAIN G = 1..n /\ \A k \in 1..n : o[k] \in M /\ G[k] = events[o[k]]
  BY <1>3
<1> HIDE DEF n
<1>7. Len(G) = n
  BY <1>2, <1>3, <1>6
<1>8. \A k \in 1..n : G[k].id \in Int /\ G[k].time \in Int
  <2>1. \A k \in 1..n : G[k] \in Events
    BY <1>1, <1>4, <1>6
  <2> QED
    BY <2>1, PlacesAssumption DEF Events
<1>9. ASSUME NEW k \in 1..n, NEW l \in 1..n, k < l
      PROVE  Earlier(G[k], G[l])
  <2>1. o[k] # o[l] /\ ~Earlier(G[l], G[k])
    BY <1>3, <1>6, <1>9
  <2>2. o[k] \in 1..Len(events) /\ o[l] \in 1..Len(events)
    BY <1>4, <1>6
  <2>3. G[k].id # G[l].id
    BY <1>6, <2>1, <2>2
  <2> QED
    BY <1>8, <2>1, <2>3 DEF Earlier
<1>10. {e \in ToSet(events) : e.group = group} = Between(G, 1, n)
  <2>1. \A e : e \in ToSet(events) <=> \E i \in 1..Len(events) : e = events[i]
    BY <1>1 DEF ToSet
  <2>2. ASSUME NEW e \in ToSet(events), e.group = group
        PROVE  \E k \in 1..n : e = G[k]
    <3>1. PICK i \in 1..Len(events) : e = events[i]
      BY <2>1
    <3>2. PICK k \in 1..n : o[k] = i
      BY <1>3, <1>5, <2>2, <3>1
    <3> QED
      BY <1>6, <3>1, <3>2
  <2>3. ASSUME NEW k \in 1..n
        PROVE  G[k] \in ToSet(events) /\ G[k].group = group
    BY <1>4, <1>6, <2>1
  <2> QED
    BY <2>2, <2>3 DEF Between
<1> QED
  BY <1>2, <1>7, <1>8, <1>9, <1>10 DEF G

\* In a group in strict order, what WindowOf says is what the loop finds.
LEMMA WindowReaches ==
  ASSUME NEW N \in Nat, NEW G, InTime(G, N),
         \A k \in 1..N : G[k].id \in Int /\ G[k].time \in Int,
         \A k, l \in 1..N : k < l => Earlier(G[k], G[l]),
         NEW r \in 1..N
  PROVE  \A e : e \in WindowOf(Between(G, 1, N), G[r])
                 <=> \E l \in 1..r : e = G[l] /\ Reaches(G, Rule, l, r)
<1> DEFINE Group == {G[k] : k \in 1..N}
<1>1. \A k, l \in 1..N : NotAfter(G[k], G[l]) <=> k <= l
  BY DEF NotAfter, Earlier
<1>2. \A k, l \in 1..N : G[k] = G[l] => k = l
  BY DEF Earlier
<1>3. \A k, l \in 1..N : k <= l => G[k].time <= G[l].time
  BY DEF InTime
<1>4. Rule.window \in Nat /\ Rule.inactivity \in Nat
  BY RuleAssumption
<1> DEFINE Linked(f) == \E g \in Group : /\ g # f /\ NotAfter(f, g) /\ NotAfter(g, G[r])
                                          /\ g.time - f.time <= Rule.inactivity
           Close(m) == G[m + 1].time - G[m].time <= Rule.inactivity
<1>5. ASSUME NEW m \in 1..N, m < r
      PROVE  Linked(G[m]) <=> Close(m)
  <2>1. m + 1 \in 1..N /\ m + 1 <= r
    BY <1>5
  <2>2. ASSUME Close(m) PROVE Linked(G[m])
    <3>1. G[m + 1] \in Group /\ G[m + 1] # G[m] /\ NotAfter(G[m], G[m + 1]) /\ NotAfter(G[m + 1], G[r])
      BY <1>1, <1>2, <2>1
    <3> QED
      BY <2>2, <3>1
  <2>3. ASSUME NEW p \in 1..N, G[p] # G[m], NotAfter(G[m], G[p]), G[p].time - G[m].time <= Rule.inactivity
        PROVE  Close(m)
    <3>1. p # m /\ m <= p
      BY <1>1, <2>3
    <3>2. G[m + 1].time <= G[p].time
      BY <1>3, <2>1, <3>1
    <3> QED
      BY <1>4, <2>1, <2>3, <3>2
  <2> QED
    BY <2>2, <2>3
<1>6. ASSUME NEW l \in 1..r
      PROVE  /\ l \in 1..N
             /\ Reaches(G, Rule, l, r) <=>
                  /\ G[r].time - G[l].time <= Rule.window
                  /\ \A m \in 1..N : l <= m /\ m < r => Close(m)
  <2>1. \A m \in 1..N : l <= m /\ m < r => m + 1 \in (l + 1)..r /\ (m + 1) - 1 = m
    OBVIOUS
  <2>2. \A m \in (l + 1)..r : m - 1 \in 1..N /\ l <= m - 1 /\ m - 1 < r /\ (m - 1) + 1 = m
    OBVIOUS
  <2> QED
    BY <2>1, <2>2 DEF Reaches
<1>7. ASSUME NEW l \in 1..N
      PROVE  G[l] \in WindowOf(Group, G[r]) <=> l \in 1..r /\ Reaches(G, Rule, l, r)
  <2>1. G[l] \in WindowOf(Group, G[r]) <=>
          /\ NotAfter(G[l], G[r]) /\ G[r].time - G[l].time <= Rule.window
          /\ \A f \in Group : NotAfter(G[l], f) /\ NotAfter(f, G[r]) /\ f # G[r] => Linked(f)
    BY DEF WindowOf
  <2>2. (\A f \in Group : NotAfter(G[l], f) /\ NotAfter(f, G[r]) /\ f # G[r] => Linked(f))
          <=> \A m \in 1..N : l <= m /\ m < r => Close(m)
    <3>1. (\A f \in Group : NotAfter(G[l], f) /\ NotAfter(f, G[r]) /\ f # G[r] => Linked(f))
            <=> \A m \in 1..N : NotAfter(G[l], G[m]) /\ NotAfter(G[m], G[r]) /\ G[m] # G[r] => Linked(G[m])
      <4> HIDE DEF Linked
      <4> QED
        OBVIOUS
    <3>2. \A m \in 1..N : NotAfter(G[l], G[m]) /\ NotAfter(G[m], G[r]) /\ G[m] # G[r] <=> l <= m /\ m < r
      BY <1>1, <1>2
    <3> HIDE DEF Linked, Close, Group
    <3> QED
      BY <1>5, <3>1, <3>2
  <2>3. NotAfter(G[l], G[r]) <=> l \in 1..r
    BY <1>1
  <2> HIDE DEF Close, Linked, Group
  <2> QED
    BY <1>6, <2>1, <2>2, <2>3
<1>8. \A e \in WindowOf(Group, G[r]) : \E l \in 1..N : e = G[l]
  BY DEF WindowOf
<1>9. \A l \in 1..r : l \in 1..N
  OBVIOUS
<1> HIDE DEF Group
<1>10. \A e : e \in WindowOf(Group, G[r]) <=> \E l \in 1..r : e = G[l] /\ Reaches(G, Rule, l, r)
  BY <1>7, <1>8, <1>9
<1>11. Group = Between(G, 1, N)
  BY DEF Group, Between
<1> QED
  BY <1>10, <1>11

\* The window that ends at the r-th event, as a set, and how many events it has.
LEMMA WindowIs ==
  ASSUME NEW G \in Seq(Events), InTime(G, Len(G)),
         \A k \in 1..Len(G) : G[k].id \in Int /\ G[k].time \in Int,
         \A k, l \in 1..Len(G) : k < l => Earlier(G[k], G[l]),
         NEW r \in 1..Len(G)
  PROVE  LET left == LeftEdges(G, Rule)[r]
             W    == WindowOf(Between(G, 1, Len(G)), G[r])
         IN left \in 1..r /\ ToSet(SubSeq(G, left, r)) = W /\ Cardinality(W) = r - left + 1
<1> DEFINE left == LeftEdges(G, Rule)[r]
           W == WindowOf(Between(G, 1, Len(G)), G[r])
<1>1. Len(G) \in Nat /\ DOMAIN G = 1..Len(G)
  OBVIOUS
<1>2. left \in 1..r /\ \A l \in 1..r : l >= left <=> Reaches(G, Rule, l, r)
  BY <1>1, RuleAssumption, LeftEdgesAre
<1>3. \A e : e \in W <=> \E l \in 1..r : e = G[l] /\ Reaches(G, Rule, l, r)
  BY <1>1, WindowReaches
<1> HIDE DEF left, W
<1>4. /\ left \in Int /\ r \in Int /\ 1 <= left /\ left <= r
      /\ \A l \in left..r : l \in 1..Len(G) /\ l \in 1..r /\ G[l] \in Events
  BY <1>1, <1>2
<1>5. \A e : e \in W <=> \E l \in left..r : e = G[l]
  BY <1>2, <1>3, <1>4
<1>6. ToSet(SubSeq(G, left, r)) = W
  <2> DEFINE w == SubSeq(G, left, r)
  <2>1. /\ w \in Seq(Events) /\ Len(w) = r - left + 1
        /\ \A i \in 1..(r - left + 1) : w[i] = G[left + i - 1]
    BY <1>4, SubSeqProperties
  <2> HIDE DEF w
  <2>2. DOMAIN w = 1..(r - left + 1)
    BY <2>1
  <2>3. \A l \in left..r : (l - left + 1) \in 1..(r - left + 1) /\ left + (l - left + 1) - 1 = l
    BY <1>4
  <2>4. \A i \in 1..(r - left + 1) : left + i - 1 \in left..r
    BY <1>4
  <2>5. \A e : e \in ToSet(w) <=> \E i \in 1..(r - left + 1) : e = w[i]
    BY <2>2 DEF ToSet
  <2>6. ASSUME NEW l \in left..r
        PROVE  \E i \in 1..(r - left + 1) : w[i] = G[l]
    BY <2>1, <2>3
  <2>7. ASSUME NEW i \in 1..(r - left + 1)
        PROVE  \E l \in left..r : w[i] = G[l]
    BY <2>1, <2>4
  <2>8. \A e : e \in ToSet(w) <=> e \in W
    BY <1>5, <2>5, <2>6, <2>7
  <2>9. ToSet(w) = W
    BY <2>8
  <2> QED
    BY <2>9 DEF w
<1>7. Cardinality(W) = r - left + 1
  <2> DEFINE f == [l \in left..r |-> G[l]]
  <2>1. IsFiniteSet(left..r) /\ Cardinality(left..r) = r - left + 1
    BY <1>4, FS_Interval
  <2>2. \A k, l \in left..r : G[k] = G[l] => k = l
    BY <1>4 DEF Earlier
  <2>3. f \in Bijection(left..r, W)
    <3>1. f \in [left..r -> W]
      BY <1>5
    <3>2. \A k, l \in left..r : f[k] = f[l] => k = l
      BY <2>2
    <3>3. \A e \in W : \E l \in left..r : f[l] = e
      BY <1>5
    <3> HIDE DEF f
    <3> QED
      BY <3>1, <3>2, <3>3 DEF Bijection, Injection, IsInjective, Surjection
  <2> HIDE DEF f
  <2> QED
    BY <2>1, <2>3, FS_Bijection DEF ExistsBijection
<1> QED
  BY <1>2, <1>6, <1>7 DEF left, W

\* The engine reports the windows of one group that are large enough.
LEMMA GroupReports ==
  ASSUME NEW G \in Seq(Events), InTime(G, Len(G)),
         \A k \in 1..Len(G) : G[k].id \in Int /\ G[k].time \in Int,
         \A k, l \in 1..Len(G) : k < l => Earlier(G[k], G[l]),
         NEW W
  PROVE  (\E w \in Windows(G, Rule) : W = ToSet(w))
           <=> /\ \E last \in Between(G, 1, Len(G)) : W = WindowOf(Between(G, 1, Len(G)), last)
               /\ Cardinality(W) >= Rule.minimum_count
<1> DEFINE Group == Between(G, 1, Len(G))
           left == LeftEdges(G, Rule)
<1>1. Len(G) \in Nat /\ DOMAIN G = 1..Len(G)
  OBVIOUS
<1>2. \A r \in 1..Len(G) :
        /\ left[r] \in 1..r
        /\ ToSet(SubSeq(G, left[r], r)) = WindowOf(Group, G[r])
        /\ Cardinality(WindowOf(Group, G[r])) = r - left[r] + 1
  BY WindowIs
<1>3. Windows(G, Rule) = {SubSeq(G, left[r], r) :
                            r \in {q \in 1..Len(G) : q - left[q] + 1 >= Rule.minimum_count}}
  BY <1>1 DEF Windows
<1>4. \A last : last \in Group <=> \E r \in 1..Len(G) : last = G[r]
  BY DEF Between
<1> HIDE DEF Group, left
<1>5. ASSUME NEW w \in Windows(G, Rule), W = ToSet(w)
      PROVE  (\E last \in Group : W = WindowOf(Group, last)) /\ Cardinality(W) >= Rule.minimum_count
  <2>1. PICK r \in 1..Len(G) : w = SubSeq(G, left[r], r) /\ r - left[r] + 1 >= Rule.minimum_count
    BY <1>3
  <2>2. W = WindowOf(Group, G[r])
    BY <1>2, <1>5, <2>1
  <2>3. Cardinality(W) = r - left[r] + 1
    BY <1>2, <2>2
  <2> QED
    BY <1>4, <2>1, <2>2, <2>3
<1>6. ASSUME NEW last \in Group, W = WindowOf(Group, last), Cardinality(W) >= Rule.minimum_count
      PROVE  \E w \in Windows(G, Rule) : W = ToSet(w)
  <2>1. PICK r \in 1..Len(G) : last = G[r]
    BY <1>4
  <2>2. r - left[r] + 1 >= Rule.minimum_count
    BY <1>2, <1>6, <2>1
  <2>3. SubSeq(G, left[r], r) \in Windows(G, Rule)
    BY <1>3, <2>2
  <2>4. W = ToSet(SubSeq(G, left[r], r))
    BY <1>2, <1>6, <2>1
  <2> QED
    BY <2>3, <2>4
<1> HIDE DEF Group
<1>7. (\E w \in Windows(G, Rule) : W = ToSet(w))
        <=> /\ \E last \in Group : W = WindowOf(Group, last)
            /\ Cardinality(W) >= Rule.minimum_count
  BY <1>5, <1>6
<1> QED
  BY <1>7 DEF Group

-----------------------------------------------------------------------------
(* The order of a batch *)

LEMMA SameGroup ==
  ASSUME NEW events \in Seq(Events), NEW other \in Seq(Events), NEW group,
         \A k, l \in 1..Len(events) : events[k].id = events[l].id => k = l,
         \A k, l \in 1..Len(other) : other[k].id = other[l].id => k = l,
         ToSet(events) = ToSet(other)
  PROVE  Grouped(events, Rule, group) = Grouped(other, Rule, group)
<1> DEFINE G == Grouped(events, Rule, group)
           H == Grouped(other, Rule, group)
           S == {e \in ToSet(events) : e.group = group}
           R == {p \in Events \X Events : Earlier(p[1], p[2])}
<1>1. /\ G \in Seq(Events) /\ Len(G) \in Nat
      /\ \A k \in 1..Len(G) : G[k].id \in Int /\ G[k].time \in Int
      /\ \A k, l \in 1..Len(G) : k < l => Earlier(G[k], G[l])
      /\ S = Between(G, 1, Len(G))
  BY GroupInOrder
<1>2. /\ H \in Seq(Events) /\ Len(H) \in Nat
      /\ \A k \in 1..Len(H) : H[k].id \in Int /\ H[k].time \in Int
      /\ \A k, l \in 1..Len(H) : k < l => Earlier(H[k], H[l])
      /\ {e \in ToSet(other) : e.group = group} = Between(H, 1, Len(H))
  BY GroupInOrder
<1>3. S = Between(H, 1, Len(H))
  BY <1>2
<1> HIDE DEF G, H, S
<1>4. \A d, e \in Events : <<d, e>> \in R <=> Earlier(d, e)
  OBVIOUS
<1>5. OneWay(R, S)
  <2>1. \A e \in S : e \in Events /\ e.id \in Int /\ e.time \in Int
    <3>1. \A k \in 1..Len(G) : G[k] \in Events /\ G[k].id \in Int /\ G[k].time \in Int
      BY <1>1
    <3> QED
      BY <1>1, <3>1 DEF Between
  <2>2. \A d, e \in S : ~(Earlier(d, e) /\ Earlier(e, d))
    BY <2>1 DEF Earlier
  <2> HIDE DEF R
  <2> QED
    BY <1>4, <2>1, <2>2 DEF OneWay
<1> HIDE DEF R
<1>6. Lists(R, S, Len(G), G)
  <2>1. \A k \in 1..Len(G) : G[k] \in Events
    BY <1>1
  <2> QED
    BY <1>1, <1>4, <2>1 DEF Lists, Between
<1>7. Lists(R, S, Len(H), H)
  <2>1. \A k \in 1..Len(H) : H[k] \in Events
    BY <1>2
  <2> QED
    BY <1>2, <1>3, <1>4, <2>1 DEF Lists, Between
<1>8. Len(G) = Len(H) /\ \A k \in 1..Len(G) : G[k] = H[k]
  BY <1>1, <1>2, <1>5, <1>6, <1>7, OneListing
<1>9. G = H
  BY <1>1, <1>2, <1>8
<1> QED
  BY <1>9 DEF G, H

LEMMA SameIncidents ==
  ASSUME NEW batch \in Seq(Events), NEW other \in Seq(Events), Fresh(batch), Fresh(other),
         ToSet(batch) = ToSet(other)
  PROVE  Incidents(batch, Catalog) = Incidents(other, Catalog)
<1>1. Deduplicate(batch).events = batch /\ Deduplicate(other).events = other
  BY FreshKept
<1>2. /\ \A k, l \in 1..Len(batch) : batch[k].id = batch[l].id => k = l
      /\ \A k, l \in 1..Len(other) : other[k].id = other[l].id => k = l
  BY DEF Fresh
<1>3. \A g : Grouped(batch, Rule, g) = Grouped(other, Rule, g)
  BY <1>2, SameGroup
<1>4. Groups(batch) = Groups(other)
  <2>1. /\ \A e : e \in ToSet(batch) <=> \E k \in DOMAIN batch : e = batch[k]
        /\ \A e : e \in ToSet(other) <=> \E k \in DOMAIN other : e = other[k]
    BY DEF ToSet
  <2>2. \A g : (\E k \in DOMAIN batch : g = batch[k].group) <=> \E e \in ToSet(batch) : g = e.group
    BY <2>1
  <2>3. \A g : (\E k \in DOMAIN other : g = other[k].group) <=> \E e \in ToSet(other) : g = e.group
    BY <2>1
  <2>4. \A g : (\E k \in DOMAIN batch : g = batch[k].group) <=> \E k \in DOMAIN other : g = other[k].group
    <3>1. \A g : (\E e \in ToSet(batch) : g = e.group) <=> \E e \in ToSet(other) : g = e.group
      BY Zenon
    <3> QED
      BY <2>2, <2>3, <3>1
  <2> QED
    BY <2>4 DEF Groups
<1>5. Correlations(batch, {Rule}) = Correlations(other, {Rule})
  <2> DEFINE All(events) == UNION {Windows(Grouped(events, Rule, g), Rule) : g \in Groups(events)}
             Found(W) == {[rule |-> Rule.id, wording |-> Rule.wording, window |-> w] : w \in W}
  <2>1. \A w : w \in All(batch) <=> \E g \in Groups(batch) : w \in Windows(Grouped(batch, Rule, g), Rule)
    OBVIOUS
  <2>2. \A w : w \in All(other) <=> \E g \in Groups(other) : w \in Windows(Grouped(other, Rule, g), Rule)
    OBVIOUS
  <2>3. {r \in {Rule} : r.enabled} = {Rule}
    BY RuleAssumption
  <2>4. /\ Correlations(batch, {Rule}) = UNION {Found(All(batch)) : r \in {Rule}}
        /\ Correlations(other, {Rule}) = UNION {Found(All(other)) : r \in {Rule}}
    BY <2>3 DEF Correlations
  <2> HIDE DEF All, Found
  <2>5. All(batch) = All(other)
    <3>1. \A w : w \in All(batch) <=> w \in All(other)
      BY <1>3, <1>4, <2>1, <2>2
    <3> QED
      BY <3>1
  <2> QED
    BY <2>4, <2>5
<1>6. Detections(batch, {}) = {} /\ Detections(other, {}) = {}
  BY DEF Detections
<1> QED
  BY <1>1, <1>5, <1>6 DEF Incidents, Catalog

LEMMA Reversed ==
  ASSUME NEW batch \in Seq(Events), Fresh(batch)
  PROVE  Reverse(batch) \in Seq(Events) /\ Fresh(Reverse(batch)) /\ ToSet(batch) = ToSet(Reverse(batch))
<1> DEFINE other == Reverse(batch)
           n == Len(batch)
<1>1. /\ n \in Nat /\ DOMAIN batch = 1..n /\ \A k \in 1..n : batch[k] \in Events
      /\ other = [k \in 1..n |-> batch[(n - k) + 1]]
  BY DEF Reverse
<1>2. \A k \in 1..n : (n - k) + 1 \in 1..n /\ (n - ((n - k) + 1)) + 1 = k
  BY <1>1
<1> HIDE DEF other, n
<1>3. other \in Seq(Events) /\ Len(other) = n /\ DOMAIN other = 1..n
  BY <1>1, <1>2
<1>4. \A k \in 1..n : other[k] = batch[(n - k) + 1] /\ batch[k] = other[(n - k) + 1]
  BY <1>1, <1>2
<1>5. Fresh(other)
  <2>1. \A k, l \in 1..n : k # l => (n - k) + 1 # (n - l) + 1
    BY <1>1
  <2> QED
    <3> SUFFICES ASSUME NEW k \in 1..n, NEW l \in 1..n, k # l
                 PROVE  other[k].id # other[l].id /\ Fingerprint(other[k]) # Fingerprint(other[l])
      BY <1>3 DEF Fresh
    <3>1. (n - k) + 1 \in 1..n /\ (n - l) + 1 \in 1..n /\ (n - k) + 1 # (n - l) + 1
      BY <1>2, <2>1
    <3> QED
      BY <1>4, <3>1 DEF Fresh, n
<1>6. ToSet(batch) = ToSet(other)
  BY <1>1, <1>2, <1>3, <1>4 DEF ToSet
<1> QED
  BY <1>3, <1>5, <1>6 DEF other

-----------------------------------------------------------------------------
(* Every batch *)

LEMMA AlwaysAnalysisInv == AnalysisSpec => []AnalysisInv
<1>1. AnalysisInit => AnalysisInv
  BY DEF AnalysisInit, AnalysisInv
<1>2. AnalysisInv /\ [AnalysisNext]_arrivals => AnalysisInv'
  <2>1. ASSUME AnalysisInv, NEW e \in Events, arrivals' = Append(arrivals, e) PROVE AnalysisInv'
    BY <2>1, AppendProperties DEF AnalysisInv
  <2> QED
    BY <2>1 DEF AnalysisNext, AnalysisInv
<1> QED
  BY <1>1, <1>2, PTL DEF AnalysisSpec

LEMMA RightWindows == AnalysisInv => WindowsAreRight
<1> SUFFICES ASSUME AnalysisInv PROVE WindowsAreRight
  OBVIOUS
<1> DEFINE events == Deduplicate(arrivals).events
           GroupOf(g) == {e \in ToSet(events) : e.group = g}
           Expected == UNION {{WindowOf(GroupOf(g), last) : last \in GroupOf(g)} : g \in Groups(events)}
           matches == Correlations(events, {Rule})
<1>1. /\ events \in Seq(Events)
      /\ \A k, l \in 1..Len(events) : events[k].id = events[l].id => k = l
  BY DeduplicateIs DEF AnalysisInv, SeenIs
<1> HIDE DEF events
<1>2. ASSUME NEW g, NEW W
      PROVE  (\E w \in Windows(Grouped(events, Rule, g), Rule) : W = ToSet(w))
               <=> (\E last \in GroupOf(g) : W = WindowOf(GroupOf(g), last))
                   /\ Cardinality(W) >= Rule.minimum_count
  <2> DEFINE G == Grouped(events, Rule, g)
  <2>1. /\ G \in Seq(Events) /\ InTime(G, Len(G))
        /\ \A k \in 1..Len(G) : G[k].id \in Int /\ G[k].time \in Int
        /\ \A k, l \in 1..Len(G) : k < l => Earlier(G[k], G[l])
        /\ GroupOf(g) = Between(G, 1, Len(G))
    BY <1>1, GroupInOrder
  <2> HIDE DEF G, GroupOf
  <2>2. (\E w \in Windows(G, Rule) : W = ToSet(w))
          <=> /\ \E last \in Between(G, 1, Len(G)) : W = WindowOf(Between(G, 1, Len(G)), last)
              /\ Cardinality(W) >= Rule.minimum_count
    BY <2>1, GroupReports
  <2> QED
    BY <2>1, <2>2 DEF G
<1>3. \A w : (\E match \in matches : match.window = w)
               <=> \E g \in Groups(events) : w \in Windows(Grouped(events, Rule, g), Rule)
  <2> DEFINE All == UNION {Windows(Grouped(events, Rule, g), Rule) : g \in Groups(events)}
             Match(w) == [rule |-> Rule.id, wording |-> Rule.wording, window |-> w]
  <2>1. \A match : match \in matches <=> \E w \in All : match = Match(w)
    <3>1. {r \in {Rule} : r.enabled} = {Rule}
      BY RuleAssumption
    <3>2. matches = UNION {{Match(w) : w \in All} : r \in {Rule}}
      BY <3>1 DEF Correlations
    <3> HIDE DEF All, matches
    <3> QED
      BY <3>2
  <2>2. \A w : Match(w).window = w
    OBVIOUS
  <2>3. \A w : w \in All <=> \E g \in Groups(events) : w \in Windows(Grouped(events, Rule, g), Rule)
    OBVIOUS
  <2> HIDE DEF All, Match, matches
  <2> QED
    BY <2>1, <2>2, <2>3
<1>4. \A W : W \in Expected <=> \E g \in Groups(events) : \E last \in GroupOf(g) : W = WindowOf(GroupOf(g), last)
  <2> HIDE DEF GroupOf
  <2> QED
    OBVIOUS
<1> HIDE DEF matches, Expected, GroupOf
<1>5. ASSUME NEW W
      PROVE  (\E match \in matches : W = ToSet(match.window))
               <=> W \in Expected /\ Cardinality(W) >= Rule.minimum_count
  <2>1. ASSUME NEW match \in matches, W = ToSet(match.window)
        PROVE  W \in Expected /\ Cardinality(W) >= Rule.minimum_count
    <3>1. PICK g \in Groups(events) : match.window \in Windows(Grouped(events, Rule, g), Rule)
      BY <1>3, <2>1
    <3>2. \E w \in Windows(Grouped(events, Rule, g), Rule) : W = ToSet(w)
      BY <3>1, <2>1
    <3>3. (\E last \in GroupOf(g) : W = WindowOf(GroupOf(g), last)) /\ Cardinality(W) >= Rule.minimum_count
      BY <3>2, <1>2
    <3> QED
      BY <3>1, <3>3, <1>4
  <2>2. ASSUME W \in Expected, Cardinality(W) >= Rule.minimum_count
        PROVE  \E match \in matches : W = ToSet(match.window)
    <3>1. PICK g \in Groups(events) : \E last \in GroupOf(g) : W = WindowOf(GroupOf(g), last)
      BY <1>4, <2>2
    <3>2. PICK w \in Windows(Grouped(events, Rule, g), Rule) : W = ToSet(w)
      BY <3>1, <2>2, <1>2
    <3>3. PICK match \in matches : match.window = w
      BY <1>3, <3>1, <3>2
    <3> QED
      BY <3>2, <3>3
  <2> QED
    BY <2>1, <2>2
<1>6. {ToSet(match.window) : match \in matches} = {w \in Expected : Cardinality(w) >= Rule.minimum_count}
  BY <1>5
<1> QED
  BY <1>6 DEF WindowsAreRight, events, matches, Expected, GroupOf

LEMMA RightDuplicates == AnalysisInv => DuplicatesExplained
<1> SUFFICES ASSUME AnalysisInv PROVE DuplicatesExplained
  OBVIOUS
<1> DEFINE N == Len(arrivals)
           result == Deduplicate(arrivals)
<1>1. /\ arrivals \in Seq(Events) /\ N \in Nat /\ DOMAIN arrivals = 1..N
  BY DEF AnalysisInv
<1>2. PICK kept, dropped : Told(N, result, kept, dropped)
  BY <1>1, AllTold
<1> HIDE DEF result
<1>3. /\ Counts(kept, KeptTo(N)) /\ Counts(dropped, DroppedTo(N))
      /\ result.events \in Seq(Events) /\ Len(result.events) = Len(kept)
      /\ \A m \in 1..Len(kept) : result.events[m] = arrivals[kept[m]]
      /\ result.duplicates \in Seq(Entries) /\ Len(result.duplicates) = Len(dropped)
      /\ \A m \in 1..Len(dropped) : result.duplicates[m] = EntryOf(dropped[m])
  BY <1>2 DEF Told
<1>4. kept = Ascending(KeptTo(N)) /\ dropped = Ascending(DroppedTo(N))
  <2>1. IsFiniteSet(1..N)
    BY <1>1, FS_Interval
  <2>2. IsFiniteSet(KeptTo(N)) /\ IsFiniteSet(DroppedTo(N))
    BY <2>1, FS_Subset DEF KeptTo, DroppedTo
  <2> QED
    BY <1>3, <2>2, CountsOnce
<1>5. DOMAIN kept = 1..Len(kept) /\ DOMAIN dropped = 1..Len(dropped)
  BY <1>3 DEF Counts
<1>6. result.events = [m \in DOMAIN kept |-> arrivals[kept[m]]]
  <2>1. result.events = [m \in 1..Len(result.events) |-> result.events[m]]
    BY <1>3
  <2> QED
    BY <1>3, <1>5, <2>1
<1>7. result.duplicates = [m \in DOMAIN dropped |-> EntryOf(dropped[m])]
  <2>1. result.duplicates = [m \in 1..Len(result.duplicates) |-> result.duplicates[m]]
    BY <1>3
  <2> QED
    BY <1>3, <1>5, <2>1
<1>8. /\ {k \in DOMAIN arrivals : Kept(k)} = KeptTo(N)
      /\ {k \in DOMAIN arrivals : ~Kept(k)} = DroppedTo(N)
  BY <1>1 DEF KeptTo, DroppedTo
<1> HIDE DEF N
<1> QED
  BY <1>4, <1>6, <1>7, <1>8 DEF DuplicatesExplained, EntryOf, result

LEMMA RightOrder == AnalysisInv => IncidentsIndependentOfOrder
<1> SUFFICES ASSUME AnalysisInv, Deduplicate(arrivals).duplicates = <<>>
             PROVE  Incidents(arrivals, Catalog) = Incidents(Reverse(arrivals), Catalog)
  BY DEF IncidentsIndependentOfOrder
<1>1. arrivals \in Seq(Events) /\ Len(arrivals) \in Nat
  BY DEF AnalysisInv
<1>2. PICK kept, dropped : Told(Len(arrivals), Deduplicate(arrivals), kept, dropped)
  BY <1>1, AllTold
<1>3. Counts(dropped, DroppedTo(Len(arrivals))) /\ Len(dropped) = 0
  BY <1>2 DEF Told
<1>4. DroppedTo(Len(arrivals)) = {}
  BY <1>3 DEF Counts
<1>5. \A k \in 1..Len(arrivals) : Kept(k)
  BY <1>4 DEF DroppedTo
<1>6. Fresh(arrivals)
  <2>1. ASSUME NEW k \in 1..Len(arrivals), NEW l \in 1..Len(arrivals), k < l
        PROVE  arrivals[k].id # arrivals[l].id /\ Fingerprint(arrivals[k]) # Fingerprint(arrivals[l])
    <3>1. k \in 1..(l - 1) /\ Kept(l) /\ ~RepeatsId(k)
      BY <1>5, <2>1 DEF Kept
    <3> QED
      BY <3>1 DEF Kept, RepeatsId, SameId, SameContent
  <2>2. \A k, l \in 1..Len(arrivals) : k # l => k < l \/ l < k
    BY <1>1
  <2> QED
    BY <2>1, <2>2 DEF Fresh
<1> QED
  BY <1>1, <1>6, Reversed, SameIncidents

\* The sliding window finds for every event exactly the window that ends at it, for
\* batches of any length, any times and groups, and any limits of the rule (correlation.py).
THEOREM WindowsAlwaysRight == AnalysisSpec => []WindowsAreRight
BY AlwaysAnalysisInv, RightWindows, PTL

\* Deduplication keeps the first event of every id and content and explains every other
\* one, for batches of any length, whatever repeats what (deduplication.py).
THEOREM DuplicatesAlwaysExplained == AnalysisSpec => []DuplicatesExplained
BY AlwaysAnalysisInv, RightDuplicates, PTL

\* Without duplicates a batch has the same incidents backwards, for any batch and any
\* rule (incident_builder.py: "Identity remains independent of input order").
THEOREM OrderNeverMatters == AnalysisSpec => []IncidentsIndependentOfOrder
BY AlwaysAnalysisInv, RightOrder, PTL

=============================================================================
