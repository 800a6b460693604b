------------------------- MODULE VirtualLedgerProofs --------------------------
(***************************************************************************)
(* Proofs about VirtualLedger, for any number of strategies and any         *)
(* quantities: a strategy has one HOLD row of the code; a reconciliation in *)
(* whose course nothing traded leaves the account's quantity in the ledger; *)
(* the rows of a replaced paper account stay until the new account trades.  *)
(*                                                                          *)
(* Balance is a fold.  It is shown to be the number of shares, one pair of  *)
(* trader and share each, by comparing the function the fold chooses with   *)
(* the one that counts, on a smallest set where they would differ.          *)
(***************************************************************************)
EXTENDS VirtualLedger, FiniteSetTheorems, SequenceTheorems, WellFoundedInduction, TLAPS

-----------------------------------------------------------------------------
(* The rows *)

OneEach(rows) == \A i, k \in 1..Len(rows) : rows[i].name = rows[k].name => i = k

Good(rows) == rows \in Seq(Rows) /\ OneEach(rows)

LEMMA SeqFacts ==
    ASSUME NEW rows \in Seq(Rows)
    PROVE  /\ Len(rows) \in Nat /\ DOMAIN rows = 1..Len(rows)
           /\ rows = <<>> <=> Len(rows) = 0
           /\ \A i \in 1..Len(rows) : /\ rows[i] \in Rows /\ rows[i].name \in Names
                                       /\ rows[i].qty \in Quantities
<1>1. Len(rows) \in Nat /\ DOMAIN rows = 1..Len(rows) /\ (rows = <<>> <=> Len(rows) = 0)
  BY EmptySeq
<1>2. \A i \in 1..Len(rows) : rows[i] \in Rows
  OBVIOUS
<1> QED BY <1>1, <1>2 DEF Rows

LEMMA Interval == ASSUME NEW n \in Nat PROVE IsFiniteSet(1..n) /\ Cardinality(1..n) = n
BY FS_Interval

\* A sequence with at most one row of a name has no more rows than there are names.
LEMMA FewRows ==
    ASSUME NEW rows, Good(rows), IsFiniteSet(Names)
    PROVE  Len(rows) <= Cardinality(Names)
<1> DEFINE f == [i \in 1..Len(rows) |-> rows[i].name]
<1>1. f \in Injection(1..Len(rows), Names)
  BY SeqFacts DEF Good, OneEach, Injection, IsInjective
<1>2. Len(rows) \in Nat
  BY SeqFacts DEF Good
<1>3. Cardinality(1..Len(rows)) = Len(rows)
  BY <1>2, Interval
<1> HIDE DEF f
<1> QED BY <1>1, <1>3, FS_Injection

LEMMA BoughtFacts ==
    ASSUME NEW rows, Good(rows), NEW name \in Names, NEW n \in Quantities
    PROVE  /\ Good(Bought(rows, name, n))
           /\ IF Holding(rows, name) THEN Bought(rows, name, n) = rows
              ELSE rows = <<>> => /\ Len(Bought(rows, name, n)) = 1
                                 /\ Bought(rows, name, n)[1] = [name |-> name, qty |-> n]
<1> DEFINE row == [name |-> name, qty |-> n]
           more == Append(rows, row)
<1>1. CASE Holding(rows, name)
  BY <1>1 DEF Bought
<1>2. CASE ~Holding(rows, name)
  <2>1. rows \in Seq(Rows) /\ DOMAIN rows = 1..Len(rows) /\ Len(rows) \in Nat
    BY SeqFacts DEF Good
  <2>2. row \in Rows /\ row.name = name
    BY DEF Rows
  <2>3. \A i \in 1..Len(rows) : rows[i].name # name
    BY <1>2, <2>1 DEF Holding
  <2> HIDE DEF row
  <2>4. /\ more \in Seq(Rows) /\ Len(more) = Len(rows) + 1
        /\ \A i \in 1..Len(rows) : more[i] = rows[i]
        /\ more[Len(rows) + 1] = row
    BY <2>1, <2>2
  <2>5. Bought(rows, name, n) = more
    BY <1>2 DEF Bought, row
  <2> HIDE DEF more
  <2>6. OneEach(more)
    BY <2>1, <2>2, <2>3, <2>4 DEF Good, OneEach
  <2>7. rows = <<>> => Len(more) = 1 /\ more[1] = row
    BY <2>1, <2>4, SeqFacts
  <2> QED BY <1>2, <2>4, <2>5, <2>6, <2>7 DEF Good, row
<1> QED BY <1>1, <1>2

LEMMA RemovedFacts ==
    ASSUME NEW rows, Good(rows), NEW i \in 1..Len(rows)
    PROVE  Good(RemoveAt(rows, i)) /\ Len(RemoveAt(rows, i)) = Len(rows) - 1
<1> DEFINE front == SubSeq(rows, 1, i - 1)
           back == SubSeq(rows, i + 1, Len(rows))
           less == front \o back
<1>1. rows \in Seq(Rows) /\ Len(rows) \in Nat /\ i \in Nat
  BY SeqFacts DEF Good
<1>2. /\ front \in Seq(Rows) /\ Len(front) = i - 1
      /\ \A k \in 1..(i - 1) : front[k] = rows[k]
  BY <1>1, SubSeqProperties
<1>3. /\ back \in Seq(Rows) /\ Len(back) = Len(rows) - i
      /\ \A k \in 1..(Len(rows) - i) : back[k] = rows[i + k]
  BY <1>1, SubSeqProperties
<1> HIDE DEF front, back
<1>4. /\ less \in Seq(Rows) /\ Len(less) = Len(rows) - 1
      /\ \A k \in 1..(Len(rows) - 1) : less[k] = IF k < i THEN rows[k] ELSE rows[k + 1]
  <2>1. /\ less \in Seq(Rows) /\ Len(less) = Len(front) + Len(back)
        /\ \A k \in 1..(Len(front) + Len(back)) :
             less[k] = IF k <= Len(front) THEN front[k] ELSE back[k - Len(front)]
    BY <1>2, <1>3, ConcatProperties, Zenon
  <2>2. Len(front) = i - 1 /\ Len(back) = Len(rows) - i
        /\ Len(front) + Len(back) = Len(rows) - 1
    BY <1>1, <1>2, <1>3
  <2> HIDE DEF less
  <2>3. ASSUME NEW k \in 1..(Len(rows) - 1)
        PROVE  less[k] = IF k < i THEN rows[k] ELSE rows[k + 1]
    <3>0. k \in Nat /\ k \in 1..(Len(front) + Len(back)) /\ Len(front) = i - 1
      BY <1>1, <2>2
    <3>1. less[k] = IF k <= Len(front) THEN front[k] ELSE back[k - Len(front)]
      BY <2>1, <3>0, Zenon
    <3>2. CASE k < i
      <4>1. k <= Len(front) /\ k \in 1..(i - 1)
        BY <1>1, <3>0, <3>2
      <4>2. less[k] = front[k] /\ front[k] = rows[k]
        BY <1>2, <3>1, <4>1, Zenon
      <4> QED BY <3>2, <4>2
    <3>3. CASE ~(k < i)
      <4>1. ~(k <= Len(front)) /\ k - (i - 1) \in 1..(Len(rows) - i)
            /\ i + (k - (i - 1)) = k + 1
        BY <1>1, <3>0, <3>3
      <4>2. less[k] = back[k - (i - 1)]
        BY <3>0, <3>1, <4>1
      <4>3. back[k - (i - 1)] = rows[i + (k - (i - 1))]
        BY <1>3, <4>1, Zenon
      <4> QED BY <3>3, <4>1, <4>2, <4>3
    <3> QED BY <3>2, <3>3
  <2> QED BY <2>1, <2>2, <2>3
<1>5. RemoveAt(rows, i) = less
  BY DEF RemoveAt, front, back
<1> HIDE DEF less
<1>6. less \in Seq(Rows)
  BY <1>4
<1>7. OneEach(less)
  BY <1>1, <1>4 DEF Good, OneEach
<1> QED BY <1>4, <1>5, <1>6, <1>7 DEF Good

LEMMA SameNamesGood ==
    ASSUME NEW rows, Good(rows), NEW new, new = [i \in 1..Len(rows) |-> new[i]],
           \A i \in 1..Len(rows) : new[i] \in Rows /\ new[i].name = rows[i].name
    PROVE  Good(new) /\ Len(new) = Len(rows)
<1> DEFINE n == Len(rows)
<1>1. n \in Nat
  BY SeqFacts DEF Good
<1>2. new \in [1..n -> Rows]
  <2> HIDE DEF n
  <2> QED BY DEF n
<1>3. new \in Seq(Rows) /\ Len(new) = n
  <2> HIDE DEF n
  <2> QED BY <1>1, <1>2, SeqDef
<1> QED BY <1>3 DEF Good, OneEach

LEMMA WithQuantity ==
    ASSUME NEW r \in Rows, NEW n \in Quantities
    PROVE  /\ [r EXCEPT !.qty = n] \in Rows /\ [r EXCEPT !.qty = n].name = r.name
           /\ [r EXCEPT !.qty = n].qty = n
BY DEF Rows

LEMMA SettledFacts ==
    ASSUME NEW rows, Good(rows), NEW i \in 1..Len(rows), NEW n \in Quantities
    PROVE  /\ Good(Settled(rows, i, n))
           /\ rows[i].qty <= n => Len(Settled(rows, i, n)) = Len(rows) - 1
<1> DEFINE q == rows[i].qty - n
           new == [rows EXCEPT ![i] = [rows[i] EXCEPT !.qty = q]]
<1>0. MaxShares \in Nat
  BY ConstantsAssumption DEF ConstantsAssumption
<1>1. rows[i].qty \in Quantities /\ DOMAIN rows = 1..Len(rows)
      /\ \A k \in 1..Len(rows) : rows[k] \in Rows
  BY SeqFacts DEF Good
<1>2. CASE n < rows[i].qty
  <2>1. Settled(rows, i, n) = new
    BY <1>2 DEF Settled
  <2>2. q \in Quantities
    BY <1>0, <1>1, <1>2 DEF Quantities
  <2> HIDE DEF q
  <2>3. /\ new = [k \in 1..Len(rows) |-> new[k]]
        /\ \A k \in 1..Len(rows) : new[k] \in Rows /\ new[k].name = rows[k].name
    BY <1>1, <2>2, WithQuantity
  <2> HIDE DEF new
  <2>4. ~(rows[i].qty <= n)
    BY <1>0, <1>1, <1>2 DEF Quantities
  <2> QED BY <2>1, <2>3, <2>4, SameNamesGood
<1>3. CASE ~(n < rows[i].qty)
  BY <1>3, RemovedFacts DEF Settled
<1> QED BY <1>2, <1>3

LEMMA SoldFacts ==
    ASSUME NEW rows, Good(rows), NEW whose, whose = Names \/ \E name : whose = {name},
           NEW n \in Quantities
    PROVE  /\ Good(Sold(rows, whose, n))
           /\ rows = <<>> => Sold(rows, whose, n) = <<>>
           /\ whose = Names /\ n = MaxShares /\ rows # <<>> =>
                 Len(Sold(rows, whose, n)) = Len(rows) - 1
<1> DEFINE mine == {i \in DOMAIN rows : rows[i].name \in whose}
           newest == CHOOSE i \in mine : \A k \in mine : k <= i
<1>0. /\ Len(rows) \in Nat /\ DOMAIN rows = 1..Len(rows) /\ (rows = <<>> <=> Len(rows) = 0)
      /\ mine \subseteq 1..Len(rows) /\ (whose = Names => mine = 1..Len(rows))
  BY SeqFacts DEF Good
<1>1. CASE mine = {}
  <2>1. Sold(rows, whose, n) = rows
    BY <1>1 DEF Sold
  <2>2. whose = Names => rows = <<>>
    BY <1>0, <1>1
  <2> QED BY <2>1, <2>2
<1>2. CASE mine # {}
  <2>1. newest \in mine
    <3>1. CASE whose = Names
      <4>1. mine = 1..Len(rows) /\ Len(rows) \in mine
        <5>1. mine = 1..Len(rows)
          BY <1>0, <3>1
        <5> HIDE DEF mine
        <5> QED BY <1>0, <1>2, <5>1
      <4>2. \A k \in mine : k <= Len(rows)
        BY <1>0, <4>1
      <4> HIDE DEF mine
      <4> QED BY <4>1, <4>2
    <3>2. CASE \E name : whose = {name}
      <4>1. \A i, k \in mine : i = k
        BY <1>0, <3>2 DEF Good, OneEach
      <4> HIDE DEF mine
      <4>2. PICK i \in mine : TRUE
        BY <1>2
      <4>3. i \in Nat
        BY <1>0
      <4>4. \A k \in mine : k <= i
        BY <4>1, <4>2, <4>3
      <4> QED BY <4>4
    <3> HIDE DEF mine, newest
    <3> QED BY <3>1, <3>2
  <2>2. Sold(rows, whose, n) = Settled(rows, newest, n)
    BY <1>2 DEF Sold
  <2> HIDE DEF newest, mine
  <2>3. newest \in 1..Len(rows) /\ rows # <<>>
    BY <1>0, <2>1
  <2>4. n = MaxShares => rows[newest].qty <= n
    <3>1. rows[newest].qty \in Quantities
      BY <2>3, SeqFacts DEF Good
    <3> QED BY <3>1 DEF Quantities
  <2> QED BY <2>2, <2>3, <2>4, SettledFacts
<1> QED BY <1>1, <1>2

LEMMA CorrectedFacts ==
    ASSUME NEW rows, Good(rows), NEW name, NEW n \in Quantities
    PROVE  /\ Good(Corrected(rows, name, n)) /\ Len(Corrected(rows, name, n)) = Len(rows)
           /\ \A i \in 1..Len(rows) :
                 /\ Corrected(rows, name, n)[i].name = rows[i].name
                 /\ rows[i].name = name => Corrected(rows, name, n)[i].qty = n
<1> DEFINE new == Corrected(rows, name, n)
<1>1. DOMAIN rows = 1..Len(rows) /\ \A i \in 1..Len(rows) : rows[i] \in Rows
  BY SeqFacts DEF Good
<1>2. /\ new = [i \in 1..Len(rows) |-> new[i]]
      /\ \A i \in 1..Len(rows) : new[i] = IF rows[i].name = name
                                          THEN [rows[i] EXCEPT !.qty = n] ELSE rows[i]
  BY <1>1 DEF Corrected
<1> HIDE DEF new
<1>3. ASSUME NEW i \in 1..Len(rows)
      PROVE  /\ new[i] \in Rows /\ new[i].name = rows[i].name
             /\ rows[i].name = name => new[i].qty = n
  <2>1. CASE rows[i].name = name
    <3>1. new[i] = [rows[i] EXCEPT !.qty = n]
      BY <1>2, <2>1
    <3> QED BY <1>1, <3>1, WithQuantity
  <2>2. CASE rows[i].name # name
    BY <1>1, <1>2, <2>2
  <2> QED BY <2>1, <2>2
<1>4. Good(new) /\ Len(new) = Len(rows)
  BY <1>2, <1>3, SameNamesGood
<1> QED BY <1>3, <1>4 DEF new

-----------------------------------------------------------------------------
(* Balance and Quantity *)

\* FoldFunction(+, 0, g) is what the only function of this kind gives for all of S.
Pick(s) == CHOOSE x \in s : TRUE
IsSum(f, g, S) == f = [s \in SUBSET S |-> IF s = {} THEN 0 ELSE g[Pick(s)] + f[s \ {Pick(s)}]]

\* One pair for each share.
Units(g, s, m) == {u \in s \X (1..m) : u[2] <= g[u[1]]}

LEMMA UnitsFinite ==
    ASSUME NEW m \in Nat, NEW s, IsFiniteSet(s), NEW g
    PROVE  IsFiniteSet(Units(g, s, m)) /\ Cardinality(Units(g, s, m)) \in Nat
<1>1. IsFiniteSet(s \X (1..m))
  <2>1. IsFiniteSet(1..m)
    BY FS_Interval
  <2> QED BY <2>1, FS_Product
<1>2. Units(g, s, m) \in SUBSET (s \X (1..m))
  BY DEF Units
<1> QED BY <1>1, <1>2, FS_Subset, FS_CardinalityType

\* The pairs of one trader are as many as its shares.
LEMMA UnitsOfOne ==
    ASSUME NEW m \in Nat, NEW x, NEW g, g[x] \in 0..m
    PROVE  IsFiniteSet(Units(g, {x}, m)) /\ Cardinality(Units(g, {x}, m)) = g[x]
<1> DEFINE n == g[x]
           U == Units(g, {x}, m)
           P == {x} \X (1..n)
<1>1. U = P
  BY DEF Units
<1>2. IsFiniteSet({x}) /\ Cardinality({x}) = 1
  BY FS_Singleton
<1>0. n \in Nat
  OBVIOUS
<1> HIDE DEF n
<1>3. IsFiniteSet(1..n) /\ Cardinality(1..n) = n
  BY <1>0, Interval
<1>4. IsFiniteSet(P) /\ Cardinality(P) = Cardinality({x}) * Cardinality(1..n)
  BY <1>2, <1>3, FS_Product
<1>5. Cardinality(P) = n
  <2>1. 1 * n = n
    BY <1>0
  <2> QED BY <1>2, <1>3, <1>4, <2>1
<1> QED BY <1>1, <1>4, <1>5 DEF n

LEMMA DisjointUnion ==
    ASSUME NEW A, NEW B, IsFiniteSet(A), IsFiniteSet(B), A \cap B = {}
    PROVE  Cardinality(A \cup B) = Cardinality(A) + Cardinality(B)
<1>1. Cardinality(A \cap B) = 0 /\ Cardinality(A) \in Nat /\ Cardinality(B) \in Nat
  BY FS_EmptySet, FS_CardinalityType
<1>2. Cardinality(A \cup B) = Cardinality(A) + Cardinality(B) - Cardinality(A \cap B)
  BY FS_Union
<1> QED BY <1>1, <1>2

LEMMA UnitsSplit ==
    ASSUME NEW m \in Nat, NEW s, IsFiniteSet(s), NEW x \in s, NEW g, g[x] \in 0..m
    PROVE  Cardinality(Units(g, s, m)) = g[x] + Cardinality(Units(g, s \ {x}, m))
<1>1. IsFiniteSet(s \ {x})
  BY FS_RemoveElement
<1>2. /\ Units(g, s, m) = Units(g, {x}, m) \cup Units(g, s \ {x}, m)
      /\ Units(g, {x}, m) \cap Units(g, s \ {x}, m) = {}
  BY DEF Units
<1>3. /\ IsFiniteSet(Units(g, {x}, m)) /\ Cardinality(Units(g, {x}, m)) = g[x]
      /\ IsFiniteSet(Units(g, s \ {x}, m))
  BY <1>1, UnitsOfOne, UnitsFinite
<1> QED BY <1>2, <1>3, DisjointUnion

LEMMA SumIsUnits ==
    ASSUME NEW m \in Nat, NEW S, IsFiniteSet(S), NEW g \in [S -> 0..m]
    PROVE  (CHOOSE f : IsSum(f, g, S))[S] = Cardinality(Units(g, S, m))
<1> DEFINE h == [s \in SUBSET S |-> Cardinality(Units(g, s, m))]
           f == CHOOSE f : IsSum(f, g, S)
           Bad == {s \in SUBSET S : f[s] # h[s]}
<1>1. ASSUME NEW s \in SUBSET S, s # {}
      PROVE  /\ Pick(s) \in s /\ s \ {Pick(s)} \in SUBSET S
             /\ h[s] = g[Pick(s)] + h[s \ {Pick(s)}]
  <2>1. Pick(s) \in s
    BY <1>1 DEF Pick
  <2>2. IsFiniteSet(s) /\ g[Pick(s)] \in 0..m
    BY <2>1, FS_Subset
  <2> QED BY <2>1, <2>2, UnitsSplit
<1>2. h[{}] = 0
  <2>1. Units(g, {}, m) = {}
    BY DEF Units
  <2> QED BY <2>1, FS_EmptySet
<1>3. IsSum(h, g, S)
  BY <1>1, <1>2 DEF IsSum
<1>4. IsSum(f, g, S)
  BY <1>3
<1> HIDE DEF f, h
<1>5. /\ f[{}] = 0
      /\ \A s \in SUBSET S : s # {} => f[s] = g[Pick(s)] + f[s \ {Pick(s)}]
  BY <1>4 DEF IsSum
<1>6. Bad = {}
  <2> SUFFICES ASSUME Bad # {} PROVE FALSE
    OBVIOUS
  <2>1. IsWellFoundedOn(StrictSubsetOrdering(S), SUBSET S)
    BY FS_StrictSubsetOrderingWellFounded, FS_FiniteSubsetsOfFinite
  <2>2. Bad \subseteq SUBSET S
    OBVIOUS
  <2> HIDE DEF Bad
  <2>3. PICK s \in Bad : \A t \in Bad : ~(<<t, s>> \in StrictSubsetOrdering(S))
    BY <2>1, <2>2, WFMin
  <2>4. s \in SUBSET S /\ f[s] # h[s] /\ s # {}
    BY <1>2, <1>5, <2>3 DEF Bad
  <2>5. Pick(s) \in s /\ s \ {Pick(s)} \in SUBSET S
    BY <1>1, <2>4
  <2>6. <<s \ {Pick(s)}, s>> \in StrictSubsetOrdering(S)
    BY <2>4, <2>5 DEF StrictSubsetOrdering
  <2>7. f[s \ {Pick(s)}] = h[s \ {Pick(s)}]
    BY <2>3, <2>5, <2>6 DEF Bad
  <2> QED BY <1>1, <1>5, <2>4, <2>7
<1>7. f[S] = h[S]
  BY <1>6
<1> QED BY <1>7 DEF f, h

LEMMA QuantityOfNone == Quantity(<<>>) = 0
<1> DEFINE Is(f) == f = [s \in SUBSET (DOMAIN <<>>) |->
                          IF s = {} THEN 0 ELSE f[s \ {Max(s)}] + <<>>[Max(s)].qty]
           f == CHOOSE f : Is(f)
<1>1. Quantity(<<>>) = f[DOMAIN <<>>]
  BY DEF Quantity, FoldLeft, MapThenFoldSet
<1>2. DOMAIN <<>> = {}
  OBVIOUS
<1>3. Is([s \in SUBSET (DOMAIN <<>>) |-> 0])
  BY <1>2
<1>4. Is(f)
  BY <1>3
<1> HIDE DEF f
<1> QED BY <1>1, <1>2, <1>4

LEMMA QuantityOfOne ==
    ASSUME NEW rows \in Seq(Rows), Len(rows) = 1
    PROVE  Quantity(rows) = rows[1].qty
<1> DEFINE Is(f) == f = [s \in SUBSET (DOMAIN rows) |->
                          IF s = {} THEN 0 ELSE f[s \ {Max(s)}] + rows[Max(s)].qty]
           f == CHOOSE f : Is(f)
<1>1. Quantity(rows) = f[DOMAIN rows]
  BY DEF Quantity, FoldLeft, MapThenFoldSet
<1>2. DOMAIN rows = {1} /\ rows[1].qty \in Int
  <2>1. rows[1] \in Rows /\ DOMAIN rows = 1..1
    OBVIOUS
  <2> QED BY <2>1 DEF Rows, Quantities
<1>3. SUBSET {1} = {{}, {1}} /\ {} # {1} /\ {1} \ {1} = {}
  OBVIOUS
<1>4. Max({1}) = 1
  BY DEF Max
<1>5. Is([s \in SUBSET (DOMAIN rows) |-> IF s = {} THEN 0 ELSE rows[1].qty])
  <2> DEFINE q == rows[1].qty
             h == [s \in SUBSET {1} |-> IF s = {} THEN 0 ELSE q]
  <2>1. h[{}] = 0 /\ h[{1}] = q
    BY <1>3
  <2>2. \A s \in SUBSET {1} : h[s] = IF s = {} THEN 0 ELSE h[s \ {Max(s)}] + rows[Max(s)].qty
    <3> HIDE DEF h, q
    <3>1. h[{}] = IF {} = {} THEN 0 ELSE h[{} \ {Max({})}] + rows[Max({})].qty
      BY <2>1
    <3>2. h[{1}] = h[{1} \ {Max({1})}] + rows[Max({1})].qty
      <4>1. {1} \ {Max({1})} = {} /\ rows[Max({1})].qty = q
        BY <1>3, <1>4 DEF q
      <4>2. 0 + q = q
        BY <1>2 DEF q
      <4> QED BY <2>1, <4>1, <4>2
    <3> QED BY <1>3, <3>1, <3>2
  <2>3. h = [s \in SUBSET {1} |-> h[s]]
    OBVIOUS
  <2>4. h = [s \in SUBSET {1} |-> IF s = {} THEN 0 ELSE h[s \ {Max(s)}] + rows[Max(s)].qty]
    <3> HIDE DEF h
    <3> QED BY <2>2, <2>3
  <2> QED BY <1>2, <2>4
<1>6. Is(f)
  BY <1>5
<1> HIDE DEF f
<1>7. \A s \in SUBSET {1} : f[s] = IF s = {} THEN 0 ELSE f[s \ {Max(s)}] + rows[Max(s)].qty
  BY <1>2, <1>6
<1>8. f[{}] = 0 /\ f[{1}] = f[{}] + rows[1].qty
  BY <1>3, <1>4, <1>7
<1> QED BY <1>1, <1>2, <1>8

LEMMA TradersFinite == IsFiniteSet(Traders) /\ IsFiniteSet(Names) /\ MaxShares \in Nat /\ MaxShares > 0
<1>1. IsFiniteSet(Traders)
  BY ConstantsAssumption, FS_AddElement DEF ConstantsAssumption, Traders
<1> QED BY <1>1, ConstantsAssumption, FS_AddElement DEF ConstantsAssumption, Names

Holdings == [Traders -> 0..MaxShares]

LEMMA FoldIsUnits ==
    ASSUME NEW g \in Holdings
    PROVE  /\ FoldFunction(+, 0, g) = Cardinality(Units(g, Traders, MaxShares))
           /\ FoldFunction(+, 0, g) \in Nat
<1>1. DOMAIN g = Traders
  BY DEF Holdings
<1>2. FoldFunction(+, 0, g) = (CHOOSE f : IsSum(f, g, DOMAIN g))[DOMAIN g]
  BY DEF FoldFunction, FoldFunctionOnSet, MapThenFoldSet, IsSum, Pick
<1>3. FoldFunction(+, 0, g) = Cardinality(Units(g, Traders, MaxShares))
  BY <1>1, <1>2, TradersFinite, SumIsUnits DEF Holdings
<1> QED BY <1>3, TradersFinite, UnitsFinite

\* Nobody has a share.
LEMMA EmptyBalance ==
    ASSUME NEW g \in Holdings, \A t \in Traders : g[t] = 0
    PROVE  FoldFunction(+, 0, g) = 0
<1>1. Units(g, Traders, MaxShares) = {}
  BY DEF Units
<1> QED BY <1>1, FoldIsUnits, FS_EmptySet

\* The share of one trader in the balance, and what a change of it makes of the balance.
LEMMA BalanceChange ==
    ASSUME NEW g \in Holdings, NEW t \in Traders, NEW n \in 0..MaxShares
    PROVE  /\ g[t] <= FoldFunction(+, 0, g)
           /\ FoldFunction(+, 0, [g EXCEPT ![t] = n]) = FoldFunction(+, 0, g) - g[t] + n
<1> DEFINE h == [g EXCEPT ![t] = n]
           U == Units(g, Traders \ {t}, MaxShares)
<1>1. h \in Holdings /\ h[t] = n /\ \A u \in Traders \ {t} : h[u] = g[u]
  BY DEF Holdings
<1> HIDE DEF h
<1>2. g[t] \in 0..MaxShares /\ h[t] \in 0..MaxShares
  BY <1>1 DEF Holdings
<1>3. /\ Cardinality(Units(g, Traders, MaxShares)) = g[t] + Cardinality(U)
      /\ Cardinality(Units(h, Traders, MaxShares)) = h[t] + Cardinality(Units(h, Traders \ {t}, MaxShares))
  BY <1>2, TradersFinite, UnitsSplit
<1>4. Units(h, Traders \ {t}, MaxShares) = U
  BY <1>1 DEF Units
<1>5. Cardinality(U) \in Nat
  <2>1. IsFiniteSet(Traders \ {t})
    BY TradersFinite, FS_RemoveElement
  <2> QED BY <2>1, TradersFinite, UnitsFinite
<1>6. /\ FoldFunction(+, 0, g) = g[t] + Cardinality(U)
      /\ FoldFunction(+, 0, h) = n + Cardinality(U)
  BY <1>1, <1>3, <1>4, FoldIsUnits
<1> HIDE DEF U
<1>7. g[t] \in Nat /\ n \in Nat
  BY <1>2, TradersFinite
<1> DEFINE b == FoldFunction(+, 0, g)
           c == FoldFunction(+, 0, h)
<1>8. b = g[t] + Cardinality(U) /\ c = n + Cardinality(U)
  BY <1>6
<1> HIDE DEF b, c
<1>9. g[t] <= b /\ c = b - g[t] + n
  BY <1>5, <1>7, <1>8
<1> QED BY <1>9 DEF b, c, h

-----------------------------------------------------------------------------
(* The invariant *)

\* What a job may hold.
JobOK(b) ==
    /\ b.pc # "told" => b.todo = "nothing"
    /\ b.todo # "close" => b.calls = 0
    /\ b.todo \in {"register", "correct"} => b.balance > 0

\* The only row, and its quantity.
Single(rows, n) == Len(rows) = 1 /\ rows[1].qty = n

\* An undisturbed job, while the account has n shares.  The other undisturbed one may have
\* done part of its work already.
OnCourse(b, n, rows) ==
    /\ b.todo = "close" => n = 0 /\ Len(rows) <= b.calls
    /\ b.todo = "register" =>
          /\ b.balance = n
          /\ rows = <<>> \/ (Single(rows, n) /\ rows[1].name = Reconciled)
    /\ b.todo = "correct" => b.balance = n /\ Len(rows) = 1 /\ rows[1].name = b.row
    /\ b.todo = "nothing" => (rows = <<>> /\ n = 0) \/ Single(rows, n)

QuietOK(b, n, rows) ==
    b.quiet => /\ b.pc = "asked" => b.balance = n
               /\ b.pc = "told" => OnCourse(b, n, rows)

JobInv == \A j \in Tasks : JobOK(job[j])
QuietInv == \A j \in Tasks : QuietOK(job[j], Balance, holds)

\* Before the replaced account trades it is empty, and nothing is to be reported.
FreshInv ==
    fresh /\ paper =>
        /\ \A t \in Traders : shares[t] = 0 /\ reports[t] = NoReport
        /\ \A j \in Tasks : job[j].balance = 0 /\ job[j].todo \in {"nothing", "close"}
        /\ saved = "this" \/ (At("opening", "told") /\ job["opening"].force) => holds = <<>>
        /\ job["opening"].todo = "nothing"

BalanceInv == Balance \in 0..MaxShares

IInv == TypeOK /\ Good(holds) /\ BalanceInv /\ JobInv /\ QuietInv /\ FreshInv

-----------------------------------------------------------------------------
(* The jobs *)

LEMMA JobFields ==
    ASSUME NEW b \in Jobs
    PROVE  /\ b.pc \in {"idle", "asked", "told"} /\ b.balance \in 0..MaxShares /\ b.balance \in Nat
           /\ b.todo \in {"nothing", "close", "register", "correct"} /\ b.row \in Names
           /\ b.calls \in Nat /\ b.calls <= Cardinality(Names)
           /\ b.force \in BOOLEAN /\ b.quiet \in BOOLEAN
           /\ b.balance > 0 => b.balance \in Quantities
<1>1. Cardinality(Names) \in Nat
  BY TradersFinite, FS_CardinalityType
<1>2. /\ b.pc \in {"idle", "asked", "told"} /\ b.balance \in 0..MaxShares
      /\ b.todo \in {"nothing", "close", "register", "correct"} /\ b.row \in Names
      /\ b.calls \in 0..Cardinality(Names) /\ b.force \in BOOLEAN /\ b.quiet \in BOOLEAN
  BY DEF Jobs
<1>3. b.calls \in Nat /\ b.calls <= Cardinality(Names)
  BY <1>1, <1>2
<1>4. b.balance \in Nat /\ (b.balance > 0 => b.balance \in Quantities)
  BY <1>2, TradersFinite DEF Quantities
<1> QED BY <1>2, <1>3, <1>4

LEMMA NoJobFacts ==
    /\ NoJob \in Jobs /\ JobOK(NoJob) /\ NoJob.pc = "idle" /\ NoJob.balance = 0
    /\ NoJob.todo = "nothing" /\ NoJob.calls = 0
<1>1. Cardinality(Names) \in Nat
  BY TradersFinite, FS_CardinalityType
<1> QED BY <1>1, TradersFinite DEF NoJob, Jobs, JobOK, Names

\* The same job, if it was quiet perhaps no longer.
Alike(a, b) ==
    /\ b.pc = a.pc /\ b.balance = a.balance /\ b.todo = a.todo /\ b.row = a.row
    /\ b.calls = a.calls /\ b.force = a.force /\ (b.quiet => a.quiet)

LEMMA DisturbFacts ==
    ASSUME NEW jobs \in [Tasks -> Jobs], NEW j
    PROVE  /\ Disturb(jobs, j) \in [Tasks -> Jobs]
           /\ \A k \in Tasks :
                 /\ Alike(jobs[k], Disturb(jobs, j)[k])
                 /\ Disturb(jobs, j)[k].quiet => k = j \/ jobs[k].pc = "idle"
                 /\ k = j => Disturb(jobs, j)[k] = jobs[k]
<1>1. ASSUME NEW b \in Jobs
      PROVE  /\ [b EXCEPT !.quiet = FALSE] \in Jobs /\ Alike(b, [b EXCEPT !.quiet = FALSE])
             /\ ~[b EXCEPT !.quiet = FALSE].quiet /\ Alike(b, b)
  BY DEF Jobs, Alike
<1>2. Disturb(jobs, j) = [k \in Tasks |-> Disturb(jobs, j)[k]]
  BY DEF Disturb
<1>3. ASSUME NEW k \in Tasks
      PROVE  /\ Disturb(jobs, j)[k] \in Jobs /\ Alike(jobs[k], Disturb(jobs, j)[k])
             /\ Disturb(jobs, j)[k].quiet => k = j \/ jobs[k].pc = "idle"
             /\ k = j => Disturb(jobs, j)[k] = jobs[k]
  <2>1. CASE k = j \/ jobs[k].pc = "idle"
    <3>1. Disturb(jobs, j)[k] = jobs[k]
      BY <2>1 DEF Disturb
    <3> QED BY <1>1, <2>1, <3>1
  <2>2. CASE ~(k = j \/ jobs[k].pc = "idle")
    <3>1. Disturb(jobs, j)[k] = [jobs[k] EXCEPT !.quiet = FALSE]
      BY <2>2 DEF Disturb
    <3> QED BY <1>1, <2>2, <3>1
  <2> QED BY <2>1, <2>2
<1> QED BY <1>2, <1>3

\* What an answer makes of its job.
Rolled(j) == j = "opening" /\ Rollover(job[j].balance)

Todo(j) ==
    IF job[j].balance = 0 THEN IF holds = <<>> \/ Rolled(j) THEN "nothing" ELSE "close"
    ELSE IF holds = <<>> THEN "register"
    ELSE IF Len(holds) = 1 /\ Quantity(holds) # job[j].balance THEN "correct"
    ELSE "nothing"

LEMMA AnsweredFacts ==
    ASSUME TypeOK, Good(holds), JobInv, NEW j \in Tasks, Answered(j)
    PROVE  LET b == job'[j] IN
           /\ job' \in [Tasks -> Jobs] /\ \A k \in Tasks \ {j} : job'[k] = job[k]
           /\ job[j].pc = "asked" /\ b.pc = "told" /\ b.todo = Todo(j) /\ b.force = ~Rolled(j)
           /\ b.row = IF Todo(j) = "correct" THEN holds[1].name ELSE job[j].row
           /\ b.calls = IF Todo(j) = "close" THEN Len(holds) ELSE 0
           /\ b.balance = IF Todo(j) \in {"register", "correct"} THEN job[j].balance ELSE 0
           /\ b.quiet => job[j].quiet /\ ~Rolled(j) /\ (job[j].balance = 0 \/ Len(holds) <= 1)
<1> DEFINE todo == Todo(j)
           row == IF todo = "correct" THEN holds[1].name ELSE job[j].row
           calls == IF todo = "close" THEN Len(holds) ELSE 0
           balance == IF todo \in {"register", "correct"} THEN job[j].balance ELSE 0
           force == ~Rolled(j)
           quiet == job[j].quiet /\ ~Rolled(j) /\ (job[j].balance = 0 \/ Len(holds) <= 1)
           new == [job[j] EXCEPT !.pc = "told", !.todo = todo, !.force = force, !.row = row,
                                 !.calls = calls, !.balance = balance, !.quiet = quiet]
<1>1. job' = [job EXCEPT ![j] = new] /\ job[j].pc = "asked"
  BY DEF Answered, At, Todo, Rolled
<1>2. job \in [Tasks -> Jobs] /\ job[j] \in Jobs
  BY DEF TypeOK
<1>3. todo \in {"nothing", "close", "register", "correct"}
  BY DEF Todo
<1>4. row \in Names
  <2>1. todo = "correct" => Len(holds) = 1
    BY DEF Todo
  <2> HIDE DEF todo
  <2> QED BY <1>2, <2>1, SeqFacts, JobFields DEF Good
<1>5. Len(holds) \in Nat /\ Len(holds) <= Cardinality(Names) /\ Cardinality(Names) \in Nat
  BY TradersFinite, FewRows, SeqFacts, FS_CardinalityType DEF Good
<1>6. calls \in 0..Cardinality(Names)
  <2> HIDE DEF todo
  <2> QED BY <1>5
<1>7. balance \in 0..MaxShares
  <2> HIDE DEF todo
  <2> QED BY <1>2, TradersFinite, JobFields
<1>8. force \in BOOLEAN /\ quiet \in BOOLEAN
  BY <1>2, JobFields
<1> HIDE DEF todo, row, calls, balance, force, quiet
<1>9. /\ new \in Jobs /\ new.pc = "told" /\ new.todo = todo /\ new.force = force /\ new.row = row
      /\ new.calls = calls /\ new.balance = balance /\ new.quiet = quiet
  BY <1>2, <1>3, <1>4, <1>6, <1>7, <1>8 DEF Jobs
<1> HIDE DEF new
<1>10. job' \in [Tasks -> Jobs] /\ job'[j] = new /\ \A k \in Tasks \ {j} : job'[k] = job[k]
  BY <1>1, <1>2, <1>9
<1> QED BY <1>1, <1>9, <1>10 DEF todo, row, calls, balance, force, quiet

\* What a write makes of the jobs: the writer goes on, the other is disturbed unless the
\* writer is quiet.
LEMMA WritesFacts ==
    ASSUME TypeOK, NEW j \in Tasks, NEW b \in Jobs, Writes(j, [job EXCEPT ![j] = b])
    PROVE  /\ job' \in [Tasks -> Jobs] /\ job'[j] = b
           /\ \A k \in Tasks \ {j} :
                 /\ Alike(job[k], job'[k])
                 /\ job'[k].quiet => job[j].quiet \/ job[k].pc = "idle"
<1> DEFINE jobs == [job EXCEPT ![j] = b]
<1>1. jobs \in [Tasks -> Jobs] /\ jobs[j] = b /\ \A k \in Tasks \ {j} : jobs[k] = job[k]
  BY DEF TypeOK
<1>2. job' = IF job[j].quiet THEN jobs ELSE Disturb(jobs, j)
  BY DEF Writes
<1> HIDE DEF jobs
<1>3. CASE job[j].quiet
  BY <1>1, <1>2, <1>3 DEF Alike
<1>4. CASE ~job[j].quiet
  <2>1. job' = Disturb(jobs, j)
    BY <1>2, <1>4
  <2> QED BY <1>1, <2>1, DisturbFacts
<1> QED BY <1>3, <1>4

-----------------------------------------------------------------------------
(* The steps *)

\* The invariant of the next state, from its parts.
LEMMA Parts ==
    ASSUME shares' \in Holdings, reports' \in [Traders -> Reports], Good(holds'),
           job' \in [Tasks -> Jobs], done' \in [Tasks -> BOOLEAN], paper' \in BOOLEAN,
           fresh' \in BOOLEAN, saved' \in {"none", "this", "other"}, BalanceInv', FreshInv',
           \A k \in Tasks : JobOK(job'[k]) /\ QuietOK(job'[k], Balance', holds')
    PROVE  IInv'
<1>1. Len(holds') <= Cardinality(Names) /\ \A i \in DOMAIN holds' : holds'[i] \in Rows
  BY TradersFinite, FewRows, SeqFacts DEF Good
<1>2. TypeOK'
  BY <1>1 DEF TypeOK, Holdings
<1>3. Good(holds)'
  BY DEF Good, OneEach, Rows, Names, Traders, Quantities
<1>4. JobInv' /\ QuietInv'
  BY DEF JobInv, QuietInv, JobOK, QuietOK, OnCourse, Single
<1> QED BY <1>2, <1>3, <1>4 DEF IInv

LEMMA SameShares ==
    ASSUME shares' = shares
    PROVE  Balance' = Balance
BY DEF Balance, FoldFunction, FoldFunctionOnSet, MapThenFoldSet

LEMMA TradeStep ==
    ASSUME IInv, NEW t \in Traders, Buys(t) \/ Sells(t)
    PROVE  IInv'
<1> DEFINE Total == FoldFunction(+, 0, shares)
<1>1. /\ shares \in Holdings /\ Total \in 0..MaxShares /\ Balance = Total
      /\ Lots \subseteq 1..MaxShares /\ MaxShares \in Nat
  BY ConstantsAssumption DEF IInv, TypeOK, Holdings, BalanceInv, ConstantsAssumption, Balance
<1>2. shares[t] \in 0..MaxShares /\ shares[t] <= Total
  BY <1>1, BalanceChange, TradersFinite DEF Holdings
<1>3. PICK side \in {"BUY", "SELL"}, n \in Lots :
         /\ Trade(t, side, n)
         /\ IF side = "BUY" THEN Total + n <= MaxShares ELSE n <= shares[t]
  BY <1>1 DEF Buys, Sells
<1> DEFINE new == IF side = "BUY" THEN shares[t] + n ELSE shares[t] - n
<1>4. shares' = [shares EXCEPT ![t] = new]
  BY <1>3 DEF Trade
<1> HIDE DEF Total
<1>5. new \in 0..MaxShares /\ Total - shares[t] + new \in 0..MaxShares
  BY <1>1, <1>2, <1>3
<1>6. FoldFunction(+, 0, [shares EXCEPT ![t] = new]) = Total - shares[t] + new
  <2> HIDE DEF new
  <2> QED BY <1>1, <1>5, BalanceChange DEF Total
<1> HIDE DEF new
<1>7. shares' \in Holdings /\ BalanceInv'
  <2>1. Balance' = FoldFunction(+, 0, shares')
    BY DEF Balance, FoldFunction, FoldFunctionOnSet, MapThenFoldSet
  <2>2. Balance' = Total - shares[t] + new
    BY <1>4, <1>6, <2>1
  <2> QED BY <1>1, <1>4, <1>5, <2>2 DEF Holdings, BalanceInv
<1>8. reports' \in [Traders -> Reports]
  <2>1. [side |-> side, qty |-> n] \in Reports
    BY <1>3 DEF Reports
  <2> QED BY <1>3, <2>1 DEF Trade, IInv, TypeOK
<1>9. job' = Disturb(job, "none") /\ fresh' = FALSE /\ UNCHANGED <<holds, done, paper, saved>>
  BY <1>3 DEF Trade
<1>10. job \in [Tasks -> Jobs] /\ "none" \notin Tasks
  BY DEF IInv, TypeOK, Tasks
<1>11. /\ job' \in [Tasks -> Jobs]
       /\ \A k \in Tasks : Alike(job[k], job'[k]) /\ (job'[k].quiet => job[k].pc = "idle")
  BY <1>9, <1>10, DisturbFacts
<1>12. \A k \in Tasks : JobOK(job'[k]) /\ QuietOK(job'[k], Balance', holds')
  BY <1>11 DEF IInv, JobInv, JobOK, QuietOK, Alike
<1>13. FreshInv'
  BY <1>9 DEF FreshInv
<1> QED BY <1>7, <1>8, <1>9, <1>11, <1>12, <1>13, Parts DEF IInv, TypeOK

LEMMA LoggedStep ==
    ASSUME IInv, NEW t \in Traders, Logged(t)
    PROVE  IInv'
<1>1. /\ reports[t] # NoReport /\ reports' = [reports EXCEPT ![t] = NoReport]
      /\ holds' = IF reports[t].side = "BUY" THEN Bought(holds, t, reports[t].qty)
                  ELSE Sold(holds, Whose(t), reports[t].qty)
      /\ job' = Disturb(job, "none") /\ UNCHANGED <<shares, done, paper, saved, fresh>>
  BY DEF Logged
<1>2. reports[t].qty \in Quantities
  <2>1. reports[t] \in [side : {"BUY", "SELL"}, qty : Lots]
    BY <1>1 DEF IInv, TypeOK, Reports, NoReport
  <2>2. Lots \subseteq Quantities
    BY ConstantsAssumption DEF ConstantsAssumption, Quantities
  <2> QED BY <2>1, <2>2
<1>3. Good(holds')
  <2>1. Good(holds) /\ t \in Names /\ (Whose(t) = Names \/ \E name : Whose(t) = {name})
    BY DEF IInv, Names, Whose
  <2> QED BY <1>1, <1>2, <2>1, BoughtFacts, SoldFacts
<1>4. job \in [Tasks -> Jobs] /\ "none" \notin Tasks
  BY DEF IInv, TypeOK, Tasks
<1>5. /\ job' \in [Tasks -> Jobs]
      /\ \A k \in Tasks : Alike(job[k], job'[k]) /\ (job'[k].quiet => job[k].pc = "idle")
  BY <1>1, <1>4, DisturbFacts
<1>6. \A k \in Tasks : JobOK(job'[k]) /\ QuietOK(job'[k], Balance', holds')
  BY <1>5 DEF IInv, JobInv, JobOK, QuietOK, Alike
<1>7. ~(fresh /\ paper)
  BY <1>1 DEF IInv, FreshInv
<1>8. FreshInv'
  BY <1>1, <1>7 DEF FreshInv
<1>9. reports' \in [Traders -> Reports] /\ shares' \in Holdings /\ BalanceInv'
  BY <1>1, SameShares DEF IInv, TypeOK, Reports, NoReport, Holdings, BalanceInv
<1> QED BY <1>1, <1>3, <1>5, <1>6, <1>8, <1>9, Parts DEF IInv, TypeOK

\* Steps that write nothing and leave the other jobs alone.
LEMMA JobStep ==
    ASSUME IInv, NEW j \in Tasks, job' \in [Tasks -> Jobs],
           \A k \in Tasks \ {j} : job'[k] = job[k],
           JobOK(job'[j]), QuietOK(job'[j], Balance, holds), FreshInv',
           UNCHANGED <<shares, reports, holds, paper, saved, fresh>>,
           done' \in [Tasks -> BOOLEAN]
    PROVE  IInv'
<1>1. Balance' = Balance
  BY SameShares
<1>2. shares' \in Holdings /\ reports' \in [Traders -> Reports] /\ Good(holds') /\ BalanceInv'
  BY <1>1 DEF IInv, TypeOK, Holdings, BalanceInv
<1>3. \A k \in Tasks : JobOK(job'[k]) /\ QuietOK(job'[k], Balance', holds')
  BY <1>1 DEF IInv, JobInv, QuietInv
<1> QED BY <1>2, <1>3, Parts DEF IInv, TypeOK

LEMMA AskStep ==
    ASSUME IInv, NEW j \in Tasks, Ask(j)
    PROVE  IInv'
<1> DEFINE b == [NoJob EXCEPT !.pc = "asked", !.balance = Balance]
<1>1. job' = [job EXCEPT ![j] = b] /\ UNCHANGED <<shares, reports, holds, paper, saved, fresh>>
  BY DEF Ask
<1>2. done' \in [Tasks -> BOOLEAN]
  BY DEF Ask, IInv, TypeOK
<1>3. job \in [Tasks -> Jobs] /\ Balance \in 0..MaxShares
  BY DEF IInv, TypeOK, BalanceInv
<1>4. b \in Jobs /\ b.pc = "asked" /\ b.balance = Balance /\ b.todo = "nothing" /\ b.calls = 0
  BY <1>3, NoJobFacts DEF NoJob, Jobs
<1> HIDE DEF b
<1>5. job' \in [Tasks -> Jobs] /\ job'[j] = b /\ \A k \in Tasks \ {j} : job'[k] = job[k]
  BY <1>1, <1>3, <1>4
<1>6. JobOK(b) /\ QuietOK(b, Balance, holds)
  BY <1>4 DEF JobOK, QuietOK
<1>7. FreshInv'
  <2> SUFFICES ASSUME fresh, paper PROVE FreshInv'
    BY <1>1 DEF FreshInv
  <2>1. \A t \in Traders : shares[t] = 0
    BY DEF IInv, FreshInv
  <2>2. Balance = 0
    BY <2>1, EmptyBalance DEF IInv, TypeOK, Holdings, Balance
  <2>3. \A k \in Tasks : job'[k].balance = 0 /\ job'[k].todo \in {"nothing", "close"}
    BY <1>4, <1>5, <2>2 DEF IInv, FreshInv
  <2>4. "opening" \in Tasks
    BY DEF Tasks
  <2>5. CASE j = "opening"
    BY <1>1, <1>4, <1>5, <2>3, <2>5 DEF IInv, FreshInv, At
  <2>6. CASE j # "opening"
    BY <1>1, <1>5, <2>3, <2>4, <2>6 DEF IInv, FreshInv, At
  <2> QED BY <2>5, <2>6
<1> QED BY <1>1, <1>2, <1>5, <1>6, <1>7, JobStep

LEMMA AnsweredStep ==
    ASSUME IInv, NEW j \in Tasks, Answered(j)
    PROVE  IInv'
<1> DEFINE b == job'[j]
<1>1. TypeOK /\ Good(holds) /\ JobInv
  BY DEF IInv
<1>2. /\ job' \in [Tasks -> Jobs] /\ \A k \in Tasks \ {j} : job'[k] = job[k]
      /\ job[j].pc = "asked" /\ b.pc = "told" /\ b.todo = Todo(j) /\ b.force = ~Rolled(j)
      /\ b.row = IF Todo(j) = "correct" THEN holds[1].name ELSE job[j].row
      /\ b.calls = IF Todo(j) = "close" THEN Len(holds) ELSE 0
      /\ b.balance = IF Todo(j) \in {"register", "correct"} THEN job[j].balance ELSE 0
      /\ b.quiet => job[j].quiet /\ ~Rolled(j) /\ (job[j].balance = 0 \/ Len(holds) <= 1)
  BY <1>1, AnsweredFacts
<1>3. UNCHANGED <<shares, reports, holds, done, paper, saved, fresh>>
  BY DEF Answered
<1>4. job[j].balance \in Nat
  BY JobFields DEF IInv, TypeOK
<1>5. Len(holds) \in Nat /\ (holds = <<>> <=> Len(holds) = 0)
  BY <1>1, SeqFacts DEF Good
<1> HIDE DEF b
<1>6. Todo(j) \in {"register", "correct"} => job[j].balance # 0
  BY DEF Todo
<1>7. JobOK(b)
  BY <1>2, <1>4, <1>6 DEF JobOK
<1>8. QuietOK(b, Balance, holds)
  <2> SUFFICES ASSUME b.quiet PROVE OnCourse(b, Balance, holds)
    BY <1>2 DEF QuietOK
  <2>1. job[j].balance = Balance /\ ~Rolled(j) /\ (job[j].balance = 0 \/ Len(holds) <= 1)
    BY <1>2 DEF IInv, QuietInv, QuietOK
  <2>2. Len(holds) = 1 => Quantity(holds) = holds[1].qty
    BY <1>1, QuantityOfOne DEF Good
  <2>3. CASE Balance = 0
    BY <1>2, <1>5, <2>1, <2>3 DEF Todo, OnCourse
  <2>4. CASE Balance # 0 /\ holds = <<>>
    BY <1>2, <2>1, <2>4 DEF Todo, OnCourse
  <2>5. CASE Balance # 0 /\ holds # <<>>
    <3>1. Len(holds) = 1
      <4> DEFINE n == Len(holds)
      <4>1. n \in Nat /\ n <= 1 /\ n # 0
        BY <1>5, <2>1, <2>5
      <4> HIDE DEF n
      <4>2. n = 1
        BY <4>1
      <4> QED BY <4>2 DEF n
    <3>2. CASE Quantity(holds) # Balance
      <4>1. Todo(j) = "correct"
        BY <2>1, <2>5, <3>1, <3>2 DEF Todo
      <4> QED BY <1>2, <2>1, <3>1, <4>1 DEF OnCourse
    <3>3. CASE Quantity(holds) = Balance
      <4>1. Todo(j) = "nothing"
        BY <2>1, <2>5, <3>1, <3>3 DEF Todo
      <4> QED BY <1>2, <2>2, <3>1, <3>3, <4>1 DEF OnCourse, Single
    <3> QED BY <3>2, <3>3
  <2> QED BY <2>3, <2>4, <2>5
<1>9. FreshInv'
  <2> SUFFICES ASSUME fresh, paper PROVE FreshInv'
    BY <1>3 DEF FreshInv
  <2>1. job[j].balance = 0
    BY DEF IInv, FreshInv
  <2>2. b.balance = 0 /\ b.todo \in {"nothing", "close"}
    BY <1>2, <2>1 DEF Todo
  <2>3. ASSUME j = "opening"
        PROVE  b.todo = "nothing" /\ (saved = "this" \/ b.force => holds = <<>>)
    <3>1. saved \in {"none", "this", "other"} /\ (saved = "this" => holds = <<>>)
      BY DEF IInv, TypeOK, FreshInv
    <3>2. Rolled(j) <=> holds # <<>>
      BY <2>1, <2>3, <3>1 DEF Rolled, Rollover
    <3> QED BY <1>2, <2>1, <3>1, <3>2 DEF Todo
  <2>4. \A k \in Tasks : job'[k].balance = 0 /\ job'[k].todo \in {"nothing", "close"}
    BY <1>2, <2>2 DEF b, IInv, FreshInv
  <2>5. "opening" \in Tasks
    BY DEF Tasks
  <2>6. CASE j = "opening"
    BY <1>3, <2>3, <2>4, <2>6 DEF b, IInv, FreshInv, At
  <2>7. CASE j # "opening"
    BY <1>2, <1>3, <2>4, <2>5, <2>7 DEF IInv, FreshInv, At
  <2> QED BY <2>6, <2>7
<1> QED BY <1>2, <1>3, <1>7, <1>8, <1>9, JobStep DEF b, IInv, TypeOK

LEMMA FailsStep ==
    ASSUME IInv, NEW j \in Tasks, Fails(j)
    PROVE  IInv'
<1>1. job' = [job EXCEPT ![j] = NoJob] /\ UNCHANGED <<shares, reports, holds, done, paper, saved, fresh>>
  BY DEF Fails
<1>2. job' \in [Tasks -> Jobs] /\ job'[j] = NoJob /\ \A k \in Tasks \ {j} : job'[k] = job[k]
  BY <1>1, NoJobFacts DEF IInv, TypeOK
<1>3. JobOK(NoJob) /\ QuietOK(NoJob, Balance, holds)
  BY NoJobFacts DEF QuietOK
<1>4. FreshInv'
  <2>1. "opening" \in Tasks
    BY DEF Tasks
  <2> QED BY <1>1, <1>2, <2>1, NoJobFacts DEF IInv, FreshInv, At
<1> QED BY <1>1, <1>2, <1>3, <1>4, JobStep DEF IInv, TypeOK

\* A call of log_sell by an undisturbed job: the account has nothing, and the other one,
\* if undisturbed, is closing too or has nothing to do.
LEMMA ForceKeeps ==
    ASSUME NEW rows, Good(rows), NEW b \in Jobs, JobOK(b), QuietOK(b, 0, rows)
    PROVE  QuietOK(b, 0, Sold(rows, Names, MaxShares))
<1> DEFINE new == Sold(rows, Names, MaxShares)
<1>0. MaxShares \in Quantities
  BY TradersFinite DEF Quantities
<1>1. Good(new) /\ (rows = <<>> => new = <<>>) /\ (rows # <<>> => Len(new) = Len(rows) - 1)
  BY <1>0, SoldFacts
<1>2. Len(rows) \in Nat /\ (rows = <<>> => Len(rows) = 0) /\ b.calls \in Nat /\ b.balance \in Nat
  BY SeqFacts, JobFields DEF Good
<1>3. ~Single(rows, 0)
  <2> SUFFICES ASSUME Len(rows) = 1, rows[1].qty = 0 PROVE FALSE
    BY DEF Single
  <2>1. rows[1].qty \in Quantities
    BY SeqFacts DEF Good
  <2> QED BY <2>1 DEF Quantities
<1> HIDE DEF new
<1>4. Len(new) <= Len(rows)
  <2>1. CASE rows = <<>>
    BY <1>1, <1>2, <2>1
  <2>2. CASE rows # <<>>
    BY <1>1, <1>2, <2>2
  <2> QED BY <2>1, <2>2
<1> SUFFICES ASSUME b.quiet, b.pc = "told" PROVE OnCourse(b, 0, new)
  BY DEF QuietOK, new
<1>5. OnCourse(b, 0, rows)
  BY DEF QuietOK
<1>6. b.todo = "close" => Len(new) <= b.calls
  <2> SUFFICES ASSUME b.todo = "close" PROVE Len(new) <= b.calls
    OBVIOUS
  <2>1. Len(rows) <= b.calls /\ Len(new) \in Nat
    BY <1>1, <1>5, SeqFacts DEF OnCourse, Good
  <2> QED BY <1>2, <1>4, <2>1
<1>7. b.todo \notin {"register", "correct"}
  BY <1>2, <1>5 DEF OnCourse, JobOK
<1>8. b.todo = "nothing" => new = <<>>
  BY <1>1, <1>3, <1>5 DEF OnCourse
<1> QED BY <1>6, <1>7, <1>8 DEF OnCourse

\* What a job books at its end.
Entry(b, rows) ==
    IF b.todo = "register" THEN Bought(rows, Reconciled, b.balance)
    ELSE IF b.todo = "correct" THEN Corrected(rows, b.row, b.balance)
    ELSE rows

LEMMA BookedIsEntry == ASSUME NEW j \in Tasks PROVE Booked(j) = Entry(job[j], holds)
BY DEF Booked, Entry

LEMMA EntryGood ==
    ASSUME NEW rows, Good(rows), NEW b \in Jobs, JobOK(b)
    PROVE  Good(Entry(b, rows))
<1>1. b.todo \in {"register", "correct"} => b.balance \in Quantities
  BY JobFields DEF JobOK
<1>2. Reconciled \in Names
  BY DEF Names
<1> QED BY <1>1, <1>2, BoughtFacts, CorrectedFacts DEF Entry

\* An undisturbed job ends: the only row, if any, has the quantity of the account.
LEMMA EntryBooks ==
    ASSUME NEW rows, Good(rows), NEW b \in Jobs, JobOK(b), NEW n \in Nat,
           b.calls = 0, OnCourse(b, n, rows)
    PROVE  (Entry(b, rows) = <<>> /\ n = 0) \/ Single(Entry(b, rows), n)
<1>0. b.todo \in {"nothing", "close", "register", "correct"}
      /\ (b.todo \in {"register", "correct"} => b.balance \in Quantities)
  BY JobFields DEF JobOK
<1>1. CASE b.todo = "nothing"
  BY <1>1 DEF OnCourse, Entry
<1>2. CASE b.todo = "close"
  <2>1. n = 0 /\ Len(rows) <= 0 /\ Len(rows) \in Nat
    BY <1>2, SeqFacts DEF OnCourse, Good
  <2>2. rows = <<>>
    <3>1. Len(rows) = 0
      BY <2>1
    <3> QED BY <3>1, SeqFacts DEF Good
  <2> QED BY <1>2, <2>1, <2>2 DEF Entry
<1>3. CASE b.todo = "register"
  <2> DEFINE new == Bought(rows, Reconciled, b.balance)
  <2>1. Entry(b, rows) = new /\ b.balance = n
    BY <1>3 DEF Entry, OnCourse
  <2>2. /\ Good(new)
        /\ IF Holding(rows, Reconciled) THEN new = rows
           ELSE rows = <<>> => Len(new) = 1 /\ new[1] = [name |-> Reconciled, qty |-> b.balance]
    BY <1>0, <1>3, BoughtFacts DEF Names
  <2> HIDE DEF new
  <2>3. CASE rows = <<>>
    <3>1. ~Holding(rows, Reconciled)
      BY <2>3 DEF Holding
    <3> QED BY <2>1, <2>2, <2>3, <3>1 DEF Single
  <2>4. CASE Single(rows, n) /\ rows[1].name = Reconciled
    <3>1. Holding(rows, Reconciled)
      BY <2>4, SeqFacts DEF Holding, Single, Good
    <3> QED BY <2>1, <2>2, <2>4, <3>1
  <2> QED BY <1>3, <2>3, <2>4 DEF OnCourse
<1>4. CASE b.todo = "correct"
  <2>1. Entry(b, rows) = Corrected(rows, b.row, b.balance) /\ b.balance = n
        /\ Len(rows) = 1 /\ rows[1].name = b.row
    BY <1>4 DEF Entry, OnCourse
  <2> QED BY <1>0, <1>4, <2>1, CorrectedFacts DEF Single
<1> QED BY <1>0, <1>1, <1>2, <1>3, <1>4

\* The same write leaves the other one on its course.
LEMMA EntryKeeps ==
    ASSUME NEW rows, Good(rows), NEW b \in Jobs, JobOK(b), NEW n \in Nat,
           b.calls = 0, OnCourse(b, n, rows),
           NEW c \in Jobs, JobOK(c), QuietOK(c, n, rows)
    PROVE  QuietOK(c, n, Entry(b, rows))
<1> SUFFICES ASSUME OnCourse(c, n, rows) PROVE OnCourse(c, n, Entry(b, rows))
  BY DEF QuietOK
<1>0. /\ b.todo \in {"nothing", "close", "register", "correct"}
      /\ (b.todo \in {"register", "correct"} => b.balance > 0 /\ b.balance \in Quantities)
      /\ c.todo \in {"nothing", "close", "register", "correct"}
      /\ (c.todo \in {"register", "correct"} => c.balance > 0)
  BY JobFields DEF JobOK
<1>1. CASE Entry(b, rows) = rows
  BY <1>1
<1>2. CASE b.todo = "register" /\ Entry(b, rows) # rows
  <2> DEFINE new == Bought(rows, Reconciled, b.balance)
  <2>1. Entry(b, rows) = new /\ b.balance = n /\ n > 0
    BY <1>0, <1>2 DEF Entry, OnCourse
  <2>2. ~Holding(rows, Reconciled)
    BY <1>2, <2>1 DEF Bought
  <2>3. rows = <<>>
    <3>1. ~(Single(rows, n) /\ rows[1].name = Reconciled)
      BY <2>2, SeqFacts DEF Holding, Single, Good
    <3> QED BY <1>2, <3>1 DEF OnCourse
  <2>4. Len(new) = 1 /\ new[1] = [name |-> Reconciled, qty |-> b.balance]
    BY <1>0, <1>2, <2>2, <2>3, BoughtFacts DEF Names
  <2>5. Len(rows) = 0
    BY <2>3
  <2>6. c.todo = "register"
    BY <1>0, <2>1, <2>5 DEF OnCourse, Single
  <2> HIDE DEF new
  <2> QED BY <2>1, <2>4, <2>6 DEF OnCourse, Single
<1>3. CASE b.todo = "correct"
  <2> DEFINE new == Corrected(rows, b.row, b.balance)
  <2>1. Entry(b, rows) = new /\ b.balance = n /\ n > 0 /\ Len(rows) = 1 /\ rows[1].name = b.row
    BY <1>0, <1>3 DEF Entry, OnCourse
  <2>2. Len(new) = 1 /\ new[1].name = rows[1].name /\ new[1].qty = n
    BY <1>0, <1>3, <2>1, CorrectedFacts
  <2>3. rows # <<>>
    <3>1. rows = <<>> => Len(rows) = 0
      BY SeqFacts DEF Good
    <3> QED BY <2>1, <3>1
  <2> HIDE DEF new
  <2>4. c.todo # "close"
    BY <2>1 DEF OnCourse
  <2> QED BY <1>0, <2>1, <2>2, <2>3, <2>4 DEF OnCourse, Single
<1> QED BY <1>0, <1>1, <1>2, <1>3 DEF Entry

\* The same job in another guise is as undisturbed.
LEMMA AlikeFacts ==
    ASSUME NEW a, NEW b, Alike(a, b), NEW n, NEW rows
    PROVE  (JobOK(a) => JobOK(b)) /\ (QuietOK(a, n, rows) => QuietOK(b, n, rows))
BY DEF Alike, JobOK, QuietOK, OnCourse

LEMMA UnloggedStep ==
    ASSUME IInv, NEW t \in Traders, Unlogged(t)
    PROVE  IInv'
<1>1. /\ reports[t] # NoReport /\ reports' = [reports EXCEPT ![t] = NoReport]
      /\ UNCHANGED <<shares, holds, job, done, paper, saved, fresh>>
  BY DEF Unlogged
<1>2. ~(fresh /\ paper)
  BY <1>1 DEF IInv, FreshInv
<1>3. FreshInv'
  BY <1>1, <1>2 DEF FreshInv
<1>4. Balance' = Balance
  BY <1>1, SameShares
<1>5. reports' \in [Traders -> Reports] /\ shares' \in Holdings /\ BalanceInv'
  BY <1>1, <1>4 DEF IInv, TypeOK, Reports, NoReport, Holdings, BalanceInv
<1>6. \A k \in Tasks : JobOK(job'[k]) /\ QuietOK(job'[k], Balance', holds')
  BY <1>1, <1>4 DEF IInv, JobInv, QuietInv
<1> QED BY <1>1, <1>3, <1>5, <1>6, Parts DEF IInv, TypeOK

LEMMA ForceCloseStep ==
    ASSUME IInv, NEW j \in Tasks, ForceClose(j)
    PROVE  IInv'
<1> DEFINE b == [job[j] EXCEPT !.calls = job[j].calls - 1]
           new == Sold(holds, Names, MaxShares)
<1>1. /\ job[j].pc = "told" /\ job[j].calls > 0 /\ holds' = new
      /\ UNCHANGED <<shares, reports, done, paper, saved, fresh>>
  BY DEF ForceClose, At
<1>2. Writes(j, [job EXCEPT ![j] = b])
  BY DEF ForceClose
<1>3. /\ TypeOK /\ Good(holds) /\ job[j] \in Jobs /\ job[j].calls \in Nat /\ JobOK(job[j])
      /\ Cardinality(Names) \in Nat
  BY JobFields, TradersFinite, FS_CardinalityType DEF IInv, JobInv, TypeOK
<1>4. job[j].todo = "close"
  BY <1>1, <1>3 DEF JobOK
<1>5. /\ b \in Jobs /\ b.pc = "told" /\ b.todo = "close" /\ b.calls = job[j].calls - 1
      /\ b.balance = job[j].balance /\ b.quiet = job[j].quiet /\ b.force = job[j].force
  <2>1. job[j].calls - 1 \in 0..Cardinality(Names)
    BY <1>1, <1>3, JobFields
  <2> QED BY <1>1, <1>3, <1>4, <2>1 DEF Jobs
<1> HIDE DEF b
<1>6. /\ job' \in [Tasks -> Jobs] /\ job'[j] = b
      /\ \A k \in Tasks \ {j} : /\ Alike(job[k], job'[k])
                                /\ job'[k].quiet => job[j].quiet \/ job[k].pc = "idle"
  BY <1>2, <1>3, <1>5, WritesFacts
<1>7. /\ Good(new) /\ (holds = <<>> => new = <<>>)
      /\ (holds # <<>> => Len(new) = Len(holds) - 1)
  <2>1. MaxShares \in Quantities
    BY TradersFinite DEF Quantities
  <2> QED BY <1>3, <2>1, SoldFacts
<1> HIDE DEF new
<1>8. Balance' = Balance
  BY <1>1, SameShares
<1>9. JobOK(b) /\ \A k \in Tasks \ {j} : JobOK(job'[k])
  BY <1>5, <1>6, AlikeFacts DEF IInv, JobInv, JobOK
<1>10. ASSUME job[j].quiet
       PROVE  Balance = 0 /\ Len(holds) <= job[j].calls
  BY <1>1, <1>4, <1>10 DEF IInv, QuietInv, QuietOK, OnCourse
<1>11. QuietOK(b, Balance, new)
  <2> SUFFICES ASSUME b.quiet PROVE Balance = 0 /\ Len(new) <= job[j].calls - 1
    BY <1>5 DEF QuietOK, OnCourse
  <2>1. Balance = 0 /\ Len(holds) <= job[j].calls
    BY <1>5, <1>10
  <2>2. Len(holds) \in Nat /\ (new = <<>> => Len(new) = 0)
    BY <1>3, <1>7, SeqFacts DEF Good
  <2>3. CASE holds = <<>>
    BY <1>1, <1>3, <1>7, <2>1, <2>2, <2>3
  <2>4. CASE holds # <<>>
    BY <1>3, <1>7, <2>1, <2>2, <2>4
  <2> QED BY <2>1, <2>3, <2>4
<1>12. ASSUME NEW k \in Tasks \ {j}
       PROVE  QuietOK(job'[k], Balance, new)
  <2>1. Alike(job[k], job'[k]) /\ QuietOK(job[k], Balance, holds) /\ job[k] \in Jobs /\ JobOK(job[k])
    BY <1>6 DEF IInv, QuietInv, JobInv, TypeOK
  <2>2. CASE ~job'[k].quiet \/ job[k].pc = "idle"
    BY <2>1, <2>2 DEF QuietOK, Alike
  <2>3. CASE job[j].quiet
    <3>1. Balance = 0
      BY <1>10, <2>3
    <3>2. QuietOK(job[k], 0, new)
      BY <1>3, <2>1, <3>1, ForceKeeps DEF new
    <3> QED BY <2>1, <3>1, <3>2, AlikeFacts
  <2> QED BY <1>6, <2>2, <2>3
<1>13. FreshInv'
  <2> SUFFICES ASSUME fresh, paper PROVE FreshInv'
    BY <1>1 DEF FreshInv
  <2>1. "opening" \in Tasks \ {j}
    BY <1>4 DEF Tasks, IInv, FreshInv
  <2>2. Alike(job["opening"], job'["opening"])
    BY <1>6, <2>1
  <2>3. \A k \in Tasks : job'[k].balance = 0 /\ job'[k].todo \in {"nothing", "close"}
    BY <1>5, <1>6 DEF IInv, FreshInv, Alike
  <2> QED BY <1>1, <1>7, <2>2, <2>3 DEF IInv, FreshInv, Alike, At
<1>14. shares' \in Holdings /\ BalanceInv'
  BY <1>1, <1>8 DEF IInv, TypeOK, Holdings, BalanceInv
<1>15. \A k \in Tasks : JobOK(job'[k]) /\ QuietOK(job'[k], Balance', holds')
  BY <1>1, <1>6, <1>8, <1>9, <1>11, <1>12
<1> QED BY <1>1, <1>6, <1>7, <1>13, <1>14, <1>15, Parts DEF IInv, TypeOK

LEMMA EndsStep ==
    ASSUME IInv, NEW j \in Tasks, Ends(j)
    PROVE  IInv'
<1> DEFINE new == Entry(job[j], holds)
<1>1. /\ job[j].pc = "told" /\ job[j].calls = 0
      /\ Writes(j, [job EXCEPT ![j] = NoJob]) /\ done' = [done EXCEPT ![j] = TRUE]
      /\ saved' = IF j = "opening" /\ paper /\ job[j].force THEN "this" ELSE saved
      /\ UNCHANGED <<shares, reports, paper, fresh>>
  BY DEF Ends, At
<1>2. holds' = new
  BY BookedIsEntry DEF Ends
<1>3. TypeOK /\ Good(holds) /\ job[j] \in Jobs /\ JobOK(job[j]) /\ Balance \in Nat
  BY TradersFinite DEF IInv, JobInv, TypeOK, BalanceInv
<1>4. /\ job' \in [Tasks -> Jobs] /\ job'[j] = NoJob
      /\ \A k \in Tasks \ {j} : /\ Alike(job[k], job'[k])
                                /\ job'[k].quiet => job[j].quiet \/ job[k].pc = "idle"
  BY <1>1, <1>3, NoJobFacts, WritesFacts
<1>5. Good(new)
  BY <1>3, EntryGood
<1> HIDE DEF new
<1>6. Balance' = Balance
  BY <1>1, SameShares
<1>7. JobOK(NoJob) /\ QuietOK(NoJob, Balance, new)
  BY NoJobFacts DEF QuietOK
<1>8. ASSUME NEW k \in Tasks \ {j}
      PROVE  JobOK(job'[k]) /\ QuietOK(job'[k], Balance, new)
  <2>1. Alike(job[k], job'[k]) /\ QuietOK(job[k], Balance, holds) /\ job[k] \in Jobs /\ JobOK(job[k])
    BY <1>4 DEF IInv, QuietInv, JobInv, TypeOK
  <2>2. JobOK(job'[k])
    BY <2>1, AlikeFacts
  <2>3. CASE ~job'[k].quiet \/ job[k].pc = "idle"
    BY <2>1, <2>2, <2>3 DEF QuietOK, Alike
  <2>4. CASE job[j].quiet
    <3>1. OnCourse(job[j], Balance, holds)
      BY <1>1, <2>4 DEF IInv, QuietInv, QuietOK
    <3>2. QuietOK(job[k], Balance, new)
      BY <1>1, <1>3, <2>1, <3>1, EntryKeeps DEF new
    <3> QED BY <2>1, <2>2, <3>2, AlikeFacts
  <2> QED BY <1>4, <2>3, <2>4
<1>9. FreshInv'
  <2> SUFFICES ASSUME fresh, paper PROVE FreshInv'
    BY <1>1 DEF FreshInv
  <2>1. new = holds
    BY DEF IInv, FreshInv, new, Entry
  <2>2. \A k \in Tasks : job'[k].balance = 0 /\ job'[k].todo \in {"nothing", "close"}
    BY <1>4, NoJobFacts DEF IInv, FreshInv, Alike
  <2>3. saved' = "this" => holds = <<>>
    BY <1>1 DEF IInv, FreshInv, At
  <2>4. "opening" \in Tasks
    BY DEF Tasks
  <2>5. CASE j = "opening"
    BY <1>1, <1>2, <1>4, <2>1, <2>2, <2>3, <2>5, NoJobFacts DEF IInv, FreshInv, At
  <2>6. CASE j # "opening"
    <3>1. Alike(job["opening"], job'["opening"])
      BY <1>4, <2>4, <2>6
    <3> QED BY <1>1, <1>2, <2>1, <2>2, <2>3, <3>1 DEF IInv, FreshInv, At, Alike
  <2> QED BY <2>5, <2>6
<1>10. shares' \in Holdings /\ BalanceInv'
  BY <1>1, <1>6 DEF IInv, TypeOK, Holdings, BalanceInv
<1>11. \A k \in Tasks : JobOK(job'[k]) /\ QuietOK(job'[k], Balance', holds')
  BY <1>2, <1>4, <1>6, <1>7, <1>8
<1>12. done' \in [Tasks -> BOOLEAN] /\ saved' \in {"none", "this", "other"}
  BY <1>1 DEF IInv, TypeOK
<1> QED BY <1>1, <1>2, <1>4, <1>5, <1>9, <1>10, <1>11, <1>12, Parts DEF IInv, TypeOK

LEMMA NewDayStep ==
    ASSUME IInv, NewDay
    PROVE  IInv'
<1>1. "opening" \in Tasks
  BY DEF Tasks
<1>2. job' = job /\ UNCHANGED <<shares, reports, holds, paper, saved, fresh>>
  BY DEF NewDay
<1>3. FreshInv'
  BY <1>2 DEF IInv, FreshInv, At
<1> QED BY <1>1, <1>2, <1>3, JobStep DEF NewDay, IInv, TypeOK, JobInv, QuietInv

\* No job is under way.
LEMMA IdleJobs ==
    ASSUME job' = [j \in Tasks |-> NoJob]
    PROVE  /\ job' \in [Tasks -> Jobs] /\ \A k \in Tasks : job'[k] = NoJob
           /\ \A k \in Tasks : JobOK(job'[k]) /\ \A n, rows : QuietOK(job'[k], n, rows)
           /\ ~At("opening", "told")'
<1>1. job' \in [Tasks -> Jobs] /\ \A k \in Tasks : job'[k] = NoJob
  BY NoJobFacts
<1>2. "opening" \in Tasks
  BY DEF Tasks
<1> QED BY <1>1, <1>2, NoJobFacts DEF QuietOK, At

LEMMA RestartStep ==
    ASSUME IInv, Restart
    PROVE  IInv'
<1>1. /\ job' = [j \in Tasks |-> NoJob] /\ done' = [j \in Tasks |-> FALSE]
      /\ UNCHANGED <<shares, reports, holds, paper, saved, fresh>>
  BY DEF Restart
<1>2. Balance' = Balance
  BY <1>1, SameShares
<1>3. FreshInv'
  <2>1. "opening" \in Tasks
    BY DEF Tasks
  <2> QED BY <1>1, <2>1, IdleJobs, NoJobFacts DEF IInv, FreshInv
<1>4. shares' \in Holdings /\ BalanceInv' /\ Good(holds')
  BY <1>1, <1>2 DEF IInv, TypeOK, Holdings, BalanceInv
<1> QED BY <1>1, <1>3, <1>4, IdleJobs, Parts DEF IInv, TypeOK

LEMMA NewAccountStep ==
    ASSUME IInv, NewAccount
    PROVE  IInv'
<1>1. /\ paper /\ shares' = [t \in Traders |-> 0] /\ reports' = [t \in Traders |-> NoReport]
      /\ job' = [j \in Tasks |-> NoJob] /\ done' = [j \in Tasks |-> FALSE]
      /\ saved' = IF saved = "this" THEN "other" ELSE saved
      /\ fresh' = TRUE /\ UNCHANGED <<holds, paper>>
  BY DEF NewAccount
<1>2. shares' \in Holdings /\ reports' \in [Traders -> Reports]
  BY <1>1, TradersFinite DEF Holdings, Reports, NoReport
<1>3. BalanceInv'
  <2>1. Balance' = FoldFunction(+, 0, shares')
    BY DEF Balance, FoldFunction, FoldFunctionOnSet, MapThenFoldSet
  <2>2. FoldFunction(+, 0, [t \in Traders |-> 0]) = 0
    <3> DEFINE none == [t \in Traders |-> 0]
    <3>1. none \in Holdings /\ \A t \in Traders : none[t] = 0
      BY TradersFinite DEF Holdings
    <3> HIDE DEF none
    <3>2. FoldFunction(+, 0, none) = 0
      BY <3>1, EmptyBalance
    <3> QED BY <3>2 DEF none
  <2>3. Balance' = 0
    BY <1>1, <2>1, <2>2
  <2> QED BY <1>1, <2>3, TradersFinite DEF BalanceInv
<1>4. saved' \in {"none", "this", "other"} /\ saved' # "this"
  BY <1>1 DEF IInv, TypeOK
<1>5. FreshInv'
  <2>1. "opening" \in Tasks
    BY DEF Tasks
  <2> QED BY <1>1, <1>4, <2>1, IdleJobs, NoJobFacts DEF FreshInv
<1> QED BY <1>1, <1>2, <1>3, <1>4, <1>5, IdleJobs, Parts DEF IInv, TypeOK

LEMMA InitInv == ASSUME Init PROVE IInv
<1>1. /\ shares = [t \in Traders |-> 0] /\ reports = [t \in Traders |-> NoReport]
      /\ holds = <<>> /\ job = [j \in Tasks |-> NoJob] /\ done = [j \in Tasks |-> FALSE]
      /\ paper \in BOOLEAN /\ saved = "none" /\ fresh = FALSE
  BY DEF Init
<1>2. Good(holds) /\ Len(holds) <= Cardinality(Names) /\ \A i \in DOMAIN holds : holds[i] \in Rows
  <2>1. Good(<<>>)
    BY DEF Good, OneEach
  <2> QED BY <1>1, <2>1, TradersFinite, FewRows, SeqFacts DEF Good
<1>3. TypeOK
  <2>1. shares \in [Traders -> 0..MaxShares]
    BY <1>1, TradersFinite
  <2>2. reports \in [Traders -> Reports] /\ job \in [Tasks -> Jobs] /\ done \in [Tasks -> BOOLEAN]
    BY <1>1, NoJobFacts DEF Reports, NoReport
  <2> QED BY <1>1, <1>2, <2>1, <2>2 DEF TypeOK
<1>4. BalanceInv
  <2>1. Balance = 0
    BY <1>1, <1>3, EmptyBalance DEF Balance, TypeOK, Holdings
  <2> QED BY <2>1, TradersFinite DEF BalanceInv
<1>5. JobInv /\ QuietInv
  BY <1>1, NoJobFacts DEF JobInv, QuietInv, QuietOK
<1>6. FreshInv
  BY <1>1 DEF FreshInv
<1> QED BY <1>2, <1>3, <1>4, <1>5, <1>6 DEF IInv

LEMMA NextInv == ASSUME IInv, [Next]_vars PROVE IInv'
<1>1. CASE \E t \in Traders : Buys(t) \/ Sells(t) \/ Logged(t) \/ Unlogged(t)
  BY <1>1, TradeStep, LoggedStep, UnloggedStep
<1>2. CASE \E j \in Tasks : Ask(j) \/ Answered(j) \/ Fails(j) \/ Writing(j)
  BY <1>2, AskStep, AnsweredStep, FailsStep, ForceCloseStep, EndsStep DEF Writing
<1>3. CASE NewDay
  BY <1>3, NewDayStep
<1>4. CASE Restart
  BY <1>4, RestartStep
<1>5. CASE NewAccount
  BY <1>5, NewAccountStep
<1>6. CASE UNCHANGED vars
  <2>1. UNCHANGED <<shares, reports, holds, job, done, paper, saved, fresh>>
    BY <1>6 DEF vars
  <2>2. FreshInv'
    BY <2>1 DEF IInv, FreshInv, At
  <2>3. "opening" \in Tasks
    BY DEF Tasks
  <2> QED BY <2>1, <2>2, <2>3, JobStep DEF IInv, TypeOK, JobInv, QuietInv
<1> QED BY <1>1, <1>2, <1>3, <1>4, <1>5, <1>6 DEF Next

-----------------------------------------------------------------------------
(* The theorems *)

\* The ledger and its reconciliations are what the model says they are: every field of
\* every job and row is in its range, the account's total keeps its bound, an undisturbed
\* job knows what the account and the rows are, and a replaced account that has not traded
\* keeps its rows.
THEOREM LedgerInvariant == Spec => []IInv
BY InitInv, NextInv, PTL DEF Spec

\* Every variable has its type, for any number of strategies and shares.
THEOREM LedgerTyped == Spec => []TypeOK
<1>1. IInv => TypeOK
  BY DEF IInv
<1> QED BY <1>1, LedgerInvariant, PTL

\* A strategy has one HOLD row of the code, whatever reports and both reconciliations write
\* and in whatever order, for any number of strategies.
THEOREM OneRowEach == Spec => []OneHold
<1>1. IInv => OneHold
  BY SeqFacts DEF IInv, Good, OneEach, OneHold
<1> QED BY <1>1, LedgerInvariant, PTL

\* The rows of a paper account that was replaced are not force-closed by the opening task on
\* any day before the new account trades (_detect_paper_account_rollover and the note of the
\* account number after it).
THEOREM ReplacedAccountKeepsRows == Spec => []RolloverKeepsHolds
<1>1. "opening" \in Tasks
  BY DEF Tasks
<1>2. IInv => RolloverKeepsHolds
  BY <1>1 DEF IInv, FreshInv, JobInv, JobOK, RolloverKeepsHolds
<1> QED BY <1>2, LedgerInvariant, PTL

\* A reconciliation that nothing disturbed but another such leaves the quantity of the
\* account in the ledger, for any account and any number of rows it closes.
THEOREM UndisturbedRepairs == Spec => RepairsBooks
<1>1. ASSUME IInv, [Next]_vars
      PROVE  [\A j \in Tasks : Ends(j) /\ job[j].quiet => Quantity(holds') = Balance]_vars
  <2> SUFFICES ASSUME NEW j \in Tasks, Ends(j), job[j].quiet
               PROVE  Quantity(holds') = Balance
    OBVIOUS
  <2> DEFINE new == Entry(job[j], holds)
  <2>1. job[j].pc = "told" /\ job[j].calls = 0 /\ holds' = new
    BY BookedIsEntry DEF Ends, At
  <2>2. Good(holds) /\ job[j] \in Jobs /\ JobOK(job[j]) /\ Balance \in Nat
    BY <1>1, TradersFinite DEF IInv, JobInv, TypeOK, BalanceInv
  <2>3. OnCourse(job[j], Balance, holds)
    BY <1>1, <2>1 DEF IInv, QuietInv, QuietOK
  <2>4. Good(new) /\ ((new = <<>> /\ Balance = 0) \/ Single(new, Balance))
    BY <2>1, <2>2, <2>3, EntryGood, EntryBooks
  <2> HIDE DEF new
  <2>5. Quantity(new) = Balance
    BY <2>4, QuantityOfNone, QuantityOfOne DEF Single, Good
  <2> QED BY <2>1, <2>5 DEF Quantity, FoldLeft, MapThenFoldSet
<1> QED BY <1>1, LedgerInvariant, PTL DEF Spec, RepairsBooks
=============================================================================
