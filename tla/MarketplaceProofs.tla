-------------------------- MODULE MarketplaceProofs --------------------------
(***************************************************************************)
(* The safety invariants of MarketplacePurchase hold for every set of      *)
(* users, amounts, references, sales and listings, every largest balance   *)
(* and every number of failed writes and restarts.                         *)
(*                                                                         *)
(* First the ledger, EconomyLedger: every operation keeps its books, the   *)
(* balances are what the journal says and the money in existence is what   *)
(* was minted and not burned.  Facts about finite sums are proved by       *)
(* minimal counterexample: of the sets for which a statement fails take a  *)
(* smallest one (the library's WFMin on the strict subsets of a finite     *)
(* set).                                                                   *)
(***************************************************************************)
EXTENDS MarketplacePurchase, FiniteSetTheorems, WellFoundedInduction, TLAPS

Picked(s) == CHOOSE x \in s : TRUE
IsSum(f, S, h) ==
    h = [s \in SUBSET S |-> IF s = {} THEN 0 ELSE f[Picked(s)] + h[s \ {Picked(s)}]]

(* A sum is the value at S of the recursive function the library chooses.  *)
LEMMA SumIs ==
  ASSUME NEW f, NEW S
  PROVE SumOver(f, S) = (CHOOSE h : IsSum(f, S, h))[S]
BY DEF SumOver, MapThenSumSet, MapThenFoldSet, IsSum, Picked

(* Of the subsets of a finite set that have a property one is smallest.    *)
LEMMA SmallestSet ==
  ASSUME NEW S, IsFiniteSet(S), NEW Q, Q \subseteq SUBSET S, Q # {}
  PROVE \E U \in Q : \A V \in Q : ~(V \subseteq U /\ V # U)
<1>1. IsWellFoundedOn(StrictSubsetOrdering(S), SUBSET S)
  BY FS_StrictSubsetOrderingWellFounded, FS_FiniteSubsetsOfFinite
<1>2. PICK U \in Q : \A V \in Q : ~(<<V, U>> \in StrictSubsetOrdering(S))
  BY <1>1, WFMin
<1>3. QED BY <1>2 DEF StrictSubsetOrdering

(* Two recursive sums of f agree on every finite set both are defined on.  *)
LEMMA SumsAgree ==
  ASSUME NEW f, NEW S, NEW T, NEW g, NEW h, IsSum(f, S, g), IsSum(f, T, h),
         NEW V \in SUBSET (S \cap T), IsFiniteSet(V)
  PROVE g[V] = h[V]
<1> DEFINE Q == {U \in SUBSET V : g[U] # h[U]}
<1>1. SUFFICES ASSUME Q # {} PROVE FALSE
  OBVIOUS
<1>0. Q \subseteq SUBSET V
  OBVIOUS
<1>2. PICK U \in Q : \A W \in Q : ~(W \subseteq U /\ W # U)
  <2> HIDE DEF Q
  <2> QED BY <1>0, <1>1, SmallestSet
<1>3. U \in SUBSET S /\ U \in SUBSET T
  OBVIOUS
<1>4. /\ g[U] = IF U = {} THEN 0 ELSE f[Picked(U)] + g[U \ {Picked(U)}]
      /\ h[U] = IF U = {} THEN 0 ELSE f[Picked(U)] + h[U \ {Picked(U)}]
  BY <1>3 DEF IsSum
<1>5. U # {}
  BY <1>4
<1>6. Picked(U) \in U
  BY <1>5 DEF Picked
<1>7. g[U \ {Picked(U)}] = h[U \ {Picked(U)}]
  BY <1>2, <1>6
<1>8. QED BY <1>4, <1>7

(* Any function that satisfies the recursion gives the sum.                *)
LEMMA SumChosen ==
  ASSUME NEW f, NEW S, NEW h, IsSum(f, S, h), IsFiniteSet(S)
  PROVE SumOver(f, S) = h[S]
<1> DEFINE c == CHOOSE g : IsSum(f, S, g)
<1>1. IsSum(f, S, c)
  OBVIOUS
<1>2. c[S] = h[S]
  BY <1>1, SumsAgree
<1>3. QED BY <1>2, SumIs

(* It gives the sum over every smaller set as well.                        *)
LEMMA SumRestricts ==
  ASSUME NEW f, NEW S, NEW h, IsSum(f, S, h), IsFiniteSet(S), NEW U \in SUBSET S
  PROVE SumOver(f, U) = h[U]
<1> DEFINE r == [s \in SUBSET U |-> h[s]]
<1>1. IsSum(f, U, r)
  <2>1. ASSUME NEW s \in SUBSET U
        PROVE r[s] = IF s = {} THEN 0 ELSE f[Picked(s)] + r[s \ {Picked(s)}]
    BY s \in SUBSET S DEF IsSum
  <2>2. QED BY <2>1 DEF IsSum
<1>2. IsFiniteSet(U)
  BY FS_Subset
<1>3. QED BY <1>1, <1>2, SumChosen

(* The recursion has a solution on every finite set.                       *)
LEMMA SumExists ==
  ASSUME NEW f, NEW S, IsFiniteSet(S)
  PROVE \E h : IsSum(f, S, h)
<1> DEFINE Q == {U \in SUBSET S : ~\E h : IsSum(f, U, h)}
<1>1. SUFFICES ASSUME Q # {} PROVE FALSE
  OBVIOUS
<1>0. Q \subseteq SUBSET S
  OBVIOUS
<1>2. PICK U \in Q : \A W \in Q : ~(W \subseteq U /\ W # U)
  <2> HIDE DEF Q
  <2> QED BY <1>0, <1>1, SmallestSet
<1> DEFINE h == [s \in SUBSET U |-> IF s = {} THEN 0
                                    ELSE f[Picked(s)] + SumOver(f, s \ {Picked(s)})]
<1>3. ASSUME NEW s \in SUBSET U, s # {}
      PROVE SumOver(f, s \ {Picked(s)}) = h[s \ {Picked(s)}]
  <2> DEFINE t == s \ {Picked(s)}
  <2>1. t \subseteq U /\ t # U /\ t \in SUBSET S
    BY <1>3 DEF Picked
  <2>2. PICK g : IsSum(f, t, g)
    BY <2>1, <1>2
  <2>3. IsFiniteSet(t)
    BY <2>1, FS_Subset
  <2>4. CASE t = {}
    <3>1. g[t] = 0
      BY <2>2, <2>4 DEF IsSum
    <3>2. h[t] = 0
      BY <2>1, <2>4
    <3>3. QED BY <3>1, <3>2, <2>2, <2>3, SumChosen
  <2>5. CASE t # {}
    <3>1. g[t] = f[Picked(t)] + g[t \ {Picked(t)}]
      BY <2>2, <2>5 DEF IsSum
    <3>2. g[t \ {Picked(t)}] = SumOver(f, t \ {Picked(t)})
      BY <2>2, <2>3, SumRestricts
    <3>3. h[t] = f[Picked(t)] + SumOver(f, t \ {Picked(t)})
      BY <2>1, <2>5
    <3>4. QED BY <3>1, <3>2, <3>3, <2>2, <2>3, SumChosen
  <2>6. QED BY <2>4, <2>5
<1>4. IsSum(f, U, h)
  <2>1. ASSUME NEW s \in SUBSET U
        PROVE h[s] = IF s = {} THEN 0 ELSE f[Picked(s)] + h[s \ {Picked(s)}]
    BY <1>3
  <2>2. QED BY <2>1 DEF IsSum
<1>5. QED BY <1>4, <1>2

(* A sum is one element of the set and the sum over the others.            *)
LEMMA SumStep ==
  ASSUME NEW f, NEW S, IsFiniteSet(S)
  PROVE SumOver(f, S) = IF S = {} THEN 0 ELSE f[Picked(S)] + SumOver(f, S \ {Picked(S)})
<1>1. PICK h : IsSum(f, S, h)
  BY SumExists
<1>2. h[S] = IF S = {} THEN 0 ELSE f[Picked(S)] + h[S \ {Picked(S)}]
  BY <1>1 DEF IsSum
<1>3. SumOver(f, S) = h[S] /\ SumOver(f, S \ {Picked(S)}) = h[S \ {Picked(S)}]
  BY <1>1, SumRestricts
<1>4. QED BY <1>2, <1>3

(* The empty sum is zero.                                                  *)
LEMMA SumEmpty ==
  ASSUME NEW f
  PROVE SumOver(f, {}) = 0
BY SumStep, FS_EmptySet

(* A sum of integers is an integer.                                        *)
LEMMA SumInt ==
  ASSUME NEW f, NEW S, IsFiniteSet(S), \A x \in S : f[x] \in Int
  PROVE SumOver(f, S) \in Int
<1> DEFINE Q == {U \in SUBSET S : SumOver(f, U) \notin Int}
<1>1. SUFFICES ASSUME Q # {} PROVE FALSE
  OBVIOUS
<1>0. Q \subseteq SUBSET S
  OBVIOUS
<1>2. PICK U \in Q : \A W \in Q : ~(W \subseteq U /\ W # U)
  <2> HIDE DEF Q
  <2> QED BY <1>0, <1>1, SmallestSet
<1>3. U # {}
  BY SumEmpty
<1>4. Picked(U) \in U
  BY <1>3 DEF Picked
<1>5. SumOver(f, U \ {Picked(U)}) \in Int
  BY <1>2, <1>4
<1>6. IsFiniteSet(U)
  BY FS_Subset
<1>7. SumOver(f, U) = f[Picked(U)] + SumOver(f, U \ {Picked(U)})
  BY <1>3, <1>6, SumStep
<1>8. QED BY <1>4, <1>5, <1>7

(* Any element can be the first: the order does not matter.                *)
LEMMA SumSplits ==
  ASSUME NEW f, NEW S, IsFiniteSet(S), \A y \in S : f[y] \in Int, NEW x \in S
  PROVE SumOver(f, S) = f[x] + SumOver(f, S \ {x})
<1> DEFINE Splits(U) == \A y \in U : SumOver(f, U) = f[y] + SumOver(f, U \ {y})
           Q == {U \in SUBSET S : ~Splits(U)}
<1>1. SUFFICES ASSUME Q # {} PROVE FALSE
  OBVIOUS
<1>0. Q \subseteq SUBSET S
  OBVIOUS
<1>2. PICK U \in Q : \A W \in Q : ~(W \subseteq U /\ W # U)
  <2> HIDE DEF Q
  <2> QED BY <1>0, <1>1, SmallestSet
<1>3. PICK y \in U : SumOver(f, U) # f[y] + SumOver(f, U \ {y})
  OBVIOUS
<1> DEFINE p == Picked(U)
           R == U \ {p}
           T == U \ {y}
           V == R \ {y}
<1>4. p \in U
  BY <1>3 DEF Picked
<1>5. U \subseteq S /\ R \subseteq S /\ T \subseteq S /\ V \subseteq S
  OBVIOUS
<1>6. IsFiniteSet(U) /\ IsFiniteSet(V)
  BY <1>5, FS_Subset
<1>7. SumOver(f, U) = f[p] + SumOver(f, R)
  BY <1>4, <1>6, SumStep
<1>8. p # y
  BY <1>3, <1>7
<1>9. Splits(R) /\ Splits(T)
  <2>1. R # U /\ T # U
    BY <1>3, <1>4
  <2>2. R \in SUBSET S /\ T \in SUBSET S
    BY <1>5
  <2>3. QED BY <2>1, <2>2, <1>2
<1>10. SumOver(f, R) = f[y] + SumOver(f, V)
  BY <1>9, <1>3, <1>8
<1>11. SumOver(f, T) = f[p] + SumOver(f, V)
  <2>1. T \ {p} = V
    OBVIOUS
  <2>2. p \in T
    BY <1>4, <1>8
  <2>3. QED BY <1>9, <2>1, <2>2
<1>12. SumOver(f, V) \in Int
  BY <1>5, <1>6, SumInt
<1>13. f[p] \in Int /\ f[y] \in Int
  BY <1>3, <1>4
<1> HIDE DEF p, R, T, V
<1>14. SumOver(f, U) = f[y] + SumOver(f, T)
  BY <1>7, <1>10, <1>11, <1>12, <1>13
<1>15. QED BY <1>14, <1>3 DEF T

(* Functions that agree on a set have the same sum over it.                *)
LEMMA SumSame ==
  ASSUME NEW f, NEW g, NEW S, IsFiniteSet(S), \A x \in S : f[x] = g[x]
  PROVE SumOver(f, S) = SumOver(g, S)
<1> DEFINE Q == {U \in SUBSET S : SumOver(f, U) # SumOver(g, U)}
<1>1. SUFFICES ASSUME Q # {} PROVE FALSE
  OBVIOUS
<1>0. Q \subseteq SUBSET S
  OBVIOUS
<1>2. PICK U \in Q : \A W \in Q : ~(W \subseteq U /\ W # U)
  <2> HIDE DEF Q
  <2> QED BY <1>0, <1>1, SmallestSet
<1>3. U # {}
  BY SumEmpty
<1>4. Picked(U) \in U
  BY <1>3 DEF Picked
<1>5. SumOver(f, U \ {Picked(U)}) = SumOver(g, U \ {Picked(U)})
  BY <1>2, <1>4
<1>6. IsFiniteSet(U)
  BY FS_Subset
<1>7. QED BY <1>3, <1>4, <1>5, <1>6, SumStep

(* A new element adds its value.                                           *)
LEMMA SumAdds ==
  ASSUME NEW f, NEW S, IsFiniteSet(S), NEW x, x \notin S,
         \A y \in S \cup {x} : f[y] \in Int
  PROVE SumOver(f, S \cup {x}) = SumOver(f, S) + f[x]
<1>1. IsFiniteSet(S \cup {x})
  BY FS_AddElement
<1>2. (S \cup {x}) \ {x} = S
  OBVIOUS
<1>3. SumOver(f, S \cup {x}) = f[x] + SumOver(f, S)
  BY <1>1, <1>2, SumSplits
<1>4. SumOver(f, S) \in Int
  BY SumInt
<1>5. QED BY <1>3, <1>4

(* When f changes at one element only the sum changes by as much.          *)
LEMMA SumChanges ==
  ASSUME NEW f, NEW g, NEW S, IsFiniteSet(S), NEW x \in S,
         \A y \in S : f[y] \in Int /\ g[y] \in Int,
         \A y \in S \ {x} : f[y] = g[y]
  PROVE SumOver(g, S) = SumOver(f, S) - f[x] + g[x]
<1>1. IsFiniteSet(S \ {x})
  BY FS_Subset
<1>2. SumOver(f, S \ {x}) = SumOver(g, S \ {x})
  BY <1>1, SumSame
<1>3. SumOver(f, S) = f[x] + SumOver(f, S \ {x})
  BY SumSplits
<1>4. SumOver(g, S) = g[x] + SumOver(g, S \ {x})
  BY SumSplits
<1>5. SumOver(f, S \ {x}) \in Int
  BY <1>1, SumInt
<1>6. QED BY <1>2, <1>3, <1>4, <1>5

(* A sum of zeros is zero.                                                 *)
LEMMA SumOfZeros ==
  ASSUME NEW f, NEW S, IsFiniteSet(S), \A x \in S : f[x] = 0
  PROVE SumOver(f, S) = 0
<1> DEFINE Q == {U \in SUBSET S : SumOver(f, U) # 0}
<1>1. SUFFICES ASSUME Q # {} PROVE FALSE
  OBVIOUS
<1>2. Q \subseteq SUBSET S
  OBVIOUS
<1>3. PICK U \in Q : \A W \in Q : ~(W \subseteq U /\ W # U)
  <2> HIDE DEF Q
  <2> QED BY <1>1, <1>2, SmallestSet
<1>4. U # {}
  BY SumEmpty
<1>5. Picked(U) \in U
  BY <1>4 DEF Picked
<1>6. SumOver(f, U \ {Picked(U)}) = 0
  BY <1>3, <1>5
<1>7. IsFiniteSet(U)
  BY FS_Subset
<1>8. SumOver(f, U) = f[Picked(U)] + SumOver(f, U \ {Picked(U)})
  BY <1>4, <1>7, SumStep
<1>9. QED BY <1>5, <1>6, <1>8

----------------------------------------------------------------------------
(* What every reachable ledger is: of the right type, with finitely many   *)
(* entries and escrows to add up, whose escrows name a buyer, a seller and *)
(* an amount, whose commits are of committed escrows, and balanced.        *)
LedgerFinite(L) == IsFiniteSet(L.entries) /\ IsFiniteSet(Reserved(L))

EscrowsNamed(L) ==
    \A s \in Sales : L.escrow[s].state # "none" =>
        /\ L.escrow[s].buyer \in Users /\ L.escrow[s].seller \in Users
        /\ L.escrow[s].amount \in Amounts

CommitsEntered(L) ==
    \A e \in L.entries : e.kind = "escrow_commit" =>
        e.ref \in Sales /\ L.escrow[e.ref].state = "committed"

LedgerInv(L) == /\ L \in Ledgers
                /\ LedgerFinite(L)
                /\ EscrowsNamed(L)
                /\ CommitsEntered(L)
                /\ Balanced(L)

Held(L) == [s \in Sales |-> L.escrow[s].amount]

(* Amounts are numbers.                                                    *)
LEMMA AmountsAreNumbers == \A n \in Amounts : n \in Int /\ n > 0 /\ n <= MaxBalance
BY AmountsAssumption

LEMMA EntriesHaveAmounts == \A e \in EconomyEntry : e.amount \in Amounts /\ e.amount \in Int
<1>1. \A e \in EconomyEntry : e.amount \in Amounts
  BY DEF EconomyEntry
<1>2. QED BY <1>1, AmountsAreNumbers

(* The sum of a journal without an entry, and with it.                     *)
LEMMA SumOfEntries ==
  ASSUME NEW E, IsFiniteSet(E), E \subseteq EconomyEntry
  PROVE Sum(E) \in Int
<1>1. \A x \in E : [e \in E |-> e.amount][x] \in Int
  BY EntriesHaveAmounts
<1>2. QED BY <1>1, SumInt DEF Sum

LEMMA SumWithEntry ==
  ASSUME NEW E, IsFiniteSet(E), E \subseteq EconomyEntry,
         NEW x \in EconomyEntry, x \notin E
  PROVE Sum(E \cup {x}) = Sum(E) + x.amount
<1> DEFINE F == E \cup {x}
           f == [e \in E |-> e.amount]
           g == [e \in F |-> e.amount]
<1>1. \A y \in F : g[y] \in Int
  BY EntriesHaveAmounts
<1>2. SumOver(g, F) = SumOver(g, E) + g[x]
  <2> HIDE DEF g
  <2> QED BY <1>1, SumAdds
<1>3. SumOver(g, E) = SumOver(f, E)
  <2>1. \A y \in E : g[y] = f[y]
    OBVIOUS
  <2> HIDE DEF f, g
  <2>2. QED BY <2>1, SumSame
<1>4. g[x] = x.amount
  OBVIOUS
<1>5. QED BY <1>2, <1>3, <1>4 DEF Sum

(* The entries with a property are those of before, and the new one if it  *)
(* has it.                                                                 *)
LEMMA SumOfPart ==
  ASSUME NEW E, IsFiniteSet(E), E \subseteq EconomyEntry,
         NEW x \in EconomyEntry, x \notin E, NEW P, NEW Q,
         P \subseteq E, Q = P \/ Q = P \cup {x}
  PROVE /\ Sum(P) \in Int
        /\ x \in Q => Sum(Q) = Sum(P) + x.amount
        /\ x \notin Q => Sum(Q) = Sum(P)
<1>1. IsFiniteSet(P) /\ P \subseteq EconomyEntry /\ x \notin P
  BY FS_Subset
<1>2. QED BY <1>1, SumOfEntries, SumWithEntry

(* An entry that says what happened to the balances keeps them what the    *)
(* journal says, and counts as minted or burned by its kind.               *)
LEMMA JournalFollows ==
  ASSUME NEW L \in Ledgers, NEW M \in Ledgers, LedgerFinite(L), Balanced(L),
         NEW x \in EconomyEntry, x \notin L.entries, M.entries = L.entries \cup {x},
         \A u \in Users : M.balance[u] = L.balance[u] + (IF x.to = u THEN x.amount ELSE 0)
                                                     - (IF x.from = u THEN x.amount ELSE 0)
  PROVE /\ \A u \in Users : M.balance[u] = Received(M, u) - Paid(M, u)
        /\ Minted(M) - Burned(M) = Minted(L) - Burned(L)
                                   + (IF x.kind = "mint" THEN x.amount ELSE 0)
                                   - (IF x.kind = "burn" THEN x.amount ELSE 0)
<1>1. IsFiniteSet(L.entries) /\ L.entries \subseteq EconomyEntry
  BY DEF LedgerFinite, Ledgers
<1>2. x.amount \in Int
  BY EntriesHaveAmounts
<1>3. ASSUME NEW u \in Users
      PROVE M.balance[u] = Received(M, u) - Paid(M, u)
  <2> DEFINE R == {e \in L.entries : e.to = u}
             S == {e \in M.entries : e.to = u}
             P == {e \in L.entries : e.from = u}
             Q == {e \in M.entries : e.from = u}
  <2>1. /\ S = (IF x.to = u THEN R \cup {x} ELSE R)
        /\ Q = (IF x.from = u THEN P \cup {x} ELSE P)
    OBVIOUS
  <2>2. /\ x \in S <=> x.to = u
        /\ x \in Q <=> x.from = u
    OBVIOUS
  <2>3. R \subseteq L.entries /\ P \subseteq L.entries
    OBVIOUS
  <2>4. L.balance[u] = Sum(R) - Sum(P)
    BY DEF Balanced, Received, Paid
  <2> HIDE DEF R, S, P, Q
  <2>5. /\ Sum(R) \in Int
        /\ Sum(S) = Sum(R) + (IF x.to = u THEN x.amount ELSE 0)
    BY <1>1, <1>2, <2>1, <2>2, <2>3, SumOfPart
  <2>6. /\ Sum(P) \in Int
        /\ Sum(Q) = Sum(P) + (IF x.from = u THEN x.amount ELSE 0)
    BY <1>1, <1>2, <2>1, <2>2, <2>3, SumOfPart
  <2>7. M.balance[u] = Sum(S) - Sum(Q)
    BY <1>2, <2>4, <2>5, <2>6
  <2>8. QED BY <2>7 DEF Received, Paid, S, Q
<1>4. Minted(M) - Burned(M) = Minted(L) - Burned(L)
                              + (IF x.kind = "mint" THEN x.amount ELSE 0)
                              - (IF x.kind = "burn" THEN x.amount ELSE 0)
  <2> DEFINE R == {e \in L.entries : e.kind = "mint"}
             S == {e \in M.entries : e.kind = "mint"}
             P == {e \in L.entries : e.kind = "burn"}
             Q == {e \in M.entries : e.kind = "burn"}
  <2>1. /\ S = (IF x.kind = "mint" THEN R \cup {x} ELSE R)
        /\ Q = (IF x.kind = "burn" THEN P \cup {x} ELSE P)
    OBVIOUS
  <2>2. /\ x \in S <=> x.kind = "mint"
        /\ x \in Q <=> x.kind = "burn"
    OBVIOUS
  <2>3. R \subseteq L.entries /\ P \subseteq L.entries
    OBVIOUS
  <2>4. Minted(M) = Sum(S) /\ Burned(M) = Sum(Q) /\ Minted(L) = Sum(R) /\ Burned(L) = Sum(P)
    BY DEF Minted, Burned
  <2> HIDE DEF R, S, P, Q
  <2>5. /\ Sum(R) \in Int
        /\ Sum(S) = Sum(R) + (IF x.kind = "mint" THEN x.amount ELSE 0)
    BY <1>1, <1>2, <2>1, <2>2, <2>3, SumOfPart
  <2>6. /\ Sum(P) \in Int
        /\ Sum(Q) = Sum(P) + (IF x.kind = "burn" THEN x.amount ELSE 0)
    BY <1>1, <1>2, <2>1, <2>2, <2>3, SumOfPart
  <2>7. QED BY <1>2, <2>4, <2>5, <2>6
<1>5. QED BY <1>3, <1>4

(* One balance changes by n: so does their sum.                            *)
LEMMA SupplyFollows ==
  ASSUME NEW b \in [Users -> Int], NEW u \in Users, NEW n \in Int
  PROVE /\ [b EXCEPT ![u] = @ + n] \in [Users -> Int]
        /\ SumOver([b EXCEPT ![u] = @ + n], Users) = SumOver(b, Users) + n
<1> DEFINE c == [b EXCEPT ![u] = @ + n]
<1>1. /\ c \in [Users -> Int] /\ c[u] = b[u] + n
      /\ \A v \in Users \ {u} : b[v] = c[v]
      /\ \A v \in Users : b[v] \in Int /\ c[v] \in Int
  OBVIOUS
<1> HIDE DEF c
<1>2. IsFiniteSet(Users)
  BY UsersAssumption
<1>3. SumOver(c, Users) = SumOver(b, Users) - b[u] + c[u]
  BY <1>1, <1>2, SumChanges
<1>4. SumOver(b, Users) \in Int
  BY <1>1, <1>2, SumInt
<1>5. SumOver(c, Users) = SumOver(b, Users) + n
  BY <1>1, <1>3, <1>4
<1>6. QED BY <1>1, <1>5 DEF c

(* What a ledger is made of.                                               *)
LEMMA LedgerParts ==
  ASSUME NEW L, LedgerInv(L)
  PROVE /\ L.balance \in [Users -> Int]
        /\ \A u \in Users : L.balance[u] >= 0 /\ L.balance[u] <= MaxBalance
        /\ L.entries \subseteq EconomyEntry /\ IsFiniteSet(L.entries)
        /\ L.escrow \in [Sales -> EconomyEscrow] /\ IsFiniteSet(Reserved(L))
        /\ SumOver(L.balance, Users) \in Int
        /\ SumOver(Held(L), Reserved(L)) \in Int
        /\ \A s \in Reserved(L) : Held(L)[s] \in Int /\ Held(L)[s] \in Amounts
        /\ TotalSupply(L) = SumOver(L.balance, Users) + SumOver(Held(L), Reserved(L))
        /\ TotalSupply(L) = Minted(L) - Burned(L)
<1>1. L.balance \in [Users -> 0 .. MaxBalance]
  BY DEF LedgerInv, Ledgers
<1>2. /\ L.balance \in [Users -> Int]
      /\ \A u \in Users : L.balance[u] >= 0 /\ L.balance[u] <= MaxBalance
  BY <1>1, AmountsAssumption
<1>3. L.entries \subseteq EconomyEntry /\ L.escrow \in [Sales -> EconomyEscrow]
  BY DEF LedgerInv, Ledgers
<1>4. IsFiniteSet(L.entries) /\ IsFiniteSet(Reserved(L))
  BY DEF LedgerInv, LedgerFinite
<1>5. SumOver(L.balance, Users) \in Int
  BY <1>2, SumInt, UsersAssumption
<1>6. \A s \in Reserved(L) : Held(L)[s] \in Int /\ Held(L)[s] \in Amounts
  <2>1. \A s \in Reserved(L) : L.escrow[s].amount \in Amounts
    BY DEF LedgerInv, EscrowsNamed, Reserved
  <2>2. QED BY <2>1, AmountsAreNumbers DEF Held, Reserved
<1>7. SumOver(Held(L), Reserved(L)) \in Int
  BY <1>4, <1>6, SumInt
<1>8. /\ TotalSupply(L) = SumOver(L.balance, Users) + SumOver(Held(L), Reserved(L))
      /\ TotalSupply(L) = Minted(L) - Burned(L)
  BY DEF TotalSupply, Held, LedgerInv, Balanced
<1>9. QED BY <1>2, <1>3, <1>4, <1>5, <1>6, <1>7, <1>8

(* A reference that does not exist is in no entry.                         *)
LEMMA FreshEntry ==
  ASSUME NEW L, NEW ref \in Refs \cup Sales, ~ReferenceExists(L, ref), NEW x, x.ref = ref
  PROVE x \notin L.entries
BY DEF ReferenceExists

(* The parts of the invariant that depend on the entries and the escrows   *)
(* only, when an entry is added and no escrow changes.                     *)
LEMMA EscrowsUntouched ==
  ASSUME NEW L, LedgerInv(L), NEW M, M.escrow = L.escrow,
         NEW x, x.kind # "escrow_commit", M.entries = L.entries \cup {x}
  PROVE LedgerFinite(M) /\ EscrowsNamed(M) /\ CommitsEntered(M)
        /\ Reserved(M) = Reserved(L) /\ Held(M) = Held(L)
<1>1. Reserved(M) = Reserved(L) /\ Held(M) = Held(L)
  BY DEF Reserved, Held
<1>2. LedgerFinite(M)
  BY <1>1, FS_AddElement DEF LedgerInv, LedgerFinite
<1>3. EscrowsNamed(M) /\ CommitsEntered(M)
  BY DEF LedgerInv, EscrowsNamed, CommitsEntered
<1>4. QED BY <1>1, <1>2, <1>3

(* An empty ledger keeps its books.                                        *)
LEMMA EmptyLedgerInv == LedgerInv(EmptyLedger)
<1> DEFINE L == EmptyLedger
<1>1. L \in Ledgers
  <2>1. NoEscrow \in EconomyEscrow
    BY DEF NoEscrow, EconomyEscrow, EscrowState
  <2>2. 0 \in 0 .. MaxBalance
    BY AmountsAssumption
  <2>3. QED BY <2>1, <2>2 DEF EmptyLedger, Ledgers
<1>2. /\ L.entries = {} /\ Reserved(L) = {}
      /\ \A s \in Sales : L.escrow[s].state = "none"
  BY DEF EmptyLedger, Reserved, NoEscrow
<1>3. LedgerFinite(L) /\ EscrowsNamed(L) /\ CommitsEntered(L)
  BY <1>2, FS_EmptySet DEF LedgerFinite, EscrowsNamed, CommitsEntered
<1>4. Sum({}) = 0
  BY SumEmpty DEF Sum
<1>5. /\ \A u \in Users : Received(L, u) = 0 /\ Paid(L, u) = 0
      /\ Minted(L) = 0 /\ Burned(L) = 0
  <2>1. \A u \in Users : {e \in L.entries : e.to = u} = {} /\ {e \in L.entries : e.from = u} = {}
    BY <1>2
  <2>2. {e \in L.entries : e.kind = "mint"} = {} /\ {e \in L.entries : e.kind = "burn"} = {}
    BY <1>2
  <2>3. QED BY <1>4, <2>1, <2>2 DEF Received, Paid, Minted, Burned
<1>6. SumOver(L.balance, Users) = 0
  <2>1. \A u \in Users : L.balance[u] = 0
    BY DEF EmptyLedger
  <2>2. QED BY <2>1, SumOfZeros, UsersAssumption
<1>7. TotalSupply(L) = 0
  BY <1>2, <1>6, SumEmpty DEF TotalSupply
<1>8. Balanced(L)
  BY <1>5, <1>7 DEF Balanced, EmptyLedger
<1>9. QED BY <1>1, <1>3, <1>8 DEF LedgerInv

(* Transfer (EconomyLedger::transfer).                                     *)
LEMMA TransferKeepsBooks ==
  ASSUME NEW L, LedgerInv(L), NEW from \in Users, NEW to \in Users,
         NEW amount \in Amounts, NEW ref \in Refs, CanTransfer(L, from, to, amount, ref)
  PROVE LedgerInv(Transfer(L, from, to, amount, ref))
<1> DEFINE M == Transfer(L, from, to, amount, ref)
           x == [kind |-> "transfer", ref |-> ref, from |-> from, to |-> to, amount |-> amount]
           b == [L.balance EXCEPT ![from] = @ + (-amount)]
           c == [b EXCEPT ![to] = @ + amount]
<1>1. L \in Ledgers
  BY DEF LedgerInv
<1>2. amount \in Int /\ -amount \in Int /\ amount > 0
  BY AmountsAreNumbers
<1>3. M.balance = c /\ M.escrow = L.escrow /\ M.entries = L.entries \cup {x}
  <2>1. [L.balance EXCEPT ![from] = @ - amount] = b
    BY <1>2, LedgerParts
  <2>2. M.balance = [[L.balance EXCEPT ![from] = @ - amount] EXCEPT ![to] = @ + amount]
    BY <1>1 DEF Transfer, Ledgers
  <2>3. M.escrow = L.escrow /\ M.entries = L.entries \cup {x}
    BY <1>1 DEF Transfer, Append, Ledgers
  <2>4. QED BY <2>1, <2>2, <2>3
<1>4. from # to /\ L.balance[from] >= amount /\ L.balance[to] <= MaxBalance - amount
      /\ x \notin L.entries
  BY LedgerParts, <1>2, AmountsAssumption, FreshEntry DEF CanTransfer, AddOverflows
<1>5. x \in EconomyEntry
  BY DEF EconomyEntry, EntryKind
<1>6. /\ \A u \in Users : c[u] = L.balance[u] + (IF to = u THEN amount ELSE 0)
                                              - (IF from = u THEN amount ELSE 0)
      /\ c \in [Users -> 0 .. MaxBalance]
  BY <1>2, <1>4, LedgerParts, AmountsAssumption
<1>7. SumOver(c, Users) = SumOver(L.balance, Users)
  <2>1. b \in [Users -> Int] /\ SumOver(b, Users) = SumOver(L.balance, Users) + (-amount)
    BY <1>2, LedgerParts, SupplyFollows
  <2>2. SumOver(c, Users) = SumOver(b, Users) + amount
    BY <1>2, <2>1, SupplyFollows
  <2>3. QED BY <1>2, <2>1, <2>2, LedgerParts
<1>8. M \in Ledgers
  <2>1. M.balance \in [Users -> 0 .. MaxBalance] /\ M.entries \in SUBSET EconomyEntry
    <3> HIDE DEF M, b, c
    <3> QED BY <1>1, <1>3, <1>5, <1>6 DEF Ledgers
  <2>2. QED BY <1>1, <2>1 DEF Transfer, Append, Ledgers
<1> HIDE DEF M, b, c
<1>9. LedgerFinite(M) /\ EscrowsNamed(M) /\ CommitsEntered(M)
      /\ Reserved(M) = Reserved(L) /\ Held(M) = Held(L)
  <2>1. x.kind # "escrow_commit"
    OBVIOUS
  <2>2. QED BY <1>3, <2>1, EscrowsUntouched
<1>10. /\ \A u \in Users : M.balance[u] = Received(M, u) - Paid(M, u)
       /\ Minted(M) - Burned(M) = Minted(L) - Burned(L) + 0 - 0
  BY <1>1, <1>3, <1>4, <1>5, <1>6, <1>8, JournalFollows DEF LedgerInv
<1>11. TotalSupply(M) = Minted(M) - Burned(M)
  <2>1. TotalSupply(M) = TotalSupply(L)
    BY <1>3, <1>7, <1>9, LedgerParts DEF TotalSupply, Held
  <2>2. TotalSupply(L) = Minted(L) - Burned(L) /\ TotalSupply(L) \in Int
    BY LedgerParts
  <2>3. QED BY <1>10, <2>1, <2>2
<1>12. QED BY <1>8, <1>9, <1>10, <1>11 DEF LedgerInv, Balanced, M

(* Mint (EconomyLedger::mint).                                             *)
LEMMA MintKeepsBooks ==
  ASSUME NEW L, LedgerInv(L), NEW to \in Users, NEW amount \in Amounts, NEW ref \in Refs,
         CanMint(L, to, amount, ref)
  PROVE LedgerInv(Mint(L, to, amount, ref))
<1> DEFINE M == Mint(L, to, amount, ref)
           x == [kind |-> "mint", ref |-> ref, from |-> Nobody, to |-> to, amount |-> amount]
           b == [L.balance EXCEPT ![to] = @ + amount]
<1>1. L \in Ledgers
  BY DEF LedgerInv
<1>2. amount \in Int /\ amount > 0
  BY AmountsAreNumbers
<1>3. M.balance = b /\ M.escrow = L.escrow /\ M.entries = L.entries \cup {x}
  BY <1>1 DEF Mint, Append, Ledgers
<1>4. L.balance[to] <= MaxBalance - amount /\ x \notin L.entries
  BY LedgerParts, <1>2, AmountsAssumption, FreshEntry DEF CanMint, AddOverflows
<1>5. x \in EconomyEntry
  BY DEF EconomyEntry, EntryKind
<1>6. /\ \A u \in Users : b[u] = L.balance[u] + (IF to = u THEN amount ELSE 0)
                                              - (IF Nobody = u THEN amount ELSE 0)
      /\ b \in [Users -> 0 .. MaxBalance]
  BY <1>2, <1>4, LedgerParts, AmountsAssumption, UsersAssumption
<1>7. SumOver(b, Users) = SumOver(L.balance, Users) + amount
  BY <1>2, LedgerParts, SupplyFollows
<1>8. M \in Ledgers
  <2>1. M.balance \in [Users -> 0 .. MaxBalance] /\ M.entries \in SUBSET EconomyEntry
    <3> HIDE DEF M, b
    <3> QED BY <1>1, <1>3, <1>5, <1>6 DEF Ledgers
  <2>2. QED BY <1>1, <2>1 DEF Mint, Append, Ledgers
<1> HIDE DEF M, b
<1>9. LedgerFinite(M) /\ EscrowsNamed(M) /\ CommitsEntered(M)
      /\ Reserved(M) = Reserved(L) /\ Held(M) = Held(L)
  <2>1. x.kind # "escrow_commit"
    OBVIOUS
  <2>2. QED BY <1>3, <2>1, EscrowsUntouched
<1>10. /\ \A u \in Users : M.balance[u] = Received(M, u) - Paid(M, u)
       /\ Minted(M) - Burned(M) = Minted(L) - Burned(L) + amount - 0
  BY <1>1, <1>3, <1>4, <1>5, <1>6, <1>8, JournalFollows DEF LedgerInv
<1>11. TotalSupply(M) = Minted(M) - Burned(M)
  <2>1. TotalSupply(M) = TotalSupply(L) + amount
    BY <1>2, <1>3, <1>7, <1>9, LedgerParts DEF TotalSupply, Held
  <2>2. TotalSupply(L) = Minted(L) - Burned(L) /\ TotalSupply(L) \in Int
    BY LedgerParts
  <2>3. QED BY <1>2, <1>10, <2>1, <2>2
<1>12. QED BY <1>8, <1>9, <1>10, <1>11 DEF LedgerInv, Balanced, M

(* Burn (EconomyLedger::burn).                                             *)
LEMMA BurnKeepsBooks ==
  ASSUME NEW L, LedgerInv(L), NEW from \in Users, NEW amount \in Amounts, NEW ref \in Refs,
         CanBurn(L, from, amount, ref)
  PROVE LedgerInv(Burn(L, from, amount, ref))
<1> DEFINE M == Burn(L, from, amount, ref)
           x == [kind |-> "burn", ref |-> ref, from |-> from, to |-> Nobody, amount |-> amount]
           b == [L.balance EXCEPT ![from] = @ + (-amount)]
<1>1. L \in Ledgers
  BY DEF LedgerInv
<1>2. amount \in Int /\ -amount \in Int /\ amount > 0
  BY AmountsAreNumbers
<1>3. M.balance = b /\ M.escrow = L.escrow /\ M.entries = L.entries \cup {x}
  <2>1. [L.balance EXCEPT ![from] = @ - amount] = b
    BY <1>2, LedgerParts
  <2>2. M.balance = [L.balance EXCEPT ![from] = @ - amount]
    BY <1>1 DEF Burn, Ledgers
  <2>3. M.escrow = L.escrow /\ M.entries = L.entries \cup {x}
    BY <1>1 DEF Burn, Append, Ledgers
  <2>4. QED BY <2>1, <2>2, <2>3
<1>4. L.balance[from] >= amount /\ x \notin L.entries
  BY FreshEntry DEF CanBurn
<1>5. x \in EconomyEntry
  BY DEF EconomyEntry, EntryKind
<1>6. /\ \A u \in Users : b[u] = L.balance[u] + (IF Nobody = u THEN amount ELSE 0)
                                              - (IF from = u THEN amount ELSE 0)
      /\ b \in [Users -> 0 .. MaxBalance]
  BY <1>2, <1>4, LedgerParts, AmountsAssumption, UsersAssumption
<1>7. SumOver(b, Users) = SumOver(L.balance, Users) + (-amount)
  BY <1>2, LedgerParts, SupplyFollows
<1>8. M \in Ledgers
  <2>1. M.balance \in [Users -> 0 .. MaxBalance] /\ M.entries \in SUBSET EconomyEntry
    <3> HIDE DEF M, b
    <3> QED BY <1>1, <1>3, <1>5, <1>6 DEF Ledgers
  <2>2. QED BY <1>1, <2>1 DEF Burn, Append, Ledgers
<1> HIDE DEF M, b
<1>9. LedgerFinite(M) /\ EscrowsNamed(M) /\ CommitsEntered(M)
      /\ Reserved(M) = Reserved(L) /\ Held(M) = Held(L)
  <2>1. x.kind # "escrow_commit"
    OBVIOUS
  <2>2. QED BY <1>3, <2>1, EscrowsUntouched
<1>10. /\ \A u \in Users : M.balance[u] = Received(M, u) - Paid(M, u)
       /\ Minted(M) - Burned(M) = Minted(L) - Burned(L) + 0 - amount
  BY <1>1, <1>3, <1>4, <1>5, <1>6, <1>8, JournalFollows DEF LedgerInv
<1>11. TotalSupply(M) = Minted(M) - Burned(M)
  <2>1. TotalSupply(M) = TotalSupply(L) - amount
    BY <1>2, <1>3, <1>7, <1>9, LedgerParts DEF TotalSupply, Held
  <2>2. TotalSupply(L) = Minted(L) - Burned(L) /\ TotalSupply(L) \in Int
    BY LedgerParts
  <2>3. QED BY <1>2, <1>10, <2>1, <2>2
<1>12. QED BY <1>8, <1>9, <1>10, <1>11 DEF LedgerInv, Balanced, M

(* The first half of a purchase: the price leaves the buyer's wallet and   *)
(* is held (EconomyLedger::reserve_escrow).                                *)
LEMMA ReserveKeepsBooks ==
  ASSUME NEW L, LedgerInv(L), NEW buyer \in Users, NEW seller \in Users,
         NEW amount \in Amounts, NEW ref \in Sales, CanReserve(L, buyer, seller, amount, ref)
  PROVE LedgerInv(Reserve(L, buyer, seller, amount, ref))
<1> DEFINE M == Reserve(L, buyer, seller, amount, ref)
           x == [kind |-> "escrow_reserve", ref |-> ref, from |-> buyer, to |-> Nobody,
                 amount |-> amount]
           y == [state |-> "reserved", buyer |-> buyer, seller |-> seller, amount |-> amount]
           b == [L.balance EXCEPT ![buyer] = @ + (-amount)]
<1>1. L \in Ledgers
  BY DEF LedgerInv
<1>2. amount \in Int /\ -amount \in Int /\ amount > 0
  BY AmountsAreNumbers
<1>3. /\ M.balance = b /\ M.escrow = [L.escrow EXCEPT ![ref] = y]
      /\ M.entries = L.entries \cup {x}
  <2>1. [L.balance EXCEPT ![buyer] = @ - amount] = b
    BY <1>2, LedgerParts
  <2>2. M.balance = [L.balance EXCEPT ![buyer] = @ - amount]
    BY <1>1 DEF Reserve, Ledgers
  <2>3. M.escrow = [L.escrow EXCEPT ![ref] = y]
    BY <1>1 DEF Reserve, Ledgers
  <2>4. M.entries = L.entries \cup {x}
    BY <1>1 DEF Reserve, Append, Ledgers
  <2>5. QED BY <2>1, <2>2, <2>3, <2>4
<1>4. /\ L.balance[buyer] >= amount /\ x \notin L.entries
      /\ L.escrow[ref].state = "none"
      /\ \A e \in L.entries : e.ref # ref
  BY FreshEntry DEF CanReserve, ReferenceExists
<1>5. x \in EconomyEntry /\ y \in EconomyEscrow
  BY DEF EconomyEntry, EntryKind, EconomyEscrow, EscrowState
<1>6. /\ \A u \in Users : b[u] = L.balance[u] + (IF Nobody = u THEN amount ELSE 0)
                                              - (IF buyer = u THEN amount ELSE 0)
      /\ b \in [Users -> 0 .. MaxBalance]
  BY <1>2, <1>4, LedgerParts, AmountsAssumption, UsersAssumption
<1>7. SumOver(b, Users) = SumOver(L.balance, Users) + (-amount)
  BY <1>2, LedgerParts, SupplyFollows
<1>8. M \in Ledgers
  <2>1. /\ M.balance \in [Users -> 0 .. MaxBalance] /\ M.entries \in SUBSET EconomyEntry
        /\ M.escrow \in [Sales -> EconomyEscrow]
    <3> HIDE DEF M, b, y
    <3> QED BY <1>1, <1>3, <1>5, <1>6 DEF Ledgers
  <2>2. QED BY <1>1, <2>1 DEF Reserve, Append, Ledgers
<1>9. /\ M.escrow[ref] = y
      /\ \A s \in Sales \ {ref} : M.escrow[s] = L.escrow[s]
  BY <1>3, LedgerParts
<1> HIDE DEF M, b
<1>10. Reserved(M) = Reserved(L) \cup {ref} /\ ref \notin Reserved(L)
  BY <1>4, <1>9 DEF Reserved
<1>11. LedgerFinite(M)
  <2>1. IsFiniteSet(L.entries) /\ IsFiniteSet(Reserved(L))
    BY LedgerParts
  <2>2. IsFiniteSet(M.entries)
    BY <1>3, <2>1, FS_AddElement, ZenonT(60)
  <2>3. IsFiniteSet(Reserved(M))
    BY <1>10, <2>1, FS_AddElement
  <2>4. QED BY <2>2, <2>3 DEF LedgerFinite
<1>12. EscrowsNamed(M)
  BY <1>9 DEF LedgerInv, EscrowsNamed
<1>13. CommitsEntered(M)
  BY <1>3, <1>4, <1>9 DEF LedgerInv, CommitsEntered
<1>14. SumOver(Held(M), Reserved(M)) = SumOver(Held(L), Reserved(L)) + amount
  <2>1. Held(M)[ref] = amount /\ \A s \in Reserved(L) : Held(M)[s] = Held(L)[s]
    BY <1>9, <1>10 DEF Held, Reserved
  <2>2. IsFiniteSet(Reserved(L)) /\ \A s \in Reserved(L) : Held(L)[s] \in Int
    BY LedgerParts
  <2>3. SumOver(Held(M), Reserved(L)) = SumOver(Held(L), Reserved(L))
    BY <2>1, <2>2, SumSame
  <2>4. \A s \in Reserved(L) \cup {ref} : Held(M)[s] \in Int
    BY <1>2, <2>1, <2>2
  <2>5. SumOver(Held(M), Reserved(L) \cup {ref}) = SumOver(Held(M), Reserved(L)) + Held(M)[ref]
    BY <1>10, <2>2, <2>4, SumAdds
  <2>6. QED BY <1>10, <2>1, <2>3, <2>5
<1>15. /\ \A u \in Users : M.balance[u] = Received(M, u) - Paid(M, u)
       /\ Minted(M) - Burned(M) = Minted(L) - Burned(L) + 0 - 0
  BY <1>1, <1>3, <1>4, <1>5, <1>6, <1>8, JournalFollows DEF LedgerInv
<1>16. TotalSupply(M) = Minted(M) - Burned(M)
  <2>1. TotalSupply(M) = SumOver(M.balance, Users) + SumOver(Held(M), Reserved(M))
    BY DEF TotalSupply, Held
  <2>2. TotalSupply(M) = TotalSupply(L)
    BY <2>1, <1>2, <1>3, <1>7, <1>14, LedgerParts
  <2>3. TotalSupply(L) = Minted(L) - Burned(L) /\ TotalSupply(L) \in Int
    BY LedgerParts
  <2>4. QED BY <1>15, <2>2, <2>3
<1>17. QED BY <1>8, <1>11, <1>12, <1>13, <1>15, <1>16 DEF LedgerInv, Balanced, M

(* The second half: the seller is paid (EconomyLedger::commit_escrow).     *)
LEMMA CommitKeepsBooks ==
  ASSUME NEW L, LedgerInv(L), NEW ref \in Sales, CanCommit(L, ref)
  PROVE LedgerInv(CommitEscrow(L, ref))
<1> DEFINE M == CommitEscrow(L, ref)
           seller == L.escrow[ref].seller
           amount == L.escrow[ref].amount
           x == [kind |-> "escrow_commit", ref |-> ref, from |-> Nobody, to |-> seller,
                 amount |-> amount]
           y == [L.escrow[ref] EXCEPT !.state = "committed"]
           b == [L.balance EXCEPT ![seller] = @ + amount]
<1>1. L \in Ledgers /\ L.escrow[ref] \in EconomyEscrow
  BY LedgerParts DEF LedgerInv
<1>2. seller \in Users /\ amount \in Amounts /\ L.escrow[ref].buyer \in Users
      /\ L.escrow[ref].state = "reserved"
  BY DEF LedgerInv, EscrowsNamed, CanCommit
<1>3. amount \in Int /\ amount > 0
  BY <1>2, AmountsAreNumbers
<1>4. M.balance = b /\ M.escrow = [L.escrow EXCEPT ![ref] = y] /\ M.entries = L.entries \cup {x}
  <2>1. M.balance = b
    BY <1>1 DEF CommitEscrow, Ledgers
  <2>2. M.escrow = [L.escrow EXCEPT ![ref] = y]
    BY <1>1 DEF CommitEscrow, Ledgers
  <2>3. M.entries = L.entries \cup {x}
    BY <1>1 DEF CommitEscrow, Append, Ledgers
  <2>4. QED BY <2>1, <2>2, <2>3
<1>5. y \in EconomyEscrow /\ y.state = "committed" /\ y.buyer \in Users /\ y.seller \in Users
      /\ y.amount = amount
  BY <1>1, <1>2 DEF EconomyEscrow, EscrowState
<1>6. x \in EconomyEntry
  BY <1>2 DEF EconomyEntry, EntryKind
<1>7. x \notin L.entries
  BY <1>2 DEF LedgerInv, CommitsEntered
<1>8. L.balance[seller] <= MaxBalance - amount
  BY <1>2, <1>3, LedgerParts, AmountsAssumption DEF CanCommit, AddOverflows
<1>9. M \in Ledgers
  <2>1. b \in [Users -> 0 .. MaxBalance]
    BY <1>2, <1>3, <1>8, LedgerParts, AmountsAssumption
  <2>2. /\ M.balance \in [Users -> 0 .. MaxBalance] /\ M.entries \in SUBSET EconomyEntry
        /\ M.escrow \in [Sales -> EconomyEscrow]
    <3> HIDE DEF M, b, y
    <3> QED BY <1>1, <1>4, <1>5, <1>6, <2>1 DEF Ledgers
  <2>3. QED BY <1>1, <2>2 DEF CommitEscrow, Append, Ledgers
<1>10. /\ M.escrow[ref] = y
       /\ \A s \in Sales \ {ref} : M.escrow[s] = L.escrow[s]
  BY <1>4, LedgerParts
<1> HIDE DEF M, y
<1>11. /\ \A u \in Users : b[u] = L.balance[u] + (IF seller = u THEN amount ELSE 0)
                                               - (IF Nobody = u THEN amount ELSE 0)
  BY <1>2, <1>3, LedgerParts, UsersAssumption
<1>12. SumOver(b, Users) = SumOver(L.balance, Users) + amount
  BY <1>2, <1>3, LedgerParts, SupplyFollows
<1> HIDE DEF b
<1>13. Reserved(M) = Reserved(L) \ {ref} /\ ref \in Reserved(L)
  BY <1>2, <1>5, <1>10 DEF Reserved
<1>14. LedgerFinite(M)
  <2>1. IsFiniteSet(L.entries) /\ IsFiniteSet(Reserved(L))
    BY LedgerParts
  <2>2. IsFiniteSet(M.entries)
    BY <1>4, <2>1, FS_AddElement, ZenonT(60)
  <2>3. IsFiniteSet(Reserved(M))
    BY <1>13, <2>1, FS_RemoveElement
  <2>4. QED BY <2>2, <2>3 DEF LedgerFinite
<1>15. EscrowsNamed(M)
  BY <1>2, <1>5, <1>10 DEF LedgerInv, EscrowsNamed
<1>16. CommitsEntered(M)
  BY <1>4, <1>5, <1>10 DEF LedgerInv, CommitsEntered
<1>17. SumOver(Held(L), Reserved(L)) = amount + SumOver(Held(M), Reserved(M))
  <2>1. /\ Held(L)[ref] = amount
        /\ \A s \in Reserved(M) : Held(L)[s] = Held(M)[s]
    BY <1>10, <1>13 DEF Held, Reserved
  <2>2. IsFiniteSet(Reserved(L)) /\ \A s \in Reserved(L) : Held(L)[s] \in Int
    BY LedgerParts
  <2>3. SumOver(Held(L), Reserved(L)) = Held(L)[ref] + SumOver(Held(L), Reserved(L) \ {ref})
    BY <1>13, <2>2, SumSplits
  <2>4. SumOver(Held(L), Reserved(M)) = SumOver(Held(M), Reserved(M))
    BY <1>14, <2>1, SumSame DEF LedgerFinite
  <2>5. QED BY <1>13, <2>1, <2>3, <2>4
<1>18. /\ \A u \in Users : M.balance[u] = Received(M, u) - Paid(M, u)
       /\ Minted(M) - Burned(M) = Minted(L) - Burned(L) + 0 - 0
  BY <1>1, <1>4, <1>6, <1>7, <1>9, <1>11, JournalFollows DEF LedgerInv
<1>19. TotalSupply(M) = Minted(M) - Burned(M)
  <2>1. TotalSupply(M) = SumOver(M.balance, Users) + SumOver(Held(M), Reserved(M))
    BY DEF TotalSupply, Held
  <2>2. SumOver(Held(M), Reserved(M)) \in Int
    <3>1. \A s \in Reserved(M) : Held(M)[s] \in Int
      BY <1>10, <1>13, LedgerParts DEF Held, Reserved
    <3>2. QED BY <1>14, <3>1, SumInt DEF LedgerFinite
  <2>3. TotalSupply(M) = TotalSupply(L)
    BY <2>1, <2>2, <1>3, <1>4, <1>12, <1>17, LedgerParts
  <2>4. TotalSupply(L) = Minted(L) - Burned(L) /\ TotalSupply(L) \in Int
    BY LedgerParts
  <2>5. QED BY <1>18, <2>3, <2>4
<1>20. QED BY <1>9, <1>14, <1>15, <1>16, <1>18, <1>19 DEF LedgerInv, Balanced, M

(* What the operations do to the escrows and to the journal.               *)
LEMMA TransferEffects ==
  ASSUME NEW L \in Ledgers, NEW from, NEW to, NEW amount, NEW ref
  PROVE LET M == Transfer(L, from, to, amount, ref) IN
        /\ M.escrow = L.escrow
        /\ M.entries = Append(L, "transfer", ref, from, to, amount)
BY DEF Transfer, Ledgers

LEMMA MintEffects ==
  ASSUME NEW L \in Ledgers, NEW to, NEW amount, NEW ref
  PROVE LET M == Mint(L, to, amount, ref) IN
        /\ M.escrow = L.escrow
        /\ M.entries = Append(L, "mint", ref, Nobody, to, amount)
BY DEF Mint, Ledgers

LEMMA BurnEffects ==
  ASSUME NEW L \in Ledgers, NEW from, NEW amount, NEW ref
  PROVE LET M == Burn(L, from, amount, ref) IN
        /\ M.escrow = L.escrow
        /\ M.entries = Append(L, "burn", ref, from, Nobody, amount)
BY DEF Burn, Ledgers

LEMMA ReserveEffects ==
  ASSUME NEW L \in Ledgers, NEW buyer \in Users, NEW seller \in Users, NEW amount \in Amounts,
         NEW ref \in Sales, buyer # seller
  PROVE LET M == Reserve(L, buyer, seller, amount, ref) IN
        /\ M.balance[seller] = L.balance[seller]
        /\ M.escrow[ref] = [state |-> "reserved", buyer |-> buyer, seller |-> seller,
                            amount |-> amount]
        /\ \A s \in Sales \ {ref} : M.escrow[s] = L.escrow[s]
        /\ M.entries = Append(L, "escrow_reserve", ref, buyer, Nobody, amount)
BY DEF Reserve, Ledgers

LEMMA CommitEffects ==
  ASSUME NEW L \in Ledgers, NEW ref \in Sales
  PROVE LET M == CommitEscrow(L, ref) IN
        /\ M.escrow[ref].state = "committed"
        /\ M.escrow[ref].buyer = L.escrow[ref].buyer
        /\ \A s \in Sales \ {ref} : M.escrow[s] = L.escrow[s]
        /\ M.entries = Append(L, "escrow_commit", ref, Nobody, L.escrow[ref].seller,
                              L.escrow[ref].amount)
BY DEF CommitEscrow, Ledgers, EconomyEscrow

----------------------------------------------------------------------------
(* Purchases.                                                              *)

(* A listing that exists has a seller and a price, in memory and file.     *)
ListingsNamed(stored) ==
    \A l \in Listings : stored[l].state # "none" =>
        stored[l].seller \in Users /\ stored[l].price \in Amounts

(* What is in a file is in the memory: journal entries, escrows, copies,   *)
(* items and sold listings never disappear.                                *)
FilesAreBehind ==
    /\ ledgerFile.entries \subseteq ledger.entries
    /\ \A s \in Sales : ledgerFile.escrow[s].state # "none" => ledger.escrow[s].state # "none"
    /\ \A l \in Listings : listingFile[l].state = "sold" => listing[l] = listingFile[l]
    /\ assetsFile.copies \subseteq assets.copies
    /\ itemsFile \subseteq items

(* Goods are made only when the escrow is on disk.                         *)
GoodsAfterEscrow ==
    \A s \in Sales : s \in assets.copies \cup items => ledgerFile.escrow[s].state # "none"

(* PaidIsDelivered, for what the ledger would have on disk at its next     *)
(* write too.                                                              *)
SoldOnDisk(s, buyer) ==
    \E l \in Listings : /\ listingFile[l].state = "sold" /\ listingFile[l].sale = s
                        /\ listingFile[l].buyer = buyer

DeliveredFor(L) ==
    \A s \in Sales : L.escrow[s].state = "committed" =>
        /\ s \in assetsFile.copies /\ s \in itemsFile
        /\ SoldOnDisk(s, L.escrow[s].buyer)

(* Where the purchase being answered stands.                               *)
Progress ==
    /\ request.step # "idle" => request.buyer \in Users /\ request.sale \in Sales
    /\ request.step \in {"escrow", "release", "deliver", "item", "complete"} =>
           /\ Matches(request.listing, request.buyer, request.sale)
           /\ listing[request.listing].seller # request.buyer
    /\ request.step \in {"escrow", "deliver"} => request.listing \in assets.owned
    /\ request.step \in {"deliver", "item", "complete", "commit"} =>
           /\ CanCommit(ledger, request.sale)
           /\ ledger.escrow[request.sale].buyer = request.buyer
           /\ ledgerFile.escrow[request.sale].state # "none"
    /\ request.step \in {"item", "complete", "commit"} => request.sale \in assetsFile.copies
    /\ request.step \in {"complete", "commit"} => request.sale \in itemsFile
    /\ request.step = "commit" => SoldOnDisk(request.sale, request.buyer)

(* The four stores, and the request with what it has answered.             *)
StoresInv ==
    /\ {listing, listingFile} \subseteq [Listings -> MarketplaceListing]
    /\ {assets, assetsFile} \subseteq AssetInfos
    /\ {items, itemsFile} \subseteq SUBSET Sales
    /\ LedgerInv(ledger) /\ LedgerInv(ledgerFile)
    /\ ListingsNamed(listing) /\ ListingsNamed(listingFile)
    /\ FilesAreBehind
    /\ GoodsAfterEscrow
    /\ DeliveredFor(ledger) /\ DeliveredFor(ledgerFile)

RequestInv ==
    /\ request \in Request
    /\ drawn \in Nat /\ failures \in Nat /\ crashes \in Nat
    /\ answered \subseteq Refs \cup Sales
    /\ AnsweredIsDurable
    /\ Progress

PurchaseInv == StoresInv /\ RequestInv

(* Types of the stores, one by one.                                        *)
LEMMA StoresTyped ==
  ASSUME StoresInv
  PROVE /\ ledger \in Ledgers /\ ledgerFile \in Ledgers
        /\ listing \in [Listings -> MarketplaceListing]
        /\ listingFile \in [Listings -> MarketplaceListing]
        /\ assets \in AssetInfos /\ assetsFile \in AssetInfos
        /\ assets.copies \subseteq Sales /\ assets.owned \subseteq Listings
        /\ items \subseteq Sales /\ itemsFile \subseteq Sales
<1>1. assets \in AssetInfos /\ assetsFile \in AssetInfos
  BY DEF StoresInv
<1>2. ledger \in Ledgers /\ ledgerFile \in Ledgers
  BY DEF StoresInv, LedgerInv
<1>3. QED BY <1>1, <1>2 DEF StoresInv, AssetInfos

----------------------------------------------------------------------------
(* One step of one store: what its operation must respect for the stores   *)
(* to stay sound, whether the write succeeds or throws.                    *)
LEMMA LedgerStep ==
  ASSUME StoresInv, LedgerInv(ledger'), ledger.entries \subseteq ledger'.entries,
         \A s \in Sales : ledger.escrow[s].state # "none" => ledger'.escrow[s].state # "none",
         \A s \in Sales : ledger'.escrow[s].state = "committed" =>
             \/ ledger'.escrow[s] = ledger.escrow[s]
             \/ /\ s \in assetsFile.copies /\ s \in itemsFile
                /\ SoldOnDisk(s, ledger'.escrow[s].buyer),
         ledgerFile' = ledgerFile \/ ledgerFile' = ledger',
         UNCHANGED <<listing, listingFile, assets, assetsFile, items, itemsFile>>
  PROVE StoresInv' /\ ledgerFile.entries \subseteq ledgerFile'.entries
<1>1. ledgerFile.entries \subseteq ledgerFile'.entries
  BY DEF StoresInv, FilesAreBehind
<1>2. LedgerInv(ledger)' /\ LedgerInv(ledgerFile)'
  BY DEF StoresInv
<1>3. FilesAreBehind'
  BY DEF StoresInv, FilesAreBehind
<1>4. GoodsAfterEscrow'
  BY DEF StoresInv, GoodsAfterEscrow, FilesAreBehind
<1>5. DeliveredFor(ledger)' /\ DeliveredFor(ledgerFile)'
  BY DEF StoresInv, DeliveredFor, SoldOnDisk
<1>6. ListingsNamed(listing)' /\ ListingsNamed(listingFile)'
  BY DEF StoresInv, ListingsNamed
<1>7. QED BY <1>1, <1>2, <1>3, <1>4, <1>5, <1>6 DEF StoresInv

LEMMA ListingStep ==
  ASSUME StoresInv, listing' \in [Listings -> MarketplaceListing], ListingsNamed(listing'),
         \A l \in Listings : listing[l].state = "sold" => listing'[l] = listing[l],
         listingFile' = listingFile \/ listingFile' = listing',
         UNCHANGED <<ledger, ledgerFile, assets, assetsFile, items, itemsFile>>
  PROVE StoresInv'
<1>1. LedgerInv(ledger)' /\ LedgerInv(ledgerFile)'
  BY DEF StoresInv
<1>2. FilesAreBehind'
  BY DEF StoresInv, FilesAreBehind
<1>3. GoodsAfterEscrow'
  BY DEF StoresInv, GoodsAfterEscrow
<1>4. ASSUME NEW s, NEW buyer, SoldOnDisk(s, buyer)
      PROVE SoldOnDisk(s, buyer)'
  BY <1>4 DEF StoresInv, FilesAreBehind, SoldOnDisk
<1>5. DeliveredFor(ledger)' /\ DeliveredFor(ledgerFile)'
  BY <1>4 DEF StoresInv, DeliveredFor
<1>6. ListingsNamed(listing)' /\ ListingsNamed(listingFile)'
  BY DEF StoresInv, ListingsNamed
<1>7. {listing', listingFile'} \subseteq [Listings -> MarketplaceListing]
  BY DEF StoresInv
<1>8. QED BY <1>1, <1>2, <1>3, <1>5, <1>6, <1>7 DEF StoresInv

LEMMA AssetsStep ==
  ASSUME StoresInv, assets' \in AssetInfos, assets.copies \subseteq assets'.copies,
         \A s \in assets'.copies \ assets.copies : ledgerFile.escrow[s].state # "none",
         assetsFile' = assetsFile \/ assetsFile' = assets',
         UNCHANGED <<ledger, ledgerFile, listing, listingFile, items, itemsFile>>
  PROVE StoresInv' /\ assetsFile.copies \subseteq assetsFile'.copies
<1>1. LedgerInv(ledger)' /\ LedgerInv(ledgerFile)'
  BY DEF StoresInv
<1>2. FilesAreBehind' /\ assetsFile.copies \subseteq assetsFile'.copies
  BY DEF StoresInv, FilesAreBehind
<1>3. GoodsAfterEscrow'
  BY DEF StoresInv, GoodsAfterEscrow
<1>4. DeliveredFor(ledger)' /\ DeliveredFor(ledgerFile)'
  BY <1>2 DEF StoresInv, DeliveredFor, SoldOnDisk
<1>5. ListingsNamed(listing)' /\ ListingsNamed(listingFile)'
  BY DEF StoresInv, ListingsNamed
<1>6. {assets', assetsFile'} \subseteq AssetInfos
  BY DEF StoresInv
<1>7. QED BY <1>1, <1>2, <1>3, <1>4, <1>5, <1>6 DEF StoresInv

LEMMA ItemsStep ==
  ASSUME StoresInv, items' \subseteq Sales, items \subseteq items',
         \A s \in items' \ items : ledgerFile.escrow[s].state # "none",
         itemsFile' = itemsFile \/ itemsFile' = items',
         UNCHANGED <<ledger, ledgerFile, listing, listingFile, assets, assetsFile>>
  PROVE StoresInv' /\ itemsFile \subseteq itemsFile'
<1>1. LedgerInv(ledger)' /\ LedgerInv(ledgerFile)'
  BY DEF StoresInv
<1>2. FilesAreBehind' /\ itemsFile \subseteq itemsFile'
  BY DEF StoresInv, FilesAreBehind
<1>3. GoodsAfterEscrow'
  BY DEF StoresInv, GoodsAfterEscrow
<1>4. DeliveredFor(ledger)' /\ DeliveredFor(ledgerFile)'
  BY <1>2 DEF StoresInv, DeliveredFor, SoldOnDisk
<1>5. ListingsNamed(listing)' /\ ListingsNamed(listingFile)'
  BY DEF StoresInv, ListingsNamed
<1>6. {items', itemsFile'} \subseteq SUBSET Sales
  BY DEF StoresInv
<1>7. QED BY <1>1, <1>2, <1>3, <1>4, <1>5, <1>6 DEF StoresInv

----------------------------------------------------------------------------
(* A request that ends, with a throw or with an answer, leaves no purchase *)
(* in progress.                                                            *)
LEMMA IdleIsARequest == Idle \in Request /\ Idle.step = "idle"
BY ListingsAssumption DEF Idle, Request, Step

LEMMA RequestEnds ==
  ASSUME RequestInv, request' = Idle, ledgerFile.entries \subseteq ledgerFile'.entries,
         drawn' \in Nat, failures' \in Nat, crashes' \in Nat,
         answered' \subseteq Refs \cup Sales,
         \A ref \in answered' \ answered :
             \E e \in ledgerFile'.entries : e.ref = ref /\ e.kind # "escrow_reserve"
  PROVE RequestInv'
<1>1. request' \in Request /\ request'.step = "idle"
  BY IdleIsARequest
<1>2. Progress'
  BY <1>1 DEF Progress
<1>3. AnsweredIsDurable'
  BY DEF RequestInv, AnsweredIsDurable
<1>4. QED BY <1>1, <1>2, <1>3 DEF RequestInv

LEMMA RequestThrows ==
  ASSUME RequestInv, Throws
  PROVE RequestInv'
<1>1. /\ request' = Idle /\ ledgerFile' = ledgerFile /\ answered' = answered
      /\ drawn' \in Nat /\ failures' \in Nat /\ crashes' \in Nat
      /\ answered' \subseteq Refs \cup Sales
  BY DEF RequestInv, Throws, files
<1>2. QED BY <1>1, RequestEnds

(* The next step of a purchase, once Progress' is shown.                   *)
LEMMA RequestGoes ==
  ASSUME RequestInv, NEW step \in Step, Goes(step), Progress',
         ledgerFile.entries \subseteq ledgerFile'.entries, Unbothered
  PROVE RequestInv'
<1>1. request' \in Request
  BY DEF RequestInv, Goes, Request
<1>2. AnsweredIsDurable'
  BY DEF RequestInv, AnsweredIsDurable, Goes
<1>3. QED BY <1>1, <1>2 DEF RequestInv, Goes, Unbothered
----------------------------------------------------------------------------
(* Requests that change one store.                                         *)
LEMMA LedgerRequestKeeps ==
  ASSUME PurchaseInv, NEW ref \in Refs, LedgerRequest(ref), LedgerInv(ledger'),
         ledger'.escrow = ledger.escrow,
         NEW x, x.ref = ref, x.kind # "escrow_reserve", ledger'.entries = ledger.entries \cup {x}
  PROVE PurchaseInv'
<1>1. UNCHANGED <<listing, assets, items, listingFile, assetsFile, itemsFile>>
  BY DEF LedgerRequest, LedgerWritten, Throws, files
<1>2. ledgerFile' = ledgerFile \/ ledgerFile' = ledger'
  BY DEF LedgerRequest, LedgerWritten, WriteLedger, Throws, files
<1>3. StoresInv' /\ ledgerFile.entries \subseteq ledgerFile'.entries
  BY <1>1, <1>2, LedgerStep DEF PurchaseInv
<1>4. CASE Throws
  BY <1>3, <1>4, RequestThrows DEF PurchaseInv
<1>5. CASE LedgerWritten(Answers({ref}))
  <2>1. /\ request' = Idle /\ answered' = answered \cup {ref} /\ ledgerFile' = ledger'
        /\ UNCHANGED <<drawn, failures, crashes>>
    BY <1>5 DEF LedgerWritten, Answers, WriteLedger, Unbothered
  <2>2. x \in ledgerFile'.entries
    BY <2>1
  <2>3. RequestInv'
    BY <1>3, <2>1, <2>2, RequestEnds DEF PurchaseInv, RequestInv
  <2>4. QED BY <1>3, <2>3 DEF PurchaseInv
<1>6. QED BY <1>4, <1>5 DEF LedgerRequest

LEMMA LedgerRequestsKeep ==
  ASSUME PurchaseInv, NEW from \in Users, NEW to \in Users, NEW amount \in Amounts,
         NEW ref \in Refs,
         TransferRequest(from, to, amount, ref) \/ MintRequest(to, amount, ref)
             \/ BurnRequest(from, amount, ref)
  PROVE PurchaseInv'
<1>1. LedgerInv(ledger) /\ ledger \in Ledgers
  BY StoresTyped DEF PurchaseInv, StoresInv
<1>2. CASE TransferRequest(from, to, amount, ref)
  <2> DEFINE x == [kind |-> "transfer", ref |-> ref, from |-> from, to |-> to, amount |-> amount]
  <2>1. LedgerInv(ledger')
    BY <1>1, <1>2, TransferKeepsBooks DEF TransferRequest
  <2>2. ledger'.escrow = ledger.escrow /\ ledger'.entries = ledger.entries \cup {x}
    BY <1>1, <1>2, TransferEffects DEF TransferRequest, Append
  <2>3. x.ref = ref /\ x.kind # "escrow_reserve"
    OBVIOUS
  <2> HIDE DEF x
  <2>4. QED BY <1>2, <2>1, <2>2, <2>3, LedgerRequestKeeps DEF TransferRequest
<1>3. CASE MintRequest(to, amount, ref)
  <2> DEFINE x == [kind |-> "mint", ref |-> ref, from |-> Nobody, to |-> to, amount |-> amount]
  <2>1. LedgerInv(ledger')
    BY <1>1, <1>3, MintKeepsBooks DEF MintRequest
  <2>2. ledger'.escrow = ledger.escrow /\ ledger'.entries = ledger.entries \cup {x}
    BY <1>1, <1>3, MintEffects DEF MintRequest, Append
  <2>3. x.ref = ref /\ x.kind # "escrow_reserve"
    OBVIOUS
  <2> HIDE DEF x
  <2>4. QED BY <1>3, <2>1, <2>2, <2>3, LedgerRequestKeeps DEF MintRequest
<1>4. CASE BurnRequest(from, amount, ref)
  <2> DEFINE x == [kind |-> "burn", ref |-> ref, from |-> from, to |-> Nobody, amount |-> amount]
  <2>1. LedgerInv(ledger')
    BY <1>1, <1>4, BurnKeepsBooks DEF BurnRequest
  <2>2. ledger'.escrow = ledger.escrow /\ ledger'.entries = ledger.entries \cup {x}
    BY <1>1, <1>4, BurnEffects DEF BurnRequest, Append
  <2>3. x.ref = ref /\ x.kind # "escrow_reserve"
    OBVIOUS
  <2> HIDE DEF x
  <2>4. QED BY <1>4, <2>1, <2>2, <2>3, LedgerRequestKeeps DEF BurnRequest
<1>5. QED BY <1>2, <1>3, <1>4

LEMMA ListingRequestKeeps ==
  ASSUME PurchaseInv, ListingRequest, listing' \in [Listings -> MarketplaceListing],
         ListingsNamed(listing'),
         \A l \in Listings : listing[l].state = "sold" => listing'[l] = listing[l]
  PROVE PurchaseInv'
<1>1. /\ UNCHANGED <<ledger, assets, items, ledgerFile, assetsFile, itemsFile>>
      /\ listingFile' = listingFile \/ listingFile' = listing'
  BY DEF ListingRequest, ListingWritten, WriteListing, Throws, files
<1>2. StoresInv'
  BY <1>1, ListingStep DEF PurchaseInv
<1>3. CASE Throws
  BY <1>2, <1>3, RequestThrows DEF PurchaseInv
<1>4. CASE ListingWritten(Answers({}))
  <2>1. /\ request' = Idle /\ answered' = answered
        /\ UNCHANGED <<drawn, failures, crashes>>
    BY <1>4 DEF ListingWritten, Answers, Unbothered
  <2>2. RequestInv'
    BY <1>1, <2>1, RequestEnds DEF PurchaseInv, RequestInv
  <2>3. QED BY <1>2, <2>2 DEF PurchaseInv
<1>5. QED BY <1>3, <1>4 DEF ListingRequest

LEMMA CreateKeeps ==
  ASSUME PurchaseInv, NEW l \in Listings, NEW seller \in Users, NEW price \in Amounts,
         Create(l, seller, price)
  PROVE PurchaseInv'
<1> DEFINE row == [NoListing EXCEPT !.state = "active", !.seller = seller, !.price = price]
<1>1. row \in MarketplaceListing /\ row.seller = seller /\ row.price = price
  BY DEF NoListing, MarketplaceListing, ListingState
<1>2. listing \in [Listings -> MarketplaceListing] /\ ListingsNamed(listing)
  BY StoresTyped DEF PurchaseInv, StoresInv
<1>3. listing' = [listing EXCEPT ![l] = row] /\ listing[l].state = "none" /\ ListingRequest
  BY DEF Create, Created
<1> HIDE DEF row
<1>4. listing' \in [Listings -> MarketplaceListing]
  BY <1>1, <1>2, <1>3
<1>5. ListingsNamed(listing')
  BY <1>1, <1>2, <1>3 DEF ListingsNamed
<1>6. QED BY <1>2, <1>3, <1>4, <1>5, ListingRequestKeeps

LEMMA CancelKeeps ==
  ASSUME PurchaseInv, NEW l \in Listings, Cancel(l)
  PROVE PurchaseInv'
<1> DEFINE row == [listing[l] EXCEPT !.state = "cancelled"]
<1>1. listing \in [Listings -> MarketplaceListing] /\ ListingsNamed(listing)
  BY StoresTyped DEF PurchaseInv, StoresInv
<1>2. row \in MarketplaceListing /\ row.seller = listing[l].seller /\ row.price = listing[l].price
  BY <1>1 DEF MarketplaceListing, ListingState
<1>3. listing' = [listing EXCEPT ![l] = row] /\ listing[l].state = "active" /\ ListingRequest
  BY DEF Cancel, Cancelled
<1> HIDE DEF row
<1>4. listing' \in [Listings -> MarketplaceListing]
  BY <1>1, <1>2, <1>3
<1>5. ListingsNamed(listing')
  BY <1>1, <1>2, <1>3 DEF ListingsNamed
<1>6. QED BY <1>1, <1>3, <1>4, <1>5, ListingRequestKeeps

LEMMA GiveAwayKeeps ==
  ASSUME PurchaseInv, NEW l \in Listings, GiveAway(l)
  PROVE PurchaseInv'
<1>1. /\ UNCHANGED <<ledger, ledgerFile, listing, listingFile, items, itemsFile>>
      /\ assetsFile' = assetsFile \/ assetsFile' = assets'
      /\ assets' = [assets EXCEPT !.owned = @ \ {l}]
  BY DEF GiveAway, AssetsWritten, WriteAssets, Throws, files
<1>2. assets' \in AssetInfos /\ assets'.copies = assets.copies
  BY <1>1, StoresTyped DEF PurchaseInv, AssetInfos
<1>3. StoresInv'
  BY <1>1, <1>2, AssetsStep DEF PurchaseInv
<1>4. CASE Throws
  BY <1>3, <1>4, RequestThrows DEF PurchaseInv
<1>5. CASE AssetsWritten(Answers({}))
  <2>1. /\ request' = Idle /\ answered' = answered
        /\ UNCHANGED <<drawn, failures, crashes>>
    BY <1>5 DEF AssetsWritten, Answers, Unbothered
  <2>2. RequestInv'
    BY <1>1, <2>1, RequestEnds DEF PurchaseInv, RequestInv
  <2>3. QED BY <1>3, <2>2 DEF PurchaseInv
<1>6. QED BY <1>4, <1>5 DEF GiveAway

----------------------------------------------------------------------------
(* The steps of a purchase.                                                *)
LEMMA ReservePurchaseKeeps ==
  ASSUME PurchaseInv, NEW l \in Listings, NEW buyer \in Users, ReservePurchase(l, buyer)
  PROVE PurchaseInv'
<1> DEFINE sale == drawn + 1
           row == [listing[l] EXCEPT !.state = "reserved", !.buyer = buyer, !.sale = sale]
<1>1. listing \in [Listings -> MarketplaceListing] /\ ListingsNamed(listing)
  BY StoresTyped DEF PurchaseInv, StoresInv
<1>2. /\ request = Idle /\ l \in assets.owned /\ sale \in Sales
      /\ listing[l].state = "active" /\ listing[l].seller # buyer
      /\ UNCHANGED <<ledger, assets, items, ledgerFile, assetsFile, itemsFile>>
      /\ listingFile' = listingFile \/ listingFile' = listing'
  BY DEF ReservePurchase, ReservedFor, WriteListing, files
<1>3. /\ row \in MarketplaceListing /\ row.state = "reserved" /\ row.buyer = buyer
      /\ row.sale = sale /\ row.seller = listing[l].seller /\ row.price = listing[l].price
  BY <1>1, <1>2 DEF MarketplaceListing, ListingState
<1>4. listing' = [listing EXCEPT ![l] = row]
  BY <1>1, <1>2 DEF ReservePurchase, ReservedFor, MarketplaceListing
<1> HIDE DEF row
<1>5. listing' \in [Listings -> MarketplaceListing]
  BY <1>1, <1>3, <1>4
<1>6. ListingsNamed(listing')
  BY <1>1, <1>2, <1>3, <1>4 DEF ListingsNamed
<1>7. StoresInv'
  BY <1>1, <1>2, <1>4, <1>5, <1>6, ListingStep DEF PurchaseInv
<1>8. drawn' \in Nat /\ failures' \in Nat /\ crashes' \in Nat /\ answered' = answered
  BY DEF PurchaseInv, RequestInv, ReservePurchase, history
<1>9. CASE request' = Idle
  <2>1. RequestInv'
    BY <1>2, <1>8, <1>9, RequestEnds DEF PurchaseInv, RequestInv
  <2>2. QED BY <1>7, <2>1 DEF PurchaseInv
<1>10. CASE request' = [step |-> "escrow", listing |-> l, buyer |-> buyer, sale |-> sale]
  <2>1. request' \in Request
    BY <1>2, <1>10 DEF Request, Step
  <2>2. Progress'
    BY <1>1, <1>2, <1>3, <1>4, <1>10 DEF Progress, Matches
  <2>3. AnsweredIsDurable'
    BY <1>2, <1>8 DEF PurchaseInv, RequestInv, AnsweredIsDurable
  <2>4. QED BY <1>7, <1>8, <2>1, <2>2, <2>3 DEF PurchaseInv, RequestInv
<1>11. QED BY <1>2, <1>9, <1>10 DEF ReservePurchase

LEMMA ReserveEscrowKeeps ==
  ASSUME PurchaseInv, ReserveEscrow
  PROVE PurchaseInv'
<1> DEFINE l == request.listing
           buyer == request.buyer
           sale == request.sale
<1>1. /\ request \in Request /\ request.step = "escrow" /\ l \in Listings
      /\ buyer \in Users /\ sale \in Sales /\ l \in assets.owned
      /\ Matches(l, buyer, sale) /\ listing[l].seller # buyer
  BY DEF PurchaseInv, RequestInv, Progress, Request, ReserveEscrow
<1>2. Seller \in Users /\ Price \in Amounts
  BY <1>1 DEF PurchaseInv, StoresInv, ListingsNamed, Matches, Seller, Price
<1>3. /\ CanReserve(ledger, buyer, Seller, Price, sale)
      /\ ledger' = Reserve(ledger, buyer, Seller, Price, sale)
      /\ UNCHANGED <<listing, assets, items, listingFile, assetsFile, itemsFile>>
      /\ ledgerFile' = ledgerFile \/ ledgerFile' = ledger'
  BY DEF ReserveEscrow, LedgerWritten, WriteLedger, Throws, files
<1>4. LedgerInv(ledger) /\ ledger \in Ledgers
  BY StoresTyped DEF PurchaseInv, StoresInv
<1>5. LedgerInv(ledger')
  BY <1>1, <1>2, <1>3, <1>4, ReserveKeepsBooks
<1>6. /\ ledger'.balance[Seller] = ledger.balance[Seller]
      /\ ledger'.escrow[sale] = [state |-> "reserved", buyer |-> buyer, seller |-> Seller,
                                 amount |-> Price]
      /\ \A s \in Sales \ {sale} : ledger'.escrow[s] = ledger.escrow[s]
      /\ ledger.entries \subseteq ledger'.entries
  <2>1. buyer # Seller
    BY <1>1 DEF Seller
  <2>2. QED BY <1>1, <1>2, <1>3, <1>4, <2>1, ReserveEffects DEF Append
<1>7. StoresInv' /\ ledgerFile.entries \subseteq ledgerFile'.entries
  <2>1. \A s \in Sales : ledger.escrow[s].state # "none" => ledger'.escrow[s].state # "none"
    BY <1>6
  <2>2. \A s \in Sales : ledger'.escrow[s].state = "committed" =>
                              ledger'.escrow[s] = ledger.escrow[s]
    BY <1>6
  <2>3. QED BY <1>3, <1>5, <1>6, <2>1, <2>2, LedgerStep DEF PurchaseInv
<1>8. CASE Throws
  BY <1>7, <1>8, RequestThrows DEF PurchaseInv
<1>9. CASE LedgerWritten(Goes("deliver"))
  <2>1. /\ Goes("deliver") /\ Unbothered /\ ledgerFile' = ledger'
    BY <1>9 DEF LedgerWritten, WriteLedger
  <2>2. /\ request'.step = "deliver" /\ request'.listing = l /\ request'.buyer = buyer
        /\ request'.sale = sale
    BY <1>1, <2>1 DEF Goes, Request
  <2>3. CanCommit(ledger, sale)'
    BY <1>3, <1>6, <2>2 DEF CanCommit, CanReserve, AddOverflows
  <2>4. Matches(l, buyer, sale)' /\ l' = l /\ sale' = sale
    BY <1>1, <1>3, <2>2 DEF Matches
  <2>5. Progress'
    BY <1>1, <1>3, <1>6, <2>1, <2>2, <2>3, <2>4 DEF Progress, Matches
  <2>6. RequestInv'
    BY <1>7, <2>1, <2>5, RequestGoes DEF PurchaseInv, Step
  <2>7. QED BY <1>7, <2>6 DEF PurchaseInv
<1>10. QED BY <1>8, <1>9 DEF ReserveEscrow

LEMMA RefuseEscrowKeeps ==
  ASSUME PurchaseInv, RefuseEscrow
  PROVE PurchaseInv'
<1>1. /\ UNCHANGED <<ledger, ledgerFile, listing, listingFile, assets, assetsFile, items, itemsFile>>
      /\ Goes("release") /\ Unbothered /\ request.step = "escrow"
  BY DEF RefuseEscrow, memory, files
<1>2. StoresInv'
  <2>1. ListingsNamed(listing')
    BY <1>1 DEF PurchaseInv, StoresInv, ListingsNamed
  <2>2. QED BY <1>1, <2>1, StoresTyped, ListingStep DEF PurchaseInv
<1>3. /\ request'.step = "release" /\ request'.listing = request.listing
      /\ request'.buyer = request.buyer /\ request'.sale = request.sale
  BY <1>1 DEF PurchaseInv, RequestInv, Goes, Request
<1>4. Progress'
  BY <1>1, <1>3 DEF PurchaseInv, RequestInv, Progress, Matches
<1>5. RequestInv'
  BY <1>1, <1>4, RequestGoes DEF PurchaseInv, Step
<1>6. QED BY <1>2, <1>5 DEF PurchaseInv
LEMMA RollbackPurchaseKeeps ==
  ASSUME PurchaseInv, RollbackPurchase
  PROVE PurchaseInv'
<1> DEFINE l == request.listing
           row == [listing[l] EXCEPT !.state = "active", !.buyer = Nobody, !.sale = 0]
<1>1. listing \in [Listings -> MarketplaceListing] /\ ListingsNamed(listing)
  BY StoresTyped DEF PurchaseInv, StoresInv
<1>2. l \in Listings /\ listing[l].state = "reserved"
  BY DEF PurchaseInv, RequestInv, Progress, Request, RollbackPurchase, Matches
<1>3. row \in MarketplaceListing /\ row.seller = listing[l].seller /\ row.price = listing[l].price
  BY <1>1, <1>2, ZenonT(60) DEF MarketplaceListing, ListingState
<1>4. listing' = [listing EXCEPT ![l] = row]
  BY <1>1, <1>2 DEF RollbackPurchase, RolledBack, MarketplaceListing
<1>5. /\ UNCHANGED <<ledger, assets, items, ledgerFile, assetsFile, itemsFile>>
      /\ listingFile' = listingFile \/ listingFile' = listing'
  BY DEF RollbackPurchase, ListingWritten, WriteListing, Throws, files
<1> HIDE DEF row
<1>6. listing' \in [Listings -> MarketplaceListing]
  BY <1>1, <1>2, <1>3, <1>4
<1>7. ListingsNamed(listing')
  BY <1>1, <1>2, <1>3, <1>4 DEF ListingsNamed
<1>8. StoresInv'
  BY <1>1, <1>2, <1>4, <1>5, <1>6, <1>7, ListingStep DEF PurchaseInv
<1>9. CASE Throws
  BY <1>8, <1>9, RequestThrows DEF PurchaseInv
<1>10. CASE ListingWritten(Answers({}))
  <2>1. /\ request' = Idle /\ answered' = answered
        /\ UNCHANGED <<drawn, failures, crashes>>
    BY <1>10 DEF ListingWritten, Answers, Unbothered
  <2>2. RequestInv'
    BY <1>5, <2>1, RequestEnds DEF PurchaseInv, RequestInv
  <2>3. QED BY <1>8, <2>2 DEF PurchaseInv
<1>11. QED BY <1>9, <1>10 DEF RollbackPurchase

LEMMA DeliverKeeps ==
  ASSUME PurchaseInv, Deliver
  PROVE PurchaseInv'
<1> DEFINE sale == request.sale
<1>1. /\ request \in Request /\ request.step = "deliver" /\ sale \in Sales
      /\ ledgerFile.escrow[sale].state # "none"
  BY DEF PurchaseInv, RequestInv, Progress, Deliver
<1>2. /\ UNCHANGED <<ledger, ledgerFile, listing, listingFile, items, itemsFile>>
      /\ assetsFile' = assetsFile \/ assetsFile' = assets'
      /\ assets' = [assets EXCEPT !.copies = @ \cup {sale}]
  BY DEF Deliver, AssetsWritten, WriteAssets, Throws, files
<1>3. assets' \in AssetInfos /\ assets'.copies = assets.copies \cup {sale}
  BY <1>1, <1>2, StoresTyped DEF PurchaseInv, AssetInfos
<1>4. StoresInv'
  BY <1>1, <1>2, <1>3, AssetsStep DEF PurchaseInv
<1>5. CASE Throws
  BY <1>4, <1>5, RequestThrows DEF PurchaseInv
<1>6. CASE AssetsWritten(Goes("item"))
  <2>1. Goes("item") /\ Unbothered /\ assetsFile' = assets'
    BY <1>6 DEF AssetsWritten, WriteAssets
  <2>2. /\ request'.step = "item" /\ request'.listing = request.listing
        /\ request'.buyer = request.buyer /\ request'.sale = sale
    BY <1>1, <2>1 DEF Goes, Request
  <2>3. Progress'
    BY <1>1, <1>2, <1>3, <2>1, <2>2
       DEF PurchaseInv, RequestInv, Progress, Matches, CanCommit
  <2>4. RequestInv'
    BY <1>2, <2>1, <2>3, RequestGoes DEF PurchaseInv, Step
  <2>5. QED BY <1>4, <2>4 DEF PurchaseInv
<1>7. QED BY <1>5, <1>6 DEF Deliver

LEMMA CreateItemKeeps ==
  ASSUME PurchaseInv, CreateItem
  PROVE PurchaseInv'
<1> DEFINE sale == request.sale
<1>1. /\ request \in Request /\ request.step = "item" /\ sale \in Sales
      /\ ledgerFile.escrow[sale].state # "none"
  BY DEF PurchaseInv, RequestInv, Progress, CreateItem
<1>2. /\ UNCHANGED <<ledger, ledgerFile, listing, listingFile, assets, assetsFile>>
      /\ itemsFile' = itemsFile \/ itemsFile' = items'
      /\ items' = items \cup {sale}
  BY DEF CreateItem, ItemsWritten, WriteItems, Throws, files
<1>3. items' \subseteq Sales
  BY <1>1, <1>2, StoresTyped DEF PurchaseInv
<1>4. StoresInv'
  BY <1>1, <1>2, <1>3, ItemsStep DEF PurchaseInv
<1>5. CASE Throws
  BY <1>4, <1>5, RequestThrows DEF PurchaseInv
<1>6. CASE ItemsWritten(Goes("complete"))
  <2>1. Goes("complete") /\ Unbothered /\ itemsFile' = items'
    BY <1>6 DEF ItemsWritten, WriteItems
  <2>2. /\ request'.step = "complete" /\ request'.listing = request.listing
        /\ request'.buyer = request.buyer /\ request'.sale = sale
    BY <1>1, <2>1 DEF Goes, Request
  <2>3. Progress'
    BY <1>1, <1>2, <2>1, <2>2
       DEF PurchaseInv, RequestInv, Progress, Matches, CanCommit
  <2>4. RequestInv'
    BY <1>2, <2>1, <2>3, RequestGoes DEF PurchaseInv, Step
  <2>5. QED BY <1>4, <2>4 DEF PurchaseInv
<1>7. QED BY <1>5, <1>6 DEF CreateItem

LEMMA CompletePurchaseKeeps ==
  ASSUME PurchaseInv, CompletePurchase
  PROVE PurchaseInv'
<1> DEFINE l == request.listing
           row == [listing[l] EXCEPT !.state = "sold"]
<1>1. listing \in [Listings -> MarketplaceListing] /\ ListingsNamed(listing)
  BY StoresTyped DEF PurchaseInv, StoresInv
<1>2. /\ request \in Request /\ request.step = "complete" /\ l \in Listings
      /\ request.buyer \in Users /\ request.sale \in Sales
      /\ Matches(l, request.buyer, request.sale)
  BY DEF PurchaseInv, RequestInv, Progress, Request, CompletePurchase
<1>3. /\ row \in MarketplaceListing /\ row.seller = listing[l].seller /\ row.price = listing[l].price
      /\ row.state = "sold" /\ row.sale = request.sale /\ row.buyer = request.buyer
  BY <1>1, <1>2 DEF MarketplaceListing, ListingState, Matches
<1>4. listing' = [listing EXCEPT ![l] = row]
  BY DEF CompletePurchase
<1>5. /\ UNCHANGED <<ledger, assets, items, ledgerFile, assetsFile, itemsFile>>
      /\ listingFile' = listingFile \/ listingFile' = listing'
  BY DEF CompletePurchase, ListingWritten, WriteListing, Throws, files
<1> HIDE DEF row
<1>6. listing' \in [Listings -> MarketplaceListing]
  BY <1>1, <1>2, <1>3, <1>4
<1>7. ListingsNamed(listing')
  BY <1>1, <1>2, <1>3, <1>4 DEF ListingsNamed, Matches
<1>8. StoresInv'
  BY <1>1, <1>2, <1>4, <1>5, <1>6, <1>7, ListingStep DEF PurchaseInv, Matches
<1>9. CASE Throws
  BY <1>8, <1>9, RequestThrows DEF PurchaseInv
<1>10. CASE ListingWritten(Goes("commit"))
  <2>1. Goes("commit") /\ Unbothered /\ listingFile' = listing'
    BY <1>10 DEF ListingWritten, WriteListing
  <2>2. /\ request'.step = "commit" /\ request'.listing = l
        /\ request'.buyer = request.buyer /\ request'.sale = request.sale
    BY <1>2, <2>1 DEF Goes, Request
  <2>3. SoldOnDisk(request.sale, request.buyer)'
    BY <1>1, <1>2, <1>3, <1>4, <2>1, <2>2 DEF SoldOnDisk
  <2>4. Progress'
    BY <1>2, <1>5, <2>1, <2>2, <2>3 DEF PurchaseInv, RequestInv, Progress, CanCommit
  <2>5. RequestInv'
    BY <1>5, <2>1, <2>4, RequestGoes DEF PurchaseInv, Step
  <2>6. QED BY <1>8, <2>5 DEF PurchaseInv
<1>11. QED BY <1>9, <1>10 DEF CompletePurchase

LEMMA CommitKeeps ==
  ASSUME PurchaseInv, Commit
  PROVE PurchaseInv'
<1> DEFINE sale == request.sale
           x == [kind |-> "escrow_commit", ref |-> sale, from |-> Nobody,
                 to |-> ledger.escrow[sale].seller, amount |-> ledger.escrow[sale].amount]
<1>1. /\ request \in Request /\ request.step = "commit" /\ sale \in Sales
      /\ ledger.escrow[sale].buyer = request.buyer
      /\ sale \in assetsFile.copies /\ sale \in itemsFile
      /\ SoldOnDisk(sale, request.buyer)
  BY DEF PurchaseInv, RequestInv, Progress, Commit
<1>2. /\ CanCommit(ledger, sale) /\ ledger' = CommitEscrow(ledger, sale)
      /\ UNCHANGED <<listing, assets, items, listingFile, assetsFile, itemsFile>>
      /\ ledgerFile' = ledgerFile \/ ledgerFile' = ledger'
  BY DEF Commit, LedgerWritten, WriteLedger, Throws, files
<1>3. LedgerInv(ledger) /\ ledger \in Ledgers
  BY StoresTyped DEF PurchaseInv, StoresInv
<1>4. LedgerInv(ledger')
  BY <1>1, <1>2, <1>3, CommitKeepsBooks
<1>5. /\ ledger'.escrow[sale].state = "committed"
      /\ ledger'.escrow[sale].buyer = request.buyer
      /\ \A s \in Sales \ {sale} : ledger'.escrow[s] = ledger.escrow[s]
      /\ ledger'.entries = ledger.entries \cup {x}
  BY <1>1, <1>2, <1>3, CommitEffects DEF Append
<1>6. StoresInv' /\ ledgerFile.entries \subseteq ledgerFile'.entries
  <2>1. \A s \in Sales : ledger.escrow[s].state # "none" => ledger'.escrow[s].state # "none"
    BY <1>5
  <2>2. ASSUME NEW s \in Sales, ledger'.escrow[s].state = "committed"
        PROVE \/ ledger'.escrow[s] = ledger.escrow[s]
              \/ /\ s \in assetsFile.copies /\ s \in itemsFile
                 /\ SoldOnDisk(s, ledger'.escrow[s].buyer)
    BY <1>1, <1>5
  <2>3. ledger.entries \subseteq ledger'.entries
    BY <1>5
  <2>4. QED BY <1>2, <1>4, <2>1, <2>2, <2>3, LedgerStep DEF PurchaseInv
<1>7. CASE Throws
  BY <1>6, <1>7, RequestThrows DEF PurchaseInv
<1>8. CASE LedgerWritten(Answers({sale}))
  <2>1. /\ request' = Idle /\ answered' = answered \cup {sale} /\ ledgerFile' = ledger'
        /\ UNCHANGED <<drawn, failures, crashes>>
    BY <1>8 DEF LedgerWritten, Answers, WriteLedger, Unbothered
  <2>2. x \in ledgerFile'.entries /\ x.ref = sale /\ x.kind # "escrow_reserve"
    BY <1>5, <2>1
  <2> HIDE DEF x
  <2>3. RequestInv'
    BY <1>1, <1>6, <2>1, <2>2, RequestEnds DEF PurchaseInv, RequestInv
  <2>4. QED BY <1>6, <2>3 DEF PurchaseInv
<1>9. QED BY <1>7, <1>8 DEF Commit

----------------------------------------------------------------------------
(* A restart reads what the files say.                                     *)
LEMMA RestartKeeps ==
  ASSUME PurchaseInv, Restart
  PROVE PurchaseInv'
<1>1. /\ ledger' = ledgerFile /\ listing' = listingFile /\ assets' = assetsFile
      /\ items' = itemsFile /\ request' = Idle /\ answered' = answered /\ drawn' = drawn
      /\ UNCHANGED <<ledgerFile, listingFile, assetsFile, itemsFile>>
      /\ failures' = failures /\ crashes' = crashes + 1
  BY DEF Restart, files, ReadLedger, ReadListing, ReadAssets, ReadItems
<1>2. LedgerInv(ledger)' /\ LedgerInv(ledgerFile)'
  BY <1>1 DEF PurchaseInv, StoresInv
<1>3. ListingsNamed(listing)' /\ ListingsNamed(listingFile)'
  BY <1>1 DEF PurchaseInv, StoresInv, ListingsNamed
<1>4. FilesAreBehind'
  BY <1>1 DEF FilesAreBehind
<1>5. GoodsAfterEscrow'
  BY <1>1 DEF PurchaseInv, StoresInv, GoodsAfterEscrow, FilesAreBehind
<1>6. DeliveredFor(ledger)' /\ DeliveredFor(ledgerFile)'
  BY <1>1 DEF PurchaseInv, StoresInv, DeliveredFor, SoldOnDisk
<1>7. StoresInv'
  BY <1>1, <1>2, <1>3, <1>4, <1>5, <1>6 DEF PurchaseInv, StoresInv
<1>8. RequestInv'
  <2>1. drawn' \in Nat /\ failures' \in Nat /\ crashes' \in Nat
    BY <1>1 DEF PurchaseInv, RequestInv
  <2>2. QED BY <1>1, <2>1, RequestEnds DEF PurchaseInv, RequestInv
<1>9. QED BY <1>7, <1>8 DEF PurchaseInv

LEMMA StutterKeeps ==
  ASSUME PurchaseInv, UNCHANGED vars
  PROVE PurchaseInv'
<1>1. UNCHANGED <<ledger, ledgerFile, listing, listingFile, assets, assetsFile, items, itemsFile,
                  request, drawn, answered, failures, crashes>>
  BY DEF vars, memory, files, history
<1>2. ListingsNamed(listing')
  BY <1>1 DEF PurchaseInv, StoresInv, ListingsNamed
<1>3. StoresInv'
  BY <1>1, <1>2, StoresTyped, ListingStep DEF PurchaseInv
<1>4. AnsweredIsDurable' /\ Progress'
  BY <1>1 DEF PurchaseInv, RequestInv, AnsweredIsDurable, Progress, Matches, CanCommit, SoldOnDisk
<1>5. QED BY <1>1, <1>3, <1>4 DEF PurchaseInv, RequestInv

(* The invariant at the start: empty stores and nothing in progress.       *)
LEMMA PurchaseInvInit ==
  ASSUME Init
  PROVE PurchaseInv
<1>1. LedgerInv(ledger) /\ LedgerInv(ledgerFile)
  BY EmptyLedgerInv DEF Init
<1>2. /\ \A s \in Sales : ledger.escrow[s].state = "none" /\ ledgerFile.escrow[s].state = "none"
      /\ ledgerFile.entries = ledger.entries
  BY DEF Init, EmptyLedger, NoEscrow
<1>3. /\ {listing, listingFile} \subseteq [Listings -> MarketplaceListing]
      /\ \A l \in Listings : listing[l].state = "none" /\ listingFile[l].state = "none"
  BY DEF Init, NoListing, MarketplaceListing, ListingState
<1>4. {assets, assetsFile} \subseteq AssetInfos /\ {items, itemsFile} \subseteq SUBSET Sales
  BY DEF Init, AssetInfos
<1>5. assets.copies = {} /\ assetsFile.copies = {} /\ items = {} /\ itemsFile = {}
  BY DEF Init
<1>6. ListingsNamed(listing) /\ ListingsNamed(listingFile)
  BY <1>3 DEF ListingsNamed
<1>7. FilesAreBehind /\ GoodsAfterEscrow
  BY <1>2, <1>3, <1>5 DEF FilesAreBehind, GoodsAfterEscrow
<1>8. DeliveredFor(ledger) /\ DeliveredFor(ledgerFile)
  BY <1>2 DEF DeliveredFor
<1>9. request \in Request /\ Progress /\ AnsweredIsDurable
  BY IdleIsARequest DEF Init, Progress, AnsweredIsDurable
<1>10. drawn \in Nat /\ failures \in Nat /\ crashes \in Nat /\ answered \subseteq Refs \cup Sales
  BY DEF Init
<1>11. QED BY <1>1, <1>3, <1>4, <1>6, <1>7, <1>8, <1>9, <1>10 DEF PurchaseInv, StoresInv, RequestInv

(* No step of any request, no failed write and no restart breaks the       *)
(* invariant (admin_http_platform.inc, POST /v1/marketplace/purchase).     *)
THEOREM PurchaseInductive == Spec => []PurchaseInv
<1>1. Init => PurchaseInv
  BY PurchaseInvInit
<1>2. PurchaseInv /\ [Next]_vars => PurchaseInv'
  <2> SUFFICES ASSUME PurchaseInv, [Next]_vars PROVE PurchaseInv'
    OBVIOUS
  <2>1. CASE \E from, to \in Users, amount \in Amounts, ref \in Refs :
                 TransferRequest(from, to, amount, ref)
    BY <2>1, LedgerRequestsKeep
  <2>2. CASE \E to \in Users, amount \in Amounts, ref \in Refs : MintRequest(to, amount, ref)
    BY <2>2, LedgerRequestsKeep
  <2>3. CASE \E from \in Users, amount \in Amounts, ref \in Refs : BurnRequest(from, amount, ref)
    BY <2>3, LedgerRequestsKeep
  <2>4. CASE \E l \in Listings, seller \in Users, price \in Amounts : Create(l, seller, price)
    BY <2>4, CreateKeeps
  <2>5. CASE \E l \in Listings : Cancel(l) \/ GiveAway(l)
    BY <2>5, CancelKeeps, GiveAwayKeeps
  <2>6. CASE \E l \in Listings, buyer \in Users : ReservePurchase(l, buyer)
    BY <2>6, ReservePurchaseKeeps
  <2>7. CASE ReserveEscrow \/ RefuseEscrow \/ RollbackPurchase
    BY <2>7, ReserveEscrowKeeps, RefuseEscrowKeeps, RollbackPurchaseKeeps
  <2>8. CASE Deliver \/ CreateItem \/ CompletePurchase \/ Commit
    BY <2>8, DeliverKeeps, CreateItemKeeps, CompletePurchaseKeeps, CommitKeeps
  <2>9. CASE Restart
    BY <2>9, RestartKeeps
  <2>10. CASE UNCHANGED vars
    BY <2>10, StutterKeeps
  <2>11. QED BY <2>1, <2>2, <2>3, <2>4, <2>5, <2>6, <2>7, <2>8, <2>9, <2>10 DEF Next
<1>3. QED BY <1>1, <1>2, PTL DEF Spec

(* Types of the stores, of the request and of the counters.                *)
THEOREM PurchaseTypeOK == Spec => []TypeOK
<1>1. PurchaseInv => TypeOK
  <2> SUFFICES ASSUME PurchaseInv PROVE TypeOK
    OBVIOUS
  <2>1. ledger \in Ledgers /\ ledgerFile \in Ledgers
    BY StoresTyped DEF PurchaseInv
  <2>2. QED BY <2>1 DEF PurchaseInv, StoresInv, RequestInv, TypeOK
<1>2. QED BY <1>1, PurchaseInductive, PTL

(* Money is conserved in memory and on disk, and the journal accounts for  *)
(* every balance (economy_ledger.cpp, every operation and every failed     *)
(* write).                                                                 *)
THEOREM MoneyIsConserved == Spec => []MoneyConserved
<1>1. PurchaseInv => MoneyConserved
  BY DEF PurchaseInv, StoresInv, LedgerInv, MoneyConserved
<1>2. QED BY <1>1, PurchaseInductive, PTL

(* A seller who is paid has delivered, on disk.                            *)
THEOREM PaidGoodsAreDelivered == Spec => []PaidIsDelivered
<1>1. PurchaseInv => PaidIsDelivered
  BY DEF PurchaseInv, StoresInv, DeliveredFor, SoldOnDisk, PaidIsDelivered
<1>2. QED BY <1>1, PurchaseInductive, PTL

(* Goods are made for sales whose price left the buyer's wallet, in memory *)
(* and on disk.                                                            *)
THEOREM GoodsAreAlwaysPaidFor == Spec => []GoodsArePaidFor
<1>1. PurchaseInv => GoodsArePaidFor
  BY DEF PurchaseInv, StoresInv, GoodsAfterEscrow, FilesAreBehind, GoodsArePaidFor
<1>2. QED BY <1>1, PurchaseInductive, PTL

(* What was answered with success stays in the ledger's file.              *)
THEOREM AnswersAreDurable == Spec => []AnsweredIsDurable
<1>1. PurchaseInv => AnsweredIsDurable
  BY DEF PurchaseInv, RequestInv
<1>2. QED BY <1>1, PurchaseInductive, PTL

(* No purchase reaches a compensation behind its escrow.                   *)
THEOREM CompensationsAreUnreachable == Spec => []NothingToCompensate
<1>1. PurchaseInv => NothingToCompensate
  BY DEF PurchaseInv, RequestInv, Progress, NothingToCompensate
<1>2. QED BY <1>1, PurchaseInductive, PTL
=============================================================================
