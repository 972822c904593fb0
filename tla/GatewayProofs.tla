---------------------------- MODULE GatewayProofs ---------------------------
(***************************************************************************)
(* The gateway's parts for every size: bodies stay within the budget, a    *)
(* row is billed once and never vanishes, own writes stay in the copy, a   *)
(* call on a pool is refused only after all, and no tool call waits on a   *)
(* socket that its binding lost.                                           *)
(***************************************************************************)
EXTENDS BodyBudget, LedgerBuffer, GatewayStore, BrowserRelay, GatewayPool,
        SequenceTheorems, FiniteSetTheorems, WellFoundedInduction, TLAPS

\* A set of numbers has a least one.
LEMMA LeastNumber == ASSUME NEW S \in SUBSET Nat, S # {} PROVE \E m \in S : \A n \in S : m <= n
<1>1. PICK m \in S : \A n \in S : <<n, m>> \notin OpToRel(<, Nat)
  BY NatLessThanWellFounded, WFMin
<1>2. \A n \in S : ~(n < m)
  BY <1>1 DEF OpToRel
<1>q. QED BY <1>2

-----------------------------------------------------------------------------
(* Sums over finite sets.                                                  *)

Total(f, S) == MapThenSumSet(LAMBDA r : f[r], S)

Any(s) == CHOOSE x \in s : TRUE

\* The function the library's fold is defined by.
IsFold(g, f, S) == g = [s \in SUBSET S |-> IF s = {} THEN 0 ELSE f[Any(s)] + g[s \ {Any(s)}]]

Fold(f, S) == CHOOSE g : IsFold(g, f, S)

LEMMA TotalIsFold == ASSUME NEW f, NEW S PROVE Total(f, S) = Fold(f, S)[S]
BY DEF Total, MapThenSumSet, MapThenFoldSet, Fold, IsFold, Any

\* Of finite sets there is a smallest.
LEMMA Smallest ==
    ASSUME NEW F, F # {}, \A S \in F : IsFiniteSet(S)
    PROVE  \E S \in F : \A x \in S : S \ {x} \notin F
<1> DEFINE sizes == {Cardinality(S) : S \in F}
<1>1. sizes \in SUBSET Nat /\ sizes # {}
  BY FS_CardinalityType
<1>2. PICK m \in sizes : \A n \in sizes : m <= n
  <2> HIDE DEF sizes
  <2>q. QED BY <1>1, LeastNumber
<1>3. PICK S \in F : Cardinality(S) = m
  BY <1>2
<1>4. ASSUME NEW x \in S, S \ {x} \in F PROVE FALSE
  <2>1. IsFiniteSet(S) /\ Cardinality(S \ {x}) = Cardinality(S) - 1
    BY FS_RemoveElement
  <2>2. Cardinality(S) \in Nat
    BY <2>1, FS_CardinalityType
  <2>3. Cardinality(S) <= Cardinality(S \ {x})
    BY <1>2, <1>3, <1>4
  <2>q. QED BY <2>1, <2>2, <2>3
<1>q. QED BY <1>4

LEMMA AnyIsIn == ASSUME NEW s, s # {} PROVE Any(s) \in s
BY DEF Any

\* Two such functions agree where both are defined.
LEMMA FoldsAgree ==
    ASSUME NEW f, NEW S, NEW T, NEW g, NEW h, IsFold(g, f, S), IsFold(h, f, T), NEW s \in (SUBSET S) \cap (SUBSET T), IsFiniteSet(s)
    PROVE  g[s] = h[s]
<1> DEFINE F == {u \in SUBSET s : g[u] # h[u]}
<1> SUFFICES ASSUME F # {} PROVE FALSE
  OBVIOUS
<1>1. \A u \in F : IsFiniteSet(u)
  BY FS_Subset
<1>2. PICK u \in F : \A x \in u : u \ {x} \notin F
  <2> HIDE DEF F
  <2>q. QED BY <1>1, Smallest
<1>3. /\ g[u] = (IF u = {} THEN 0 ELSE f[Any(u)] + g[u \ {Any(u)}])
      /\ h[u] = (IF u = {} THEN 0 ELSE f[Any(u)] + h[u \ {Any(u)}])
  BY <1>2 DEF IsFold
<1>4. CASE u = {}
  BY <1>2, <1>3, <1>4
<1>5. CASE u # {}
  <2>1. Any(u) \in u
    BY <1>5, AnyIsIn
  <2>2. g[u \ {Any(u)}] = h[u \ {Any(u)}]
    BY <1>2, <2>1
  <2>q. QED BY <1>2, <1>3, <1>5, <2>2
<1>q. QED BY <1>4, <1>5

\* On a finite set there is one.
LEMMA FoldExists == ASSUME NEW f, NEW S, IsFiniteSet(S) PROVE IsFold(Fold(f, S), f, S)
<1> DEFINE F == {U \in SUBSET S : ~IsFold(Fold(f, U), f, U)}
<1> SUFFICES ASSUME F # {} PROVE FALSE
  OBVIOUS
<1>1. \A U \in F : IsFiniteSet(U)
  BY FS_Subset
<1>2. PICK T \in F : \A x \in T : T \ {x} \notin F
  <2> HIDE DEF F
  <2>q. QED BY <1>1, Smallest
<1>3. T \subseteq S /\ IsFiniteSet(T) /\ ~IsFold(Fold(f, T), f, T) /\ \A x \in T : IsFold(Fold(f, T \ {x}), f, T \ {x})
  BY <1>1, <1>2
<1> HIDE DEF F
<1> DEFINE H(x) == Fold(f, T \ {x})
<1> DEFINE below(s) == H(Any(T \ s))[s]
<1> DEFINE rest == T \ {Any(T)}
<1> DEFINE g == [s \in SUBSET T |-> IF s = T THEN (IF T = {} THEN 0 ELSE f[Any(T)] + below(rest)) ELSE below(s)]
<1>4. ASSUME NEW s \in SUBSET T, s # T PROVE Any(T \ s) \in T \ s /\ s \subseteq T \ {Any(T \ s)}
  <2>1. Any(T \ s) \in T \ s
    BY <1>4, AnyIsIn
  <2>q. QED BY <2>1
<1>5. ASSUME NEW s \in SUBSET T, s # T, s # {} PROVE below(s) = f[Any(s)] + below(s \ {Any(s)})
  <2>1. Any(s) \in s
    BY <1>5, AnyIsIn
  <2> DEFINE x == Any(T \ s)  u == s \ {Any(s)}  y == Any(T \ u)
  <2>2. x \in T /\ s \in SUBSET (T \ {x}) /\ u \in SUBSET (T \ {x})
    BY <1>4, <1>5
  <2>3. u \in SUBSET T /\ u # T /\ y \in T /\ u \in SUBSET (T \ {y})
    BY <1>4, <2>1
  <2> HIDE DEF x, y
  <2>4. H(x)[s] = f[Any(s)] + H(x)[u]
    BY <1>3, <1>5, <2>2 DEF IsFold
  <2>5. H(x)[u] = H(y)[u]
    <3>1. IsFiniteSet(u) /\ u \in (SUBSET (T \ {x})) \cap (SUBSET (T \ {y}))
      BY <1>3, <2>2, <2>3, FS_Subset
    <3>2. IsFold(H(x), f, T \ {x}) /\ IsFold(H(y), f, T \ {y})
      BY <1>3, <2>2, <2>3
    <3>q. QED BY <3>1, <3>2, FoldsAgree
  <2>q. QED BY <2>4, <2>5 DEF x, y
<1>6. \A s \in SUBSET T : s # T /\ s = {} => below(s) = 0
  <2> SUFFICES ASSUME T # {} PROVE below({}) = 0
    OBVIOUS
  <2> DEFINE x == Any(T \ {})
  <2>1. x \in T
    BY AnyIsIn
  <2> HIDE DEF x
  <2>2. H(x)[{}] = 0
    BY <1>3, <2>1 DEF IsFold
  <2>q. QED BY <2>2 DEF x
<1> HIDE DEF below
<1>7. IsFold(g, f, T)
  <2> DEFINE step(s) == IF s = {} THEN 0 ELSE f[Any(s)] + g[s \ {Any(s)}]
  <2>1. ASSUME NEW s \in SUBSET T PROVE g[s] = step(s)
    <3>1. s # {} => Any(s) \in s
      BY AnyIsIn
    <3>2. s # {} => s \ {Any(s)} \in SUBSET T /\ s \ {Any(s)} # T
      BY <3>1
    <3>3. s # {} => g[s \ {Any(s)}] = below(s \ {Any(s)})
      BY <3>2
    <3>4. CASE s = T
      BY <3>3, <3>4
    <3>5. CASE s # T
      BY <1>5, <1>6, <3>3, <3>5
    <3>q. QED BY <3>4, <3>5
  <2>2. g = [s \in SUBSET T |-> g[s]]
    OBVIOUS
  <2> HIDE DEF g
  <2>3. g = [s \in SUBSET T |-> step(s)]
    BY <2>1, <2>2
  <2>q. QED BY <2>3 DEF IsFold
<1>8. IsFold(Fold(f, T), f, T)
  <2> HIDE DEF g
  <2>q. QED BY <1>7 DEF Fold
<1>q. QED BY <1>3, <1>8

LEMMA TotalStep ==
    ASSUME NEW f, NEW S, IsFiniteSet(S)
    PROVE  Total(f, S) = IF S = {} THEN 0 ELSE f[Any(S)] + Total(f, S \ {Any(S)})
<1>1. IsFold(Fold(f, S), f, S)
  BY FoldExists
<1>2. Fold(f, S)[S] = IF S = {} THEN 0 ELSE f[Any(S)] + Fold(f, S)[S \ {Any(S)}]
  BY <1>1 DEF IsFold
<1>3. Fold(f, S)[S \ {Any(S)}] = Fold(f, S \ {Any(S)})[S \ {Any(S)}]
  <2>1. IsFiniteSet(S \ {Any(S)})
    BY FS_RemoveElement
  <2>2. IsFold(Fold(f, S \ {Any(S)}), f, S \ {Any(S)})
    BY <2>1, FoldExists
  <2>q. QED BY <1>1, <2>1, <2>2, FoldsAgree
<1>q. QED BY <1>2, <1>3, TotalIsFold

\* The sum of a set does not depend on the order in which it is taken.
LEMMA TotalAdds ==
    ASSUME NEW R, NEW f \in [R -> Nat], NEW S \in SUBSET R, IsFiniteSet(S)
    PROVE  Total(f, S) \in Nat /\ \A x \in R \ S : Total(f, S \cup {x}) = Total(f, S) + f[x]
<1> DEFINE Good(U) == Total(f, U) \in Nat /\ \A x \in R \ U : Total(f, U \cup {x}) = Total(f, U) + f[x]
<1> DEFINE F == {U \in SUBSET S : ~Good(U)}
<1> SUFFICES ASSUME F # {} PROVE FALSE
  BY DEF F
<1>1. \A U \in F : IsFiniteSet(U)
  BY FS_Subset
<1>2. PICK U \in F : \A x \in U : U \ {x} \notin F
  <2> HIDE DEF F
  <2>q. QED BY <1>1, Smallest
<1>3. U \in SUBSET R /\ U \in SUBSET S /\ IsFiniteSet(U) /\ ~Good(U) /\ \A x \in U : Good(U \ {x})
  BY <1>1, <1>2
<1> HIDE DEF F
<1>4. Total(f, U) \in Nat
  <2>1. CASE U = {}
    <3>1. Total(f, U) = 0
      BY <1>3, <2>1, TotalStep
    <3>q. QED BY <3>1
  <2>2. CASE U # {}
    <3>1. Any(U) \in U /\ Total(f, U) = f[Any(U)] + Total(f, U \ {Any(U)})
      BY <1>3, <2>2, AnyIsIn, TotalStep
    <3>2. f[Any(U)] \in Nat /\ Total(f, U \ {Any(U)}) \in Nat
      BY <1>3, <3>1
    <3>q. QED BY <3>1, <3>2
  <2>q. QED BY <2>1, <2>2
<1>5. ASSUME NEW x \in R \ U PROVE Total(f, U \cup {x}) = Total(f, U) + f[x]
  <2> DEFINE V == U \cup {x}  y == Any(V)
  <2>1. IsFiniteSet(V) /\ V # {} /\ y \in V
    <3>1. IsFiniteSet(V) /\ V # {}
      BY <1>3, FS_AddElement
    <3> HIDE DEF V
    <3>q. QED BY <3>1, AnyIsIn
  <2>2. Total(f, V) = f[y] + Total(f, V \ {y})
    BY <2>1, TotalStep
  <2>3. f[x] \in Nat
    OBVIOUS
  <2> HIDE DEF y
  <2>4. CASE y = x
    <3>1. V \ {y} = U
      BY <2>4
    <3>2. Total(f, V) = f[x] + Total(f, U)
      BY <2>2, <2>4, <3>1
    <3> HIDE DEF V
    <3>3. Total(f, V) = Total(f, U) + f[x]
      BY <1>4, <2>3, <3>2
    <3>q. QED BY <3>3 DEF V
  <2>5. CASE y # x
    <3> DEFINE W == U \ {y}
    <3>1. y \in U /\ V \ {y} = W \cup {x} /\ U = W \cup {y} /\ x \in R \ W /\ y \in R \ W /\ Good(W)
      BY <1>3, <2>1, <2>5
    <3>2. Total(f, W \cup {x}) = Total(f, W) + f[x] /\ Total(f, W \cup {y}) = Total(f, W) + f[y] /\ Total(f, W) \in Nat
      BY <3>1
    <3>3. f[y] \in Nat
      BY <3>1
    <3> HIDE DEF W
    <3>q. QED BY <2>2, <2>3, <3>1, <3>2, <3>3
  <2>q. QED BY <2>4, <2>5
<1>q. QED BY <1>3, <1>4, <1>5

LEMMA TotalRemoves ==
    ASSUME NEW R, NEW f \in [R -> Nat], NEW S \in SUBSET R, IsFiniteSet(S), NEW x \in S
    PROVE  Total(f, S) = Total(f, S \ {x}) + f[x]
<1>1. IsFiniteSet(S \ {x}) /\ S \ {x} \in SUBSET R /\ x \in R \ (S \ {x}) /\ (S \ {x}) \cup {x} = S
  BY FS_RemoveElement
<1>q. QED BY <1>1, TotalAdds

\* The sum depends on the values of the set's elements only.
LEMMA TotalAgrees ==
    ASSUME NEW f, NEW g, NEW S, IsFiniteSet(S), \A x \in S : f[x] = g[x] PROVE Total(f, S) = Total(g, S)
<1> DEFINE F == {U \in SUBSET S : Total(f, U) # Total(g, U)}
<1> SUFFICES ASSUME F # {} PROVE FALSE
  BY DEF F
<1>1. \A U \in F : IsFiniteSet(U)
  BY FS_Subset
<1>2. PICK U \in F : \A x \in U : U \ {x} \notin F
  <2> HIDE DEF F
  <2>q. QED BY <1>1, Smallest
<1>3. U \in SUBSET S /\ IsFiniteSet(U) /\ Total(f, U) # Total(g, U) /\ \A x \in U : Total(f, U \ {x}) = Total(g, U \ {x})
  BY <1>1, <1>2
<1>4. CASE U = {}
  BY <1>3, <1>4, TotalStep
<1>5. CASE U # {}
  <2>1. Any(U) \in U
    BY <1>5, AnyIsIn
  <2>2. f[Any(U)] = g[Any(U)] /\ Total(f, U \ {Any(U)}) = Total(g, U \ {Any(U)})
    BY <1>3, <2>1
  <2>q. QED BY <1>3, <1>5, <2>2, TotalStep
<1>q. QED BY <1>4, <1>5

-----------------------------------------------------------------------------
(* The budget.                                                             *)

States == {"new", "queued", "holding", "released", "done"}

\* Each waiting request is in the queue once, and nobody else.
QueueIs(q, at) ==
    /\ q \in Seq(Requests)
    /\ \A i, j \in 1..Len(q) : q[i] = q[j] => i = j
    /\ \A r \in Requests : at[r] = "queued" <=> \E i \in 1..Len(q) : q[i] = r

HeldIn(at) == {r \in Requests : at[r] = "holding"}

\* What is counted is what is held.
CountIs(n, at) == n \in 0..Limit /\ IsFiniteSet(HeldIn(at)) /\ n = Total(want, HeldIn(at))

BudgetInv ==
    /\ body \in [Requests -> States] /\ want \in [Requests -> 0..Limit]
    /\ QueueIs(waiters, body)
    /\ CountIs(used, body)

\* Granting keeps the count, however many waiters fit.
LEMMA PumpKeeps ==
    ASSUME NEW start, NEW queue, NEW at \in [Requests -> States], want \in [Requests -> 0..Limit], want' = want,
           QueueIs(queue, at), CountIs(start, at), Pump(start, queue, at)
    PROVE  BudgetInv'
<1>1. /\ queue \in Seq(Requests) /\ Len(queue) \in Nat /\ \A i \in 1..Len(queue) : queue[i] \in Requests /\ at[queue[i]] = "queued"
      /\ \A i, j \in 1..Len(queue) : queue[i] = queue[j] => i = j
  <2>1. queue \in Seq(Requests)
    BY DEF QueueIs
  <2>2. Len(queue) \in Nat /\ \A i \in 1..Len(queue) : queue[i] \in Requests
    BY <2>1
  <2>q. QED BY <2>1, <2>2 DEF QueueIs
<1>k. PICK k \in 0..Len(queue) : \E level \in [0..k -> 0..Limit] :
        /\ level[0] = start
        /\ \A i \in 1..k : level[i] = level[i - 1] + want[queue[i]]
        /\ used' = level[k]
        /\ waiters' = SubSeq(queue, k + 1, Len(queue))
        /\ body' = [r \in Requests |-> IF \E i \in 1..k : queue[i] = r THEN "holding" ELSE at[r]]
  BY DEF Pump
<1>2. PICK level \in [0..k -> 0..Limit] :
        /\ level[0] = start
        /\ \A i \in 1..k : level[i] = level[i - 1] + want[queue[i]]
        /\ used' = level[k]
        /\ waiters' = SubSeq(queue, k + 1, Len(queue))
        /\ body' = [r \in Requests |-> IF \E i \in 1..k : queue[i] = r THEN "holding" ELSE at[r]]
  BY <1>k
<1>3. k \in Nat /\ k <= Len(queue) /\ want \in [Requests -> Nat] /\ \A i \in 0..k : level[i] \in Nat
  BY <1>1, <1>2, BudgetAssumption
<1> DEFINE H(n) == HeldIn(at) \cup {queue[j] : j \in 1..n}
<1> DEFINE Good(n) == IsFiniteSet(H(n)) /\ level[n] = Total(want, H(n))
<1>4. Good(k)
  <2> DEFINE Bad == {n \in 0..k : ~Good(n)}
  <2> SUFFICES ASSUME Bad # {} PROVE FALSE
    <3>1. k \in 0..k
      BY <1>3
    <3> HIDE DEF Good
    <3>q. QED BY <3>1
  <2>1. PICK n \in Bad : \A m \in Bad : n <= m
    <3>1. Bad \in SUBSET Nat
      BY <1>3
    <3> HIDE DEF Bad
    <3>q. QED BY <3>1, LeastNumber
  <2>2. n \in 0..k /\ ~Good(n) /\ (n > 0 => Good(n - 1))
    <3>1. n \in 0..k /\ ~Good(n) /\ \A m \in 0..k : ~Good(m) => n <= m
      BY <2>1
    <3> HIDE DEF Good
    <3>2. n > 0 => n - 1 \in 0..k /\ ~(n <= n - 1)
      BY <1>3, <3>1
    <3>q. QED BY <3>1, <3>2
  <2> HIDE DEF Bad
  <2>3. CASE n = 0
    <3>1. H(0) = HeldIn(at)
      OBVIOUS
    <3> HIDE DEF H
    <3>2. Good(0)
      BY <1>2, <3>1 DEF CountIs
    <3>q. QED BY <2>2, <2>3, <3>2
  <2>4. CASE n > 0
    <3>1. n \in 1..k /\ n - 1 \in Nat /\ n \in 1..Len(queue)
      BY <1>3, <2>2, <2>4
    <3>2. queue[n] \in Requests \ H(n - 1)
      BY <1>1, <1>3, <3>1 DEF HeldIn
    <3>3. H(n) = H(n - 1) \cup {queue[n]}
      <4>1. 1..n = 1..n - 1 \cup {n}
        BY <3>1
      <4>q. QED BY <4>1
    <3>4. H(n - 1) \in SUBSET Requests
      BY <1>1, <1>3, <3>1 DEF HeldIn
    <3>5. IsFiniteSet(H(n - 1)) /\ level[n - 1] = Total(want, H(n - 1))
      BY <2>2, <2>4
    <3> HIDE DEF H
    <3> DEFINE S == H(n - 1)  x == queue[n]
    <3>6. IsFiniteSet(S) /\ S \in SUBSET Requests /\ x \in Requests \ S /\ H(n) = S \cup {x}
      BY <3>2, <3>3, <3>4, <3>5
    <3> HIDE DEF S, x
    <3>6a. IsFiniteSet(H(n)) /\ Total(want, H(n)) = Total(want, S) + want[x]
      <4>1. IsFiniteSet(S \cup {x}) /\ Total(want, S \cup {x}) = Total(want, S) + want[x]
        <5>1. IsFiniteSet(S \cup {x})
          BY <3>6, FS_AddElement
        <5>2. \A y \in Requests \ S : Total(want, S \cup {y}) = Total(want, S) + want[y]
          BY <1>3, <3>6, TotalAdds
        <5>q. QED BY <3>6, <5>1, <5>2
      <4>q. QED BY <3>6, <4>1
    <3>7. IsFiniteSet(H(n)) /\ Total(want, H(n)) = Total(want, H(n - 1)) + want[queue[n]]
      BY <3>6a DEF S, x
    <3>8. level[n] = Total(want, H(n))
      BY <1>2, <3>1, <3>5, <3>7
    <3>q. QED BY <2>2, <3>7, <3>8
  <2>q. QED BY <1>3, <2>2, <2>3, <2>4
<1>5. HeldIn(body') = H(k) /\ body' \in [Requests -> States]
  <2>1. \A r \in Requests : body'[r] = IF \E i \in 1..k : queue[i] = r THEN "holding" ELSE at[r]
    BY <1>2
  <2>2. \A i \in 1..k : queue[i] \in Requests
    BY <1>1, <1>3
  <2>3. HeldIn(body') = H(k)
    BY <2>1, <2>2 DEF HeldIn
  <2>4. body' \in [Requests -> States]
    BY <1>2, <2>1 DEF States
  <2>q. QED BY <2>3, <2>4
<1>6. used' \in 0..Limit /\ used' = Total(want, H(k)) /\ IsFiniteSet(H(k))
  <2> HIDE DEF H
  <2>q. QED BY <1>2, <1>3, <1>4
<1> HIDE DEF H, Good
<1>7. CountIs(used, body)'
  <2>1. used' \in 0..Limit /\ IsFiniteSet(HeldIn(body')) /\ used' = Total(want', HeldIn(body'))
    BY <1>5, <1>6
  <2>q. QED BY <2>1 DEF CountIs
<1>8. QueueIs(waiters', body')
  <2> DEFINE q == SubSeq(queue, k + 1, Len(queue))
  <2>1. \A i \in k + 1..Len(queue) : queue[i] \in Requests
    BY <1>1, <1>3
  <2>2. q \in Seq(Requests) /\ Len(q) = (IF k + 1 <= Len(queue) THEN Len(queue) - (k + 1) + 1 ELSE 0)
        /\ \A i \in 1..Len(queue) - (k + 1) + 1 : q[i] = queue[k + 1 + i - 1]
    BY <1>1, <1>3, <2>1, SubSeqProperties
  <2> HIDE DEF q
  <2>3. Len(q) = Len(queue) - k /\ Len(q) \in Nat /\ \A i \in 1..Len(q) : i + k \in 1..Len(queue) /\ q[i] = queue[i + k]
    <3>1. Len(q) = Len(queue) - k /\ Len(q) \in Nat
      BY <1>1, <1>3, <2>2
    <3>2. ASSUME NEW i \in 1..Len(q) PROVE i + k \in 1..Len(queue) /\ q[i] = queue[i + k]
      <4>1. i + k \in 1..Len(queue) /\ i \in 1..Len(queue) - (k + 1) + 1 /\ k + 1 + i - 1 = i + k
        BY <1>1, <1>3, <3>1
      <4>q. QED BY <2>2, <4>1
    <3>q. QED BY <3>1, <3>2
  <2>4. ASSUME NEW i \in 1..Len(q), NEW j \in 1..Len(q), q[i] = q[j] PROVE i = j
    <3>1. i + k = j + k
      BY <1>1, <2>3, <2>4
    <3>q. QED BY <1>3, <2>3, <3>1
  <2>5. ASSUME NEW r \in Requests PROVE body'[r] = "queued" <=> \E i \in 1..Len(q) : q[i] = r
    <3>1. body'[r] = "queued" <=> at[r] = "queued" /\ ~\E i \in 1..k : queue[i] = r
      BY <1>2
    <3>2. at[r] = "queued" <=> \E i \in 1..Len(queue) : queue[i] = r
      BY DEF QueueIs
    <3>3. ASSUME NEW i \in 1..Len(queue), queue[i] = r, ~\E j \in 1..k : queue[j] = r PROVE \E j \in 1..Len(q) : q[j] = r
      <4>1. i - k \in 1..Len(q) /\ (i - k) + k = i
        BY <1>1, <1>3, <2>3, <3>3
      <4>q. QED BY <2>3, <3>3, <4>1
    <3>4. ASSUME NEW j \in 1..Len(q), q[j] = r PROVE (\E i \in 1..Len(queue) : queue[i] = r) /\ ~\E i \in 1..k : queue[i] = r
      <4>1. j + k \in 1..Len(queue) /\ queue[j + k] = r
        BY <2>3, <3>4
      <4>2. \A i \in 1..k : i \in 1..Len(queue) /\ i # j + k
        BY <1>1, <1>3, <2>3
      <4>q. QED BY <1>1, <4>1, <4>2
    <3>q. QED BY <3>1, <3>2, <3>3, <3>4
  <2>6. waiters' = q
    BY <1>2 DEF q
  <2>q. QED BY <2>2, <2>4, <2>5, <2>6 DEF QueueIs
<1>9. want' \in [Requests -> 0..Limit]
  OBVIOUS
<1>q. QED BY <1>5, <1>7, <1>8, <1>9 DEF BudgetInv, QueueIs

\* A reservation that is given back was counted.
LEMMA Released ==
    ASSUME BudgetInv, NEW r \in Requests, body[r] = "holding", NEW to \in {"released", "done"}, want' = want,
           Pump(used - want[r], waiters, [body EXCEPT ![r] = to])
    PROVE  BudgetInv'
<1> DEFINE at == [body EXCEPT ![r] = to]
<1>1. at \in [Requests -> States] /\ (\A s \in Requests : at[s] = IF s = r THEN to ELSE body[s]) /\ HeldIn(at) = HeldIn(body) \ {r}
  BY DEF BudgetInv, States, HeldIn
<1>2. QueueIs(waiters, at)
  BY <1>1 DEF BudgetInv, QueueIs
<1>3. Pump(used - want[r], waiters, at)
  OBVIOUS
<1> HIDE DEF at
<1>4. IsFiniteSet(HeldIn(body)) /\ HeldIn(body) \in SUBSET Requests /\ r \in HeldIn(body) /\ used = Total(want, HeldIn(body))
  BY DEF BudgetInv, CountIs, HeldIn
<1>5. want \in [Requests -> Nat] /\ used \in 0..Limit /\ want \in [Requests -> 0..Limit] /\ Limit \in Nat
  BY BudgetAssumption DEF BudgetInv, CountIs
<1>6. IsFiniteSet(HeldIn(at)) /\ HeldIn(at) \in SUBSET Requests
  BY <1>1, <1>4, FS_RemoveElement
<1>7. used = Total(want, HeldIn(at)) + want[r]
  BY <1>1, <1>4, <1>5, TotalRemoves
<1>8. Total(want, HeldIn(at)) \in Nat
  BY <1>5, <1>6, TotalAdds
<1>9. CountIs(used - want[r], at)
  BY <1>5, <1>6, <1>7, <1>8 DEF CountIs
<1>q. QED BY <1>1, <1>2, <1>3, <1>5, <1>9, PumpKeeps

\* What is asked for by a request that holds nothing yet does not count.
LEMMA NotYetHeld ==
    ASSUME BudgetInv, NEW r \in Requests, body[r] # "holding", NEW n \in 0..Limit, want' = [want EXCEPT ![r] = n]
    PROVE  /\ want' \in [Requests -> 0..Limit] /\ want' \in [Requests -> Nat] /\ want'[r] = n
           /\ IsFiniteSet(HeldIn(body)) /\ used = Total(want', HeldIn(body))
<1>1. want \in [Requests -> 0..Limit] /\ IsFiniteSet(HeldIn(body)) /\ used = Total(want, HeldIn(body))
  BY DEF BudgetInv, CountIs
<1>2. \A s \in HeldIn(body) : want[s] = want'[s]
  BY <1>1 DEF HeldIn
<1>3. Total(want, HeldIn(body)) = Total(want', HeldIn(body))
  <2> DEFINE g == want'  S == HeldIn(body)
  <2>1. IsFiniteSet(S) /\ \A x \in S : want[x] = g[x]
    BY <1>1, <1>2
  <2> HIDE DEF g, S
  <2>2. Total(want, S) = Total(g, S)
    BY <2>1, TotalAgrees
  <2>q. QED BY <2>2 DEF g, S
<1>q. QED BY <1>1, <1>3, BudgetAssumption

LEMMA BudgetStep == ASSUME BudgetInv, BudgetNext PROVE BudgetInv'
<1>0. /\ body \in [Requests -> States] /\ QueueIs(waiters, body) /\ waiters \in Seq(Requests) /\ Len(waiters) \in Nat
      /\ used \in 0..Limit /\ Limit \in Nat
      /\ \A i \in 1..Len(waiters) : waiters[i] \in Requests /\ body[waiters[i]] = "queued"
  <2>1. waiters \in Seq(Requests)
    BY DEF BudgetInv, QueueIs
  <2>q. QED BY <2>1, BudgetAssumption DEF BudgetInv, QueueIs, CountIs
<1>c. \A bytes \in Sizes : Clamped(bytes) \in 0..Limit
  BY BudgetAssumption DEF Clamped
<1>1. ASSUME NEW r \in Requests, NEW bytes \in Sizes, Reserve(r, bytes) PROVE BudgetInv'
  <2> DEFINE n == Clamped(bytes)
  <2>1. /\ body[r] = "new" /\ used + n <= Limit /\ n \in 0..Limit /\ want' = [want EXCEPT ![r] = n] /\ used' = used + n
        /\ body' = [body EXCEPT ![r] = "holding"] /\ waiters' = waiters
    BY <1>1, <1>c DEF Reserve
  <2> HIDE DEF n
  <2>2. /\ want' \in [Requests -> 0..Limit] /\ want' \in [Requests -> Nat] /\ want'[r] = n
        /\ IsFiniteSet(HeldIn(body)) /\ used = Total(want', HeldIn(body))
    BY <2>1, NotYetHeld
  <2>3. HeldIn(body') = HeldIn(body) \cup {r} /\ r \in Requests \ HeldIn(body) /\ HeldIn(body) \in SUBSET Requests
    BY <1>0, <2>1 DEF HeldIn
  <2>4. IsFiniteSet(HeldIn(body'))
    BY <2>2, <2>3, FS_AddElement
  <2>5. \A x \in Requests \ HeldIn(body) : Total(want', HeldIn(body) \cup {x}) = Total(want', HeldIn(body)) + want'[x]
    BY <2>2, <2>3, TotalAdds
  <2>6. used' = Total(want', HeldIn(body'))
    BY <2>1, <2>2, <2>3, <2>5
  <2>7. CountIs(used, body)'
    <3>1. used' \in 0..Limit
      BY <1>0, <2>1
    <3>q. QED BY <2>4, <2>6, <3>1 DEF CountIs
  <2>8. QueueIs(waiters, body)' /\ body' \in [Requests -> States]
    BY <1>0, <2>1 DEF QueueIs, States
  <2>q. QED BY <2>2, <2>7, <2>8 DEF BudgetInv
<1>2. ASSUME NEW r \in Requests, NEW bytes \in Sizes, Wait(r, bytes) PROVE BudgetInv'
  <2> DEFINE n == Clamped(bytes)
  <2>1. /\ body[r] = "new" /\ n \in 0..Limit /\ want' = [want EXCEPT ![r] = n] /\ used' = used
        /\ body' = [body EXCEPT ![r] = "queued"] /\ waiters' = Append(waiters, r)
    BY <1>2, <1>c DEF Wait
  <2> HIDE DEF n
  <2>2. want' \in [Requests -> 0..Limit] /\ IsFiniteSet(HeldIn(body)) /\ used = Total(want', HeldIn(body))
    BY <2>1, NotYetHeld
  <2>3. HeldIn(body') = HeldIn(body)
    BY <1>0, <2>1 DEF HeldIn
  <2>4. CountIs(used, body)'
    <3>1. used' = Total(want', HeldIn(body'))
      BY <2>1, <2>2, <2>3
    <3>q. QED BY <1>0, <2>1, <2>2, <2>3, <3>1 DEF CountIs
  <2>5. /\ waiters' \in Seq(Requests) /\ Len(waiters') = Len(waiters) + 1
        /\ \A i \in 1..Len(waiters) : waiters'[i] = waiters[i]
        /\ waiters'[Len(waiters) + 1] = r
    BY <1>0, <2>1, AppendProperties
  <2>6. \A i \in 1..Len(waiters') : i \in 1..Len(waiters) \/ i = Len(waiters) + 1
    BY <1>0, <2>5
  <2>7. \A i, j \in 1..Len(waiters') : waiters'[i] = waiters'[j] => i = j
    BY <1>0, <2>1, <2>5, <2>6 DEF QueueIs
  <2>8. ASSUME NEW s \in Requests PROVE body'[s] = "queued" <=> \E i \in 1..Len(waiters') : waiters'[i] = s
    <3>1. CASE s = r
      <4>1. Len(waiters) + 1 \in 1..Len(waiters')
        BY <1>0, <2>5
      <4>q. QED BY <1>0, <2>1, <2>5, <3>1, <4>1
    <3>2. CASE s # r
      <4>1. body'[s] = body[s] /\ (body[s] = "queued" <=> \E i \in 1..Len(waiters) : waiters[i] = s)
        BY <1>0, <2>1, <3>2 DEF QueueIs
      <4>2. \A i \in 1..Len(waiters) : i \in 1..Len(waiters')
        BY <1>0, <2>5
      <4>q. QED BY <2>5, <2>6, <3>2, <4>1, <4>2
    <3>q. QED BY <3>1, <3>2
  <2>9. QueueIs(waiters, body)' /\ body' \in [Requests -> States]
    BY <1>0, <2>1, <2>5, <2>7, <2>8 DEF QueueIs, States
  <2>q. QED BY <2>2, <2>4, <2>9 DEF BudgetInv
<1>3. ASSUME NEW r \in Requests, Leave(r) PROVE BudgetInv'
  <2> DEFINE at == [body EXCEPT ![r] = "done"]
  <2>1. PICK i \in 1..Len(waiters) :
          /\ waiters[i] = r
          /\ Pump(used, SubSeq(waiters, 1, i - 1) \o SubSeq(waiters, i + 1, Len(waiters)), at)
    BY <1>0, <1>3 DEF Leave
  <2> DEFINE a == SubSeq(waiters, 1, i - 1)  b == SubSeq(waiters, i + 1, Len(waiters))  q == a \o b
  <2>2. a \in Seq(Requests) /\ Len(a) = i - 1 /\ \A j \in 1..i - 1 : a[j] = waiters[j]
    <3>1. 1 \in Int /\ i - 1 \in Int /\ (\A j \in 1..i - 1 : waiters[j] \in Requests) /\ (IF 1 <= i - 1 THEN (i - 1) - 1 + 1 ELSE 0) = i - 1
      BY <1>0
    <3>2. /\ a \in Seq(Requests) /\ Len(a) = (IF 1 <= i - 1 THEN (i - 1) - 1 + 1 ELSE 0)
          /\ \A j \in 1..(i - 1) - 1 + 1 : a[j] = waiters[1 + j - 1]
      BY <3>1, SubSeqProperties
    <3>3. \A j \in 1..i - 1 : j \in 1..(i - 1) - 1 + 1 /\ 1 + j - 1 = j
      BY <1>0
    <3> HIDE DEF a
    <3>q. QED BY <3>1, <3>2, <3>3
  <2>3. b \in Seq(Requests) /\ Len(b) = Len(waiters) - i /\ \A j \in 1..Len(waiters) - i : b[j] = waiters[i + j]
    <3>1. /\ i + 1 \in Int /\ Len(waiters) \in Int /\ (\A j \in i + 1..Len(waiters) : waiters[j] \in Requests)
          /\ (IF i + 1 <= Len(waiters) THEN Len(waiters) - (i + 1) + 1 ELSE 0) = Len(waiters) - i
      BY <1>0
    <3>2. /\ b \in Seq(Requests) /\ Len(b) = (IF i + 1 <= Len(waiters) THEN Len(waiters) - (i + 1) + 1 ELSE 0)
          /\ \A j \in 1..Len(waiters) - (i + 1) + 1 : b[j] = waiters[i + 1 + j - 1]
      BY <3>1, SubSeqProperties
    <3>3. \A j \in 1..Len(waiters) - i : j \in 1..Len(waiters) - (i + 1) + 1 /\ i + 1 + j - 1 = i + j
      BY <1>0
    <3> HIDE DEF b
    <3>q. QED BY <3>1, <3>2, <3>3
  <2> HIDE DEF a, b
  <2> DEFINE old(j) == IF j <= i - 1 THEN j ELSE j + 1
  <2>4. /\ q \in Seq(Requests) /\ Len(q) = Len(waiters) - 1
        /\ \A j \in 1..Len(q) : old(j) \in 1..Len(waiters) /\ old(j) # i /\ q[j] = waiters[old(j)]
    <3>1. q \in Seq(Requests) /\ Len(q) = Len(a) + Len(b) /\ \A j \in 1..Len(a) + Len(b) : q[j] = IF j <= Len(a) THEN a[j] ELSE b[j - Len(a)]
      BY <2>2, <2>3, ConcatProperties
    <3> HIDE DEF q
    <3>2. Len(q) = Len(waiters) - 1 /\ i \in 1..Len(waiters) /\ Len(waiters) \in Nat
      BY <1>0, <2>2, <2>3, <3>1
    <3>3. ASSUME NEW j \in 1..Len(q) PROVE old(j) \in 1..Len(waiters) /\ old(j) # i /\ q[j] = waiters[old(j)]
      <4>1. CASE j <= i - 1
        <5>1. j \in 1..Len(waiters) /\ j # i /\ j \in 1..i - 1 /\ q[j] = a[j]
          BY <2>2, <2>3, <3>1, <3>2, <4>1
        <5>q. QED BY <2>2, <4>1, <5>1
      <4>2. CASE ~(j <= i - 1)
        <5>1. j + 1 \in 1..Len(waiters) /\ j + 1 # i /\ j - (i - 1) \in 1..Len(waiters) - i /\ i + (j - (i - 1)) = j + 1
              /\ q[j] = b[j - (i - 1)]
          BY <2>2, <2>3, <3>1, <3>2, <4>2
        <5>q. QED BY <2>3, <4>2, <5>1
      <4>q. QED BY <4>1, <4>2
    <3>q. QED BY <3>1, <3>2, <3>3
  <2>5. Pump(used, q, at)
    BY <2>1 DEF a, b
  <2> HIDE DEF q
  <2>6. at \in [Requests -> States] /\ (\A s \in Requests : at[s] = IF s = r THEN "done" ELSE body[s]) /\ body[r] = "queued"
    BY <1>0, <1>3 DEF States, Leave
  <2>7. HeldIn(at) = HeldIn(body)
    BY <2>6 DEF HeldIn
  <2> HIDE DEF at
  <2>8. QueueIs(q, at)
    <3>1. \A m, n \in 1..Len(waiters) : waiters[m] = waiters[n] => m = n
      BY <1>0 DEF QueueIs
    <3>2. ASSUME NEW m \in 1..Len(q), NEW n \in 1..Len(q), q[m] = q[n] PROVE m = n
      <4>1. old(m) = old(n)
        BY <2>4, <3>1, <3>2
      <4>q. QED BY <1>0, <2>4, <4>1
    <3>3. ASSUME NEW s \in Requests PROVE at[s] = "queued" <=> \E j \in 1..Len(q) : q[j] = s
      <4>1. at[s] = "queued" <=> s # r /\ \E n \in 1..Len(waiters) : waiters[n] = s
        BY <1>0, <2>6 DEF QueueIs
      <4>2. ASSUME NEW j \in 1..Len(q), q[j] = s PROVE s # r /\ \E n \in 1..Len(waiters) : waiters[n] = s
        BY <2>1, <2>4, <3>1, <4>2
      <4>3. ASSUME s # r, NEW n \in 1..Len(waiters), waiters[n] = s PROVE \E j \in 1..Len(q) : q[j] = s
        <5>1. n # i
          BY <2>1, <4>3
        <5>2. CASE n < i
          <6>1. n \in 1..Len(q) /\ old(n) = n
            BY <1>0, <2>4, <5>2
          <6>2. q[n] = waiters[n]
            BY <2>4, <6>1
          <6>q. QED BY <4>3, <6>1, <6>2
        <5>3. CASE n > i
          <6>1. n - 1 \in 1..Len(q) /\ old(n - 1) = n
            BY <1>0, <2>4, <5>3
          <6>2. q[n - 1] = waiters[n]
            BY <2>4, <6>1
          <6>q. QED BY <4>3, <6>1, <6>2
        <5>q. QED BY <1>0, <5>1, <5>2, <5>3
      <4>q. QED BY <4>1, <4>2, <4>3
    <3>q. QED BY <2>4, <3>2, <3>3 DEF QueueIs
  <2>9. CountIs(used, at) /\ want \in [Requests -> 0..Limit] /\ want' = want
    BY <1>3, <2>7 DEF BudgetInv, CountIs, Leave
  <2>q. QED BY <2>5, <2>6, <2>8, <2>9, PumpKeeps
<1>4. ASSUME NEW r \in Requests, Answered(r) PROVE BudgetInv'
  BY <1>4, Released DEF Answered
<1>5. ASSUME NEW r \in Requests, End(r) PROVE BudgetInv'
  <2>1. CASE body[r] = "holding" /\ Pump(used - want[r], waiters, [body EXCEPT ![r] = "done"]) /\ UNCHANGED want
    BY <2>1, Released
  <2>2. CASE body[r] = "released" /\ body' = [body EXCEPT ![r] = "done"] /\ UNCHANGED <<used, waiters, want>>
    <3>1. HeldIn(body') = HeldIn(body)
      BY <1>0, <2>2 DEF HeldIn
    <3>2. QueueIs(waiters, body)' /\ body' \in [Requests -> States]
      BY <1>0, <2>2 DEF QueueIs, States
    <3>3. CountIs(used, body)'
      BY <2>2, <3>1 DEF BudgetInv, CountIs
    <3>q. QED BY <2>2, <3>2, <3>3 DEF BudgetInv
  <2>q. QED BY <1>5, <2>1, <2>2 DEF End
<1>q. QED BY <1>1, <1>2, <1>3, <1>4, <1>5 DEF BudgetNext

\* The bodies held for replay stay within the budget, for any limit, any sizes and
\* any number of requests, wherever their reservations are given back.
THEOREM BudgetHolds == BudgetSpec => []WithinBudget
<1>1. ASSUME BudgetInit PROVE BudgetInv
  <2>1. HeldIn(body) = {}
    BY <1>1 DEF BudgetInit, HeldIn
  <2>2. IsFiniteSet({}) /\ Total(want, {}) = 0
    BY FS_EmptySet, TotalStep
  <2>3. QueueIs(waiters, body)
    BY <1>1 DEF BudgetInit, QueueIs
  <2>4. CountIs(used, body)
    <3>1. IsFiniteSet(HeldIn(body)) /\ Total(want, HeldIn(body)) = 0
      BY <2>1, <2>2, Zenon
    <3>2. used = 0 /\ 0 \in 0..Limit
      BY <1>1, BudgetAssumption DEF BudgetInit
    <3>q. QED BY <3>1, <3>2 DEF CountIs
  <2>5. body \in [Requests -> States] /\ want \in [Requests -> 0..Limit]
    BY <1>1, BudgetAssumption DEF BudgetInit, States
  <2>q. QED BY <2>3, <2>4, <2>5 DEF BudgetInv
<1>2. BudgetInv /\ [BudgetNext]_budgetVars => BudgetInv'
  <2>1. BudgetInv /\ UNCHANGED budgetVars => BudgetInv'
    BY DEF BudgetInv, budgetVars, QueueIs, CountIs, HeldIn
  <2>q. QED BY <2>1, BudgetStep
<1>3. BudgetInv => WithinBudget
  <2>1. WithinBudget <=> Total(want, HeldIn(body)) <= Limit
    BY DEF WithinBudget, Total, HeldIn
  <2>q. QED BY <2>1, BudgetAssumption DEF BudgetInv, CountIs
<1>q. QED BY <1>1, <1>2, <1>3, PTL DEF BudgetSpec

-----------------------------------------------------------------------------
(* The usage ledger's buffer.                                              *)

\* Rows stand in the order they were pushed in, each once.
Rising(s) == \A i, j \in 1..Len(s) : i < j => s[i] < s[j]

Waiting == In(rows) \cup In(batch)

\* The buffer and the batch that was taken from its front.
QueueOK ==
    /\ rows \in Seq(Row) /\ batch \in Seq(Row)
    /\ Rising(rows) /\ Rising(batch)
    /\ \A x \in In(batch), y \in In(rows) : x < y
    /\ flush \in {"idle", "write", "isolate"} /\ (flush = "idle" <=> batch = <<>>)

\* Every row that was pushed is in the store, counted as dropped, or waiting.
NoRowVanishes == \A r \in 1..pushed : stored[r] > 0 \/ r \in dropped \cup Waiting

LedgerInv ==
    /\ pushed \in 0..MaxRows /\ dropped \subseteq Row /\ doubtful \subseteq Row /\ stored \in [Row -> Nat]
    /\ \A r \in Row : r > pushed => stored[r] = 0 /\ r \notin dropped \cup Waiting
    /\ QueueOK
    /\ BilledOnce
    /\ NoRowVanishes

-----------------------------------------------------------------------------
(* The buffer's operations on rising sequences of rows.                    *)

LEMMA InSeq == ASSUME NEW s \in Seq(Row) PROVE Len(s) \in Nat /\ In(s) \subseteq Row /\ \A i \in 1..Len(s) : s[i] \in Row
BY DEF In

\* A part of a rising sequence rises.
LEMMA PartRises ==
    ASSUME NEW s \in Seq(Row), Rising(s), NEW m \in Nat, NEW n \in 0..Len(s), m >= 1
    PROVE  /\ SubSeq(s, m, n) \in Seq(Row) /\ Rising(SubSeq(s, m, n))
           /\ Len(SubSeq(s, m, n)) = (IF m <= n THEN n - m + 1 ELSE 0)
           /\ In(SubSeq(s, m, n)) = {s[i] : i \in m..n}
<1> DEFINE t == SubSeq(s, m, n)
<1>1. Len(s) \in Nat /\ \A i \in m..n : s[i] \in Row
  BY InSeq
<1>2. t \in Seq(Row) /\ Len(t) = (IF m <= n THEN n - m + 1 ELSE 0) /\ \A i \in 1..n - m + 1 : t[i] = s[m + i - 1]
  BY <1>1, SubSeqProperties
<1> HIDE DEF t
<1>3. Rising(t)
  <2> SUFFICES ASSUME NEW i \in 1..Len(t), NEW j \in 1..Len(t), i < j PROVE t[i] < t[j]
    BY DEF Rising
  <2>1. t[i] = s[m + i - 1] /\ t[j] = s[m + j - 1]
    BY <1>1, <1>2
  <2>2. m + i - 1 \in 1..Len(s) /\ m + j - 1 \in 1..Len(s) /\ m + i - 1 < m + j - 1
    BY <1>1, <1>2
  <2>q. QED BY <2>1, <2>2 DEF Rising
<1>4. In(t) \subseteq {s[i] : i \in m..n}
  <2> SUFFICES ASSUME NEW i \in 1..Len(t) PROVE \E j \in m..n : t[i] = s[j]
    BY DEF In
  <2>1. m + i - 1 \in m..n /\ t[i] = s[m + i - 1]
    BY <1>1, <1>2
  <2>q. QED BY <2>1
<1>5. {s[i] : i \in m..n} \subseteq In(t)
  <2> SUFFICES ASSUME NEW j \in m..n PROVE \E i \in 1..Len(t) : s[j] = t[i]
    BY DEF In
  <2>1. j - m + 1 \in 1..Len(t) /\ t[j - m + 1] = s[m + (j - m + 1) - 1] /\ m + (j - m + 1) - 1 = j
    BY <1>1, <1>2
  <2>q. QED BY <2>1
<1>q. QED BY <1>2, <1>3, <1>4, <1>5 DEF t

\* Two parts of a rising sequence have all its rows, the first before the second.
LEMMA Split ==
    ASSUME NEW s \in Seq(Row), Rising(s), NEW n \in 0..Len(s)
    PROVE  LET a == SubSeq(s, 1, n)  b == SubSeq(s, n + 1, Len(s)) IN
           /\ a \in Seq(Row) /\ b \in Seq(Row) /\ Rising(a) /\ Rising(b) /\ Len(a) = n /\ Len(b) = Len(s) - n
           /\ In(a) \cup In(b) = In(s) /\ \A x \in In(a), y \in In(b) : x < y
<1>1. Len(s) \in Nat
  BY InSeq
<1>2. /\ SubSeq(s, 1, n) \in Seq(Row) /\ Rising(SubSeq(s, 1, n)) /\ Len(SubSeq(s, 1, n)) = n
      /\ In(SubSeq(s, 1, n)) = {s[i] : i \in 1..n}
  BY <1>1, PartRises
<1>3. /\ SubSeq(s, n + 1, Len(s)) \in Seq(Row) /\ Rising(SubSeq(s, n + 1, Len(s)))
      /\ Len(SubSeq(s, n + 1, Len(s))) = Len(s) - n
      /\ In(SubSeq(s, n + 1, Len(s))) = {s[i] : i \in n + 1..Len(s)}
  BY <1>1, PartRises
<1>4. {s[i] : i \in 1..n} \cup {s[i] : i \in n + 1..Len(s)} = In(s)
  BY <1>1 DEF In
<1>5. \A x \in {s[i] : i \in 1..n}, y \in {s[i] : i \in n + 1..Len(s)} : x < y
  BY <1>1 DEF Rising
<1>q. QED BY <1>2, <1>3, <1>4, <1>5

\* A flush that goes on moves rows from the buffer's front into the batch.
LEMMA ProceedSplits ==
    ASSUME LedgerInv, Proceed(rows) PROVE QueueOK' /\ Waiting' = In(rows)
<1> DEFINE n == IF Len(rows) < Batch THEN Len(rows) ELSE Batch
<1>1. rows \in Seq(Row) /\ Rising(rows) /\ Len(rows) \in Nat /\ Batch \in Nat \ {0}
  BY InSeq, LedgerAssumption DEF LedgerInv, QueueOK
<1>2. n \in 0..Len(rows)
  BY <1>1
<1>3. batch' = SubSeq(rows, 1, n) /\ rows' = SubSeq(rows, n + 1, Len(rows)) /\ flush' = IF n = 0 THEN "idle" ELSE "write"
  BY DEF Proceed
<1> HIDE DEF n
<1>4. /\ batch' \in Seq(Row) /\ rows' \in Seq(Row) /\ Rising(batch') /\ Rising(rows') /\ Len(batch') = n
      /\ In(batch') \cup In(rows') = In(rows) /\ \A x \in In(batch'), y \in In(rows') : x < y
  BY <1>1, <1>2, <1>3, Split
<1>5. batch' = <<>> <=> n = 0
  BY <1>2, <1>4, EmptySeq
<1>q. QED BY <1>3, <1>4, <1>5 DEF QueueOK, Waiting, Rising, In

\* What does not fit is the oldest, and then the buffer is full of newer rows.
LEMMA TrimSplits ==
    ASSUME NEW s \in Seq(Row), Rising(s)
    PROVE  /\ Trim(s).kept \in Seq(Row) /\ Rising(Trim(s).kept)
           /\ Trim(s).lost \cup In(Trim(s).kept) = In(s) /\ Trim(s).lost \cap In(Trim(s).kept) = {}
           /\ \A r \in Trim(s).lost : Len(Trim(s).kept) = Capacity /\ \A y \in In(Trim(s).kept) : r < y
<1> DEFINE over == IF Len(s) > Capacity THEN Len(s) - Capacity ELSE 0
<1>1. Len(s) \in Nat /\ Capacity \in Nat
  BY InSeq, LedgerAssumption
<1>2. over \in 0..Len(s)
  BY <1>1
<1> DEFINE a == SubSeq(s, 1, over)  b == SubSeq(s, over + 1, Len(s))
<1>3. Trim(s) = [kept |-> b, lost |-> In(a)]
  BY DEF Trim
<1>4. over > 0 => Len(s) - over = Capacity
  BY <1>1
<1> HIDE DEF over
<1>5. /\ a \in Seq(Row) /\ b \in Seq(Row) /\ Rising(b) /\ Len(a) = over /\ Len(b) = Len(s) - over
      /\ In(a) \cup In(b) = In(s) /\ \A x \in In(a), y \in In(b) : x < y
  BY <1>2, Split
<1> HIDE DEF a, b
<1>6. Trim(s).kept = b /\ Trim(s).lost = In(a)
  BY <1>3
<1>7. In(a) \subseteq Nat /\ In(b) \subseteq Nat /\ (In(a) # {} => over > 0)
  BY <1>2, <1>5, InSeq DEF In, Row
<1>8. In(a) \cap In(b) = {}
  BY <1>5, <1>7
<1>q. QED BY <1>4, <1>5, <1>6, <1>7, <1>8

\* The rows of two sequences, one after the other.
LEMMA Joined ==
    ASSUME NEW s \in Seq(Row), NEW t \in Seq(Row), Rising(s), Rising(t), \A x \in In(s), y \in In(t) : x < y
    PROVE  s \o t \in Seq(Row) /\ Rising(s \o t) /\ In(s \o t) = In(s) \cup In(t)
<1> DEFINE u == s \o t
<1>1. Len(s) \in Nat /\ Len(t) \in Nat
  BY InSeq
<1>2. u \in Seq(Row) /\ Len(u) = Len(s) + Len(t) /\ \A i \in 1..Len(s) + Len(t) : u[i] = IF i <= Len(s) THEN s[i] ELSE t[i - Len(s)]
  BY ConcatProperties
<1> HIDE DEF u
<1>3. Rising(u)
  <2> SUFFICES ASSUME NEW i \in 1..Len(u), NEW j \in 1..Len(u), i < j PROVE u[i] < u[j]
    BY DEF Rising
  <2>1. CASE j <= Len(s)
    <3>1. i \in 1..Len(s) /\ j \in 1..Len(s) /\ u[i] = s[i] /\ u[j] = s[j]
      BY <1>1, <1>2, <2>1
    <3>q. QED BY <3>1 DEF Rising
  <2>2. CASE i <= Len(s) /\ j > Len(s)
    <3>1. i \in 1..Len(s) /\ j - Len(s) \in 1..Len(t) /\ u[i] = s[i] /\ u[j] = t[j - Len(s)]
      BY <1>1, <1>2, <2>2
    <3>q. QED BY <3>1 DEF In
  <2>3. CASE i > Len(s)
    <3>1. /\ i - Len(s) \in 1..Len(t) /\ j - Len(s) \in 1..Len(t) /\ i - Len(s) < j - Len(s)
          /\ u[i] = t[i - Len(s)] /\ u[j] = t[j - Len(s)]
      BY <1>1, <1>2, <2>3
    <3>q. QED BY <3>1 DEF Rising
  <2>q. QED BY <1>1, <2>1, <2>2, <2>3
<1>4. In(u) \subseteq In(s) \cup In(t)
  <2> SUFFICES ASSUME NEW i \in 1..Len(u) PROVE u[i] \in In(s) \cup In(t)
    BY DEF In
  <2>1. CASE i <= Len(s)
    BY <1>1, <1>2, <2>1 DEF In
  <2>2. CASE i > Len(s)
    <3>1. i - Len(s) \in 1..Len(t) /\ u[i] = t[i - Len(s)]
      BY <1>1, <1>2, <2>2
    <3>q. QED BY <3>1 DEF In
  <2>q. QED BY <1>1, <2>1, <2>2
<1>5. In(s) \subseteq In(u)
  <2> SUFFICES ASSUME NEW i \in 1..Len(s) PROVE \E j \in 1..Len(u) : s[i] = u[j]
    BY DEF In
  <2>1. i \in 1..Len(u) /\ u[i] = s[i]
    BY <1>1, <1>2
  <2>q. QED BY <2>1
<1>6. In(t) \subseteq In(u)
  <2> SUFFICES ASSUME NEW i \in 1..Len(t) PROVE \E j \in 1..Len(u) : t[i] = u[j]
    BY DEF In
  <2> DEFINE j == i + Len(s)
  <2>1. j \in 1..Len(s) + Len(t) /\ ~(j <= Len(s)) /\ j - Len(s) = i
    BY <1>1
  <2> HIDE DEF j
  <2>2. j \in 1..Len(u) /\ u[j] = t[i]
    BY <1>2, <2>1
  <2>q. QED BY <2>2
<1>q. QED BY <1>2, <1>3, <1>4, <1>5, <1>6 DEF u

\* One row goes to the back.
LEMMA Pushed ==
    ASSUME NEW s \in Seq(Row), Rising(s), NEW r \in Row, \A x \in In(s) : x < r
    PROVE  Append(s, r) \in Seq(Row) /\ Rising(Append(s, r)) /\ In(Append(s, r)) = In(s) \cup {r}
<1>1. <<r>> \in Seq(Row) /\ Len(<<r>>) = 1 /\ <<r>>[1] = r
  OBVIOUS
<1>2. Append(s, r) = s \o <<r>>
  BY AppendIsConcat
<1> DEFINE t == <<r>>
<1>3. t \in Seq(Row) /\ Len(t) = 1 /\ t[1] = r
  BY <1>1
<1> HIDE DEF t
<1>4. In(t) = {r} /\ Rising(t)
  BY <1>3 DEF In, Rising
<1>5. s \o t \in Seq(Row) /\ Rising(s \o t) /\ In(s \o t) = In(s) \cup In(t)
  BY <1>3, <1>4, Joined
<1>q. QED BY <1>2, <1>4, <1>5 DEF t

\* One row leaves a batch at its front.
LEMMA RowLeaves ==
    ASSUME LedgerInv, flush = "isolate", AfterRow
    PROVE  QueueOK' /\ Head(batch) \in In(batch) /\ Waiting' = Waiting \ {Head(batch)}
<1>1. /\ batch \in Seq(Row) /\ rows \in Seq(Row) /\ Rising(batch) /\ batch # <<>> /\ Len(batch) \in Nat
      /\ In(batch) \subseteq Nat /\ In(rows) \subseteq Nat /\ \A x \in In(batch), y \in In(rows) : x < y
  BY InSeq DEF LedgerInv, QueueOK, Row
<1>2. Len(batch) > 0 /\ Head(batch) = batch[1] /\ batch[1] \in In(batch)
  BY <1>1, EmptySeq DEF In
<1>3. In(batch) = {batch[1]} \cup {batch[i] : i \in 2..Len(batch)}
  BY <1>1, <1>2 DEF In
<1>4. batch[1] \notin {batch[i] : i \in 2..Len(batch)} /\ batch[1] \notin In(rows)
  <2>1. \A i \in 2..Len(batch) : batch[1] < batch[i]
    BY <1>1, <1>2 DEF Rising
  <2>2. \A y \in In(rows) : batch[1] < y
    BY <1>1, <1>2
  <2>3. batch[1] \in Nat /\ \A i \in 2..Len(batch) : batch[i] \in Nat
    BY <1>1, <1>2 DEF In
  <2>q. QED BY <1>1, <2>1, <2>2, <2>3
<1>5. CASE Len(batch) = 1
  <2>1. Proceed(rows)
    BY <1>5 DEF AfterRow
  <2>2. QueueOK' /\ Waiting' = In(rows)
    BY <2>1, ProceedSplits
  <2>3. In(batch) = {batch[1]}
    BY <1>3, <1>5
  <2>q. QED BY <1>2, <1>4, <2>2, <2>3 DEF Waiting
<1>6. CASE Len(batch) # 1
  <2>1. batch' = Tail(batch) /\ UNCHANGED <<rows, flush>>
    BY <1>6 DEF AfterRow
  <2>2. batch' = SubSeq(batch, 2, Len(batch))
    BY <1>1, <2>1, TailIsSubSeq
  <2>3. batch' \in Seq(Row) /\ Rising(batch') /\ Len(batch') = Len(batch) - 1 /\ In(batch') = {batch[i] : i \in 2..Len(batch)}
    <3> DEFINE n == Len(batch)
    <3>0. n \in Nat /\ n > 0 /\ n # 1
      BY <1>1, <1>2, <1>6
    <3> HIDE DEF n
    <3>1. 2 \in Nat /\ 2 >= 1 /\ n \in 0..n /\ (IF 2 <= n THEN n - 2 + 1 ELSE 0) = n - 1
      BY <3>0
    <3> USE DEF n
    <3>q. QED BY <1>1, <2>2, <3>1, PartRises
  <2>4. batch' # <<>>
    BY <1>1, <1>2, <1>6, <2>3, EmptySeq
  <2>5. In(batch') \subseteq In(batch) /\ In(batch) = {batch[1]} \cup In(batch') /\ batch[1] \notin In(batch') \cup In(rows)
    BY <1>3, <1>4, <2>3
  <2>6. QueueOK'
    BY <1>1, <2>1, <2>3, <2>4, <2>5 DEF QueueOK, LedgerInv, Rising, In
  <2>7. Waiting' = In(rows) \cup In(batch')
    BY <2>1 DEF Waiting, In
  <2>q. QED BY <1>2, <2>5, <2>6, <2>7 DEF Waiting
<1>q. QED BY <1>5, <1>6

\* The store is unwell: the batch goes back to where it was, and what no longer
\* fits is the oldest.
LEMMA Requeued ==
    ASSUME LedgerInv, Requeue(batch)
    PROVE  \E lost : /\ QueueOK' /\ lost \cup Waiting' = Waiting /\ lost \cap Waiting' = {} /\ dropped' = dropped \cup lost
                     /\ \A r \in lost : Len(rows') = Capacity /\ \A y \in In(rows') : r < y
<1>1. /\ batch \in Seq(Row) /\ rows \in Seq(Row) /\ Rising(batch) /\ Rising(rows)
      /\ \A x \in In(batch), y \in In(rows) : x < y
  BY DEF LedgerInv, QueueOK
<1> DEFINE s == batch \o rows  t == Trim(s)
<1>2. s \in Seq(Row) /\ Rising(s) /\ In(s) = In(batch) \cup In(rows)
  BY <1>1, Joined
<1>3. rows' = t.kept /\ dropped' = dropped \cup t.lost /\ batch' = <<>> /\ flush' = "idle"
  BY DEF Requeue
<1> HIDE DEF s
<1>4. /\ t.kept \in Seq(Row) /\ Rising(t.kept)
      /\ t.lost \cup In(t.kept) = In(s) /\ t.lost \cap In(t.kept) = {}
      /\ \A r \in t.lost : Len(t.kept) = Capacity /\ \A y \in In(t.kept) : r < y
  BY <1>2, TrimSplits
<1> HIDE DEF t
<1>5. In(batch') = {} /\ batch' \in Seq(Row) /\ Rising(batch') /\ In(rows') = In(t.kept)
  BY <1>3 DEF In, Rising
<1>6. QueueOK'
  BY <1>3, <1>4, <1>5 DEF QueueOK, Rising, In
<1>7. Waiting' = In(t.kept)
  BY <1>5 DEF Waiting, In
<1>8. t.lost \cup Waiting' = Waiting /\ t.lost \cap Waiting' = {}
  BY <1>2, <1>4, <1>7 DEF Waiting
<1>9. \A r \in t.lost : Len(rows') = Capacity /\ \A y \in In(rows') : r < y
  BY <1>3, <1>4, <1>5
<1>q. QED BY <1>3, <1>6, <1>8, <1>9

-----------------------------------------------------------------------------
(* What a step does to the rows.                                           *)

\* A step that moves rows keeps the count of each: those it stores or drops
\* waited or are new, and a row it stores waits no more unless its answer is
\* lost.
LEMMA RowsMove ==
    ASSUME LedgerInv, QueueOK', pushed' \in 0..MaxRows, pushed <= pushed', doubtful' \subseteq Row, doubtful \subseteq doubtful',
           NEW paid, NEW lost, paid \cup lost \cup Waiting' = Waiting \cup (pushed + 1..pushed'),
           stored' = [r \in Row |-> stored[r] + IF r \in paid THEN 1 ELSE 0], dropped' = dropped \cup lost,
           lost \cap Waiting' = {}, paid \cap (lost \cup Waiting') \subseteq doubtful'
    PROVE  LedgerInv'
<1> DEFINE new == pushed + 1..pushed'
<1>1. /\ pushed \in 0..MaxRows /\ dropped \subseteq Row /\ doubtful \subseteq Row /\ stored \in [Row -> Nat] /\ BilledOnce
      /\ \A r \in Row : r > pushed => stored[r] = 0 /\ r \notin dropped \cup Waiting
  BY DEF LedgerInv
<1>2. Waiting \subseteq Row /\ new \subseteq Row /\ MaxRows \in Nat
  <2>1. Waiting \subseteq Row
    BY InSeq DEF LedgerInv, QueueOK, Waiting
  <2>q. QED BY <1>1, <2>1, LedgerAssumption DEF Row
<1>3. \A r \in Row : r > pushed' => r \notin Waiting \cup new /\ r > pushed
  BY <1>1, <1>2, LedgerAssumption DEF Row
<1>3a. \A r \in 1..pushed' : r \in 1..pushed \/ r \in new
  BY <1>1, <1>2
<1>3b. paid \cup lost \cup Waiting' = Waiting \cup new
  OBVIOUS
<1>3c. \A r \in new : r \in Row /\ r > pushed
  BY <1>1, <1>2 DEF Row
<1> HIDE DEF new
<1>4. stored' \in [Row -> Nat] /\ dropped' \subseteq Row
  <2>1. \A r \in Row : (stored[r] + IF r \in paid THEN 1 ELSE 0) \in Nat
    BY <1>1
  <2>q. QED BY <1>1, <1>2, <1>3b, <2>1
<1>5. ASSUME NEW r \in Row, r > pushed' PROVE stored'[r] = 0 /\ r \notin dropped' \cup Waiting'
  BY <1>1, <1>3, <1>3b, <1>5
<1>6. ASSUME NEW r \in Row \ doubtful' PROVE /\ stored'[r] <= 1
                                             /\ stored'[r] = 1 => r \notin dropped' \cup Waiting'
                                             /\ r \in dropped' => r \notin Waiting'
  <2>1. /\ stored[r] <= 1 /\ (stored[r] = 1 => r \notin dropped \cup Waiting) /\ (r \in dropped => r \notin Waiting)
        /\ stored[r] \in Nat
    BY <1>1 DEF BilledOnce, Waiting
  <2>2. r \in new => stored[r] = 0 /\ r \notin dropped \cup Waiting
    BY <1>1, <1>3c
  <2>3. stored'[r] = IF r \in paid THEN stored[r] + 1 ELSE stored[r]
    BY <2>1
  <2>q. QED BY <1>3b, <2>1, <2>2, <2>3
<1>7. BilledOnce'
  BY <1>6 DEF BilledOnce, Waiting
<1>8. NoRowVanishes'
  <2> SUFFICES ASSUME NEW r \in 1..pushed' PROVE stored'[r] > 0 \/ r \in dropped' \cup Waiting'
    BY DEF NoRowVanishes
  <2>1. r \in Row /\ stored[r] \in Nat /\ stored'[r] = IF r \in paid THEN stored[r] + 1 ELSE stored[r]
    BY <1>1, <1>2 DEF Row
  <2>2. CASE r \in new
    BY <1>3b, <2>1, <2>2
  <2>3. CASE r \in 1..pushed
    BY <1>3b, <2>1, <2>3 DEF LedgerInv, NoRowVanishes
  <2>q. QED BY <1>3a, <2>2, <2>3
<1>q. QED BY <1>4, <1>5, <1>7, <1>8 DEF LedgerInv

\* Why a step drops a row.
Reason(r) == r \in Poison \/ ledger # "open" \/ (Len(rows') = Capacity /\ \A y \in In(rows') : r < y)

LEMMA LedgerStep == ASSUME LedgerInv, LedgerNext PROVE LedgerInv' /\ \A r \in dropped' \ dropped : Reason(r)
<1>0. /\ LedgerInv /\ QueueOK /\ pushed \in 0..MaxRows /\ doubtful \subseteq Row /\ MaxRows \in Nat
      /\ stored \in [Row -> Nat] /\ Waiting \subseteq Row
  <2>1. Waiting \subseteq Row
    BY InSeq DEF LedgerInv, QueueOK, Waiting
  <2>q. QED BY <2>1, LedgerAssumption DEF LedgerInv
<1>p. pushed + 1..pushed = {} /\ stored = [r \in Row |-> stored[r] + IF r \in {} THEN 1 ELSE 0]
  <2>1. \A r \in Row : stored[r] + (IF r \in {} THEN 1 ELSE 0) = stored[r]
    BY <1>0
  <2>q. QED BY <1>0, <2>1
<1>b. In(batch) \cap In(rows) = {} /\ Waiting = In(batch) \cup In(rows)
  <2>1. In(batch) \subseteq Nat
    BY <1>0, InSeq DEF QueueOK, Row
  <2>q. QED BY <1>0, <2>1 DEF QueueOK, Waiting
<1>1. ASSUME Push PROVE LedgerInv' /\ \A r \in dropped' \ dropped : Reason(r)
  <2>1. /\ pushed < MaxRows /\ pushed' = pushed + 1 /\ UNCHANGED <<batch, flush, ledger, stored, doubtful>>
        /\ pushed' \in Row /\ pushed + 1..pushed' = {pushed'}
    BY <1>0, <1>1 DEF Push, Row
  <2>2. CASE ledger # "open"
    <3>1. dropped' = dropped \cup {pushed'} /\ UNCHANGED rows
      BY <1>1, <2>2 DEF Push
    <3>2. QueueOK' /\ Waiting' = Waiting
      BY <1>0, <2>1, <3>1 DEF QueueOK, Waiting, Rising, In
    <3>3. pushed' \notin Waiting
      BY <1>0, <2>1 DEF LedgerInv
    <3>4. {} \cup {pushed'} \cup Waiting' = Waiting \cup (pushed + 1..pushed')
      BY <2>1, <3>2
    <3>5. {pushed'} \cap Waiting' = {} /\ {} \cap ({pushed'} \cup Waiting') \subseteq doubtful'
      BY <3>2, <3>3
    <3>6. stored' = [r \in Row |-> stored[r] + IF r \in {} THEN 1 ELSE 0]
      BY <1>p, <2>1
    <3>7. pushed' \in 0..MaxRows /\ pushed <= pushed' /\ doubtful' \subseteq Row /\ doubtful \subseteq doubtful'
      BY <1>0, <2>1
    <3>8. LedgerInv'
      BY <1>0, <3>1, <3>2, <3>4, <3>5, <3>6, <3>7, RowsMove
    <3>q. QED BY <2>2, <3>8 DEF Reason
  <2>3. CASE ledger = "open"
    <3> DEFINE s == Append(rows, pushed')
    <3>1. rows' = Trim(s).kept /\ dropped' = dropped \cup Trim(s).lost
      BY <1>1, <2>3 DEF Push
    <3>2. \A x \in Waiting : x < pushed'
      BY <1>0, <2>1 DEF LedgerInv, Row
    <3>3. s \in Seq(Row) /\ Rising(s) /\ In(s) = In(rows) \cup {pushed'}
      BY <1>0, <2>1, <3>2, Pushed DEF QueueOK, Waiting
    <3> HIDE DEF s
    <3> DEFINE t == Trim(s)
    <3>4. /\ t.kept \in Seq(Row) /\ Rising(t.kept)
          /\ t.lost \cup In(t.kept) = In(s) /\ t.lost \cap In(t.kept) = {}
          /\ \A r \in t.lost : Len(t.kept) = Capacity /\ \A y \in In(t.kept) : r < y
      BY <3>3, TrimSplits
    <3> HIDE DEF t
    <3>5. In(rows') = In(t.kept) /\ Waiting' = In(t.kept) \cup In(batch) /\ dropped' = dropped \cup t.lost
      BY <2>1, <3>1 DEF Waiting, In, t
    <3>6. \A x \in In(batch), y \in In(t.kept) : x < y
      BY <1>0, <1>b, <3>2, <3>3, <3>4 DEF QueueOK
    <3>7. QueueOK'
      BY <1>0, <2>1, <3>1, <3>4, <3>6 DEF QueueOK, Rising, In, t
    <3>8. t.lost \cap In(batch) = {} /\ t.lost \cup Waiting' = Waiting \cup {pushed'}
      <4>1. pushed' \notin Waiting
        BY <1>0, <2>1 DEF LedgerInv
      <4>q. QED BY <1>b, <3>3, <3>4, <3>5, <4>1
    <3>9. LedgerInv'
      <4>1. {} \cup t.lost \cup Waiting' = Waiting \cup (pushed + 1..pushed')
        BY <2>1, <3>8
      <4>2. t.lost \cap Waiting' = {} /\ {} \cap (t.lost \cup Waiting') \subseteq doubtful'
        BY <3>4, <3>5, <3>8
      <4>3. stored' = [r \in Row |-> stored[r] + IF r \in {} THEN 1 ELSE 0]
        BY <1>p, <2>1
      <4>4. pushed' \in 0..MaxRows /\ pushed <= pushed' /\ doubtful' \subseteq Row /\ doubtful \subseteq doubtful'
        BY <1>0, <2>1
      <4>q. QED BY <1>0, <3>5, <3>7, <4>1, <4>2, <4>3, <4>4, RowsMove
    <3>10. \A r \in dropped' \ dropped : Reason(r)
      BY <3>1, <3>4, <3>5 DEF Reason, t
    <3>q. QED BY <3>9, <3>10
  <2>q. QED BY <2>2, <2>3
<1>2. ASSUME UNCHANGED <<pushed, dropped, stored, doubtful>>, QueueOK', Waiting' = Waiting
      PROVE LedgerInv' /\ \A r \in dropped' \ dropped : Reason(r)
  <2>1. LedgerInv'
    BY <1>0, <1>2 DEF LedgerInv, BilledOnce, Waiting, NoRowVanishes
  <2>q. QED BY <1>2, <2>1
<1>3. ASSUME Flush \/ Close PROVE LedgerInv' /\ \A r \in dropped' \ dropped : Reason(r)
  <2>1. (flush = "idle" /\ Proceed(rows)) \/ UNCHANGED <<batch, rows, flush>>
    BY <1>3 DEF Flush, Close
  <2>2. UNCHANGED <<pushed, dropped, stored, doubtful>>
    BY <1>3 DEF Flush, Close
  <2>3. CASE UNCHANGED <<batch, rows, flush>>
    BY <1>0, <1>2, <2>2, <2>3 DEF QueueOK, Waiting, Rising, In
  <2>4. CASE flush = "idle" /\ Proceed(rows)
    <3>1. QueueOK' /\ Waiting' = In(rows)
      BY <1>0, <2>4, ProceedSplits
    <3>2. In(batch) = {}
      BY <1>0, <2>4 DEF QueueOK, In
    <3>q. QED BY <1>2, <1>b, <2>2, <3>1, <3>2
  <2>q. QED BY <2>1, <2>3, <2>4
<1>4. ASSUME Written PROVE LedgerInv' /\ \A r \in dropped' \ dropped : Reason(r)
  <2>1. /\ stored' = [r \in Row |-> stored[r] + IF r \in In(batch) THEN 1 ELSE 0]
        /\ Proceed(rows) /\ UNCHANGED <<pushed, ledger, dropped, doubtful>>
    BY <1>4 DEF Written, StoreRows
  <2>2. QueueOK' /\ Waiting' = In(rows)
    BY <1>0, <2>1, ProceedSplits
  <2>3. In(batch) \cup {} \cup Waiting' = Waiting \cup (pushed + 1..pushed')
    BY <1>b, <1>p, <2>1, <2>2
  <2>4. dropped' = dropped \cup {} /\ {} \cap Waiting' = {} /\ In(batch) \cap ({} \cup Waiting') \subseteq doubtful'
    BY <1>b, <2>1, <2>2
  <2>5. pushed' \in 0..MaxRows /\ pushed <= pushed' /\ doubtful' \subseteq Row /\ doubtful \subseteq doubtful'
    BY <1>0, <2>1
  <2>6. LedgerInv'
    BY <1>0, <2>1, <2>2, <2>3, <2>4, <2>5, RowsMove
  <2>q. QED BY <2>1, <2>6
<1>5. ASSUME Rejected \/ Watch PROVE LedgerInv' /\ \A r \in dropped' \ dropped : Reason(r)
  <2>1. UNCHANGED <<pushed, rows, batch, dropped, stored, doubtful>> /\ (flush' = flush \/ (flush = "write" /\ flush' = "isolate"))
    BY <1>5 DEF Rejected, Watch
  <2>q. QED BY <1>0, <1>2, <2>1 DEF QueueOK, Waiting, Rising, In
<1>6. ASSUME NEW s, s \subseteq In(batch), Fails(s), Requeue(batch), UNCHANGED pushed
      PROVE LedgerInv' /\ \A r \in dropped' \ dropped : Reason(r)
  <2>1. PICK lost : /\ QueueOK' /\ lost \cup Waiting' = Waiting /\ lost \cap Waiting' = {} /\ dropped' = dropped \cup lost
                    /\ \A r \in lost : Len(rows') = Capacity /\ \A y \in In(rows') : r < y
    BY <1>0, <1>6, Requeued
  <2>2. \A r \in dropped' \ dropped : Reason(r)
    BY <2>1 DEF Reason
  <2>3. CASE UNCHANGED <<stored, doubtful>>
    <3>1. {} \cup lost \cup Waiting' = Waiting \cup (pushed + 1..pushed')
      BY <1>6, <1>p, <2>1
    <3>2. {} \cap (lost \cup Waiting') \subseteq doubtful' /\ stored' = [r \in Row |-> stored[r] + IF r \in {} THEN 1 ELSE 0]
      BY <1>p, <2>3
    <3>3. pushed' \in 0..MaxRows /\ pushed <= pushed' /\ doubtful' \subseteq Row /\ doubtful \subseteq doubtful'
      BY <1>0, <1>6, <2>3
    <3>4. LedgerInv'
      BY <1>0, <2>1, <3>1, <3>2, <3>3, RowsMove
    <3>q. QED BY <2>2, <3>4
  <2>4. CASE StoreRows(s) /\ doubtful' = doubtful \cup s
    <3>1. s \cup lost \cup Waiting' = Waiting \cup (pushed + 1..pushed')
      BY <1>6, <1>b, <1>p, <2>1
    <3>2. doubtful' \subseteq Row /\ doubtful \subseteq doubtful' /\ s \cap (lost \cup Waiting') \subseteq doubtful'
      BY <1>0, <1>6, <1>b, <2>4
    <3>3. stored' = [r \in Row |-> stored[r] + IF r \in s THEN 1 ELSE 0]
      BY <2>4 DEF StoreRows
    <3>4. pushed' \in 0..MaxRows /\ pushed <= pushed'
      BY <1>0, <1>6
    <3>5. LedgerInv'
      BY <1>0, <2>1, <3>1, <3>2, <3>3, <3>4, RowsMove
    <3>q. QED BY <2>2, <3>5
  <2>q. QED BY <1>6, <2>3, <2>4 DEF Fails
<1>7. ASSUME flush = "isolate" PROVE Head(batch) \in In(batch)
  <2>1. batch \in Seq(Row) /\ batch # <<>>
    BY <1>0, <1>7 DEF QueueOK
  <2>2. Len(batch) > 0 /\ Head(batch) = batch[1] /\ Len(batch) \in Nat
    BY <2>1, EmptySeq, InSeq
  <2>q. QED BY <2>2 DEF In
<1>8. ASSUME WriteFails PROVE LedgerInv' /\ \A r \in dropped' \ dropped : Reason(r)
  BY <1>6, <1>8 DEF WriteFails
<1>9. ASSUME RowFails PROVE LedgerInv' /\ \A r \in dropped' \ dropped : Reason(r)
  <2>1. {Head(batch)} \subseteq In(batch) /\ Fails({Head(batch)}) /\ Requeue(batch) /\ UNCHANGED pushed
    BY <1>7, <1>9 DEF RowFails
  <2>q. QED BY <1>6, <2>1
<1>10. ASSUME RowWritten PROVE LedgerInv' /\ \A r \in dropped' \ dropped : Reason(r)
  <2>1. flush = "isolate" /\ StoreRows({Head(batch)}) /\ AfterRow /\ UNCHANGED <<pushed, ledger, dropped, doubtful>>
    BY <1>10 DEF RowWritten
  <2>2. QueueOK' /\ Head(batch) \in In(batch) /\ Waiting' = Waiting \ {Head(batch)}
    BY <1>0, <2>1, RowLeaves
  <2>3. {Head(batch)} \cup {} \cup Waiting' = Waiting \cup (pushed + 1..pushed')
    BY <1>b, <1>p, <2>1, <2>2
  <2>4. dropped' = dropped \cup {} /\ {} \cap Waiting' = {} /\ {Head(batch)} \cap ({} \cup Waiting') \subseteq doubtful'
    BY <2>1, <2>2
  <2>5. stored' = [r \in Row |-> stored[r] + IF r \in {Head(batch)} THEN 1 ELSE 0]
    BY <2>1 DEF StoreRows
  <2>6. pushed' \in 0..MaxRows /\ pushed <= pushed' /\ doubtful' \subseteq Row /\ doubtful \subseteq doubtful'
    BY <1>0, <2>1
  <2>7. LedgerInv'
    BY <1>0, <2>2, <2>3, <2>4, <2>5, <2>6, RowsMove
  <2>q. QED BY <2>1, <2>7
<1>11. ASSUME RowRejected PROVE LedgerInv' /\ \A r \in dropped' \ dropped : Reason(r)
  <2>1. /\ flush = "isolate" /\ dropped' = dropped \cup {Head(batch)} /\ Head(batch) \in Poison
        /\ AfterRow /\ UNCHANGED <<pushed, ledger, stored, doubtful>>
    BY <1>11 DEF RowRejected
  <2>2. QueueOK' /\ Head(batch) \in In(batch) /\ Waiting' = Waiting \ {Head(batch)}
    BY <1>0, <2>1, RowLeaves
  <2>3. {} \cup {Head(batch)} \cup Waiting' = Waiting \cup (pushed + 1..pushed')
    BY <1>b, <1>p, <2>1, <2>2
  <2>4. {Head(batch)} \cap Waiting' = {} /\ {} \cap ({Head(batch)} \cup Waiting') \subseteq doubtful'
    BY <2>2
  <2>6. pushed' \in 0..MaxRows /\ pushed <= pushed' /\ doubtful' \subseteq Row /\ doubtful \subseteq doubtful'
    BY <1>0, <2>1
  <2>7. LedgerInv'
    BY <1>0, <1>p, <2>1, <2>2, <2>3, <2>4, <2>6, RowsMove
  <2>q. QED BY <2>1, <2>7 DEF Reason
<1>12. ASSUME CloseEnds PROVE LedgerInv' /\ \A r \in dropped' \ dropped : Reason(r)
  <2>1. /\ ledger = "closing" /\ flush = "idle" /\ dropped' = dropped \cup In(rows) /\ rows' = <<>>
        /\ UNCHANGED <<pushed, batch, flush, stored, doubtful>>
    BY <1>12 DEF CloseEnds
  <2>2. batch = <<>> /\ In(batch) = {} /\ In(rows') = {} /\ In(batch') = {}
    BY <1>0, <2>1 DEF QueueOK, In
  <2>3. QueueOK' /\ Waiting' = {}
    BY <1>0, <2>1, <2>2 DEF QueueOK, Waiting, Rising, In
  <2>4. {} \cup In(rows) \cup Waiting' = Waiting \cup (pushed + 1..pushed')
    BY <1>b, <1>p, <2>1, <2>2, <2>3
  <2>6. pushed' \in 0..MaxRows /\ pushed <= pushed' /\ doubtful' \subseteq Row /\ doubtful \subseteq doubtful'
    BY <1>0, <2>1
  <2>7. LedgerInv'
    BY <1>0, <1>p, <2>1, <2>3, <2>4, <2>6, RowsMove
  <2>q. QED BY <2>1, <2>7 DEF Reason
<1>q. QED BY <1>1, <1>3, <1>4, <1>5, <1>8, <1>9, <1>10, <1>11, <1>12 DEF LedgerNext, Settle

LEMMA LedgerInvariant == LedgerSpec => []LedgerInv
<1>1. ASSUME LedgerInit PROVE LedgerInv
  <2>1. rows = <<>> /\ batch = <<>> /\ In(rows) = {} /\ In(batch) = {}
    BY <1>1 DEF LedgerInit, In
  <2>q. QED BY <1>1, <2>1, LedgerAssumption DEF LedgerInit, LedgerInv, QueueOK, BilledOnce, NoRowVanishes, Waiting, Rising
<1>2. LedgerInv /\ [LedgerNext]_ledgerVars => LedgerInv'
  <2>1. ASSUME LedgerInv, UNCHANGED ledgerVars PROVE LedgerInv'
    <3>1. UNCHANGED <<pushed, rows, batch, flush, ledger, dropped, stored, doubtful>>
      BY <2>1 DEF ledgerVars
    <3>2. QueueOK'
      BY <2>1, <3>1 DEF LedgerInv, QueueOK
    <3>3. Waiting' = Waiting
      BY <3>1 DEF Waiting, In
    <3>4. BilledOnce' /\ NoRowVanishes'
      BY <2>1, <3>1, <3>3 DEF LedgerInv, BilledOnce, NoRowVanishes, Waiting
    <3>q. QED BY <2>1, <3>1, <3>2, <3>3, <3>4 DEF LedgerInv
  <2>q. QED BY <2>1, LedgerStep
<1>q. QED BY <1>1, <1>2, PTL DEF LedgerSpec

\* The ledger bills a row once, whatever outages, bad rows and drops come, but
\* for a write whose answer was lost.
THEOREM RowsBilledOnce == LedgerSpec => []BilledOnce
<1>1. LedgerInv => BilledOnce
  BY DEF LedgerInv
<1>q. QED BY <1>1, LedgerInvariant, PTL

\* No row that was pushed vanishes: the flush, its isolation of bad rows and its
\* requeue lose none without counting it.
THEOREM RowsAreAccountedFor == LedgerSpec => []NoRowVanishes
<1>1. LedgerInv => NoRowVanishes
  BY DEF LedgerInv
<1>q. QED BY <1>1, LedgerInvariant, PTL

\* The buffer gives up rows for their data, at the close, or the oldest when it
\* is full, however large it is.
THEOREM DropsAreReasoned == LedgerSpec => DropsHaveAReason
<1>1. LedgerInv /\ [LedgerNext]_ledgerVars =>
        [\A r \in dropped' \ dropped :
            \/ r \in Poison
            \/ ledger # "open"
            \/ Len(rows') = Capacity /\ \A i \in 1..Capacity : r < rows'[i]]_ledgerVars
  <2> SUFFICES ASSUME LedgerInv, LedgerNext, NEW r \in dropped' \ dropped, r \notin Poison, ledger = "open"
               PROVE Len(rows') = Capacity /\ \A i \in 1..Capacity : r < rows'[i]
    OBVIOUS
  <2>1. Reason(r)
    BY LedgerStep
  <2>2. Len(rows') = Capacity /\ \A y \in In(rows') : r < y
    BY <2>1 DEF Reason
  <2>q. QED BY <2>2 DEF In
<1>q. QED BY <1>1, LedgerInvariant, PTL DEF LedgerSpec, DropsHaveAReason

-----------------------------------------------------------------------------
(* The copy of the store.                                                  *)

\* What a re-read has read is at least as new as the instance's last answered
\* write, unless one was answered since it began.
NewerReads(k) == k.seen = version => \A a \in DOMAIN k.read : k.read[a] >= own[a]

StoreInv ==
    /\ record \in [Apps -> 0..MaxWrites] /\ copy \in [Apps -> Nat] /\ own \in [Apps -> Nat] /\ version \in Nat
    /\ warm \in [Warmers -> [on : BOOLEAN, seen : Nat, read : UNION {[S -> Nat] : S \in SUBSET Apps}]]
    /\ \A a \in Apps : own[a] <= record[a] /\ own[a] <= copy[a]
    /\ writing \in SUBSET (Apps \X Nat) /\ \A p \in writing : p[2] <= record[p[1]]
    /\ \A w \in Warmers : warm[w].on => warm[w].seen <= version /\ NewerReads(warm[w])

LEMMA LastIsLast == ASSUME record \in [Apps -> 0..MaxWrites] PROVE Last \in 0..MaxWrites /\ \A a \in Apps : record[a] <= Last
<1> DEFINE S == {n \in 0..MaxWrites : \A a \in Apps : record[a] <= n}
<1> USE StoreAssumption
<1>1. MaxWrites \in S
  OBVIOUS
<1>2. PICK m \in S : \A n \in S : m <= n
  <2>1. S \in SUBSET Nat /\ S # {}
    BY <1>1
  <2> HIDE DEF S
  <2>q. QED BY <2>1, LeastNumber
<1>3. m = 0 \/ \E a \in Apps : record[a] = m
  <2> SUFFICES ASSUME m # 0, \A a \in Apps : record[a] # m PROVE FALSE
    OBVIOUS
  <2>1. m - 1 \in S
    OBVIOUS
  <2>q. QED BY <2>1, <1>2
<1>4. \E n \in 0..MaxWrites : (\A a \in Apps : record[a] <= n) /\ (n = 0 \/ \E a \in Apps : record[a] = n)
  BY <1>2, <1>3
<1>q. QED BY <1>4 DEF Last

LEMMA StoreStep == ASSUME StoreInv, StoreNext PROVE StoreInv'
<1> DEFINE Reads == UNION {[S -> Nat] : S \in SUBSET Apps}
<1> DEFINE Off == [on |-> FALSE, seen |-> 0, read |-> [a \in {} |-> 0]]
<1>0. StoreInv
  OBVIOUS
<1>l. Last \in 0..MaxWrites /\ \A a \in Apps : record[a] <= Last
  BY LastIsLast DEF StoreInv
<1>r. \A S \in SUBSET Apps : \A f \in [S -> Nat] : f \in Reads
  OBVIOUS
<1>e. Off \in [on : BOOLEAN, seen : Nat, read : Reads] /\ ~Off.on
  BY <1>r
<1> HIDE DEF Reads, Off
<1>t. warm \in [Warmers -> [on : BOOLEAN, seen : Nat, read : Reads]]
  BY <1>0 DEF StoreInv, Reads
<1>1. ASSUME NEW a \in Apps, OwnWrite(a) PROVE StoreInv'
  <2>1. Last + 1 \in 0..MaxWrites /\ record' = [record EXCEPT ![a] = Last + 1]
    BY <1>1, <1>l, StoreAssumption DEF OwnWrite
  <2>2. \A b \in Apps : record'[b] >= record[b]
    BY <1>0, <1>l, <2>1 DEF StoreInv
  <2>3. writing' \in SUBSET (Apps \X Nat) /\ \A p \in writing' : p[2] <= record'[p[1]]
    BY <1>0, <1>1, <2>1 DEF OwnWrite, StoreInv
  <2>4. UNCHANGED <<copy, version, warm, own>>
    BY <1>1 DEF OwnWrite
  <2>q. QED BY <1>0, <1>l, <2>1, <2>2, <2>3, <2>4 DEF StoreInv, NewerReads
<1>2. ASSUME NEW a \in Apps, OtherWrite(a) PROVE StoreInv'
  <2>1. Last + 1 \in 0..MaxWrites /\ record' = [record EXCEPT ![a] = Last + 1]
    BY <1>2, <1>l, StoreAssumption DEF OtherWrite
  <2>2. \A b \in Apps : record'[b] >= record[b]
    BY <1>0, <1>l, <2>1 DEF StoreInv
  <2>3. UNCHANGED <<copy, version, writing, warm, own>>
    BY <1>2 DEF OtherWrite
  <2>4. \A p \in writing' : p[2] <= record'[p[1]]
    <3> SUFFICES ASSUME NEW a1 \in Apps, NEW n \in Nat, <<a1, n>> \in writing PROVE n <= record'[a1]
      BY <1>0, <2>3 DEF StoreInv
    <3>q. QED BY <1>0, <2>1, <2>2 DEF StoreInv
  <2>q. QED BY <1>0, <1>l, <2>1, <2>2, <2>3, <2>4 DEF StoreInv, NewerReads
<1>3. ASSUME NEW a \in Apps, OwnWriteDone(a) PROVE StoreInv'
  <2>1. PICK n \in 1..MaxWrites : /\ writing = {<<a, n>>} /\ writing' = Nothing
                                  /\ copy' = [copy EXCEPT ![a] = n] /\ own' = [own EXCEPT ![a] = n]
    BY <1>3 DEF OwnWriteDone
  <2>2. n <= record[a] /\ n \in Nat
    BY <1>0, <2>1, StoreAssumption DEF StoreInv
  <2>3. version' = version + 1 /\ UNCHANGED <<record, warm>>
    BY <1>3 DEF OwnWriteDone
  <2>4. \A w \in Warmers : warm'[w].on => warm'[w].seen <= version' /\ NewerReads(warm[w])'
    BY <1>0, <1>t, <2>3 DEF StoreInv, NewerReads
  <2>q. QED BY <1>0, <2>1, <2>2, <2>3, <2>4 DEF StoreInv, Nothing
<1>4. ASSUME NEW w \in Warmers, WarmStarts(w) PROVE StoreInv'
  <2> DEFINE k == [on |-> TRUE, seen |-> version, read |-> [a \in {} |-> 0]]
  <2>1. warm' = [warm EXCEPT ![w] = k] /\ UNCHANGED <<record, copy, version, writing, own>>
    BY <1>4 DEF WarmStarts
  <2>2. k \in [on : BOOLEAN, seen : Nat, read : Reads] /\ k.seen = version /\ DOMAIN k.read = {}
    BY <1>0, <1>r DEF StoreInv
  <2> HIDE DEF k
  <2>3. warm' \in [Warmers -> [on : BOOLEAN, seen : Nat, read : Reads]]
    BY <1>t, <2>1, <2>2
  <2>4. ASSUME NEW v \in Warmers, warm'[v].on PROVE warm'[v].seen <= version' /\ NewerReads(warm[v])'
    BY <1>0, <1>t, <2>1, <2>2, <2>4 DEF StoreInv, NewerReads
  <2>q. QED BY <1>0, <2>1, <2>3, <2>4 DEF StoreInv, Reads
<1>5. ASSUME NEW w \in Warmers, NEW a \in Apps, WarmReads(w, a) PROVE StoreInv'
  <2> DEFINE k == warm[w]
  <2> DEFINE read == [b \in DOMAIN k.read \cup {a} |-> IF b = a THEN record[a] ELSE k.read[b]]
  <2>0. k.read \in [DOMAIN k.read -> Nat] /\ DOMAIN k.read \subseteq Apps /\ k.on \in BOOLEAN /\ k.seen \in Nat /\ k.on
    BY <1>5, <1>t DEF Reads, WarmReads
  <2>1. warm' = [warm EXCEPT ![w] = [on |-> k.on, seen |-> k.seen, read |-> read]] /\ UNCHANGED <<record, copy, version, writing, own>>
    <3>1. warm' = [warm EXCEPT ![w] = [warm[w] EXCEPT !.read = read]]
      BY <1>5 DEF WarmReads
    <3>2. [warm[w] EXCEPT !.read = read] = [on |-> k.on, seen |-> k.seen, read |-> read]
      <4> HIDE DEF read
      <4>q. QED BY <1>t
    <3>q. QED BY <1>5, <3>1, <3>2 DEF WarmReads
  <2>2. read \in Reads
    <3>1. read \in [DOMAIN k.read \cup {a} -> Nat] /\ DOMAIN k.read \cup {a} \in SUBSET Apps
      BY <1>0, <2>0 DEF StoreInv
    <3> HIDE DEF read, k
    <3>q. QED BY <3>1, <1>r
  <2>3. k.seen <= version /\ (k.seen = version => \A b \in DOMAIN read : read[b] >= own[b])
    BY <1>0, <2>0 DEF StoreInv, NewerReads
  <2>4. warm' \in [Warmers -> [on : BOOLEAN, seen : Nat, read : Reads]]
    <3> HIDE DEF read, k
    <3>q. QED BY <1>t, <2>0, <2>1, <2>2
  <2>5. ASSUME NEW v \in Warmers, warm'[v].on PROVE warm'[v].seen <= version' /\ NewerReads(warm[v])'
    <3> HIDE DEF read
    <3>q. QED BY <1>0, <1>t, <2>0, <2>1, <2>3, <2>5 DEF StoreInv, NewerReads
  <2>q. QED BY <1>0, <2>1, <2>4, <2>5 DEF StoreInv, Reads
<1>6. ASSUME NEW w \in Warmers, WarmEnds(w) PROVE StoreInv'
  <2>1. /\ warm[w].on /\ DOMAIN warm[w].read = Apps /\ warm' = [warm EXCEPT ![w] = Off]
        /\ copy' = (IF Installs(warm[w]) THEN warm[w].read ELSE copy) /\ UNCHANGED <<record, version, writing, own>>
    BY <1>6 DEF WarmEnds, Off
  <2>2. copy' \in [Apps -> Nat] /\ \A b \in Apps : own[b] <= copy'[b]
    BY <1>0, <1>t, <2>1 DEF StoreInv, Installs, NewerReads, Reads
  <2>3. warm' \in [Warmers -> [on : BOOLEAN, seen : Nat, read : Reads]]
    BY <1>t, <1>e, <2>1
  <2>4. ASSUME NEW v \in Warmers, warm'[v].on PROVE warm'[v].seen <= version' /\ NewerReads(warm[v])'
    BY <1>0, <1>t, <1>e, <2>1, <2>4 DEF StoreInv, NewerReads
  <2>q. QED BY <1>0, <2>1, <2>2, <2>3, <2>4 DEF StoreInv, Reads
<1>7. ASSUME NEW w \in Warmers, WarmFails(w) PROVE StoreInv'
  <2>1. warm' = [warm EXCEPT ![w] = Off] /\ UNCHANGED <<record, copy, version, writing, own>>
    BY <1>7 DEF WarmFails, Off
  <2>3. warm' \in [Warmers -> [on : BOOLEAN, seen : Nat, read : Reads]]
    BY <1>t, <1>e, <2>1
  <2>4. ASSUME NEW v \in Warmers, warm'[v].on PROVE warm'[v].seen <= version' /\ NewerReads(warm[v])'
    BY <1>0, <1>t, <1>e, <2>1, <2>4 DEF StoreInv, NewerReads
  <2>q. QED BY <1>0, <2>1, <2>3, <2>4 DEF StoreInv, Reads
<1>q. QED BY <1>1, <1>2, <1>3, <1>4, <1>5, <1>6, <1>7 DEF StoreNext

\* No re-read puts back a record from before a write of this instance that was
\* answered: setWarm() compares the version it saw with the writes since.
THEOREM OwnWritesHold == StoreSpec => []OwnWritesStay
<1>1. StoreInit => StoreInv
  <2> SUFFICES ASSUME StoreInit PROVE StoreInv
    OBVIOUS
  <2>1. [a \in {} |-> 0] \in UNION {[S -> Nat] : S \in SUBSET Apps}
    BY DEF StoreInit
  <2> DEFINE nothing == [a \in {} |-> 0]
  <2> HIDE DEF nothing
  <2>2. warm = [w \in Warmers |-> [on |-> FALSE, seen |-> 0, read |-> nothing]]
    BY DEF StoreInit, nothing
  <2>3. nothing \in UNION {[S -> Nat] : S \in SUBSET Apps}
    BY <2>1 DEF nothing
  <2>4. warm \in [Warmers -> [on : BOOLEAN, seen : Nat, read : UNION {[S -> Nat] : S \in SUBSET Apps}]]
    BY <2>2, <2>3
  <2>5. record = [a \in Apps |-> 0] /\ copy = [a \in Apps |-> 0] /\ own = [a \in Apps |-> 0] /\ version = 0 /\ writing = {}
    BY DEF StoreInit, Nothing
  <2>6. \A w \in Warmers : ~warm[w].on
    BY <2>2
  <2>q. QED BY <2>4, <2>5, <2>6, StoreAssumption DEF StoreInv
<1>2. StoreInv /\ [StoreNext]_storeVars => StoreInv'
  <2>1. StoreInv /\ UNCHANGED storeVars => StoreInv'
    BY DEF StoreInv, storeVars, NewerReads
  <2>q. QED BY <2>1, StoreStep
<1>3. StoreInv => OwnWritesStay
  BY DEF StoreInv, OwnWritesStay
<1>q. QED BY <1>1, <1>2, <1>3, PTL DEF StoreSpec

-----------------------------------------------------------------------------
(* Calls on a pool.                                                        *)

\* A call that has nobody left asked or found marked all that its round began
\* with.
RoundOK(k) ==
    /\ k.open \cap (k.held \cup k.tried) = {}
    /\ k.at = "nap" \/ (k.at = "pick" /\ k.why = "wait") => k.open = {}
    /\ k.at = "look" => k.why = "next"
    /\ k.at = "attempt" => k.who \in Pool
    /\ k.at = "new" => k.tried = {}

RoundsInv == call \in [Calls -> Call] /\ \A c \in Calls : RoundOK(call[c])

\* A step gives up no call that has open members.
RefusedNow ==
    \A c \in Calls :
        call[c].at \in {"pick", "nap"} /\ call'[c].at \in {"stream", "done"} => call[c].open = {}

\* What the operators on a call's record return.
LEMMA BlankType ==
    ASSUME NEW at \in {"new", "stream", "done"}, NEW cur \in {"none", "ok", "quota", "proven"}
    PROVE  Blank(at, cur) \in Call /\ RoundOK(Blank(at, cur)) /\ Blank(at, cur).at = at
BY PoolAssumption DEF Blank, Call, RoundOK

LEMMA LooksType ==
    ASSUME NEW k \in Call, NEW why \in {"first", "wait", "next"}
    PROVE  /\ Looks(k, why) \in Call /\ Looks(k, why).why = why /\ Looks(k, why).held = {} /\ Looks(k, why).at = k.at
           /\ Looks(k, why).tried = k.tried /\ Looks(k, why).open = k.open
BY DEF Looks, Call

\* A step that changes one call.
LEMMA OneCall ==
    ASSUME RoundsInv, NEW c \in Calls, NEW n \in Call, RoundOK(n), call' = [call EXCEPT ![c] = n],
           call[c].at \in {"pick", "nap"} /\ n.at \in {"stream", "done"} => call[c].open = {}
    PROVE  RoundsInv' /\ RefusedNow
<1>1. call' \in [Calls -> Call] /\ \A d \in Calls : call'[d] = IF d = c THEN n ELSE call[d]
  BY DEF RoundsInv
<1>2. \A d \in Calls : RoundOK(call'[d])
  BY <1>1 DEF RoundsInv
<1>3. RefusedNow
  BY <1>1 DEF RefusedNow
<1>q. QED BY <1>1, <1>2, <1>3 DEF RoundsInv

\* A look leaves a call whose open members are neither held nor tried.
LEMMA LookKeeps ==
    ASSUME RoundsInv, NEW c \in Calls, NEW k \in Call, LookFrom(c, k), k.open \cap k.tried = {},
           k.at \in {"new", "nap"} => k.tried = {} /\ k.why # "wait", k.why = "wait" => k.open = {}
    PROVE  RoundsInv' /\ RefusedNow
<1> DEFINE over == {m \in Pool : exhausted[m] = 0}
<1> DEFINE held == {m \in Pool \ over : exhausted[m] # Unmarked}
<1> DEFINE short == IF k.why = "wait" THEN {m \in held : holds[m] = "short"} ELSE {}
<1> DEFINE open == IF k.at \in {"new", "nap"} THEN Pool \ held ELSE k.open \ held
<1> DEFINE n == [k EXCEPT !.at = "pick", !.held = held, !.short = short, !.open = open]
<1>1. call' = [call EXCEPT ![c] = n]
  BY DEF LookFrom
<1>2. held \subseteq Pool /\ short \subseteq Pool /\ open \subseteq Pool /\ open \cap held = {} /\ open \cap k.tried = {}
      /\ (k.why = "wait" => open = {})
  BY DEF Call
<1> HIDE DEF held, short, open
<1>3. n \in Call /\ n.at = "pick" /\ n.held = held /\ n.tried = k.tried /\ n.open = open /\ n.why = k.why
  BY <1>2 DEF Call
<1> HIDE DEF n
<1>4. RoundOK(n)
  BY <1>2, <1>3 DEF RoundOK
<1>q. QED BY <1>1, <1>3, <1>4, OneCall

LEMMA GiveUpKeeps ==
    ASSUME RoundsInv, NEW c \in Calls, GiveUp(c), call[c].open = {} PROVE RoundsInv' /\ RefusedNow
<1>1. call[c] \in Call /\ call[c].cur \in {"none", "ok", "quota", "proven"}
  BY DEF RoundsInv, Call
<1>2. PICK n \in {Ended(call[c]), Streams} : call' = [call EXCEPT ![c] = n]
  BY DEF GiveUp, End1
<1>3. n \in Call /\ RoundOK(n)
  BY <1>1, <1>2, BlankType DEF Ended, Streams
<1>q. QED BY <1>2, <1>3, OneCall

\* A call that is marked for all, or goes on without a mark.
LEMMA OnToNextType ==
    ASSUME NEW k \in Call, RoundOK(k), k.who \in Pool, NEW cur \in {"none", "ok", "quota", "proven"}
    PROVE  LET n == OnToNext([k EXCEPT !.cur = cur]) IN n \in Call /\ RoundOK(n) /\ n.at = "look"
<1> DEFINE a == [k EXCEPT !.cur = cur]
<1>1. a \in Call /\ a.tried = k.tried /\ a.open = k.open /\ a.who = k.who /\ a.held = k.held
  BY DEF Call
<1> HIDE DEF a
<1> DEFINE b == [a EXCEPT !.at = "look", !.loop = TRUE, !.tried = @ \cup {a.who}, !.open = @ \ {a.who}]
<1>2. b \in Call /\ b.at = "look" /\ b.tried = a.tried \cup {a.who} /\ b.open = a.open \ {a.who}
  BY <1>1 DEF Call
<1> HIDE DEF b
<1>3. Looks(b, "next") \in Call /\ RoundOK(Looks(b, "next")) /\ Looks(b, "next").at = "look"
  <2> DEFINE n == Looks(b, "next")
  <2>1. n \in Call /\ n.why = "next" /\ n.held = {} /\ n.at = "look" /\ n.tried = b.tried /\ n.open = b.open
    BY <1>2, LooksType
  <2> HIDE DEF n
  <2>2. n.open \cap (n.held \cup n.tried) = {}
    BY <1>1, <1>2, <2>1 DEF RoundOK
  <2>3. n \in Call /\ RoundOK(n) /\ n.at = "look"
    BY <2>1, <2>2 DEF RoundOK
  <2>q. QED BY <2>3 DEF n
<1>q. QED BY <1>3 DEF OnToNext, a, b

LEMMA RoundsStep == ASSUME RoundsInv, PoolNext PROVE RoundsInv' /\ RefusedNow
<1>0. call \in [Calls -> Call] /\ \A c \in Calls : call[c] \in Call /\ RoundOK(call[c])
  BY DEF RoundsInv
<1>1. ASSUME NEW c \in Calls, Arrive(c) PROVE RoundsInv' /\ RefusedNow
  <2> DEFINE k == Looks(call[c], "first")
  <2>1. LookFrom(c, k) /\ call[c].at = "new"
    BY <1>1 DEF Arrive
  <2>2. k \in Call /\ k.why = "first" /\ k.tried = call[c].tried /\ k.open = call[c].open
    BY <1>0, LooksType
  <2>3. call[c].tried = {}
    BY <1>0, <2>1 DEF RoundOK
  <2> HIDE DEF k
  <2>q. QED BY <2>1, <2>2, <2>3, LookKeeps
<1>2. ASSUME NEW c \in Calls, Look(c) PROVE RoundsInv' /\ RefusedNow
  <2>1. LookFrom(c, call[c]) /\ call[c].at = "look"
    BY <1>2 DEF Look
  <2>2. call[c].why = "next" /\ call[c].open \cap call[c].tried = {}
    BY <1>0, <2>1 DEF RoundOK
  <2>q. QED BY <1>0, <2>1, <2>2, LookKeeps
<1>3. ASSUME NEW c \in Calls, Try(c) PROVE RoundsInv' /\ RefusedNow
  <2>1. PICK m \in Pool : call' = [call EXCEPT ![c] = [call[c] EXCEPT !.at = "attempt", !.who = m, !.held = {}, !.short = {}]]
    BY <1>3 DEF Try
  <2> DEFINE k == call[c]  n == [k EXCEPT !.at = "attempt", !.who = m, !.held = {}, !.short = {}]
  <2>2. k \in Call /\ RoundOK(k) /\ call' = [call EXCEPT ![c] = n]
    BY <1>0, <2>1
  <2> HIDE DEF k
  <2>3. n \in Call /\ n.at = "attempt" /\ n.who = m /\ n.held = {} /\ n.open = k.open /\ n.tried = k.tried
    BY <2>2 DEF Call
  <2> HIDE DEF n
  <2>4. RoundOK(n)
    BY <2>2, <2>3 DEF RoundOK
  <2>q. QED BY <2>2, <2>3, <2>4, OneCall
<1>4. ASSUME NEW c \in Calls, NobodyLeft(c) PROVE RoundsInv' /\ RefusedNow
  <2> DEFINE k == call[c]
  <2>1. k \in Call /\ RoundOK(k) /\ k.at = "pick" /\ Pool \subseteq Out(k)
    BY <1>0, <1>4 DEF NobodyLeft
  <2>2. k.open = {}
    <3>1. k.open \subseteq Pool
      BY <2>1 DEF Call
    <3>q. QED BY <2>1, <3>1 DEF RoundOK, Out
  <2>3. CASE LookFrom(c, Looks(k, "wait"))
    <3> DEFINE w == Looks(k, "wait")
    <3>1. w \in Call /\ w.at = "pick" /\ w.tried = k.tried /\ w.open = {}
      BY <2>1, <2>2, LooksType
    <3>2. LookFrom(c, w)
      BY <2>3
    <3> HIDE DEF w
    <3>q. QED BY <3>1, <3>2, LookKeeps
  <2>4. CASE GiveUp(c)
    BY <2>2, <2>4, GiveUpKeeps
  <2>q. QED BY <1>4, <2>3, <2>4 DEF NobodyLeft
<1>5. ASSUME NEW c \in Calls, Nap(c) PROVE RoundsInv' /\ RefusedNow
  <2> DEFINE k == call[c]
  <2>1. k \in Call /\ RoundOK(k) /\ k.at = "pick" /\ k.open = {} /\ k.waits \in 0..MaxWaits
    BY <1>0, <1>5 DEF Nap, RoundOK, Call
  <2>2. CASE k.short = {}
    BY <1>5, <2>1, <2>2, GiveUpKeeps DEF Nap
  <2>3. CASE k.short # {}
    <3> DEFINE waits == IF k.waits < MaxWaits THEN k.waits + 1 ELSE k.waits
    <3>0. PICK nap \in 0..1 : nap = 1
      OBVIOUS
    <3> DEFINE n == [k EXCEPT !.at = "nap", !.waits = waits, !.nap = nap, !.held = {}, !.short = {}]
    <3>1. call' = [call EXCEPT ![c] = n]
      BY <1>5, <2>3, <3>0 DEF Nap
    <3>2. waits \in 0..MaxWaits
      BY <2>1, PoolAssumption
    <3> HIDE DEF waits, k
    <3>3. n \in Call /\ n.at = "nap" /\ n.held = {} /\ n.open = k.open /\ n.tried = k.tried
      BY <2>1, <3>2 DEF Call
    <3> HIDE DEF n
    <3>4. RoundOK(n)
      BY <2>1, <3>3 DEF RoundOK
    <3>q. QED BY <3>1, <3>3, <3>4, OneCall
  <2>q. QED BY <2>2, <2>3
<1>6. ASSUME NEW c \in Calls, Wake(c) PROVE RoundsInv' /\ RefusedNow
  <2> DEFINE k == call[c]
  <2>1. k \in Call /\ RoundOK(k) /\ k.at = "nap" /\ k.open = {}
    BY <1>0, <1>6 DEF Wake, RoundOK
  <2>2. CASE GiveUp(c)
    BY <2>1, <2>2, GiveUpKeeps
  <2>3. CASE LookFrom(c, Looks(Again(k), IF k.loop THEN "next" ELSE "first"))
    <3> DEFINE a == Again(k)  why == IF k.loop THEN "next" ELSE "first"  w == Looks(a, why)
    <3>0. PICK nap \in 0..1 : nap = 0
      OBVIOUS
    <3>1. a \in Call /\ a.tried = {} /\ a.open = {} /\ why \in {"first", "next"}
      <4>1. a = [k EXCEPT !.tried = {}, !.nap = nap]
        BY <3>0 DEF Again
      <4>q. QED BY <2>1, <4>1 DEF Call
    <3> HIDE DEF a, why
    <3>2. w \in Call /\ w.why = why /\ w.tried = {} /\ w.open = {}
      BY <3>1, LooksType
    <3>3. LookFrom(c, w)
      BY <2>3 DEF a, why
    <3> HIDE DEF w
    <3>q. QED BY <3>1, <3>2, <3>3, LookKeeps
  <2>q. QED BY <1>6, <2>2, <2>3 DEF Wake
<1>7. ASSUME NEW c \in Calls, NEW n \in {Ended(call[c]), Streams}, call' = [call EXCEPT ![c] = n], call[c].at \notin {"pick", "nap"}
      PROVE RoundsInv' /\ RefusedNow
  <2>1. n \in Call /\ RoundOK(n)
    <3>1. call[c].cur \in {"none", "ok", "quota", "proven"}
      BY <1>0 DEF Call
    <3>q. QED BY <1>7, <3>1, BlankType DEF Ended, Streams
  <2>q. QED BY <1>7, <2>1, OneCall
<1>8. ASSUME NEW c \in Calls, AnswersOk(c) \/ Hangup(c) \/ StreamEnds(c) PROVE RoundsInv' /\ RefusedNow
  BY <1>7, <1>8 DEF AnswersOk, Hangup, StreamEnds, End1
<1>9. ASSUME NEW c \in Calls, NEW m \in Pool, m = call[c].who, NEW cur \in {"none", "ok", "quota", "proven"},
             call' = [d \in Calls |-> IF d = c THEN OnToNext([call[c] EXCEPT !.cur = cur])
                                             ELSE [call[d] EXCEPT !.open = @ \ {m}]]
      PROVE RoundsInv' /\ RefusedNow
  <2>1. /\ OnToNext([call[c] EXCEPT !.cur = cur]) \in Call /\ RoundOK(OnToNext([call[c] EXCEPT !.cur = cur]))
        /\ OnToNext([call[c] EXCEPT !.cur = cur]).at = "look"
    BY <1>0, <1>9, OnToNextType
  <2> DEFINE n == OnToNext([call[c] EXCEPT !.cur = cur])
  <2> HIDE DEF n
  <2>2. n \in Call /\ RoundOK(n) /\ n.at = "look" /\ call' = [d \in Calls |-> IF d = c THEN n ELSE [call[d] EXCEPT !.open = @ \ {m}]]
    BY <1>9, <2>1 DEF n
  <2>3. ASSUME NEW d \in Calls, d # c PROVE call'[d] \in Call /\ RoundOK(call'[d]) /\ call'[d].at = call[d].at
    <3> DEFINE k == call[d]  e == [k EXCEPT !.open = @ \ {m}]
    <3>1. k \in Call /\ RoundOK(k) /\ call'[d] = e
      BY <1>0, <2>2, <2>3
    <3> HIDE DEF k
    <3>2. e \in Call /\ e.at = k.at /\ e.why = k.why /\ e.who = k.who /\ e.held = k.held /\ e.tried = k.tried /\ e.open = k.open \ {m}
      BY <3>1 DEF Call
    <3> HIDE DEF e
    <3>3. RoundOK(e)
      BY <3>1, <3>2 DEF RoundOK
    <3>4. k.at = call[d].at
      BY DEF k
    <3>q. QED BY <3>1, <3>2, <3>3, <3>4
  <2>4. call'[c] = n /\ call' = [d \in Calls |-> call'[d]]
    BY <2>2
  <2>5. call' \in [Calls -> Call] /\ \A d \in Calls : RoundOK(call'[d])
    BY <2>2, <2>3, <2>4
  <2>6. RefusedNow
    BY <2>2, <2>3, <2>4 DEF RefusedNow
  <2>q. QED BY <2>5, <2>6 DEF RoundsInv
<1>10. ASSUME NEW c \in Calls, call[c].at = "attempt" PROVE call[c].who \in Pool
  BY <1>0, <1>10 DEF RoundOK
<1>11. ASSUME NEW c \in Calls, NEW ticks, NEW kind, NEW cur \in {"none", "ok", "quota", "proven"}, Marked(c, ticks, kind, cur)
       PROVE RoundsInv' /\ RefusedNow
  BY <1>9, <1>10, <1>11 DEF Marked
<1>12. ASSUME NEW c \in Calls, AnswersLimit(c) \/ AnswersNoCredential(c) PROVE RoundsInv' /\ RefusedNow
  <2>1. call[c].cur \in {"none", "ok", "quota", "proven"}
    BY <1>0 DEF Call
  <2>q. QED BY <1>11, <1>12, <2>1 DEF AnswersLimit, AnswersNoCredential
<1>13. ASSUME NEW c \in Calls, Unreachable(c) PROVE RoundsInv' /\ RefusedNow
  <2>1. call[c].at = "attempt" /\ call[c].who \in Pool
    BY <1>10, <1>13 DEF Unreachable
  <2>2. CASE call[c].loop
    <3>1. call' = [call EXCEPT ![c] = OnToNext(call[c])]
      BY <1>13, <2>2 DEF Unreachable
    <3>2. call[c].cur \in {"none", "ok", "quota", "proven"} /\ call[c] = [call[c] EXCEPT !.cur = call[c].cur]
      BY <1>0 DEF Call
    <3>3. OnToNext(call[c]) \in Call /\ RoundOK(OnToNext(call[c])) /\ OnToNext(call[c]).at = "look"
      <4> DEFINE cur == call[c].cur  n == OnToNext([call[c] EXCEPT !.cur = cur])
      <4>1. cur \in {"none", "ok", "quota", "proven"} /\ call[c] = [call[c] EXCEPT !.cur = cur]
        BY <3>2
      <4> HIDE DEF cur
      <4>2. n \in Call /\ RoundOK(n) /\ n.at = "look"
        BY <1>0, <2>1, <4>1, OnToNextType
      <4>3. n = OnToNext(call[c])
        BY <4>1, Zenon
      <4> HIDE DEF n
      <4>q. QED BY <4>2, <4>3
    <3>q. QED BY <2>1, <3>1, <3>3, OneCall
  <2>3. CASE ~call[c].loop
    BY <1>7, <1>13, <2>1, <2>3 DEF Unreachable, End1
  <2>q. QED BY <2>2, <2>3
<1>14. ASSUME NEW m \in Pool, Login(m) PROVE RoundsInv' /\ RefusedNow
  BY <1>0, <1>14 DEF Login, RoundsInv, RefusedNow
<1>15. ASSUME Tick PROVE RoundsInv' /\ RefusedNow
  <2>1. call' = [c \in Calls |-> [call[c] EXCEPT !.nap = Less(@)]]
    BY <1>15 DEF Tick
  <2>2. ASSUME NEW c \in Calls PROVE call'[c] \in Call /\ RoundOK(call'[c]) /\ call'[c].at = call[c].at
    <3> DEFINE k == call[c]  z == Less(k.nap)  e == [k EXCEPT !.nap = z]
    <3>1. k \in Call /\ RoundOK(k) /\ call'[c] = e /\ k.nap \in 0..1
      BY <1>0, <2>1 DEF Call
    <3>2. z \in 0..1
      BY <3>1 DEF Less
    <3> HIDE DEF k, z
    <3>3. e \in Call /\ e.at = k.at /\ e.why = k.why /\ e.who = k.who /\ e.held = k.held /\ e.tried = k.tried /\ e.open = k.open
      BY <3>1, <3>2 DEF Call
    <3> HIDE DEF e
    <3>4. RoundOK(e)
      BY <3>1, <3>3 DEF RoundOK
    <3>5. k.at = call[c].at
      BY DEF k
    <3>q. QED BY <3>1, <3>3, <3>4, <3>5
  <2>q. QED BY <2>1, <2>2 DEF RoundsInv, RefusedNow
<1>q. QED BY <1>1, <1>2, <1>3, <1>4, <1>5, <1>6, <1>8, <1>12, <1>13, <1>14, <1>15 DEF PoolNext, Progress

\* A call on a pool is refused only when its round began with nobody it has not
\* asked or found marked since, however the calls and their marks interleave.
THEOREM RefusalsAreLast == PoolSpec => RefusedAfterAll
<1>1. PoolInit => RoundsInv
  BY BlankType DEF PoolInit, RoundsInv
<1>2. RoundsInv /\ [PoolNext]_poolVars => RoundsInv'
  <2>1. RoundsInv /\ UNCHANGED poolVars => RoundsInv'
    BY DEF RoundsInv, poolVars
  <2>q. QED BY <2>1, RoundsStep
<1>3. RoundsInv /\ [PoolNext]_poolVars =>
        [\A c \in Calls :
            call[c].at \in {"pick", "nap"} /\ call'[c].at \in {"stream", "done"} =>
                call[c].open = {}]_poolVars
  BY RoundsStep DEF RefusedNow
<1>q. QED BY <1>1, <1>2, <1>3, PTL DEF PoolSpec, RefusedAfterAll

-----------------------------------------------------------------------------
(* The browser bridge.                                                     *)

\* The binding's socket is one the hub knows as its own; no other is.
OneBound ==
    /\ bound \in Sockets \cup {NoSocket}
    /\ hub \in [Sockets -> {"gone", "open", "auth", "bound"}]
    /\ tool \in [Tools -> Sockets \cup {"new", "done"}]
    /\ \A s \in Sockets : hub[s] = "bound" <=> s = bound

LEMMA RelayStep == ASSUME OneBound, WaitsOnTheBound, RelayNext PROVE OneBound' /\ WaitsOnTheBound'
<1> USE RelayAssumption DEF OneBound, WaitsOnTheBound
<1>1. ASSUME NEW s \in Sockets, HubReads(s) PROVE OneBound' /\ WaitsOnTheBound'
  <2>1. CASE Detach(s)
    BY <2>1 DEF Detach, Settled
  <2>2. CASE hub[s] = "open" /\ hub' = [hub EXCEPT ![s] = "auth"] /\ UNCHANGED <<bound, tool>>
    BY <2>2
  <2>3. CASE \E k : (tool' = IF tool[k] = s THEN [tool EXCEPT ![k] = "done"] ELSE tool) /\ UNCHANGED <<hub, bound>>
    BY <2>3
  <2>4. CASE UNCHANGED <<hub, bound, tool>>
    BY <2>4
  <2>q. QED BY <1>1, <2>1, <2>2, <2>3, <2>4 DEF HubReads
<1>2. ASSUME NEW s \in Sockets, Authenticated(s) PROVE OneBound' /\ WaitsOnTheBound'
  <2>1. CASE token
    <3>1. Attach(s) /\ hub[s] = "auth"
      BY <1>2, <2>1 DEF Authenticated
    <3>q. QED BY <3>1 DEF Attach, Settled
  <2>2. CASE ~token
    <3>1. Drop(s, "signed out")
      BY <1>2, <2>2 DEF Authenticated
    <3>q. QED BY <3>1 DEF Drop, Detach, Settled
  <2>q. QED BY <2>1, <2>2
<1>3. ASSUME NEW s \in Sockets, Refused(s) PROVE OneBound' /\ WaitsOnTheBound'
  BY <1>3 DEF Refused, Drop, Detach, Settled
<1>4. ASSUME NEW s \in Sockets, HelloTimeout(s) PROVE OneBound' /\ WaitsOnTheBound'
  BY <1>4 DEF HelloTimeout, Drop, Detach, Settled
<1>5. ASSUME NEW s \in Sockets, Silent(s) PROVE OneBound' /\ WaitsOnTheBound'
  BY <1>5 DEF Silent, Drop, Detach, Settled
<1>6. ASSUME NEW s \in Sockets, Lost(s) PROVE OneBound' /\ WaitsOnTheBound'
  BY <1>6 DEF Lost
<1>7. ASSUME NEW k \in Tools, ToolCall(k) PROVE OneBound' /\ WaitsOnTheBound'
  BY <1>7 DEF ToolCall
<1>8. ASSUME NEW k \in Tools, GivenUp(k) PROVE OneBound' /\ WaitsOnTheBound'
  BY <1>8 DEF GivenUp
<1>9. ASSUME NEW k \in Tools, NEW s \in Sockets, RunEnds(k, s) PROVE OneBound' /\ WaitsOnTheBound'
  BY <1>9 DEF RunEnds
<1>10. ASSUME NEW b \in Browsers, Open(b) PROVE OneBound' /\ WaitsOnTheBound'
  BY <1>10 DEF Open, Unused
<1>11. ASSUME NEW b \in Browsers, ExtReads(b) PROVE OneBound' /\ WaitsOnTheBound'
  BY <1>11 DEF ExtReads
<1>12. ASSUME NEW b \in Browsers, Breaks(b) PROVE OneBound' /\ WaitsOnTheBound'
  BY <1>12 DEF Breaks
<1>13. ASSUME NEW b \in Browsers, ConnectsAgain(b) PROVE OneBound' /\ WaitsOnTheBound'
  BY <1>13 DEF ConnectsAgain
<1>14. ASSUME Revoke PROVE OneBound' /\ WaitsOnTheBound'
  <2>1. CASE bound = NoSocket
    BY <1>14, <2>1 DEF Revoke
  <2>2. CASE bound # NoSocket
    <3>1. Drop(bound, "signed out")
      BY <1>14, <2>2 DEF Revoke
    <3>q. QED BY <2>2, <3>1 DEF Drop, Detach, Settled
  <2>q. QED BY <2>1, <2>2
<1>15. ASSUME Restart PROVE OneBound' /\ WaitsOnTheBound'
  BY <1>15 DEF Restart
<1>q. QED BY <1>1, <1>2, <1>3, <1>4, <1>5, <1>6, <1>7, <1>8, <1>9, <1>10, <1>11, <1>12, <1>13, <1>14, <1>15 DEF RelayNext

\* A call that waits, waits on the binding's socket.
THEOREM CallsWaitOnTheBound == RelaySpec => []WaitsOnTheBound
<1>1. RelayInit => OneBound /\ WaitsOnTheBound
  BY RelayAssumption DEF RelayInit, OneBound, WaitsOnTheBound
<1>2. OneBound /\ WaitsOnTheBound /\ [RelayNext]_relayVars => OneBound' /\ WaitsOnTheBound'
  BY RelayStep DEF relayVars, OneBound, WaitsOnTheBound
<1>q. QED BY <1>1, <1>2, PTL DEF RelaySpec

=============================================================================
