-------------------------------- MODULE Sums --------------------------------
(***************************************************************************)
(* Facts about SumFunctionOnSet(f, S), the sum of f[s] over a finite set S, *)
(* by which every model states what a contract owes, holds or has counted: *)
(* its equation, its type, one element more or less, two functions that    *)
(* differ on a part of the set only.                                       *)
(*                                                                         *)
(* Induction over a finite set is made from the well-foundedness of strict *)
(* inclusion: of the subsets that would refute a claim one is smallest.    *)
(* Facts follow about counts, least and greatest numbers and shares.       *)
(***************************************************************************)
EXTENDS FiniteSetTheorems, FiniteSetsExt, TLAPS

(* The element the fold takes next, and the function the fold is defined by. *)
Picked(s) == CHOOSE x \in s : TRUE

Iterates(g, f, S) ==
    g = [s \in SUBSET S |-> IF s = {} THEN 0 ELSE f[Picked(s)] + g[s \ {Picked(s)}]]

(* It is an element. *)
LEMMA PickedIn == ASSUME NEW s, s # {} PROVE Picked(s) \in s
BY DEF Picked

(* A non-empty family of subsets of a finite set has a minimal member. *)
LEMMA SmallestSet ==
    ASSUME NEW S, IsFiniteSet(S), NEW F, F \subseteq SUBSET S, F # {}
    PROVE  \E m \in F : \A n \in F : n \subseteq m => n = m
<1>1. F \subseteq FiniteSubsetsOf(S)
    BY FS_FiniteSubsetsOfFinite
<1>2. PICK m \in F : \A n \in F : <<n, m>> \notin StrictSubsetOrdering(S)
    BY <1>1, FS_StrictSubsetOrderingWellFounded, WFMin
<1>3. ASSUME NEW n \in F, n \subseteq m, n # m PROVE FALSE
    <2>1. <<n, m>> \in (SUBSET S) \X (SUBSET S)
        OBVIOUS
    <2>2. <<n, m>>[1] = n /\ <<n, m>>[2] = m
        OBVIOUS
    <2>3. <<n, m>> \in StrictSubsetOrdering(S)
        BY <1>3, <2>1, <2>2 DEF StrictSubsetOrdering
    <2>4. QED
        BY <2>3, <1>2
<1>4. QED
    BY <1>3

(* At most one function satisfies the equation of the fold. *)
LEMMA IteratesUnique ==
    ASSUME NEW S, IsFiniteSet(S), NEW f, NEW g, NEW h, Iterates(g, f, S), Iterates(h, f, S)
    PROVE  \A s \in SUBSET S : g[s] = h[s]
<1> DEFINE F == {s \in SUBSET S : g[s] # h[s]}
<1>1. SUFFICES ASSUME F # {} PROVE FALSE
    OBVIOUS
<1>2. PICK m \in F : \A n \in F : n \subseteq m => n = m
    <2>1. F \subseteq SUBSET S
        OBVIOUS
    <2> HIDE DEF F
    <2>2. QED
        BY <1>1, <2>1, SmallestSet
<1>3. m # {}
    BY DEF Iterates
<1>4. Picked(m) \in m
    BY <1>3, PickedIn
<1> DEFINE n == m \ {Picked(m)}
<1>5. n \in SUBSET S /\ n \notin F
    BY <1>2, <1>4
<1>6. g[n] = h[n]
    BY <1>5
<1>7. m \in SUBSET S /\ g[m] # h[m]
    OBVIOUS
<1>8. g[m] = f[Picked(m)] + g[n]
    BY <1>3, <1>7 DEF Iterates
<1>9. h[m] = f[Picked(m)] + h[n]
    BY <1>3, <1>7 DEF Iterates
<1>10. QED
    BY <1>6, <1>7, <1>8, <1>9

(* What satisfies it over a set does so over a subset. *)
LEMMA IteratesOnSubset ==
    ASSUME NEW S, NEW T, T \subseteq S, NEW f, NEW g, Iterates(g, f, S)
    PROVE  Iterates([s \in SUBSET T |-> g[s]], f, T)
<1> DEFINE h == [s \in SUBSET T |-> g[s]]
<1>1. ASSUME NEW s \in SUBSET T
      PROVE  h[s] = IF s = {} THEN 0 ELSE f[Picked(s)] + h[s \ {Picked(s)}]
    <2>1. s \in SUBSET S /\ s \ {Picked(s)} \in SUBSET T
        OBVIOUS
    <2>2. g[s] = IF s = {} THEN 0 ELSE f[Picked(s)] + g[s \ {Picked(s)}]
        BY <2>1 DEF Iterates
    <2>3. QED
        BY <2>1, <2>2
<1>2. h = [s \in SUBSET T |-> h[s]]
    OBVIOUS
<1> HIDE DEF h
<1>3. h = [s \in SUBSET T |-> IF s = {} THEN 0 ELSE f[Picked(s)] + h[s \ {Picked(s)}]]
    BY <1>1, <1>2
<1>4. Iterates(h, f, T)
    BY <1>3 DEF Iterates
<1>5. QED
    BY <1>4 DEF h

(* Over a finite set there is one. *)
LEMMA IteratesExists ==
    ASSUME NEW S, IsFiniteSet(S), NEW f
    PROVE  \E g : Iterates(g, f, S)
<1> DEFINE F == {T \in SUBSET S : ~ \E g : Iterates(g, f, T)}
<1>1. SUFFICES ASSUME F # {} PROVE FALSE
    OBVIOUS
<1>2. PICK m \in F : \A n \in F : n \subseteq m => n = m
    <2>1. F \subseteq SUBSET S
        OBVIOUS
    <2> HIDE DEF F
    <2>2. QED
        BY <1>1, <2>1, SmallestSet
<1>3. ASSUME NEW n \in SUBSET m, n # m
      PROVE  \E g : Iterates(g, f, n)
    BY <1>2, <1>3
<1> DEFINE G(n) == CHOOSE g : Iterates(g, f, n)
           h == [s \in SUBSET m |-> IF s = {} THEN 0
                                    ELSE f[Picked(s)] + G(s \ {Picked(s)})[s \ {Picked(s)}]]
<1>4. ASSUME NEW n \in SUBSET m, n # m
      PROVE  Iterates(G(n), f, n)
    BY <1>3, <1>4
<1> HIDE DEF G
<1>5. ASSUME NEW n \in SUBSET m, n # m, NEW k \in SUBSET n
      PROVE  G(n)[k] = G(k)[k]
    <2>0. k \subseteq n /\ Iterates(G(n), f, n)
        BY <1>4, <1>5
    <2>1. Iterates([s \in SUBSET k |-> G(n)[s]], f, k)
        BY <2>0, IteratesOnSubset
    <2>2. k \in SUBSET m /\ k # m
        BY <1>5
    <2>3. Iterates(G(k), f, k)
        BY <1>4, <2>2
    <2>4. IsFiniteSet(k)
        BY FS_Subset
    <2>5. [s \in SUBSET k |-> G(n)[s]][k] = G(k)[k]
        BY <2>1, <2>3, <2>4, IteratesUnique
    <2>6. QED
        BY <2>5
<1>6. ASSUME NEW n \in SUBSET m, n # m
      PROVE  G(n)[n] = h[n]
    <2>1. CASE n = {}
        BY <1>4, <1>6, <2>1 DEF Iterates
    <2>2. CASE n # {}
        <3>1. G(n)[n] = f[Picked(n)] + G(n)[n \ {Picked(n)}]
            <4>1. Iterates(G(n), f, n) /\ n \in SUBSET n
                BY <1>4, <1>6
            <4>2. QED
                BY <4>1, <2>2 DEF Iterates
        <3>2. n \ {Picked(n)} \in SUBSET n
            OBVIOUS
        <3>3. G(n)[n \ {Picked(n)}] = G(n \ {Picked(n)})[n \ {Picked(n)}]
            BY <1>5, <1>6, <3>2
        <3>4. QED
            BY <2>2, <3>1, <3>3
    <2>3. QED
        BY <2>1, <2>2
<1>7. ASSUME NEW s \in SUBSET m
      PROVE  h[s] = IF s = {} THEN 0 ELSE f[Picked(s)] + h[s \ {Picked(s)}]
    <2>1. CASE s = {}
        BY <2>1
    <2>2. CASE s # {}
        <3>1. Picked(s) \in s
            BY <2>2, PickedIn
        <3>2. s \ {Picked(s)} \in SUBSET m /\ s \ {Picked(s)} # m
            BY <3>1
        <3>3. G(s \ {Picked(s)})[s \ {Picked(s)}] = h[s \ {Picked(s)}]
            BY <1>6, <3>2
        <3>4. h[s] = f[Picked(s)] + G(s \ {Picked(s)})[s \ {Picked(s)}]
            BY <2>2
        <3> HIDE DEF h
        <3>5. QED
            BY <2>2, <3>3, <3>4
    <2>3. QED
        BY <2>1, <2>2
<1>8. h = [s \in SUBSET m |-> h[s]]
    OBVIOUS
<1> HIDE DEF h
<1>9. Iterates(h, f, m)
    BY <1>7, <1>8 DEF Iterates
<1>10. QED
    BY <1>9

(* The sum is the value of such a function at the whole set. *)
LEMMA SumUnfold ==
    ASSUME NEW f, NEW S
    PROVE  SumFunctionOnSet(f, S) = (CHOOSE g : Iterates(g, f, S))[S]
BY DEF SumFunctionOnSet, FoldFunctionOnSet, MapThenFoldSet, Iterates, Picked

(* One function gives the sums over all subsets. *)
LEMMA SumOf ==
    ASSUME NEW f, NEW S, IsFiniteSet(S), NEW g, Iterates(g, f, S)
    PROVE  \A T \in SUBSET S : SumFunctionOnSet(f, T) = g[T]
<1>1. TAKE T \in SUBSET S
<1>2. IsFiniteSet(T)
    BY FS_Subset
<1> DEFINE h == CHOOSE k : Iterates(k, f, T)
<1>3. Iterates([s \in SUBSET T |-> g[s]], f, T)
    BY IteratesOnSubset
<1>4. Iterates(h, f, T)
    BY <1>3
<1>5. SumFunctionOnSet(f, T) = h[T]
    BY SumUnfold
<1> HIDE DEF h
<1>6. h[T] = [s \in SUBSET T |-> g[s]][T]
    BY <1>2, <1>3, <1>4, IteratesUnique
<1>7. QED
    BY <1>5, <1>6

(* The sum over no element is 0. *)
LEMMA SumEmpty ==
    ASSUME NEW f
    PROVE  SumFunctionOnSet(f, {}) = 0
<1>1. PICK g : Iterates(g, f, {})
    BY FS_EmptySet, IteratesExists
<1>2. SumFunctionOnSet(f, {}) = g[{}]
    BY <1>1, FS_EmptySet, SumOf
<1>3. QED
    BY <1>1, <1>2 DEF Iterates

(* The equation of the sum, with the element the fold picks. *)
LEMMA SumStep ==
    ASSUME NEW f, NEW S, IsFiniteSet(S), S # {}
    PROVE  SumFunctionOnSet(f, S) = f[Picked(S)] + SumFunctionOnSet(f, S \ {Picked(S)})
<1>1. PICK g : Iterates(g, f, S)
    BY IteratesExists
<1>2. \A T \in SUBSET S : SumFunctionOnSet(f, T) = g[T]
    BY <1>1, SumOf
<1>3. g[S] = f[Picked(S)] + g[S \ {Picked(S)}]
    BY <1>1 DEF Iterates
<1>4. QED
    BY <1>2, <1>3

(* A sum of integers is an integer. *)
LEMMA SumInt ==
    ASSUME NEW f, NEW S, IsFiniteSet(S), \A s \in S : f[s] \in Int
    PROVE  SumFunctionOnSet(f, S) \in Int
<1> DEFINE F == {T \in SUBSET S : SumFunctionOnSet(f, T) \notin Int}
<1>1. SUFFICES ASSUME F # {} PROVE FALSE
    OBVIOUS
<1>2. PICK m \in F : \A n \in F : n \subseteq m => n = m
    <2>1. F \subseteq SUBSET S
        OBVIOUS
    <2> HIDE DEF F
    <2>2. QED
        BY <1>1, <2>1, SmallestSet
<1>3. m # {} /\ m \subseteq S
    BY SumEmpty
<1>4. Picked(m) \in m
    BY <1>3, PickedIn
<1>5. SumFunctionOnSet(f, m \ {Picked(m)}) \in Int
    BY <1>2, <1>4
<1>6. SumFunctionOnSet(f, m) = f[Picked(m)] + SumFunctionOnSet(f, m \ {Picked(m)})
    BY <1>3, FS_Subset, SumStep
<1>7. f[Picked(m)] \in Int
    BY <1>3, <1>4
<1>8. SumFunctionOnSet(f, m) \in Int
    BY <1>5, <1>6, <1>7
<1>9. QED
    BY <1>8

(* Any element may be the one that is added last. *)
LEMMA SumRemove ==
    ASSUME NEW f, NEW S, IsFiniteSet(S), \A s \in S : f[s] \in Int, NEW x \in S
    PROVE  SumFunctionOnSet(f, S) = f[x] + SumFunctionOnSet(f, S \ {x})
<1> DEFINE Sum(T) == SumFunctionOnSet(f, T)
           F == {T \in SUBSET S : \E y \in T : Sum(T) # f[y] + Sum(T \ {y})}
<1>1. SUFFICES ASSUME F # {} PROVE FALSE
    OBVIOUS
<1>2. PICK m \in F : \A n \in F : n \subseteq m => n = m
    <2>1. F \subseteq SUBSET S
        OBVIOUS
    <2> HIDE DEF F
    <2>2. QED
        BY <1>1, <2>1, SmallestSet
<1>3. PICK y \in m : Sum(m) # f[y] + Sum(m \ {y})
    OBVIOUS
<1> DEFINE p == Picked(m)
<1>4. p \in m /\ m \subseteq S
    BY PickedIn
<1> HIDE DEF p
<1>5. Sum(m) = f[p] + Sum(m \ {p})
    BY <1>4, FS_Subset, SumStep DEF p
<1>6. p # y
    BY <1>3, <1>5
<1>7. Sum(m \ {p}) = f[y] + Sum((m \ {p}) \ {y})
    <2>1. m \ {p} \in SUBSET S /\ m \ {p} \notin F /\ y \in m \ {p}
        BY <1>2, <1>4, <1>6
    <2>2. QED
        BY <2>1
<1>8. Sum(m \ {y}) = f[p] + Sum((m \ {y}) \ {p})
    <2>1. m \ {y} \in SUBSET S /\ m \ {y} \notin F /\ p \in m \ {y}
        BY <1>2, <1>4, <1>6
    <2>2. QED
        BY <2>1
<1>9. (m \ {y}) \ {p} = (m \ {p}) \ {y}
    OBVIOUS
<1>10. Sum((m \ {p}) \ {y}) \in Int
    <2>1. (m \ {p}) \ {y} \subseteq S
        BY <1>4
    <2>2. QED
        BY <2>1, FS_Subset, SumInt
<1>11. f[p] \in Int /\ f[y] \in Int
    BY <1>4
<1> HIDE DEF Sum
<1>12. QED
    BY <1>3, <1>5, <1>7, <1>8, <1>9, <1>10, <1>11

(* One element more. *)
LEMMA SumAdd ==
    ASSUME NEW f, NEW S, IsFiniteSet(S), NEW x, x \notin S,
           \A s \in S \cup {x} : f[s] \in Int
    PROVE  SumFunctionOnSet(f, S \cup {x}) = SumFunctionOnSet(f, S) + f[x]
<1>1. IsFiniteSet(S \cup {x}) /\ x \in S \cup {x} /\ (S \cup {x}) \ {x} = S
    BY FS_AddElement
<1>2. SumFunctionOnSet(f, S \cup {x}) = f[x] + SumFunctionOnSet(f, S)
    BY <1>1, SumRemove
<1>3. SumFunctionOnSet(f, S) \in Int /\ f[x] \in Int
    BY SumInt
<1>4. QED
    BY <1>2, <1>3

(* The sum depends on the values at the elements only. *)
LEMMA SumEqual ==
    ASSUME NEW f, NEW g, NEW S, IsFiniteSet(S), \A s \in S : f[s] = g[s]
    PROVE  SumFunctionOnSet(f, S) = SumFunctionOnSet(g, S)
<1> DEFINE F == {T \in SUBSET S : SumFunctionOnSet(f, T) # SumFunctionOnSet(g, T)}
<1>1. SUFFICES ASSUME F # {} PROVE FALSE
    OBVIOUS
<1>2. PICK m \in F : \A n \in F : n \subseteq m => n = m
    <2>1. F \subseteq SUBSET S
        OBVIOUS
    <2> HIDE DEF F
    <2>2. QED
        BY <1>1, <2>1, SmallestSet
<1>3. m # {} /\ m \subseteq S /\ IsFiniteSet(m)
    BY SumEmpty, FS_Subset
<1>4. Picked(m) \in m
    BY <1>3, PickedIn
<1>5. SumFunctionOnSet(f, m \ {Picked(m)}) = SumFunctionOnSet(g, m \ {Picked(m)})
    BY <1>2, <1>4
<1>6. SumFunctionOnSet(f, m) = f[Picked(m)] + SumFunctionOnSet(f, m \ {Picked(m)})
    BY <1>3, SumStep
<1>7. SumFunctionOnSet(g, m) = g[Picked(m)] + SumFunctionOnSet(g, m \ {Picked(m)})
    BY <1>3, SumStep
<1>8. SumFunctionOnSet(f, m) = SumFunctionOnSet(g, m)
    BY <1>3, <1>4, <1>5, <1>6, <1>7
<1>9. QED
    BY <1>8

(* One value changes. *)
LEMMA SumChange ==
    ASSUME NEW f, NEW g, NEW S, IsFiniteSet(S), NEW x \in S,
           \A s \in S : f[s] \in Int, g[x] \in Int,
           \A s \in S \ {x} : g[s] = f[s]
    PROVE  SumFunctionOnSet(g, S) = SumFunctionOnSet(f, S) - f[x] + g[x]
<1>1. SumFunctionOnSet(f, S) = f[x] + SumFunctionOnSet(f, S \ {x})
    BY SumRemove
<1>2. \A s \in S : g[s] \in Int
    OBVIOUS
<1>3. SumFunctionOnSet(g, S) = g[x] + SumFunctionOnSet(g, S \ {x})
    BY <1>2, SumRemove
<1>4. IsFiniteSet(S \ {x})
    BY FS_RemoveElement
<1>5. SumFunctionOnSet(g, S \ {x}) = SumFunctionOnSet(f, S \ {x})
    BY <1>4, SumEqual
<1>6. SumFunctionOnSet(f, S \ {x}) \in Int
    BY <1>4, SumInt
<1>7. QED
    BY <1>1, <1>3, <1>5, <1>6

(* A sum of smaller values is smaller. *)
LEMMA SumAtMost ==
    ASSUME NEW f, NEW g, NEW S, IsFiniteSet(S),
           \A s \in S : f[s] \in Int /\ g[s] \in Int /\ f[s] <= g[s]
    PROVE  SumFunctionOnSet(f, S) <= SumFunctionOnSet(g, S)
<1> DEFINE F == {T \in SUBSET S : ~(SumFunctionOnSet(f, T) <= SumFunctionOnSet(g, T))}
<1>1. SUFFICES ASSUME F # {} PROVE FALSE
    OBVIOUS
<1>2. PICK m \in F : \A n \in F : n \subseteq m => n = m
    <2>1. F \subseteq SUBSET S
        OBVIOUS
    <2> HIDE DEF F
    <2>2. QED
        BY <1>1, <2>1, SmallestSet
<1>3. m # {} /\ m \subseteq S /\ IsFiniteSet(m)
    <2>1. m \in SUBSET S /\ ~(SumFunctionOnSet(f, m) <= SumFunctionOnSet(g, m))
        OBVIOUS
    <2>2. IsFiniteSet(m)
        BY <2>1, FS_Subset
    <2>3. SumFunctionOnSet(f, {}) = 0 /\ SumFunctionOnSet(g, {}) = 0
        BY SumEmpty
    <2> HIDE DEF F
    <2>4. m # {}
        BY <2>1, <2>3
    <2>5. QED
        BY <2>1, <2>2, <2>4
<1> DEFINE p == Picked(m)
<1>4. p \in m
    BY <1>3, PickedIn
<1> HIDE DEF p
<1>5. SumFunctionOnSet(f, m \ {p}) <= SumFunctionOnSet(g, m \ {p})
    BY <1>2, <1>4
<1>6. SumFunctionOnSet(f, m) = f[p] + SumFunctionOnSet(f, m \ {p})
    BY <1>3, SumStep DEF p
<1>7. SumFunctionOnSet(g, m) = g[p] + SumFunctionOnSet(g, m \ {p})
    BY <1>3, SumStep DEF p
<1>8. IsFiniteSet(m \ {p})
    BY <1>3, FS_RemoveElement
<1>9. SumFunctionOnSet(f, m \ {p}) \in Int /\ SumFunctionOnSet(g, m \ {p}) \in Int
    BY <1>3, <1>8, SumInt
<1>10. f[p] \in Int /\ g[p] \in Int /\ f[p] <= g[p]
    BY <1>3, <1>4
<1>11. SumFunctionOnSet(f, m) <= SumFunctionOnSet(g, m)
    BY <1>5, <1>6, <1>7, <1>9, <1>10
<1>12. QED
    BY <1>11

(* A sum of zeros is 0. *)
LEMMA SumZero ==
    ASSUME NEW f, NEW S, IsFiniteSet(S), \A s \in S : f[s] = 0
    PROVE  SumFunctionOnSet(f, S) = 0
<1> DEFINE F == {T \in SUBSET S : SumFunctionOnSet(f, T) # 0}
<1>1. SUFFICES ASSUME F # {} PROVE FALSE
    OBVIOUS
<1>2. PICK m \in F : \A n \in F : n \subseteq m => n = m
    <2>1. F \subseteq SUBSET S
        OBVIOUS
    <2> HIDE DEF F
    <2>2. QED
        BY <1>1, <2>1, SmallestSet
<1>3. m # {} /\ m \subseteq S /\ IsFiniteSet(m)
    <2>1. m \in SUBSET S /\ SumFunctionOnSet(f, m) # 0
        OBVIOUS
    <2>2. IsFiniteSet(m)
        BY <2>1, FS_Subset
    <2>3. SumFunctionOnSet(f, {}) = 0
        BY SumEmpty
    <2> HIDE DEF F
    <2>4. m # {}
        BY <2>1, <2>3
    <2>5. QED
        BY <2>1, <2>2, <2>4
<1>4. Picked(m) \in m
    BY <1>3, PickedIn
<1>5. SumFunctionOnSet(f, m \ {Picked(m)}) = 0
    BY <1>2, <1>4
<1>6. SumFunctionOnSet(f, m) = f[Picked(m)] + SumFunctionOnSet(f, m \ {Picked(m)})
    BY <1>3, SumStep
<1>7. f[Picked(m)] = 0
    BY <1>3, <1>4
<1>8. SumFunctionOnSet(f, m) = 0
    BY <1>5, <1>6, <1>7
<1>9. QED
    BY <1>8

(* A sum of naturals is a natural. *)
LEMMA SumNat ==
    ASSUME NEW f, NEW S, IsFiniteSet(S), \A s \in S : f[s] \in Nat
    PROVE  SumFunctionOnSet(f, S) \in Nat
<1> DEFINE zero == [s \in S |-> 0]
<1>1. \A s \in S : zero[s] = 0
    OBVIOUS
<1> HIDE DEF zero
<1>2. SumFunctionOnSet(zero, S) = 0
    BY <1>1, SumZero
<1>3. \A s \in S : zero[s] \in Int /\ f[s] \in Int /\ zero[s] <= f[s]
    BY <1>1
<1>4. SumFunctionOnSet(zero, S) <= SumFunctionOnSet(f, S)
    BY <1>3, SumAtMost
<1>5. SumFunctionOnSet(f, S) \in Int
    BY SumInt
<1>6. QED
    BY <1>2, <1>4, <1>5

(* The sum over two disjoint sets. *)
LEMMA SumUnion ==
    ASSUME NEW f, NEW S, IsFiniteSet(S), NEW T, IsFiniteSet(T), S \cap T = {},
           \A s \in S \cup T : f[s] \in Int
    PROVE  SumFunctionOnSet(f, S \cup T)
             = SumFunctionOnSet(f, S) + SumFunctionOnSet(f, T)
<1> DEFINE Sum(U) == SumFunctionOnSet(f, U)
           F == {U \in SUBSET T : Sum(S \cup U) # Sum(S) + Sum(U)}
<1>1. SUFFICES ASSUME F # {} PROVE FALSE
    OBVIOUS
<1>2. PICK m \in F : \A n \in F : n \subseteq m => n = m
    <2>1. F \subseteq SUBSET T
        OBVIOUS
    <2> HIDE DEF F
    <2>2. QED
        BY <1>1, <2>1, SmallestSet
<1>3. m \in SUBSET T /\ Sum(S \cup m) # Sum(S) + Sum(m)
    OBVIOUS
<1>4. Sum(S) \in Int
    BY SumInt
<1>5. m # {}
    <2>1. SUFFICES ASSUME m = {} PROVE FALSE
        OBVIOUS
    <2>2. Sum({}) = 0 /\ S \cup {} = S
        BY SumEmpty
    <2> HIDE DEF Sum, F
    <2>3. Sum(S \cup {}) = Sum(S) /\ Sum(S \cup {}) # Sum(S) + Sum({})
        BY <1>3, <2>1, <2>2
    <2>4. QED
        BY <1>4, <2>2, <2>3
<1>6. PICK x \in m : TRUE
    BY <1>5
<1>7. m \ {x} \in SUBSET T /\ m \ {x} \notin F
    BY <1>2, <1>6
<1>8. Sum(S \cup (m \ {x})) = Sum(S) + Sum(m \ {x})
    BY <1>7
<1>9. /\ IsFiniteSet(m) /\ IsFiniteSet(m \ {x})
      /\ IsFiniteSet(S \cup m)
    BY <1>3, <1>7, FS_Subset, FS_Union
<1>10. x \in S \cup m /\ (S \cup m) \ {x} = S \cup (m \ {x})
    BY <1>3, <1>6
<1>11. /\ \A s \in S \cup m : f[s] \in Int
       /\ \A s \in m : f[s] \in Int
       /\ \A s \in m \ {x} : f[s] \in Int
       /\ f[x] \in Int
    BY <1>3, <1>6
<1>12. Sum(S \cup m) = f[x] + Sum(S \cup (m \ {x}))
    BY <1>9, <1>10, <1>11, SumRemove
<1>13. Sum(m) = f[x] + Sum(m \ {x})
    BY <1>6, <1>9, <1>11, SumRemove
<1>14. Sum(m \ {x}) \in Int
    BY <1>9, <1>11, SumInt
<1> HIDE DEF Sum
<1>15. QED
    BY <1>3, <1>4, <1>8, <1>11, <1>12, <1>13, <1>14

(* What is zero outside a part may be summed over the part alone. *)
LEMMA SumPart ==
    ASSUME NEW f, NEW g, NEW S, IsFiniteSet(S), NEW T, T \subseteq S,
           \A s \in T : f[s] = g[s] /\ g[s] \in Int,
           \A s \in S \ T : f[s] = 0
    PROVE  SumFunctionOnSet(f, S) = SumFunctionOnSet(g, T)
<1>1. IsFiniteSet(T) /\ IsFiniteSet(S \ T) /\ T \cup (S \ T) = S
    BY FS_Subset
<1>2. T \cap (S \ T) = {} /\ \A s \in T \cup (S \ T) : f[s] \in Int
    OBVIOUS
<1>3. SumFunctionOnSet(f, T \cup (S \ T))
        = SumFunctionOnSet(f, T) + SumFunctionOnSet(f, S \ T)
    BY <1>1, <1>2, SumUnion
<1>4. SumFunctionOnSet(f, S \ T) = 0
    BY <1>1, SumZero
<1>5. SumFunctionOnSet(f, T) = SumFunctionOnSet(g, T)
    BY <1>1, SumEqual
<1>6. SumFunctionOnSet(f, T) \in Int
    BY <1>1, SumInt
<1>7. SumFunctionOnSet(f, S) = SumFunctionOnSet(f, T \cup (S \ T))
    BY <1>1
<1>8. QED
    BY <1>3, <1>4, <1>5, <1>6, <1>7

(* The sum over one element, and over two. *)
LEMMA SumOne ==
    ASSUME NEW f, NEW x, f[x] \in Int
    PROVE  SumFunctionOnSet(f, {x}) = f[x]
<1>1. IsFiniteSet({x}) /\ {x} \ {x} = {}
    BY FS_Singleton
<1>2. SumFunctionOnSet(f, {x}) = f[x] + SumFunctionOnSet(f, {x} \ {x})
    BY <1>1, SumRemove
<1>3. SumFunctionOnSet(f, {x} \ {x}) = 0
    BY <1>1, SumEmpty
<1>4. QED
    BY <1>2, <1>3

LEMMA SumTwo ==
    ASSUME NEW f, NEW x, NEW y, x # y, f[x] \in Int, f[y] \in Int
    PROVE  SumFunctionOnSet(f, {x, y}) = f[x] + f[y]
<1>1. IsFiniteSet({x}) /\ y \notin {x} /\ {x, y} = {x} \cup {y}
    BY FS_Singleton
<1>2. SumFunctionOnSet(f, {x} \cup {y}) = SumFunctionOnSet(f, {x}) + f[y]
    BY <1>1, SumAdd
<1>3. SumFunctionOnSet(f, {x}) = f[x]
    BY SumOne
<1>4. QED
    BY <1>1, <1>2, <1>3

(* Two sums that agree outside a part differ as their sums over it do. *)
LEMMA SumDiffer ==
    ASSUME NEW f, NEW g, NEW S, IsFiniteSet(S), NEW T, T \subseteq S,
           \A s \in S : f[s] \in Int /\ g[s] \in Int,
           \A s \in S \ T : g[s] = f[s]
    PROVE  /\ SumFunctionOnSet(f, S) \in Int /\ SumFunctionOnSet(g, S) \in Int
           /\ SumFunctionOnSet(f, T) \in Int /\ SumFunctionOnSet(g, T) \in Int
           /\ SumFunctionOnSet(g, S) - SumFunctionOnSet(f, S)
                = SumFunctionOnSet(g, T) - SumFunctionOnSet(f, T)
<1> DEFINE R == S \ T
<1>1. /\ IsFiniteSet(T) /\ IsFiniteSet(R)
      /\ T \cup R = S /\ T \cap R = {}
    BY FS_Subset
<1>2. /\ \A s \in T : f[s] \in Int /\ g[s] \in Int
      /\ \A s \in R : f[s] \in Int /\ g[s] \in Int
      /\ \A s \in R : g[s] = f[s]
    OBVIOUS
<1> HIDE DEF R
<1>3. SumFunctionOnSet(f, T \cup R) = SumFunctionOnSet(f, T) + SumFunctionOnSet(f, R)
    BY <1>1, <1>2, SumUnion
<1>4. SumFunctionOnSet(g, T \cup R) = SumFunctionOnSet(g, T) + SumFunctionOnSet(g, R)
    BY <1>1, <1>2, SumUnion
<1>5. SumFunctionOnSet(g, R) = SumFunctionOnSet(f, R)
    BY <1>1, <1>2, SumEqual
<1>6. /\ SumFunctionOnSet(f, T) \in Int /\ SumFunctionOnSet(g, T) \in Int
      /\ SumFunctionOnSet(f, R) \in Int /\ SumFunctionOnSet(f, S) \in Int
      /\ SumFunctionOnSet(g, S) \in Int
    BY <1>1, <1>2, SumInt
<1>7. /\ SumFunctionOnSet(f, S) = SumFunctionOnSet(f, T \cup R)
      /\ SumFunctionOnSet(g, S) = SumFunctionOnSet(g, T \cup R)
    BY <1>1
<1>8. QED
    BY <1>3, <1>4, <1>5, <1>6, <1>7

(* Sums add up element by element. *)
LEMMA SumPlus ==
    ASSUME NEW f, NEW g, NEW h, NEW S, IsFiniteSet(S),
           \A s \in S : f[s] \in Int /\ g[s] \in Int /\ h[s] = f[s] + g[s]
    PROVE  SumFunctionOnSet(h, S) = SumFunctionOnSet(f, S) + SumFunctionOnSet(g, S)
<1> DEFINE Differ(T) ==
               SumFunctionOnSet(h, T) # SumFunctionOnSet(f, T) + SumFunctionOnSet(g, T)
           F == {T \in SUBSET S : Differ(T)}
<1>1. SUFFICES ASSUME F # {} PROVE FALSE
    OBVIOUS
<1>2. PICK m \in F : \A n \in F : n \subseteq m => n = m
    <2>1. F \subseteq SUBSET S
        OBVIOUS
    <2> HIDE DEF F
    <2>2. QED
        BY <1>1, <2>1, SmallestSet
<1>3. m # {} /\ m \subseteq S /\ IsFiniteSet(m) /\ Differ(m)
    <2>1. m \in SUBSET S /\ Differ(m)
        OBVIOUS
    <2>2. IsFiniteSet(m)
        BY <2>1, FS_Subset
    <2>3. ~Differ({})
        <3>1. /\ SumFunctionOnSet(f, {}) = 0 /\ SumFunctionOnSet(g, {}) = 0
              /\ SumFunctionOnSet(h, {}) = 0
            BY SumEmpty
        <3>2. QED
            BY <3>1
    <2> HIDE DEF F, Differ
    <2>4. QED
        BY <2>1, <2>2, <2>3
<1> DEFINE p == Picked(m)
<1>4. p \in m
    BY <1>3, PickedIn
<1>5. /\ SumFunctionOnSet(f, m) = f[p] + SumFunctionOnSet(f, m \ {p})
      /\ SumFunctionOnSet(g, m) = g[p] + SumFunctionOnSet(g, m \ {p})
      /\ SumFunctionOnSet(h, m) = h[p] + SumFunctionOnSet(h, m \ {p})
    BY <1>3, SumStep
<1> HIDE DEF p
<1>6. ~Differ(m \ {p})
    <2>1. m \ {p} \in SUBSET S /\ m \ {p} \notin F
        BY <1>2, <1>3, <1>4
    <2> HIDE DEF Differ
    <2>2. QED
        BY <2>1
<1>7. IsFiniteSet(m \ {p}) /\ \A s \in m \ {p} : f[s] \in Int /\ g[s] \in Int
    BY <1>3, FS_RemoveElement
<1>8. SumFunctionOnSet(f, m \ {p}) \in Int /\ SumFunctionOnSet(g, m \ {p}) \in Int
    BY <1>7, SumInt
<1>9. f[p] \in Int /\ g[p] \in Int /\ h[p] = f[p] + g[p]
    BY <1>3, <1>4
<1> HIDE DEF F
<1>10. QED
    BY <1>3, <1>5, <1>6, <1>8, <1>9

(* A factor common to all elements. *)
LEMMA SumTimes ==
    ASSUME NEW f, NEW h, NEW c \in Int, NEW S, IsFiniteSet(S),
           \A s \in S : f[s] \in Int /\ h[s] = c * f[s]
    PROVE  SumFunctionOnSet(h, S) = c * SumFunctionOnSet(f, S)
<1> DEFINE Differ(T) == SumFunctionOnSet(h, T) # c * SumFunctionOnSet(f, T)
           F == {T \in SUBSET S : Differ(T)}
<1>1. SUFFICES ASSUME F # {} PROVE FALSE
    OBVIOUS
<1>2. PICK m \in F : \A n \in F : n \subseteq m => n = m
    <2>1. F \subseteq SUBSET S
        OBVIOUS
    <2> HIDE DEF F
    <2>2. QED
        BY <1>1, <2>1, SmallestSet
<1>3. m # {} /\ m \subseteq S /\ IsFiniteSet(m) /\ Differ(m)
    <2>1. m \in SUBSET S /\ Differ(m)
        OBVIOUS
    <2>2. IsFiniteSet(m)
        BY <2>1, FS_Subset
    <2>3. ~Differ({})
        BY SumEmpty
    <2> HIDE DEF F, Differ
    <2>4. QED
        BY <2>1, <2>2, <2>3
<1> DEFINE p == Picked(m)
           rest == SumFunctionOnSet(f, m \ {p})
<1>4. p \in m
    BY <1>3, PickedIn
<1>5. /\ SumFunctionOnSet(f, m) = f[p] + rest
      /\ SumFunctionOnSet(h, m) = h[p] + SumFunctionOnSet(h, m \ {p})
    BY <1>3, SumStep
<1> HIDE DEF p
<1>6. SumFunctionOnSet(h, m \ {p}) = c * rest
    <2>1. m \ {p} \in SUBSET S /\ m \ {p} \notin F
        BY <1>2, <1>3, <1>4
    <2>2. ~Differ(m \ {p})
        <3> HIDE DEF Differ
        <3>1. QED
            BY <2>1
    <2>3. QED
        BY <2>2
<1>7. rest \in Int
    <2>1. IsFiniteSet(m \ {p}) /\ \A s \in m \ {p} : f[s] \in Int
        BY <1>3, FS_RemoveElement
    <2>2. QED
        BY <2>1, SumInt
<1>8. f[p] \in Int /\ h[p] = c * f[p]
    BY <1>3, <1>4
<1>9. c * (f[p] + rest) = c * f[p] + c * rest
    <2> HIDE DEF rest
    <2>1. QED
        BY <1>7, <1>8
<1> HIDE DEF F, rest
<1>10. QED
    BY <1>3, <1>5, <1>6, <1>8, <1>9

(* The sum over a set that has grown, its old values unchanged. *)
LEMMA SumGrows ==
    ASSUME NEW f, NEW g, NEW S, IsFiniteSet(S), NEW T, IsFiniteSet(T), S \cap T = {},
           \A s \in S : f[s] \in Int /\ g[s] = f[s],
           \A s \in T : g[s] \in Int
    PROVE  SumFunctionOnSet(g, S \cup T)
             = SumFunctionOnSet(f, S) + SumFunctionOnSet(g, T)
<1>1. SumFunctionOnSet(g, S \cup T) = SumFunctionOnSet(g, S) + SumFunctionOnSet(g, T)
    BY SumUnion
<1>2. SumFunctionOnSet(g, S) = SumFunctionOnSet(f, S)
    BY SumEqual
<1>3. QED
    BY <1>1, <1>2

-----------------------------------------------------------------------------
(* One element more, whether or not it was there, counts at most one more.  *)
LEMMA CountOneMore ==
    ASSUME NEW S, IsFiniteSet(S), NEW x
    PROVE  IsFiniteSet(S \cup {x}) /\ Cardinality(S \cup {x}) <= Cardinality(S) + 1
<1>1. Cardinality(S) \in Nat
    BY FS_CardinalityType
<1>2. CASE x \in S
    <2>1. S \cup {x} = S
        BY <1>2
    <2> DEFINE T == S \cup {x}
    <2>2. T = S
        BY <2>1
    <2> HIDE DEF T
    <2>3. IsFiniteSet(T) /\ Cardinality(T) <= Cardinality(S) + 1
        BY <1>1, <2>2
    <2>4. QED
        BY <2>3 DEF T
<1>3. CASE x \notin S
    <2> DEFINE T == S \cup {x}
    <2>1. IsFiniteSet(T) /\ Cardinality(T) = Cardinality(S) + 1
        BY <1>3, FS_AddElement
    <2> HIDE DEF T
    <2>2. IsFiniteSet(T) /\ Cardinality(T) <= Cardinality(S) + 1
        BY <1>1, <2>1
    <2>3. QED
        BY <2>2 DEF T
<1>4. QED
    BY <1>2, <1>3

(* A set of natural numbers has a least one, and Min names it. *)
LEMMA SmallestNumber ==
    ASSUME NEW S, S \subseteq Nat, S # {}
    PROVE  \E x \in S : \A y \in S : x =< y
<1>1. PICK x \in S : \A y \in S : <<y, x>> \notin OpToRel(<, Nat)
    BY NatLessThanWellFounded, WFMin
<1>2. ASSUME NEW y \in S, ~(x =< y)
      PROVE  FALSE
    <2>1. x \in Nat /\ y \in Nat /\ y < x
        BY <1>2
    <2>2. <<y, x>> \in Nat \X Nat /\ <<y, x>>[1] = y /\ <<y, x>>[2] = x
        BY <2>1
    <2>3. <<y, x>> \in OpToRel(<, Nat)
        BY <2>1, <2>2, Zenon DEF OpToRel
    <2>4. QED
        BY <1>1, <2>3
<1>3. QED
    BY <1>2

LEMMA MinIsLeast ==
    ASSUME NEW S, S \subseteq Nat, S # {}
    PROVE  Min(S) \in S /\ \A y \in S : Min(S) <= y
<1>1. \E x \in S : \A y \in S : x =< y
    BY SmallestNumber
<1>2. QED
    BY <1>1 DEF Min

(* The same of Max, for a set with a bound.                                 *)
LEMMA MaxIsGreatest ==
    ASSUME NEW S, NEW n \in Nat, S \subseteq 0 .. n, S # {}
    PROVE  Max(S) \in S /\ \A y \in S : y <= Max(S)
<1> DEFINE D == {n - x : x \in S}
<1>1. D \subseteq Nat /\ D # {}
    <2>1. \A x \in S : n - x \in Nat
        OBVIOUS
    <2>2. QED
        BY <2>1
<1>2. PICK d \in D : \A y \in D : d <= y
    BY <1>1, SmallestNumber
<1>3. PICK x \in S : d = n - x
    OBVIOUS
<1>4. \A y \in S : x >= y
    BY <1>2, <1>3
<1>5. QED
    BY <1>3, <1>4 DEF Max

(* No term is above a sum of natural numbers.                               *)
LEMMA TermInSum ==
    ASSUME NEW f, NEW S, IsFiniteSet(S), \A s \in S : f[s] \in Nat, NEW x \in S
    PROVE  f[x] <= SumFunctionOnSet(f, S)
<1>1. SumFunctionOnSet(f, S) = f[x] + SumFunctionOnSet(f, S \ {x})
    BY SumRemove
<1>2. SumFunctionOnSet(f, S \ {x}) \in Nat
    <2>1. IsFiniteSet(S \ {x}) /\ \A s \in S \ {x} : f[s] \in Nat
        BY FS_RemoveElement
    <2>2. QED
        BY <2>1, SumNat
<1>3. QED
    BY <1>1, <1>2

(* A finite set of numbers has a bound: their sum.                          *)
LEMMA FiniteHasBound ==
    ASSUME NEW S, IsFiniteSet(S), S \subseteq Nat
    PROVE  \E n \in Nat : S \subseteq 0 .. n
<1> DEFINE f == [s \in S |-> s]
           n == SumFunctionOnSet(f, S)
<1>1. \A s \in S : f[s] \in Nat /\ f[s] = s
    OBVIOUS
<1> HIDE DEF f
<1>2. n \in Nat
    BY <1>1, SumNat
<1>3. \A x \in S : f[x] <= n
    BY <1>1, TermInSum
<1> HIDE DEF n
<1>4. S \subseteq 0 .. n
    BY <1>1, <1>2, <1>3
<1>5. QED
    BY <1>2, <1>4

(* A share of an amount in hundredths of a percent, rounded down, is a      *)
(* natural number, and not above the amount if the rate is not above all.   *)
LEMMA ShareOfAmount ==
    ASSUME NEW n \in Nat, NEW b \in Nat
    PROVE  /\ (n * b) \div 10000 \in Nat
           /\ b <= 10000 => (n * b) \div 10000 <= n
<1>1. n * b \in Nat
    OBVIOUS
<1>2. ASSUME NEW q \in Nat
      PROVE  q \div 10000 \in Nat /\ (q \div 10000) * 10000 <= q
    OBVIOUS
<1>3. (n * b) \div 10000 \in Nat /\ ((n * b) \div 10000) * 10000 <= n * b
    BY <1>1, <1>2
<1>4. b <= 10000 => n * b <= n * 10000
    OBVIOUS
<1> DEFINE q == (n * b) \div 10000
           y == n * b
<1> HIDE DEF q, y
<1>5. q \in Nat /\ y \in Nat /\ q * 10000 <= y /\ (b <= 10000 => y <= n * 10000)
    BY <1>1, <1>3, <1>4 DEF q, y
<1>6. b <= 10000 => q <= n
    BY <1>5
<1>7. QED
    BY <1>5, <1>6 DEF q

LEMMA SumMultiple ==
    ASSUME NEW n \in Nat, NEW f, NEW S, IsFiniteSet(S), \A s \in S : f[s] \in Nat
    PROVE  SumFunctionOnSet([s \in S |-> n * f[s]], S) = n * SumFunctionOnSet(f, S)
<1> DEFINE h == [s \in S |-> n * f[s]]
<1>1. \A s \in S : f[s] \in Int /\ h[s] = n * f[s]
    OBVIOUS
<1>2. n \in Int
    OBVIOUS
<1> HIDE DEF h
<1>3. SumFunctionOnSet(h, S) = n * SumFunctionOnSet(f, S)
    BY <1>1, <1>2, SumTimes
<1>4. QED
    BY <1>3 DEF h

(* Shares that are rates of ten thousand together do not exceed the amount. *)
LEMMA SharesOfAmount ==
    ASSUME NEW n \in Nat, NEW bps, NEW S, IsFiniteSet(S), \A s \in S : bps[s] \in Nat,
           SumFunctionOnSet(bps, S) = 10000
    PROVE  LET shared == SumFunctionOnSet([s \in S |-> (n * bps[s]) \div 10000], S)
           IN  shared \in Nat /\ shared <= n
<1> DEFINE whole == [s \in S |-> n * bps[s]]
           share == [s \in S |-> (n * bps[s]) \div 10000]
           scaled == [s \in S |-> 10000 * share[s]]
<1>1. \A s \in S : share[s] \in Nat
    BY ShareOfAmount
<1>2. \A s \in S : scaled[s] \in Int /\ whole[s] \in Int /\ scaled[s] <= whole[s]
    <2>1. SUFFICES ASSUME NEW s \in S
                   PROVE  10000 * share[s] \in Int /\ n * bps[s] \in Int /\ 10000 * share[s] <= n * bps[s]
        OBVIOUS
    <2> DEFINE y == n * bps[s]
    <2>2. y \in Nat /\ share[s] = y \div 10000
        OBVIOUS
    <2> HIDE DEF y
    <2>3. 10000 * share[s] \in Int /\ 10000 * share[s] <= y
        BY <2>2
    <2>4. QED
        BY <2>2, <2>3 DEF y
<1>3. SumFunctionOnSet(scaled, S) = 10000 * SumFunctionOnSet(share, S)
    <2>1. \A s \in S : share[s] \in Int /\ scaled[s] = 10000 * share[s]
        BY <1>1
    <2> HIDE DEF scaled, share
    <2>2. QED
        BY <2>1, SumTimes
<1>4. SumFunctionOnSet(whole, S) = n * SumFunctionOnSet(bps, S)
    BY SumMultiple
<1> HIDE DEF whole, scaled, share
<1>5. SumFunctionOnSet(scaled, S) <= SumFunctionOnSet(whole, S)
    BY <1>2, SumAtMost
<1>6. SumFunctionOnSet(share, S) \in Nat
    BY <1>1, SumNat
<1>7. SumFunctionOnSet(share, S) <= n
    BY <1>3, <1>4, <1>5, <1>6
<1>8. QED
    BY <1>6, <1>7 DEF share

(* What is summed over indices may be summed over the values they name,      *)
(* each as often as it is named.                                            *)
LEMMA SumByValue ==
    ASSUME NEW S, IsFiniteSet(S), NEW T, IsFiniteSet(T),
           NEW g, \A s \in S : g[s] \in T,
           NEW f, \A t \in T : f[t] \in Int,
           NEW h, \A s \in S : h[s] = f[g[s]]
    PROVE  SumFunctionOnSet(h, S)
             = SumFunctionOnSet([t \in T |-> f[t] * Cardinality({s \in S : g[s] = t})], T)
<1> DEFINE Naming(U, t) == {s \in U : g[s] = t}
           W(U) == [t \in T |-> f[t] * Cardinality(Naming(U, t))]
           Differ(U) == SumFunctionOnSet(h, U) # SumFunctionOnSet(W(U), T)
           F == {U \in SUBSET S : Differ(U)}
<1>1. SUFFICES ASSUME F # {} PROVE FALSE
    OBVIOUS
<1>2. PICK m \in F : \A n \in F : n \subseteq m => n = m
    <2>1. F \subseteq SUBSET S
        OBVIOUS
    <2> HIDE DEF F
    <2>2. QED
        BY <1>1, <2>1, SmallestSet
<1>3. m \in SUBSET S /\ Differ(m)
    OBVIOUS
<1>4. \A U \in SUBSET S, t \in T :
          /\ IsFiniteSet(Naming(U, t)) /\ Cardinality(Naming(U, t)) \in Nat
          /\ W(U)[t] = f[t] * Cardinality(Naming(U, t)) /\ W(U)[t] \in Int
    <2>1. TAKE U \in SUBSET S, t \in T
    <2>2. IsFiniteSet(Naming(U, t))
        BY FS_Subset
    <2>3. Cardinality(Naming(U, t)) \in Nat
        BY <2>2, FS_CardinalityType
    <2> HIDE DEF Naming
    <2>4. W(U)[t] = f[t] * Cardinality(Naming(U, t))
        OBVIOUS
    <2>5. QED
        BY <2>2, <2>3, <2>4
<1>5. m # {}
    <2>1. SUFFICES ASSUME m = {} PROVE FALSE
        OBVIOUS
    <2>2. \A t \in T : W(m)[t] = 0
        <3>1. TAKE t \in T
        <3>2. Naming(m, t) = {}
            BY <2>1
        <3>3. Cardinality(Naming(m, t)) = 0
            BY <3>2, FS_EmptySet
        <3> HIDE DEF Naming
        <3>4. W(m)[t] = f[t] * 0
            BY <3>3
        <3>5. QED
            BY <3>4
    <2> HIDE DEF W
    <2>3. SumFunctionOnSet(W(m), T) = 0
        BY <2>2, SumZero
    <2>4. SumFunctionOnSet(h, m) = 0
        BY <2>1, SumEmpty
    <2>5. QED
        BY <1>3, <2>3, <2>4
<1>6. PICK x \in m : TRUE
    BY <1>5
<1> DEFINE n == m \ {x}
           v == g[x]
<1>7. n \in SUBSET S /\ n \notin F /\ x \in S /\ v \in T
    BY <1>2, <1>3, <1>6
<1>8. SumFunctionOnSet(h, n) = SumFunctionOnSet(W(n), T)
    BY <1>7
<1>9. /\ IsFiniteSet(m) /\ IsFiniteSet(n)
      /\ h[x] = f[v] /\ f[v] \in Int /\ \A s \in m : h[s] \in Int
    <2>1. IsFiniteSet(m) /\ IsFiniteSet(n)
        BY <1>3, <1>7, FS_Subset
    <2>2. \A s \in m : s \in S /\ g[s] \in T
        BY <1>3
    <2>3. QED
        BY <1>6, <2>1, <2>2
<1>10. SumFunctionOnSet(h, m) = h[x] + SumFunctionOnSet(h, n)
    BY <1>6, <1>9, SumRemove
<1>11. \A t \in T \ {v} : W(m)[t] = W(n)[t]
    <2>1. TAKE t \in T \ {v}
    <2>2. Naming(m, t) = Naming(n, t)
        OBVIOUS
    <2> HIDE DEF Naming
    <2>3. QED
        BY <2>2
<1>12. W(m)[v] = W(n)[v] + f[v]
    <2>1. Naming(n, v) = Naming(m, v) \ {x} /\ x \in Naming(m, v)
        BY <1>6
    <2>2. /\ IsFiniteSet(Naming(m, v)) /\ Cardinality(Naming(m, v)) \in Nat
          /\ Cardinality(Naming(n, v)) \in Nat
          /\ W(m)[v] = f[v] * Cardinality(Naming(m, v))
          /\ W(n)[v] = f[v] * Cardinality(Naming(n, v))
        BY <1>3, <1>4, <1>7
    <2> HIDE DEF n, v, W, Naming
    <2>3. Cardinality(Naming(n, v)) = Cardinality(Naming(m, v)) - 1
        <3> DEFINE All == Naming(m, v)
        <3>1. IsFiniteSet(All) /\ x \in All
            BY <2>1, <2>2
        <3> HIDE DEF All
        <3>2. Cardinality(All \ {x}) = Cardinality(All) - 1
            BY <3>1, FS_RemoveElement
        <3>3. QED
            BY <2>1, <3>2 DEF All
    <2> DEFINE k == Cardinality(Naming(n, v))
               a == f[v]
    <2>4. k \in Nat /\ a \in Int /\ W(m)[v] = a * (k + 1) /\ W(n)[v] = a * k
        BY <1>9, <2>2, <2>3
    <2> HIDE DEF k, a
    <2>5. a * (k + 1) = a * k + a
        BY <2>4
    <2>6. QED
        BY <2>4, <2>5 DEF a
<1>13. \A t \in T : W(n)[t] \in Int /\ W(m)[t] \in Int
    BY <1>3, <1>4, <1>7
<1> HIDE DEF W, n, v
<1>14. SumFunctionOnSet(W(m), T) = SumFunctionOnSet(W(n), T) - W(n)[v] + W(m)[v]
    BY <1>7, <1>11, <1>13, SumChange
<1>15. SumFunctionOnSet(W(n), T) \in Int
    BY <1>13, SumInt
<1>16. SumFunctionOnSet(W(m), T) = SumFunctionOnSet(h, m)
    BY <1>7, <1>8, <1>9, <1>10, <1>12, <1>13, <1>14, <1>15
<1>17. QED
    BY <1>3, <1>16

(* The same number for every element comes to that number times how many.   *)
LEMMA SumConstant ==
    ASSUME NEW S, IsFiniteSet(S), NEW c \in Nat, NEW h, \A s \in S : h[s] = c
    PROVE  SumFunctionOnSet(h, S) = c * Cardinality(S)
<1> DEFINE T == {0}
           g == [s \in S |-> 0]
           f == [t \in T |-> c]
           w == [t \in T |-> f[t] * Cardinality({s \in S : g[s] = t})]
<1>1. SumFunctionOnSet(h, S) = SumFunctionOnSet(w, T)
    <2>1. (\A s \in S : g[s] \in T) /\ (\A t \in T : f[t] \in Int)
        OBVIOUS
    <2>0. IsFiniteSet(T)
        BY FS_Singleton
    <2>2. \A s \in S : h[s] = f[g[s]]
        OBVIOUS
    <2> HIDE DEF T, g, f
    <2>3. QED
        BY <2>0, <2>1, <2>2, SumByValue
<1>2. w[0] = c * Cardinality(S)
    <2>1. {s \in S : g[s] = 0} = S
        OBVIOUS
    <2>2. w[0] = f[0] * Cardinality({s \in S : g[s] = 0}) /\ f[0] = c
        OBVIOUS
    <2> HIDE DEF w, f, g
    <2>3. QED
        BY <2>1, <2>2
<1>3. c * Cardinality(S) \in Int
    BY FS_CardinalityType
<1> HIDE DEF w
<1>4. SumFunctionOnSet(w, {0}) = w[0]
    BY <1>2, <1>3, SumOne
<1>5. QED
    BY <1>1, <1>2, <1>4 DEF T

(* Parts none of which is more than an equal share do not exceed the whole. *)
LEMMA EqualParts ==
    ASSUME NEW n \in Nat, NEW S, IsFiniteSet(S), NEW f,
           \A s \in S : f[s] \in Nat /\ Cardinality(S) * f[s] <= n
    PROVE  SumFunctionOnSet(f, S) <= n
<1> DEFINE k == Cardinality(S)
           scaled == [s \in S |-> k * f[s]]
           whole == [s \in S |-> n]
<1>1. k \in Nat
    BY FS_CardinalityType
<1>2. CASE k = 0
    <2>1. S = {}
        BY <1>2, FS_EmptySet
    <2>2. QED
        BY <2>1, SumEmpty
<1>3. CASE k # 0
    <2>1. SumFunctionOnSet(scaled, S) = k * SumFunctionOnSet(f, S)
        <3> HIDE DEF k
        <3>1. QED
            BY <1>1, SumMultiple
    <2>2. SumFunctionOnSet(whole, S) = n * k
        <3>1. \A s \in S : whole[s] = n
            OBVIOUS
        <3> HIDE DEF whole
        <3>2. QED
            BY <3>1, SumConstant
    <2>3. \A s \in S : scaled[s] \in Int /\ whole[s] \in Int /\ scaled[s] <= whole[s]
        <3> HIDE DEF k
        <3>1. \A s \in S : k * f[s] <= n
            BY DEF k
        <3>2. QED
            BY <1>1, <3>1
    <2>4. SumFunctionOnSet(f, S) \in Nat
        BY SumNat
    <2> DEFINE x == SumFunctionOnSet(f, S)
    <2>5. SumFunctionOnSet(scaled, S) <= SumFunctionOnSet(whole, S)
        <3> HIDE DEF scaled, whole
        <3>1. QED
            BY <2>3, SumAtMost
    <2>6. k * x <= n * k
        BY <2>1, <2>2, <2>5
    <2> HIDE DEF k, x
    <2>7. x \in Nat /\ k \in Nat /\ k > 0
        BY <1>1, <1>3, <2>4 DEF x
    <2>8. ASSUME x > n PROVE FALSE
        <3>1. x \in Nat /\ x >= n + 1
            BY <2>7, <2>8
        <3>2. k * x >= k * (n + 1)
            BY <2>7, <3>1
        <3>3. k * (n + 1) = n * k + k
            BY <2>7
        <3>4. k * x \in Nat /\ n * k \in Nat
            BY <2>7
        <3>5. QED
            BY <2>6, <2>7, <3>2, <3>3, <3>4
    <2>9. QED
        BY <2>7, <2>8 DEF x
<1>4. QED
    BY <1>2, <1>3

=============================================================================
