----------------------- MODULE NotificationScreenProofs -----------------------
(***************************************************************************)
(* Proofs about NotificationScreen, for every number of cards on the page, *)
(* of open detail screens and of stored notifications.                     *)
(*                                                                         *)
(* The focus and the detail screens refer to cards by number, and a        *)
(* refresh replaces the cards: the invariant says that the object with the *)
(* focus exists and that a detail screen whose card still exists shows     *)
(* what the card shows.  For that the keys must lead to objects of the     *)
(* page, and the right ones.  The searches that they use are recursive     *)
(* functions, and what they return is proved in three steps:               *)
(*   - a function with that definition exists, because every call is for   *)
(*     something smaller (RecursionExists),                                *)
(*   - the objects that the loops over children pass make up levels, each  *)
(*     with the objects that have the same navigable one around them, in   *)
(*     the order of the tree (LevelIsNear, LevelInOrder), and              *)
(*   - the searches return the first of a level, the object around it, and *)
(*     neighbours in it (SearchesInTreeOrder).                             *)
(* All of this holds of every rooted tree; the page is one (PageRooted).   *)
(***************************************************************************)
EXTENDS NotificationScreen, NotificationManagerProofs, WellFoundedInduction

(* A set of numbers that is not empty has a least one.                      *)
LEMMA LeastNumber ==
  ASSUME NEW S, S \subseteq Nat, S # {}
  PROVE  \E n \in S : \A k \in S : n <= k
<1> DEFINE R == OpToRel(<, Nat)
<1>1. IsWellFoundedOn(R, Nat)
  BY NatLessThanWellFounded
<1> HIDE DEF R
<1>2. PICK x \in S : \A y \in S : ~(<<y, x>> \in R)
  BY <1>1, WFMin
<1>3. ASSUME NEW y \in S, y < x PROVE FALSE
  <2>1. <<y, x>> \in R
    BY <1>3 DEF R, OpToRel
  <2> QED BY <1>2, <2>1
<1> QED BY <1>2, <1>3

(* A set that contains x whenever it contains all that is smaller *)
LEMMA Smaller ==
  ASSUME NEW D, NEW m \in [D -> Nat], NEW S,
         \A x \in D : (\A y \in D : m[y] < m[x] => y \in S) => x \in S
  PROVE  D \subseteq S
<1> SUFFICES ASSUME NEW z \in D, z \notin S PROVE FALSE
  OBVIOUS
<1> DEFINE out == {m[x] : x \in {y \in D : y \notin S}}
<1>1. PICK n \in out : \A k \in out : n <= k
  <2>1. out \subseteq Nat /\ m[z] \in out
    OBVIOUS
  <2> HIDE DEF out
  <2>2. out # {}
    BY <2>1
  <2> QED BY <2>1, <2>2, LeastNumber
<1>2. PICK x \in D : x \notin S /\ m[x] = n
  BY <1>1
<1>3. \A y \in D : m[y] < m[x] => y \in S
  <2> TAKE y \in D
  <2>1. y \notin S => m[y] \in out
    OBVIOUS
  <2>2. m[y] \in Nat /\ m[x] \in Nat
    OBVIOUS
  <2> HIDE DEF out
  <2> QED BY <1>1, <1>2, <2>1, <2>2
<1> QED BY <1>2, <1>3

(* B defines a function from D to R from its values at what is smaller by m *)
Recursion(D, R, m, B) ==
  /\ R # {}
  /\ m \in [D -> Nat]
  /\ B \in [[D -> R] -> [D -> R]]
  /\ \A g, h \in [D -> R] : \A x \in D :
       (\A y \in D : m[y] < m[x] => g[y] = h[y]) => B[g][x] = B[h][x]

(* A recursion that only goes to smaller arguments defines a function.      *)
LEMMA RecursionExists ==
  ASSUME NEW D, NEW R, NEW m, NEW B, Recursion(D, R, m, B)
  PROVE  \E f \in [D -> R] : f = B[f]
<1> SUFFICES ASSUME NEW r \in R, m \in [D -> Nat], B \in [[D -> R] -> [D -> R]],
                    \A g, h \in [D -> R] : \A x \in D :
                      (\A y \in D : m[y] < m[x] => g[y] = h[y]) => B[g][x] = B[h][x]
             PROVE  \E f \in [D -> R] : f = B[f]
  BY DEF Recursion
<1> DEFINE Upto(g, k) == \A x \in D : m[x] < k => B[g][x] = g[x]
<1>1. \A k \in Nat : \E g \in [D -> R] : Upto(g, k)
  <2> DEFINE S == {k \in Nat : \E g \in [D -> R] : Upto(g, k)}
  <2>1. ASSUME NEW k \in Nat, \A y \in Nat : y < k => y \in S PROVE k \in S
    <3>1. CASE k = 0
      <4> DEFINE g == [x \in D |-> r]
      <4>1. g \in [D -> R]
        OBVIOUS
      <4> HIDE DEF g
      <4>2. \A x \in D : ~(m[x] < k)
        BY <3>1
      <4>3. Upto(g, k)
        BY <4>2
      <4> QED BY <4>1, <4>3
    <3>2. CASE k > 0
      <4>1. PICK g \in [D -> R] : Upto(g, k - 1)
        BY <2>1, <3>2
      <4>2. B[g] \in [D -> R]
        OBVIOUS
      <4>3. ASSUME NEW x \in D, m[x] < k PROVE B[B[g]][x] = B[g][x]
        <5>1. \A y \in D : m[y] < m[x] => B[g][y] = g[y]
          BY <4>1, <4>3
        <5> QED BY <4>2, <5>1
      <4> QED BY <4>2, <4>3
    <3> QED BY <3>1, <3>2
  <2> DEFINE id == [k \in Nat |-> k]
  <2>2. Nat \subseteq S
    <3> HIDE DEF S
    <3>1. id \in [Nat -> Nat] /\ \A k \in Nat : id[k] = k
      OBVIOUS
    <3> HIDE DEF id
    <3>2. \A x \in Nat : (\A y \in Nat : id[y] < id[x] => y \in S) => x \in S
      BY <2>1, <3>1
    <3> QED BY <3>1, <3>2, Smaller
  <2> QED BY <2>2
<1> DEFINE G == [k \in Nat |-> CHOOSE g \in [D -> R] : Upto(g, k)]
           f == [x \in D |-> G[m[x] + 1][x]]
<1>2. \A k \in Nat : G[k] \in [D -> R] /\ Upto(G[k], k)
  BY <1>1
<1>3. f \in [D -> R]
  <2> HIDE DEF G
  <2>1. \A x \in D : m[x] + 1 \in Nat
    OBVIOUS
  <2> QED BY <1>2, <2>1
<1>4. \A x \in D : \A k \in Nat : m[x] < k => f[x] = G[k][x]
  <2> DEFINE S == {x \in D : \A k \in Nat : m[x] < k => f[x] = G[k][x]}
  <2>1. \A x \in D : f[x] = G[m[x] + 1][x]
    OBVIOUS
  <2> HIDE DEF G, f
  <2>2. ASSUME NEW x \in D, \A y \in D : m[y] < m[x] => y \in S PROVE x \in S
    <3> SUFFICES ASSUME NEW k \in Nat, m[x] < k PROVE f[x] = G[k][x]
      OBVIOUS
    <3>1. m[x] + 1 \in Nat /\ m[x] < m[x] + 1
      OBVIOUS
    <3>2. G[m[x] + 1][x] = B[G[m[x] + 1]][x] /\ G[k][x] = B[G[k]][x]
      BY <1>2, <3>1
    <3>3. \A y \in D : m[y] < m[x] => G[m[x] + 1][y] = G[k][y]
      <4> TAKE y \in D
      <4> HAVE m[y] < m[x]
      <4>1. m[y] \in Nat /\ m[x] \in Nat /\ y \in S
        BY <2>2
      <4>2. f[y] = G[m[x] + 1][y] /\ f[y] = G[k][y]
        BY <4>1, <3>1
      <4> QED BY <4>2
    <3>4. G[m[x] + 1] \in [D -> R] /\ G[k] \in [D -> R]
      BY <1>2, <3>1
    <3>5. B[G[m[x] + 1]][x] = B[G[k]][x]
      BY <3>3, <3>4
    <3> QED BY <2>1, <3>2, <3>5
  <2> HIDE DEF S
  <2>3. D \subseteq S
    BY <2>2, Smaller
  <2> QED BY <2>3 DEF S
<1>5. ASSUME NEW x \in D PROVE f[x] = B[f][x]
  <2>1. f[x] = G[m[x] + 1][x]
    OBVIOUS
  <2> HIDE DEF G, f
  <2>2. m[x] + 1 \in Nat /\ m[x] < m[x] + 1
    OBVIOUS
  <2>3. \A y \in D : m[y] < m[x] => f[y] = G[m[x] + 1][y]
    BY <1>4, <2>2
  <2>4. G[m[x] + 1] \in [D -> R] /\ G[m[x] + 1][x] = B[G[m[x] + 1]][x]
    BY <1>2, <2>2
  <2> QED BY <1>3, <2>1, <2>3, <2>4
<1> HIDE DEF f
<1>6. B[f] \in [D -> R]
  BY <1>3
<1> QED BY <1>3, <1>5, <1>6

-----------------------------------------------------------------------------
(* The searches return objects of the group *)

(* A weight that leaves room for the children: a loop over the children of  *)
(* an object, and the loops over theirs, go down.                           *)
Layered(t, h) ==
  /\ t.children \in [Objects(t) -> Seq(Objects(t))]
  /\ h \in [Objects(t) -> Nat]
  /\ \A o \in Objects(t) : \A i \in 1..Len(t.children[o]) :
       h[t.children[o][i]] + Len(t.children[t.children[o][i]]) < h[o]

(* A tree of objects: one of them has no parent, every other is a child of  *)
(* its parent, at one place.                                                *)
Rooted(t, h, top) ==
  /\ Layered(t, h) /\ top \in Nat /\ \A o \in Objects(t) : h[o] <= top
  /\ t.group \subseteq Objects(t) /\ NoObj \notin Objects(t)
  /\ \A o \in Objects(t) :
       IF t.parent[o] = NoObj
       THEN \A c \in Objects(t) : t.parent[c] = NoObj => c = o
       ELSE /\ t.parent[o] \in Objects(t)
            /\ \E i \in 1..Len(t.children[t.parent[o]]) : t.children[t.parent[o]][i] = o
  /\ \A o \in Objects(t) : \A i \in 1..Len(t.children[o]) :
       /\ t.parent[t.children[o][i]] = o
       /\ \A j \in 1..Len(t.children[o]) : t.children[o][j] = t.children[o][i] => j = i

Depths(t, depth) ==
  /\ depth \in [Objects(t) -> Nat]
  /\ \A o \in Objects(t) :
       t.parent[o] = NoObj \/ (t.parent[o] \in Objects(t) /\ depth[t.parent[o]] < depth[o])

(* From a child to its parent the weights grow.                             *)
LEMMA RootedDepths ==
  ASSUME NEW t, NEW h, NEW top, Rooted(t, h, top)
  PROVE  \E depth : Depths(t, depth)
<1> DEFINE O == Objects(t)
           C == t.children
           depth == [o \in O |-> top - h[o]]
<1>1. /\ C \in [O -> Seq(O)] /\ h \in [O -> Nat] /\ top \in Nat
      /\ \A o \in O : h[o] <= top
      /\ \A o \in O : \A i \in 1..Len(C[o]) : h[C[o][i]] + Len(C[C[o][i]]) < h[o]
      /\ \A o \in O : t.parent[o] # NoObj =>
           t.parent[o] \in O /\ \E i \in 1..Len(C[t.parent[o]]) : C[t.parent[o]][i] = o
  BY DEF Rooted, Layered
<1> HIDE DEF O, C
<1>2. depth \in [O -> Nat]
  BY <1>1
<1>3. \A o \in O : Len(C[o]) \in Nat
  BY <1>1
<1>4. ASSUME NEW o \in O, t.parent[o] # NoObj
      PROVE  t.parent[o] \in O /\ depth[t.parent[o]] < depth[o]
  <2> DEFINE p == t.parent[o]
  <2>1. PICK i \in 1..Len(C[p]) : p \in O /\ C[p][i] = o
    BY <1>1, <1>4
  <2>2. h[o] + Len(C[o]) < h[p]
    BY <1>1, <2>1
  <2>3. p \in O /\ h[o] \in Nat /\ h[p] \in Nat /\ Len(C[o]) \in Nat
    BY <1>1, <1>3, <2>1
  <2>4. depth[o] = top - h[o] /\ depth[p] = top - h[p]
    BY <2>3
  <2> HIDE DEF p
  <2>5. depth[p] < depth[o]
    BY <1>1, <2>2, <2>3, <2>4
  <2> QED BY <2>3, <2>5 DEF p
<1> HIDE DEF depth
<1>5. Depths(t, depth)
  BY <1>2, <1>4 DEF Depths, O
<1> QED BY <1>5

(* Where a loop over children is in such an order *)
Weights(t, h) == [at \in Places(t) |-> h[at[1]] + at[2]]

(* The loops over children only go to places with less weight.              *)
LEMMA PlaceSteps ==
  ASSUME NEW t, NEW h, Layered(t, h)
  PROVE  /\ Weights(t, h) \in [Places(t) -> Nat]
         /\ \A o \in Objects(t) : Through(t, o) \in Places(t)
         /\ \A at \in Places(t) :
              LET back == <<at[1], at[2] - 1>>
                  child == t.children[at[1]][at[2]]
              IN  /\ at[1] \in Objects(t) /\ at[2] \in 0..Len(t.children[at[1]])
                  /\ at = <<at[1], at[2]>>
                  /\ at[2] # 0 =>
                       /\ back \in Places(t)
                       /\ Weights(t, h)[back] < Weights(t, h)[at]
                       /\ child \in Objects(t)
                       /\ Through(t, child) \in Places(t)
                       /\ Weights(t, h)[Through(t, child)] < Weights(t, h)[at]
<1> DEFINE O == Objects(t)
           C == t.children
<1>0. C \in [O -> Seq(O)] /\ h \in [O -> Nat]
      /\ \A o \in O : \A i \in 1..Len(C[o]) : h[C[o][i]] + Len(C[C[o][i]]) < h[o]
  BY DEF Layered
<1> HIDE DEF O, C
<1>1. \A o \in O, i \in Nat : <<o, i>> \in Places(t) <=> i \in 0..Len(C[o])
  BY DEF Places, O, C
<1>2. \A at \in Places(t) : at[1] \in O /\ at[2] \in 0..Len(C[at[1]]) /\ at = <<at[1], at[2]>>
  BY DEF Places, O, C
<1>3. \A o \in O : Len(C[o]) \in Nat /\ h[o] \in Nat
  BY <1>0
<1>4. \A o \in O : \A i \in 1..Len(C[o]) : C[o][i] \in O
  BY <1>0
<1>5. Weights(t, h) \in [Places(t) -> Nat]
  BY <1>2, <1>3 DEF Weights
<1>6. \A o \in O : Through(t, o) \in Places(t) /\ Weights(t, h)[Through(t, o)] = h[o] + Len(C[o])
  <2> TAKE o \in O
  <2>1. Through(t, o) = <<o, Len(C[o])>>
    BY DEF Through, C
  <2>2. <<o, Len(C[o])>> \in Places(t)
    BY <1>1, <1>3
  <2> QED BY <2>1, <2>2 DEF Weights
<1>7. ASSUME NEW at \in Places(t), at[2] # 0
      PROVE  /\ <<at[1], at[2] - 1>> \in Places(t)
             /\ Weights(t, h)[<<at[1], at[2] - 1>>] < Weights(t, h)[at]
  <2>1. at[2] - 1 \in Nat /\ at[2] - 1 \in 0..Len(C[at[1]]) /\ at[1] \in O /\ h[at[1]] \in Nat
    BY <1>2, <1>3, <1>7
  <2>2. <<at[1], at[2] - 1>> \in Places(t)
    BY <2>1, <1>1
  <2>3. Weights(t, h)[<<at[1], at[2] - 1>>] = h[at[1]] + (at[2] - 1)
    BY <2>2 DEF Weights
  <2>4. Weights(t, h)[at] = h[at[1]] + at[2]
    BY DEF Weights
  <2> QED BY <1>2, <2>1, <2>2, <2>3, <2>4
<1>8. ASSUME NEW at \in Places(t), at[2] # 0
      PROVE  /\ C[at[1]][at[2]] \in O
             /\ Weights(t, h)[Through(t, C[at[1]][at[2]])] < Weights(t, h)[at]
  <2>1. at[1] \in O /\ at[2] \in 1..Len(C[at[1]])
    BY <1>2, <1>3, <1>8
  <2>2. C[at[1]][at[2]] \in O
    BY <2>1, <1>4
  <2>3. h[C[at[1]][at[2]]] + Len(C[C[at[1]][at[2]]]) < h[at[1]]
    BY <2>1, <1>0
  <2>4. Weights(t, h)[at] = h[at[1]] + at[2]
    BY DEF Weights
  <2>5. h[at[1]] \in Nat /\ h[at[1]] <= Weights(t, h)[at]
    BY <1>3, <2>1, <2>4
  <2>6. Weights(t, h)[Through(t, C[at[1]][at[2]])] < h[at[1]]
    BY <1>6, <2>2, <2>3
  <2>7. Weights(t, h)[Through(t, C[at[1]][at[2]])] \in Nat /\ Weights(t, h)[at] \in Nat
    BY <1>5, <1>6, <2>2
  <2> QED BY <2>2, <2>5, <2>6, <2>7
<1> QED BY <1>2, <1>5, <1>6, <1>7, <1>8 DEF O, C

(* ENTER: at every place an object of the group, or none *)
ChildSearch(t, search) ==
  /\ search \in [Places(t) -> t.group \cup {NoObj}]
  /\ \A at \in Places(t) :
       LET child == t.children[at[1]][at[2]]
           found == search[<<at[1], at[2] - 1>>]
       IN  search[at] = IF at[2] = 0 THEN NoObj
                        ELSE IF found # NoObj THEN found
                        ELSE IF child \in t.group THEN child ELSE search[Through(t, child)]
  /\ \A root \in Objects(t) : find_first_focusable_child_dfs(t, root) = search[Through(t, root)]

(* The search of ENTER is such a function.                                  *)
LEMMA ChildSearched ==
  ASSUME NEW t, NEW h, Layered(t, h)
  PROVE  \E search : ChildSearch(t, search)
<1> DEFINE D == Places(t)
           R == t.group \cup {NoObj}
           Child(at) == t.children[at[1]][at[2]]
           Back(at) == <<at[1], at[2] - 1>>
           Step(g, at) == IF at[2] = 0 THEN NoObj
                          ELSE IF g[Back(at)] # NoObj THEN g[Back(at)]
                          ELSE IF Child(at) \in t.group THEN Child(at)
                          ELSE g[Through(t, Child(at))]
           B == [g \in [D -> R] |-> [at \in D |-> Step(g, at)]]
           search == CHOOSE g : g = [at \in D |-> Step(g, at)]
           m == Weights(t, h)
<1>1. m \in [D -> Nat]
      /\ \A at \in D : at[2] # 0 =>
           /\ Back(at) \in D /\ m[Back(at)] < m[at]
           /\ Through(t, Child(at)) \in D /\ m[Through(t, Child(at))] < m[at]
  BY PlaceSteps
<1>2. \A root \in Objects(t) :
        find_first_focusable_child_dfs(t, root) = search[Through(t, root)]
  BY DEF find_first_focusable_child_dfs
<1> HIDE DEF D, m, Child, Back
<1>4. ASSUME NEW g, NEW at \in D, \A y \in D : m[y] < m[at] => g[y] \in R
      PROVE  Step(g, at) \in R
  <2>1. at[2] # 0 => g[Back(at)] \in R /\ g[Through(t, Child(at))] \in R
    BY <1>1, <1>4
  <2> QED BY <2>1
<1>5. ASSUME NEW f, NEW g, NEW at \in D, \A y \in D : m[y] < m[at] => f[y] = g[y]
      PROVE  Step(f, at) = Step(g, at)
  <2>1. at[2] # 0 => f[Back(at)] = g[Back(at)]
                     /\ f[Through(t, Child(at))] = g[Through(t, Child(at))]
    BY <1>1, <1>5
  <2> QED BY <2>1
<1> HIDE DEF Step
<1>6. B \in [[D -> R] -> [D -> R]]
  BY <1>1, <1>4
<1>7. \A f, g \in [D -> R] : \A x \in D :
        (\A y \in D : m[y] < m[x] => f[y] = g[y]) => B[f][x] = B[g][x]
  BY <1>5
<1>8. \E f \in [D -> R] : f = B[f]
  <2>1. Recursion(D, R, m, B)
    <3> HIDE DEF B
    <3> QED BY <1>1, <1>6, <1>7 DEF Recursion
  <2> HIDE DEF B, R
  <2> QED BY <2>1, RecursionExists
<1>9. search = [at \in D |-> Step(search, at)]
  BY <1>8
<1> HIDE DEF search
<1>10. \A at \in D : search[at] \in R
  <2> DEFINE S == {at \in D : search[at] \in R}
  <2>1. \A at \in D : (\A y \in D : m[y] < m[at] => y \in S) => at \in S
    BY <1>4, <1>9
  <2> HIDE DEF S
  <2>2. D \subseteq S
    BY <1>1, <2>1, Smaller
  <2> QED BY <2>2 DEF S
<1>11. search \in [D -> R]
  BY <1>9, <1>10
<1>12. \A at \in D : search[at] = Step(search, at)
  BY <1>9
<1>13. ChildSearch(t, search)
  BY <1>2, <1>11, <1>12 DEF ChildSearch, Step, D, Child, Back
<1> QED BY <1>13

(* ESC: the object around this one that belongs to the group, or none       *)
ParentSearch(t, search) ==
  /\ search \in [Objects(t) -> t.group \cup {NoObj}]
  /\ \A o \in Objects(t) :
       search[o] = IF t.parent[o] = NoObj \/ t.parent[o] \in t.group THEN t.parent[o]
                   ELSE search[t.parent[o]]
  /\ \A o \in Objects(t) : find_first_focusable_parent_dfs(t, o) = search[o]

(* The search of ESC is such a function.                                    *)
LEMMA ParentSearched ==
  ASSUME NEW t, NEW h, Depths(t, h)
  PROVE  \E search : ParentSearch(t, search)
<1> DEFINE D == Objects(t)
           R == t.group \cup {NoObj}
           Step(g, o) == IF t.parent[o] = NoObj \/ t.parent[o] \in t.group THEN t.parent[o]
                         ELSE g[t.parent[o]]
           B == [g \in [D -> R] |-> [o \in D |-> Step(g, o)]]
           search == CHOOSE g : g = [o \in D |-> Step(g, o)]
<1>1. \A o \in D : find_first_focusable_parent_dfs(t, o) = search[o]
  BY DEF find_first_focusable_parent_dfs
<1>2. h \in [D -> Nat]
  BY DEF Depths
<1>3. ASSUME NEW g, NEW o \in D, \A y \in D : h[y] < h[o] => g[y] \in R
      PROVE  Step(g, o) \in R
  BY <1>3 DEF Depths
<1>4. ASSUME NEW f, NEW g, NEW o \in D, \A y \in D : h[y] < h[o] => f[y] = g[y]
      PROVE  Step(f, o) = Step(g, o)
  BY <1>4 DEF Depths
<1> HIDE DEF D, Step
<1>5. B \in [[D -> R] -> [D -> R]]
  BY <1>2, <1>3
<1>6. \A f, g \in [D -> R] : \A x \in D :
        (\A y \in D : h[y] < h[x] => f[y] = g[y]) => B[f][x] = B[g][x]
  BY <1>4
<1>7. \E f \in [D -> R] : f = B[f]
  <2>1. Recursion(D, R, h, B)
    <3> HIDE DEF B
    <3> QED BY <1>2, <1>5, <1>6 DEF Recursion
  <2> HIDE DEF B, R
  <2> QED BY <2>1, RecursionExists
<1>8. search = [o \in D |-> Step(search, o)]
  BY <1>7
<1> HIDE DEF search
<1>9. \A o \in D : search[o] \in R
  <2> DEFINE S == {o \in D : search[o] \in R}
  <2>1. \A o \in D : (\A y \in D : h[y] < h[o] => y \in S) => o \in S
    BY <1>3, <1>8
  <2> HIDE DEF S
  <2>2. D \subseteq S
    BY <1>2, <2>1, Smaller
  <2> QED BY <2>2 DEF S
<1>10. search \in [D -> R]
  BY <1>8, <1>9
<1>11. \A o \in D : search[o] = Step(search, o)
  BY <1>8
<1>12. ParentSearch(t, search)
  BY <1>1, <1>10, <1>11 DEF ParentSearch, Step, D
<1> QED BY <1>12

(* A scan stays a scan at a navigable child.                                *)
LEMMA VisitIsScan ==
  ASSUME NEW t, NEW child \in t.group, NEW obj, NEW forward, NEW s \in Scans(t)
  PROVE  Visit(child, obj, forward, s) \in Scans(t)
BY DEF Visit, Scans

(* RIGHT and LEFT: at every place, from a scan a scan *)
ScanSearch(t, current_focus, forward, scan) ==
  /\ scan \in [Places(t) -> [Scans(t) -> Scans(t)]]
  /\ \A at \in Places(t) : \A before \in Scans(t) :
       LET child == t.children[at[1]][at[2]]
           s == scan[<<at[1], at[2] - 1>>][before]
       IN  scan[at][before] =
             IF at[2] = 0 THEN before
             ELSE IF s.found # NoObj THEN s
             ELSE IF child \in t.group THEN Visit(child, current_focus, forward, s)
             ELSE scan[Through(t, child)][s]
  /\ \A root \in Objects(t) :
       scan_subtree_focus_sequence(t, root, current_focus, forward)
         = scan[Through(t, root)][Scan(NoObj, NoObj, FALSE)].found

(* The scan of RIGHT and LEFT is such a function.                           *)
LEMMA ScanSearched ==
  ASSUME NEW t, NEW h, Layered(t, h), NEW obj, NEW forward
  PROVE  \E scan : ScanSearch(t, obj, forward, scan)
<1> DEFINE D == Places(t)
           S0 == Scans(t)
           R == [S0 -> S0]
           Child(at) == t.children[at[1]][at[2]]
           Back(at) == <<at[1], at[2] - 1>>
           After(g, at, s) == IF s.found # NoObj THEN s
                              ELSE IF Child(at) \in t.group THEN Visit(Child(at), obj, forward, s)
                              ELSE g[Through(t, Child(at))][s]
           Step(g, at) == [s \in S0 |-> IF at[2] = 0 THEN s ELSE After(g, at, g[Back(at)][s])]
           B == [g \in [D -> R] |-> [at \in D |-> Step(g, at)]]
           scan == CHOOSE g : g = [at \in D |-> Step(g, at)]
           m == Weights(t, h)
<1>1. \A root \in Objects(t) :
        scan_subtree_focus_sequence(t, root, obj, forward)
          = scan[Through(t, root)][Scan(NoObj, NoObj, FALSE)].found
  BY DEF scan_subtree_focus_sequence
<1>2. m \in [D -> Nat]
      /\ \A at \in D : at[2] # 0 =>
           /\ Back(at) \in D /\ m[Back(at)] < m[at]
           /\ Through(t, Child(at)) \in D /\ m[Through(t, Child(at))] < m[at]
  BY PlaceSteps
<1>5. \A at, s : s \in S0 /\ Child(at) \in t.group => Visit(Child(at), obj, forward, s) \in S0
  BY VisitIsScan
<1> HIDE DEF D, m, Child, Back, S0
<1>6. ASSUME NEW g, NEW at \in D, \A y \in D : m[y] < m[at] => g[y] \in R
      PROVE  Step(g, at) \in R
  <2> SUFFICES ASSUME NEW s \in S0, at[2] # 0
               PROVE  After(g, at, g[Back(at)][s]) \in S0
    OBVIOUS
  <2>1. g[Back(at)] \in R /\ g[Through(t, Child(at))] \in R
    BY <1>2, <1>6
  <2>2. g[Back(at)][s] \in S0
    BY <2>1
  <2> QED BY <1>5, <2>1, <2>2
<1>7. ASSUME NEW f, NEW g, NEW at \in D, \A y \in D : m[y] < m[at] => f[y] = g[y]
      PROVE  Step(f, at) = Step(g, at)
  <2>1. at[2] # 0 => f[Back(at)] = g[Back(at)]
                     /\ f[Through(t, Child(at))] = g[Through(t, Child(at))]
    BY <1>2, <1>7
  <2>2. ASSUME NEW s \in S0, at[2] # 0
        PROVE  After(f, at, f[Back(at)][s]) = After(g, at, g[Back(at)][s])
    BY <2>1, <2>2
  <2> HIDE DEF After
  <2> QED BY <2>2
<1> HIDE DEF Step, R
<1>8. B \in [[D -> R] -> [D -> R]]
  BY <1>2, <1>6
<1>9. \A f, g \in [D -> R] : \A x \in D :
        (\A y \in D : m[y] < m[x] => f[y] = g[y]) => B[f][x] = B[g][x]
  BY <1>7
<1>10. \E f \in [D -> R] : f = B[f]
  <2>1. R # {}
    <3>1. [s \in S0 |-> s] \in R
      BY DEF R
    <3> QED BY <3>1
  <2>2. Recursion(D, R, m, B)
    <3> HIDE DEF B
    <3> QED BY <1>2, <1>8, <1>9, <2>1 DEF Recursion
  <2> HIDE DEF B
  <2> QED BY <2>2, RecursionExists
<1>11. scan = [at \in D |-> Step(scan, at)]
  BY <1>10
<1> HIDE DEF scan
<1>12. \A at \in D : scan[at] \in R
  <2> DEFINE S == {at \in D : scan[at] \in R}
  <2>1. \A at \in D : (\A y \in D : m[y] < m[at] => y \in S) => at \in S
    BY <1>6, <1>11
  <2> HIDE DEF S
  <2>2. D \subseteq S
    BY <1>2, <2>1, Smaller
  <2> QED BY <2>2 DEF S
<1>13. scan \in [D -> R]
  BY <1>11, <1>12
<1>14. \A at \in D : \A s \in S0 :
         scan[at][s] = IF at[2] = 0 THEN s ELSE After(scan, at, scan[Back(at)][s])
  <2> TAKE at \in D
  <2> TAKE s \in S0
  <2>1. scan[at] = Step(scan, at)
    BY <1>11
  <2> HIDE DEF After
  <2> QED BY <2>1, Zenon DEF Step
<1>15. ScanSearch(t, obj, forward, scan)
  BY <1>1, <1>13, <1>14, Zenon DEF ScanSearch, R, S0, D, Child, Back
<1> QED BY <1>15

-----------------------------------------------------------------------------
(* Where the objects of a tree stand: their paths *)

(* The child numbers on the way to a child are those to its parent and its  *)
(* own.                                                                     *)
TreePaths(t) ==
  /\ \A o \in Objects(t) : Path(t, o) \in Seq(Nat)
  /\ \A o \in Objects(t) : t.parent[o] = NoObj => Path(t, o) = <<>>
  /\ \A o \in Objects(t) : \A i \in 1..Len(t.children[o]) :
       Path(t, t.children[o][i]) = Append(Path(t, o), i)

(* Every object of a tree has such a path.                                  *)
LEMMA PathsOfTree ==
  ASSUME NEW t, NEW h, NEW top, Rooted(t, h, top)
  PROVE  TreePaths(t)
<1> DEFINE D == Objects(t)
           C == t.children
           R == Seq(Nat)
           Index(o) == CHOOSE i \in DOMAIN C[t.parent[o]] : C[t.parent[o]][i] = o
           Step(g, o) == IF t.parent[o] = NoObj THEN <<>> ELSE Append(g[t.parent[o]], Index(o))
           B == [g \in [D -> R] |-> [o \in D |-> Step(g, o)]]
           path == CHOOSE g : g = [o \in D |-> Step(g, o)]
<1>1. \A o \in D : Path(t, o) = path[o]
  BY Zenon DEF Path
<1>2. /\ C \in [D -> Seq(D)]
      /\ \A o \in D : t.parent[o] # NoObj =>
           t.parent[o] \in D /\ \E i \in 1..Len(C[t.parent[o]]) : C[t.parent[o]][i] = o
      /\ \A o \in D : \A i \in 1..Len(C[o]) :
           /\ t.parent[C[o][i]] = o
           /\ \A j \in 1..Len(C[o]) : C[o][j] = C[o][i] => j = i
      /\ NoObj \notin D
  BY DEF Rooted, Layered
<1>3. PICK depth : Depths(t, depth)
  BY RootedDepths
<1>4. /\ depth \in [D -> Nat]
      /\ \A o \in D : t.parent[o] # NoObj =>
           t.parent[o] \in D /\ depth[t.parent[o]] < depth[o]
  BY <1>3 DEF Depths
<1> HIDE DEF D, C
<1>5. \A o \in D : DOMAIN C[o] = 1..Len(C[o]) /\ \A i \in 1..Len(C[o]) : C[o][i] \in D
  BY <1>2
<1>6. \A o \in D : t.parent[o] # NoObj =>
        Index(o) \in 1..Len(C[t.parent[o]]) /\ C[t.parent[o]][Index(o)] = o
  <2> TAKE o \in D
  <2> HAVE t.parent[o] # NoObj
  <2>1. \E i \in DOMAIN C[t.parent[o]] : C[t.parent[o]][i] = o
    BY <1>2, <1>5
  <2>2. Index(o) \in DOMAIN C[t.parent[o]] /\ C[t.parent[o]][Index(o)] = o
    BY <2>1
  <2> HIDE DEF Index
  <2> QED BY <1>2, <1>5, <2>2
<1>7. \A o \in D : \A i \in 1..Len(C[o]) : Index(C[o][i]) = i
  <2> TAKE o \in D
  <2> TAKE i \in 1..Len(C[o])
  <2> DEFINE c == C[o][i]
  <2>1. c \in D /\ t.parent[c] = o /\ o # NoObj
    BY <1>2, <1>5
  <2>2. Index(c) \in 1..Len(C[o]) /\ C[o][Index(c)] = c
    BY <1>6, <2>1, Zenon
  <2> HIDE DEF Index
  <2> QED BY <1>2, <2>2
<1> HIDE DEF Index
<1>8. \A o \in D : t.parent[o] # NoObj => Index(o) \in Nat
  <2>1. \A n : \A i \in 1..n : i \in Nat
    OBVIOUS
  <2> QED BY <1>6, <2>1
<1>9. ASSUME NEW g, NEW o \in D, \A y \in D : depth[y] < depth[o] => g[y] \in R
      PROVE  Step(g, o) \in R
  <2>1. CASE t.parent[o] = NoObj
    BY <2>1
  <2>2. CASE t.parent[o] # NoObj
    <3>1. g[t.parent[o]] \in Seq(Nat) /\ Index(o) \in Nat
      BY <1>4, <1>8, <1>9, <2>2
    <3> QED BY <2>2, <3>1, AppendProperties
  <2> QED BY <2>1, <2>2
<1>10. ASSUME NEW f, NEW g, NEW o \in D, \A y \in D : depth[y] < depth[o] => f[y] = g[y]
       PROVE  Step(f, o) = Step(g, o)
  <2>1. t.parent[o] # NoObj => f[t.parent[o]] = g[t.parent[o]]
    BY <1>4, <1>10
  <2> QED BY <2>1, Zenon
<1> HIDE DEF Step
<1>11. B \in [[D -> R] -> [D -> R]]
  BY <1>4, <1>9
<1>12. \A f, g \in [D -> R] : \A x \in D :
         (\A y \in D : depth[y] < depth[x] => f[y] = g[y]) => B[f][x] = B[g][x]
  BY <1>10
<1>13. \E f \in [D -> R] : f = B[f]
  <2>1. R # {}
    <3>1. <<>> \in R
      OBVIOUS
    <3> QED BY <3>1
  <2> HIDE DEF R
  <2>2. Recursion(D, R, depth, B)
    <3> HIDE DEF B
    <3> QED BY <1>4, <1>11, <1>12, <2>1 DEF Recursion
  <2> HIDE DEF B
  <2> QED BY <2>2, RecursionExists
<1>14. path = [o \in D |-> Step(path, o)]
  BY <1>13
<1> HIDE DEF path
<1>15. \A o \in D : path[o] \in R
  <2> DEFINE S == {o \in D : path[o] \in R}
  <2> HIDE DEF R
  <2>1. \A o \in D : (\A y \in D : depth[y] < depth[o] => y \in S) => o \in S
    BY <1>9, <1>14
  <2> HIDE DEF S
  <2>2. D \subseteq S
    BY <1>4, <2>1, Smaller
  <2> QED BY <2>2 DEF S
<1>16. \A o \in D : path[o] = IF t.parent[o] = NoObj THEN <<>>
                              ELSE Append(path[t.parent[o]], Index(o))
  BY <1>14, Zenon DEF Step
<1>17. ASSUME NEW o \in D, NEW i \in 1..Len(C[o])
       PROVE  Path(t, C[o][i]) = Append(Path(t, o), i)
  <2> DEFINE c == C[o][i]
  <2>1. c \in D /\ t.parent[c] = o /\ o # NoObj /\ Index(c) = i
    BY <1>2, <1>5, <1>7
  <2> HIDE DEF c
  <2>2. path[c] = Append(path[o], i)
    BY <1>16, <2>1, Zenon
  <2>3. Path(t, c) = path[c] /\ Path(t, o) = path[o]
    BY <1>1, <2>1
  <2> QED BY <2>2, <2>3 DEF c
<1>18. \A o \in D : Path(t, o) \in Seq(Nat)
  BY <1>1, <1>15
<1>19. \A o \in D : t.parent[o] = NoObj => Path(t, o) = <<>>
  BY <1>1, <1>16
<1> QED BY <1>17, <1>18, <1>19 DEF TreePaths, D, C

Within(p, q) == p # q /\ IsPrefix(q, p)

(* To be inside is to start with the same child numbers.                    *)
LEMMA WithinIs ==
  ASSUME NEW p \in Seq(Nat), NEW q \in Seq(Nat)
  PROVE  Within(p, q) <=> Len(q) < Len(p) /\ \A j \in 1..Len(q) : p[j] = q[j]
<1>1. Len(p) \in Nat /\ Len(q) \in Nat
  OBVIOUS
<1>2. Len(q) <= Len(p) => (SubSeq(q, 1, Len(q)) = SubSeq(p, 1, Len(q))
                             <=> \A j \in 1..Len(q) : p[j] = q[j])
  <2> HAVE Len(q) <= Len(p)
  <2>1. SubSeq(q, 1, Len(q)) = q
    BY SubSeqFull
  <2> DEFINE front == SubSeq(p, 1, Len(q))
  <2>2. front \in Seq(Nat) /\ Len(front) = Len(q) /\ \A j \in 1..Len(q) : front[j] = p[j]
    OBVIOUS
  <2> HIDE DEF front
  <2>3. (\A j \in 1..Len(q) : p[j] = q[j]) => front = q
    BY <2>2, SeqEqual
  <2>4. front = q => \A j \in 1..Len(q) : p[j] = q[j]
    BY <2>2
  <2> QED BY <2>1, <2>3, <2>4 DEF front
<1>3. Len(q) = Len(p) /\ (\A j \in 1..Len(q) : p[j] = q[j]) => p = q
  BY SeqEqual
<1> QED BY <1>1, <1>2, <1>3 DEF Within, IsPrefix

(* A child is inside its parent and whatever its parent is inside of.       *)
LEMMA WithinAppend ==
  ASSUME NEW p \in Seq(Nat), NEW q \in Seq(Nat), NEW i \in Nat
  PROVE  Within(Append(p, i), q) <=> q = p \/ Within(p, q)
<1> DEFINE a == Append(p, i)
<1>1. /\ a \in Seq(Nat) /\ Len(a) = Len(p) + 1
      /\ \A j \in 1..Len(p) : a[j] = p[j]
  BY AppendProperties
<1>2. Len(p) \in Nat /\ Len(q) \in Nat
  OBVIOUS
<1> HIDE DEF a
<1>3. Within(a, q) <=> Len(q) < Len(p) + 1 /\ \A j \in 1..Len(q) : a[j] = q[j]
  BY <1>1, WithinIs
<1>4. Len(q) < Len(p) + 1 => \A j \in 1..Len(q) : a[j] = p[j]
  <2> HAVE Len(q) < Len(p) + 1
  <2> TAKE j \in 1..Len(q)
  <2>1. j \in 1..Len(p)
    BY <1>2
  <2> QED BY <1>1, <2>1
<1>5. Within(a, q) <=> Len(q) <= Len(p) /\ \A j \in 1..Len(q) : p[j] = q[j]
  <2>1. Len(q) < Len(p) + 1 <=> Len(q) <= Len(p)
    BY <1>2
  <2> QED BY <1>3, <1>4, <2>1
<1>6. Len(q) = Len(p) /\ (\A j \in 1..Len(q) : p[j] = q[j]) => p = q
  BY SeqEqual
<1>7. Within(p, q) <=> Len(q) < Len(p) /\ \A j \in 1..Len(q) : p[j] = q[j]
  BY WithinIs
<1>8. q = p => Len(q) <= Len(p) /\ \A j \in 1..Len(q) : p[j] = q[j]
  BY <1>2
<1> QED BY <1>2, <1>5, <1>6, <1>7, <1>8 DEF a

(* The root is inside nothing.                                              *)
LEMMA NothingAroundRoot ==
  ASSUME NEW q \in Seq(Nat)
  PROVE  ~Within(<<>>, q)
<1> DEFINE root == <<>>
<1>1. root \in Seq(Nat) /\ Len(root) = 0 /\ Len(q) \in Nat
  OBVIOUS
<1> HIDE DEF root
<1>2. Within(root, q) <=> Len(q) < Len(root) /\ \A j \in 1..Len(q) : root[j] = q[j]
  BY <1>1, WithinIs
<1>3. ~(Len(q) < Len(root))
  BY <1>1
<1>4. ~Within(root, q)
  BY <1>2, <1>3
<1> QED BY <1>4 DEF root

(* The step from an object to its parent *)
LEMMA PathStep ==
  ASSUME NEW t, NEW h, NEW top, Rooted(t, h, top), NEW o \in Objects(t), t.parent[o] # NoObj
  PROVE  /\ t.parent[o] \in Objects(t)
         /\ \E i \in 1..Len(t.children[t.parent[o]]) :
              /\ i \in Nat
              /\ t.children[t.parent[o]][i] = o
              /\ Path(t, o) = Append(Path(t, t.parent[o]), i)
<1>1. TreePaths(t)
  BY PathsOfTree
<1> DEFINE p == t.parent[o]
<1>2. PICK i \in 1..Len(t.children[p]) : p \in Objects(t) /\ t.children[p][i] = o
  BY DEF Rooted
<1> HIDE DEF p
<1>3. Path(t, o) = Append(Path(t, p), i)
  BY <1>1, <1>2 DEF TreePaths
<1>4. i \in Nat
  BY <1>2
<1> QED BY <1>2, <1>3, <1>4 DEF p

(* Different objects have different paths.                                  *)
LEMMA PathsDiffer ==
  ASSUME NEW t, NEW h, NEW top, Rooted(t, h, top)
  PROVE  \A a, b \in Objects(t) : Path(t, a) = Path(t, b) => a = b
<1> DEFINE O == Objects(t)
           P(o) == Path(t, o)
           Parent(o) == t.parent[o]
<1>1. TreePaths(t)
  BY PathsOfTree
<1>2. \A o \in O : P(o) \in Seq(Nat) /\ (Parent(o) = NoObj => P(o) = <<>>)
  BY <1>1 DEF TreePaths
<1>3. \A o \in O : Parent(o) # NoObj =>
        /\ Parent(o) \in O
        /\ \E i \in Nat : t.children[Parent(o)][i] = o /\ P(o) = Append(P(Parent(o)), i)
  BY PathStep
<1>4. \A a, b \in O : Parent(a) = NoObj /\ Parent(b) = NoObj => a = b
  BY DEF Rooted
<1>5. PICK depth : Depths(t, depth)
  BY RootedDepths
<1>6. depth \in [O -> Nat] /\ \A o \in O : Parent(o) # NoObj => depth[Parent(o)] < depth[o]
  BY <1>5 DEF Depths
<1>7. \A o \in O : Parent(o) # NoObj => P(o) # <<>>
  <2> TAKE o \in O
  <2> HAVE Parent(o) # NoObj
  <2>1. PICK i \in Nat : P(o) = Append(P(Parent(o)), i) /\ Parent(o) \in O
    BY <1>3
  <2>2. P(Parent(o)) \in Seq(Nat)
    BY <1>2, <2>1
  <2> HIDE DEF P, Parent
  <2> QED BY <2>1, <2>2, AppendProperties
<1> DEFINE S == {a \in O : \A b \in O : P(a) = P(b) => a = b}
<1> HIDE DEF O, P, Parent
<1>8. ASSUME NEW a \in O, \A y \in O : depth[y] < depth[a] => y \in S
      PROVE  a \in S
  <2> SUFFICES ASSUME NEW b \in O, P(a) = P(b) PROVE a = b
    OBVIOUS
  <2>1. CASE Parent(a) = NoObj
    BY <1>2, <1>4, <1>7, <2>1
  <2>2. CASE Parent(a) # NoObj
    <3>1. Parent(b) # NoObj
      BY <1>2, <1>7, <2>2
    <3>2. PICK i \in Nat : t.children[Parent(a)][i] = a /\ P(a) = Append(P(Parent(a)), i)
                           /\ Parent(a) \in O
      BY <1>3, <2>2
    <3>3. PICK j \in Nat : t.children[Parent(b)][j] = b /\ P(b) = Append(P(Parent(b)), j)
                           /\ Parent(b) \in O
      BY <1>3, <3>1
    <3>4. P(Parent(a)) \in Seq(Nat) /\ P(Parent(b)) \in Seq(Nat)
      BY <1>2, <3>2, <3>3
    <3>5. P(Parent(a)) = P(Parent(b)) /\ i = j
      <4>1. \A s, u \in Seq(Nat) : \A k, n \in Nat : Append(s, k) = Append(u, n) => s = u /\ k = n
        BY AppendInjective
      <4>2. Append(P(Parent(a)), i) = Append(P(Parent(b)), j)
        BY <3>2, <3>3, Zenon
      <4> QED BY <3>4, <4>1, <4>2
    <3>6. Parent(a) = Parent(b)
      BY <1>6, <1>8, <2>2, <3>2, <3>3, <3>5
    <3> QED BY <3>2, <3>3, <3>5, <3>6
  <2> QED BY <2>1, <2>2
<1> HIDE DEF S
<1>9. O \subseteq S
  BY <1>6, <1>8, Smaller
<1> QED BY <1>9 DEF S, O, P

(* The paths of the navigable objects around a path *)
AroundOf(t, p) == {q \in {Path(t, c) : c \in t.group} : Within(p, q)}

(* Around an object are the nearest navigable one and those around it.      *)
LEMMA AroundNear ==
  ASSUME NEW t, NEW h, NEW top, Rooted(t, h, top), NEW near, ParentSearch(t, near),
         NEW obj \in Objects(t)
  PROVE  AroundOf(t, Path(t, obj)) =
           IF near[obj] = NoObj THEN {}
           ELSE AroundOf(t, Path(t, near[obj])) \cup {Path(t, near[obj])}
<1> DEFINE O == Objects(t)
           P(o) == Path(t, o)
           Parent(o) == t.parent[o]
           A(p) == AroundOf(t, p)
           paths == {P(c) : c \in t.group}
<1>1. TreePaths(t)
  BY PathsOfTree
<1>2. \A o \in O : P(o) \in Seq(Nat) /\ (Parent(o) = NoObj => P(o) = <<>>)
  BY <1>1 DEF TreePaths
<1>3. \A o \in O : Parent(o) # NoObj =>
        Parent(o) \in O /\ \E i \in Nat : P(o) = Append(P(Parent(o)), i)
  BY PathStep
<1>4. t.group \subseteq O /\ NoObj \notin O
  BY DEF Rooted
<1>5. \A a, b \in O : P(a) = P(b) => a = b
  BY PathsDiffer
<1>6. \A p : A(p) = {q \in paths : Within(p, q)}
  BY DEF AroundOf
<1>7. PICK depth : Depths(t, depth)
  BY RootedDepths
<1>8. depth \in [O -> Nat] /\ \A o \in O : Parent(o) # NoObj => depth[Parent(o)] < depth[o]
  BY <1>7 DEF Depths
<1>9. \A o \in O : near[o] = IF Parent(o) = NoObj \/ Parent(o) \in t.group THEN Parent(o)
                             ELSE near[Parent(o)]
  BY DEF ParentSearch
<1> HIDE DEF O, P, Parent, A
<1>10. \A q \in paths : q \in Seq(Nat)
  BY <1>2, <1>4
<1>11. ASSUME NEW o \in O, Parent(o) = NoObj PROVE A(P(o)) = {}
  BY <1>2, <1>6, <1>10, <1>11, NothingAroundRoot
<1>12. ASSUME NEW o \in O, Parent(o) # NoObj
       PROVE  A(P(o)) = A(P(Parent(o))) \cup (IF Parent(o) \in t.group THEN {P(Parent(o))} ELSE {})
  <2> DEFINE p == Parent(o)
  <2>1. PICK i \in Nat : p \in O /\ P(o) = Append(P(p), i)
    BY <1>3, <1>12
  <2>2. P(p) \in Seq(Nat)
    BY <1>2, <2>1
  <2> HIDE DEF p
  <2>3. \A q \in paths : Within(P(o), q) <=> q = P(p) \/ Within(P(p), q)
    BY <1>10, <2>1, <2>2, WithinAppend
  <2>4. P(p) \in paths <=> p \in t.group
    BY <1>4, <1>5, <2>1
  <2> HIDE DEF paths
  <2> QED BY <1>6, <2>3, <2>4 DEF p
<1> DEFINE Claim(o) == A(P(o)) = IF near[o] = NoObj THEN {} ELSE A(P(near[o])) \cup {P(near[o])}
           S == {o \in O : Claim(o)}
<1>13. ASSUME NEW o \in O, \A y \in O : depth[y] < depth[o] => y \in S
       PROVE  o \in S
  <2> SUFFICES Claim(o)
    OBVIOUS
  <2>1. CASE Parent(o) = NoObj
    BY <1>9, <1>11, <2>1
  <2>2. CASE Parent(o) # NoObj /\ Parent(o) \in t.group
    BY <1>9, <1>12, <2>2
  <2>3. CASE Parent(o) # NoObj /\ Parent(o) \notin t.group
    <3>1. near[o] = near[Parent(o)] /\ A(P(o)) = A(P(Parent(o)))
      BY <1>9, <1>12, <2>3
    <3>2. Claim(Parent(o))
      <4>1. Parent(o) \in O /\ depth[Parent(o)] < depth[o]
        BY <1>3, <1>8, <2>3
      <4> HIDE DEF Claim
      <4> QED BY <1>13, <4>1
    <3> QED BY <3>1, <3>2
  <2> QED BY <2>1, <2>2, <2>3
<1> HIDE DEF S, Claim
<1>14. O \subseteq S
  BY <1>8, <1>13, Smaller
<1>15. Claim(obj)
  BY <1>14 DEF S, O
<1> QED BY <1>15 DEF Claim, A, P

(* The longest of the paths around an object is that of the nearest one.    *)
LEMMA NearIsLongest ==
  ASSUME NEW t, NEW h, NEW top, Rooted(t, h, top), NEW near, ParentSearch(t, near),
         NEW o \in Objects(t), NEW q \in AroundOf(t, Path(t, o))
  PROVE  /\ near[o] # NoObj /\ near[o] \in t.group /\ q \in Seq(Nat)
         /\ q = Path(t, near[o]) \/ Len(q) < Len(Path(t, near[o]))
<1>1. near[o] \in t.group \cup {NoObj}
  BY DEF ParentSearch
<1>2. near[o] # NoObj
  BY AroundNear
<1>3. near[o] \in Objects(t) /\ t.group \subseteq Objects(t)
  BY <1>1, <1>2 DEF Rooted
<1>4. TreePaths(t)
  BY PathsOfTree
<1>5. q \in Seq(Nat) /\ Path(t, near[o]) \in Seq(Nat)
  BY <1>3, <1>4 DEF TreePaths, AroundOf
<1>6. q = Path(t, near[o]) \/ Within(Path(t, near[o]), q)
  BY <1>2, AroundNear DEF AroundOf
<1>7. Within(Path(t, near[o]), q) => Len(q) < Len(Path(t, near[o]))
  BY <1>5, WithinIs
<1> QED BY <1>1, <1>2, <1>5, <1>6, <1>7

(* An object o and those around it are around exactly the objects nearest   *)
(* to o.                                                                    *)
LEMMA AroundBoth ==
  ASSUME NEW t, NEW h, NEW top, Rooted(t, h, top), NEW near, ParentSearch(t, near),
         NEW a \in Objects(t), NEW o \in t.group
  PROVE  AroundOf(t, Path(t, a)) = AroundOf(t, Path(t, o)) \cup {Path(t, o)} <=> near[a] = o
<1>1. o \in Objects(t) /\ o # NoObj
  BY DEF Rooted
<1>2. near[a] = o => AroundOf(t, Path(t, a)) = AroundOf(t, Path(t, o)) \cup {Path(t, o)}
  BY <1>1, AroundNear
<1>3. ASSUME AroundOf(t, Path(t, a)) = AroundOf(t, Path(t, o)) \cup {Path(t, o)}
      PROVE  near[a] = o
  <2> DEFINE n == near[a]
  <2>1. Path(t, o) \in AroundOf(t, Path(t, a))
    BY <1>3
  <2>2. /\ n # NoObj /\ n \in t.group
        /\ Path(t, o) = Path(t, n) \/ Len(Path(t, o)) < Len(Path(t, n))
    BY <2>1, NearIsLongest
  <2>3. Path(t, n) \in AroundOf(t, Path(t, a))
    BY <2>2, AroundNear
  <2>4. n \in Objects(t)
    BY <2>2 DEF Rooted
  <2>5. TreePaths(t)
    BY PathsOfTree
  <2>6. Path(t, n) \in Seq(Nat) /\ Path(t, o) \in Seq(Nat)
    BY <1>1, <2>4, <2>5 DEF TreePaths
  <2>7. Path(t, n) = Path(t, o) \/ Within(Path(t, o), Path(t, n))
    BY <1>3, <2>3 DEF AroundOf
  <2>8. Path(t, n) = Path(t, o)
    <3>1. Within(Path(t, o), Path(t, n)) => Len(Path(t, n)) < Len(Path(t, o))
      BY <2>6, WithinIs
    <3>2. Len(Path(t, n)) \in Nat /\ Len(Path(t, o)) \in Nat
      BY <2>6
    <3> QED BY <2>2, <2>7, <3>1, <3>2
  <2> QED BY <1>1, <2>4, <2>8, PathsDiffer
<1> QED BY <1>2, <1>3

-----------------------------------------------------------------------------
(* The levels of a tree: what a loop over children passes *)

(* The sequence of one object                                               *)
LEMMA OneInSeq ==
  ASSUME NEW S, NEW x \in S
  PROVE  <<x>> \in Seq(S) /\ Len(<<x>>) = 1 /\ <<x>>[1] = x /\ Range(<<x>>) = {x}
BY DEF Range

(* Induction over the places of the loops over children *)
LEMMA PlaceInduction ==
  ASSUME NEW t, NEW h, Layered(t, h), NEW S,
         \A at \in Places(t) :
           (at[2] # 0 => /\ <<at[1], at[2] - 1>> \in S
                         /\ Through(t, t.children[at[1]][at[2]]) \in S) => at \in S
  PROVE  Places(t) \subseteq S
<1> DEFINE D == Places(t)
           m == Weights(t, h)
           Back(at) == <<at[1], at[2] - 1>>
           Below(at) == Through(t, t.children[at[1]][at[2]])
<1>1. m \in [D -> Nat]
      /\ \A at \in D : at[2] # 0 =>
           /\ Back(at) \in D /\ m[Back(at)] < m[at]
           /\ Below(at) \in D /\ m[Below(at)] < m[at]
  BY PlaceSteps
<1>2. \A at \in D : (at[2] # 0 => Back(at) \in S /\ Below(at) \in S) => at \in S
  OBVIOUS
<1> HIDE DEF D, m, Back, Below
<1>3. ASSUME NEW at \in D, \A y \in D : m[y] < m[at] => y \in S
      PROVE  at \in S
  BY <1>1, <1>2, <1>3
<1>4. D \subseteq S
  BY <1>1, <1>3, Smaller
<1> QED BY <1>4 DEF D

(* What a loop over children passes: the navigable objects up to a place    *)
(* that have no navigable one between them and the object of the loop.      *)
Level(t, level) ==
  /\ level \in [Places(t) -> Seq(t.group)]
  /\ \A at \in Places(t) :
       LET child == t.children[at[1]][at[2]]
       IN  level[at] = IF at[2] = 0 THEN <<>>
                       ELSE level[<<at[1], at[2] - 1>>]
                              \o (IF child \in t.group THEN <<child>>
                                  ELSE level[Through(t, child)])

(* Every place has a level, the recursion goes down.                        *)
LEMMA LevelExists ==
  ASSUME NEW t, NEW h, Layered(t, h)
  PROVE  \E level : Level(t, level)
<1> DEFINE D == Places(t)
           R == Seq(t.group)
           Child(at) == t.children[at[1]][at[2]]
           Back(at) == <<at[1], at[2] - 1>>
           Added(g, at) == IF Child(at) \in t.group THEN <<Child(at)>> ELSE g[Through(t, Child(at))]
           Step(g, at) == IF at[2] = 0 THEN <<>> ELSE g[Back(at)] \o Added(g, at)
           B == [g \in [D -> R] |-> [at \in D |-> Step(g, at)]]
           m == Weights(t, h)
<1>1. m \in [D -> Nat]
      /\ \A at \in D : at[2] # 0 =>
           /\ Back(at) \in D /\ m[Back(at)] < m[at]
           /\ Through(t, Child(at)) \in D /\ m[Through(t, Child(at))] < m[at]
  BY PlaceSteps
<1>2. <<>> \in R
  OBVIOUS
<1> HIDE DEF D, m, Child, Back
<1>3. ASSUME NEW g, NEW at \in D, \A y \in D : m[y] < m[at] => g[y] \in R
      PROVE  Step(g, at) \in R
  <2>1. CASE at[2] = 0
    BY <1>2, <2>1
  <2>2. CASE at[2] # 0
    <3>1. g[Back(at)] \in Seq(t.group) /\ g[Through(t, Child(at))] \in Seq(t.group)
      BY <1>1, <1>3, <2>2
    <3>2. Added(g, at) \in Seq(t.group)
      <4>1. \A c \in t.group : <<c>> \in Seq(t.group)
        BY OneInSeq
      <4> QED BY <3>1, <4>1, Zenon
    <3> HIDE DEF Added
    <3>3. g[Back(at)] \o Added(g, at) \in Seq(t.group)
      BY <3>1, <3>2, ConcatProperties
    <3> QED BY <2>2, <3>3
  <2> QED BY <2>1, <2>2
<1>4. ASSUME NEW f, NEW g, NEW at \in D, \A y \in D : m[y] < m[at] => f[y] = g[y]
      PROVE  Step(f, at) = Step(g, at)
  <2>1. at[2] # 0 => f[Back(at)] = g[Back(at)]
                     /\ f[Through(t, Child(at))] = g[Through(t, Child(at))]
    BY <1>1, <1>4
  <2> QED BY <2>1, Zenon
<1> HIDE DEF Step, R
<1>5. B \in [[D -> R] -> [D -> R]]
  BY <1>1, <1>3
<1>6. \A f, g \in [D -> R] : \A x \in D :
        (\A y \in D : m[y] < m[x] => f[y] = g[y]) => B[f][x] = B[g][x]
  BY <1>4
<1>7. PICK f \in [D -> R] : f = B[f]
  <2>1. Recursion(D, R, m, B)
    <3> HIDE DEF B
    <3> QED BY ZenonT(60), <1>1, <1>2, <1>5, <1>6 DEF Recursion
  <2> HIDE DEF B
  <2> QED BY <2>1, RecursionExists
<1>8. \A at \in D : f[at] = Step(f, at)
  <2>1. f = [at \in D |-> Step(f, at)]
    BY <1>7
  <2> QED BY <2>1
<1>9. Level(t, f)
  BY ZenonT(60), <1>7, <1>8 DEF Level, Step, R, D, Child, Back
<1> QED BY <1>9

(* A place adds to the level of the place before it the child, or what is   *)
(* found below the child.                                                   *)
LevelBefore(level, at) == level[<<at[1], at[2] - 1>>]
LevelBelow(t, level, at) == level[Through(t, t.children[at[1]][at[2]])]
LevelAdded(t, level, at) ==
  LET child == t.children[at[1]][at[2]]
  IN  IF child \in t.group THEN <<child>> ELSE LevelBelow(t, level, at)

(* What a place adds, object by object                                      *)
LEMMA LevelStep ==
  ASSUME NEW t, NEW h, Layered(t, h), NEW level, Level(t, level),
         NEW at \in Places(t), at[2] # 0
  PROVE  LET front == LevelBefore(level, at)
             inner == LevelBelow(t, level, at)
             tip == LevelAdded(t, level, at)
         IN  /\ front \in Seq(t.group) /\ tip \in Seq(t.group) /\ inner \in Seq(t.group)
             /\ level[at] = front \o tip
             /\ Len(level[at]) = Len(front) + Len(tip)
             /\ \A k \in 1..Len(level[at]) :
                  \/ k \in 1..Len(front) /\ level[at][k] = front[k]
                  \/ k - Len(front) \in 1..Len(tip) /\ level[at][k] = tip[k - Len(front)]
             /\ Range(level[at]) = Range(front) \cup Range(tip)
<1> DEFINE child == t.children[at[1]][at[2]]
           front == level[<<at[1], at[2] - 1>>]
           inner == level[Through(t, child)]
           tip == IF child \in t.group THEN <<child>> ELSE inner
<1>1. <<at[1], at[2] - 1>> \in Places(t) /\ Through(t, child) \in Places(t)
  BY PlaceSteps
<1>2. front \in Seq(t.group) /\ inner \in Seq(t.group)
  BY SMTT(40), <1>1 DEF Level
<1>3. level[at] = front \o tip
  BY DEF Level
<1> HIDE DEF child, front, inner
<1>4. tip \in Seq(t.group)
  <2>1. \A c \in t.group : <<c>> \in Seq(t.group)
    BY OneInSeq
  <2> QED BY <1>2, <2>1, Zenon
<1> HIDE DEF tip
<1>5. /\ Len(front \o tip) = Len(front) + Len(tip)
      /\ \A k \in 1..(Len(front) + Len(tip)) :
           (front \o tip)[k] = IF k <= Len(front) THEN front[k] ELSE tip[k - Len(front)]
  BY <1>2, <1>4, ConcatProperties
<1>6. Len(front) \in Nat /\ Len(tip) \in Nat
  BY <1>2, <1>4
<1>7. ASSUME NEW k \in 1..(Len(front) + Len(tip))
      PROVE  \/ k \in 1..Len(front) /\ (front \o tip)[k] = front[k]
             \/ k - Len(front) \in 1..Len(tip) /\ (front \o tip)[k] = tip[k - Len(front)]
  BY <1>5, <1>6
<1>8. Range(front \o tip) = Range(front) \cup Range(tip)
  BY <1>2, <1>4, RangeConcatenation
<1> QED BY ZenonT(60), <1>2, <1>3, <1>4, <1>5, <1>7, <1>8
        DEF child, front, inner, tip, LevelBefore, LevelBelow, LevelAdded

(* Nothing is both before and after another object.                         *)
LEMMA EarlierIsStrict ==
  ASSUME NEW p \in Seq(Nat), NEW q \in Seq(Nat), Earlier(p, q)
  PROVE  ~Earlier(q, p) /\ p # q
<1>1. \A i \in DOMAIN p : p[i] \in Nat
  OBVIOUS
<1>2. \A i \in DOMAIN q : q[i] \in Nat
  OBVIOUS
<1>3. \A i \in DOMAIN p : i \in Nat /\ i >= 1
  OBVIOUS
<1>4. PICK i \in DOMAIN p \cap DOMAIN q : p[i] < q[i] /\ \A j \in 1..(i - 1) : p[j] = q[j]
  BY DEF Earlier
<1>5. p # q
  BY <1>1, <1>4
<1>6. ASSUME NEW k \in DOMAIN q \cap DOMAIN p, q[k] < p[k], \A j \in 1..(k - 1) : q[j] = p[j]
      PROVE  FALSE
  <2>1. i < k => i \in 1..(k - 1)
    BY <1>3, <1>4
  <2>2. k < i => k \in 1..(i - 1)
    BY <1>3, <1>4
  <2>3. i < k \/ k < i \/ i = k
    BY <1>3, <1>4
  <2> QED BY SMTT(40), <1>1, <1>2, <1>4, <1>6, <2>1, <2>2, <2>3
<1> QED BY <1>5, <1>6 DEF Earlier

(* p is inside q, at the child with number i of q or at one before it.      *)
InFirst(p, q, i) == Within(p, q) /\ p[Len(q) + 1] \in Nat /\ p[Len(q) + 1] <= i
InNumber(p, q, i) == Within(p, q) /\ p[Len(q) + 1] = i

(* A child, and what is inside it, is inside the parent at its number.      *)
LEMMA ChildIsInNumber ==
  ASSUME NEW q \in Seq(Nat), NEW i \in Nat
  PROVE  /\ InNumber(Append(q, i), q, i)
         /\ \A p \in Seq(Nat) : Within(p, Append(q, i)) => InNumber(p, q, i)
<1> DEFINE a == Append(q, i)
<1>1. /\ a \in Seq(Nat) /\ Len(a) = Len(q) + 1 /\ a[Len(q) + 1] = i
      /\ \A j \in 1..Len(q) : a[j] = q[j]
  BY AppendProperties
<1>2. Len(q) \in Nat
  OBVIOUS
<1>3. Within(a, q)
  BY WithinAppend
<1> HIDE DEF a
<1>4. ASSUME NEW p \in Seq(Nat), Within(p, a) PROVE InNumber(p, q, i)
  <2>1. Len(a) < Len(p) /\ \A j \in 1..Len(a) : p[j] = a[j]
    BY <1>1, <1>4, WithinIs
  <2>2. Len(p) \in Nat
    OBVIOUS
  <2>3. Len(q) < Len(p) /\ \A j \in 1..Len(q) : p[j] = q[j]
    BY SMTT(40), <1>1, <1>2, <2>1, <2>2
  <2>4. Within(p, q)
    BY <2>3, WithinIs
  <2>5. p[Len(q) + 1] = i
    BY <1>1, <1>2, <2>1
  <2> QED BY <2>4, <2>5 DEF InNumber
<1> QED BY <1>1, <1>3, <1>4 DEF InNumber, a

(* What is inside a child is before what is inside a later one.             *)
LEMMA EarlierChild ==
  ASSUME NEW q \in Seq(Nat), NEW i \in Nat, NEW p \in Seq(Nat), NEW r \in Seq(Nat),
         InFirst(p, q, i - 1), InNumber(r, q, i)
  PROVE  Earlier(p, r)
<1> DEFINE n == Len(q) + 1
<1>1. Len(q) \in Nat /\ Len(p) \in Nat /\ Len(r) \in Nat
  OBVIOUS
<1>2. Len(q) < Len(p) /\ \A j \in 1..Len(q) : p[j] = q[j]
  BY WithinIs DEF InFirst
<1>3. Len(q) < Len(r) /\ \A j \in 1..Len(q) : r[j] = q[j]
  BY WithinIs DEF InNumber
<1>4. p[n] < r[n]
  BY DEF InFirst, InNumber
<1>5. n \in DOMAIN p \cap DOMAIN r
  BY <1>1, <1>2, <1>3
<1>6. \A j \in 1..(n - 1) : p[j] = r[j]
  BY <1>1, <1>2, <1>3
<1> HIDE DEF n
<1> QED BY <1>4, <1>5, <1>6 DEF Earlier

(* The paths of a sequence of objects come in the order of the tree.        *)
InOrder(t, s) ==
  \A j, k \in 1..Len(s) : j < k => Earlier(Path(t, s[j]), Path(t, s[k]))

(* The objects of a level stand in it in the order of the tree.             *)
LEMMA LevelInOrder ==
  ASSUME NEW t, NEW h, NEW top, Rooted(t, h, top), NEW level, Level(t, level)
  PROVE  \A at \in Places(t) : InOrder(t, level[at])
<1> DEFINE P(o) == Path(t, o)
           First(at) == \A k \in 1..Len(level[at]) : InFirst(P(level[at][k]), P(at[1]), at[2])
           S == {at \in Places(t) : First(at) /\ InOrder(t, level[at])}
<1>1. Layered(t, h) /\ t.group \subseteq Objects(t)
  BY DEF Rooted
<1>2. TreePaths(t)
  BY PathsOfTree
<1>3. \A o \in Objects(t) : P(o) \in Seq(Nat)
  BY <1>2 DEF TreePaths
<1> HIDE DEF P
<1>4. ASSUME NEW at \in Places(t), at[2] = 0 PROVE First(at) /\ InOrder(t, level[at])
  <2>1. level[at] = <<>>
    BY <1>4 DEF Level
  <2>2. Len(level[at]) = 0
    BY <2>1
  <2> QED BY SMTT(40), <2>2 DEF InOrder
<1>5. ASSUME NEW at \in Places(t), at[2] # 0, <<at[1], at[2] - 1>> \in S,
             Through(t, t.children[at[1]][at[2]]) \in S
      PROVE  First(at) /\ InOrder(t, level[at])
  <2> DEFINE o == at[1]
             i == at[2]
             child == t.children[o][i]
             front == LevelBefore(level, at)
             inner == LevelBelow(t, level, at)
             tip == LevelAdded(t, level, at)
             s == level[at]
  <2>1. /\ front \in Seq(t.group) /\ tip \in Seq(t.group) /\ inner \in Seq(t.group)
        /\ Len(s) = Len(front) + Len(tip)
        /\ \A k \in 1..Len(s) :
             \/ k \in 1..Len(front) /\ s[k] = front[k]
             \/ k - Len(front) \in 1..Len(tip) /\ s[k] = tip[k - Len(front)]
    <3>1. at[2] # 0
      BY ZenonT(60), <1>5
    <3> QED BY SMTT(40), <1>1, <3>1, LevelStep
  <2>2. o \in Objects(t) /\ i \in 1..Len(t.children[o]) /\ i \in Nat /\ child \in Objects(t)
    <3>1. /\ at[1] \in Objects(t) /\ at[2] \in 0..Len(t.children[at[1]])
          /\ t.children[at[1]][at[2]] \in Objects(t)
      BY ZenonT(60), <1>1, <1>5, PlaceSteps
    <3>2. Len(t.children[at[1]]) \in Nat
      BY <1>1, <3>1 DEF Layered
    <3> QED BY SMTT(40), <1>5, <3>1, <3>2
  <2>3. P(child) = Append(P(o), i)
    BY <1>2, <2>2 DEF TreePaths, P
  <2>4. /\ \A k \in 1..Len(front) : InFirst(P(front[k]), P(o), i - 1)
        /\ \A j, k \in 1..Len(front) : j < k => Earlier(P(front[j]), P(front[k]))
    BY SMTT(40), <1>5 DEF InOrder, P, LevelBefore
  <2>5. /\ \A k \in 1..Len(inner) : Within(P(inner[k]), P(child))
        /\ \A j, k \in 1..Len(inner) : j < k => Earlier(P(inner[j]), P(inner[k]))
    BY ZenonT(60), <1>5 DEF InOrder, P, Through, InFirst, LevelBelow
  <2>12. tip = IF child \in t.group THEN <<child>> ELSE inner
    BY DEF LevelAdded
  <2> HIDE DEF o, i, child, front, inner, tip, s
  <2>6. \A q \in Seq(t.group) : Len(q) \in Nat /\ \A k \in 1..Len(q) : q[k] \in Objects(t)
    BY <1>1
  <2>7. \A k \in 1..Len(tip) : InNumber(P(tip[k]), P(o), i)
    <3>1. P(o) \in Seq(Nat)
      BY <1>3, <2>2
    <3>2. CASE child \in t.group
      <4>1. Len(tip) = 1 /\ tip[1] = child
        BY <2>12, <3>2
      <4>2. InNumber(P(child), P(o), i)
        BY <2>2, <2>3, <3>1, ChildIsInNumber
      <4> QED BY <4>1, <4>2
    <3>3. CASE child \notin t.group
      <4>1. tip = inner
        BY <2>12, <3>3
      <4>2. ASSUME NEW k \in 1..Len(inner) PROVE InNumber(P(inner[k]), P(o), i)
        <5>1. P(inner[k]) \in Seq(Nat) /\ Within(P(inner[k]), Append(P(o), i))
          BY <1>3, <2>1, <2>3, <2>5, <2>6
        <5> QED BY <2>2, <3>1, <5>1, ChildIsInNumber
      <4> QED BY <4>1, <4>2
    <3> QED BY <3>2, <3>3
  <2>8. \A j, k \in 1..Len(tip) : j < k => Earlier(P(tip[j]), P(tip[k]))
    <3>1. CASE child \in t.group
      <4>1. Len(tip) = 1
        BY <2>12, <3>1
      <4> QED BY <4>1
    <3>2. CASE child \notin t.group
      BY <2>5, <2>12, <3>2
    <3> QED BY <3>1, <3>2
  <2>9. \A k \in 1..Len(s) : InFirst(P(s[k]), P(o), i)
    <3> TAKE k \in 1..Len(s)
    <3>1. CASE k \in 1..Len(front) /\ s[k] = front[k]
      BY <2>2, <2>4, <3>1 DEF InFirst
    <3>2. CASE k - Len(front) \in 1..Len(tip) /\ s[k] = tip[k - Len(front)]
      BY <2>2, <2>7, <3>2 DEF InFirst, InNumber
    <3> QED BY <2>1, <3>1, <3>2
  <2>10. ASSUME NEW j \in 1..Len(s), NEW k \in 1..Len(s), j < k
         PROVE  Earlier(P(s[j]), P(s[k]))
    <3>1. Len(front) \in Nat /\ Len(tip) \in Nat
      BY <2>1
    <3>2. CASE k \in 1..Len(front) /\ s[k] = front[k]
      <4>1. j \in 1..Len(front) /\ ~(j - Len(front) \in 1..Len(tip))
        BY <2>10, <3>1, <3>2
      <4> QED BY <2>1, <2>4, <2>10, <3>2, <4>1
    <3>3. CASE /\ k - Len(front) \in 1..Len(tip) /\ s[k] = tip[k - Len(front)]
               /\ j \in 1..Len(front) /\ s[j] = front[j]
      <4>1. InFirst(P(s[j]), P(o), i - 1) /\ InNumber(P(s[k]), P(o), i)
        BY <2>4, <2>7, <3>3
      <4>2. s[j] \in Objects(t) /\ s[k] \in Objects(t)
        BY <2>1, <2>6, <3>3
      <4>3. P(s[j]) \in Seq(Nat) /\ P(s[k]) \in Seq(Nat) /\ P(o) \in Seq(Nat)
        BY <1>3, <2>2, <4>2
      <4> QED BY <2>2, <4>1, <4>3, EarlierChild
    <3>4. CASE /\ k - Len(front) \in 1..Len(tip) /\ s[k] = tip[k - Len(front)]
               /\ j - Len(front) \in 1..Len(tip) /\ s[j] = tip[j - Len(front)]
      <4>1. j - Len(front) < k - Len(front)
        BY <2>10, <3>1
      <4> QED BY <2>8, <3>4, <4>1
    <3> QED BY <2>1, <3>2, <3>3, <3>4
  <2>11. InOrder(t, s)
    BY <2>10 DEF InOrder, P
  <2> QED BY <2>9, <2>11 DEF s, o, i
<1> HIDE DEF First
<1>6. \A at \in Places(t) :
        (at[2] # 0 => /\ <<at[1], at[2] - 1>> \in S
                      /\ Through(t, t.children[at[1]][at[2]]) \in S) => at \in S
  BY <1>4, <1>5
<1>7. Places(t) \subseteq S
  <2> HIDE DEF S
  <2> QED BY <1>1, <1>6, PlaceInduction
<1> QED BY <1>7

(* The objects of a level have the same navigable object around them.       *)
LEMMA LevelHasNear ==
  ASSUME NEW t, NEW h, NEW top, Rooted(t, h, top), NEW level, Level(t, level),
         NEW near, ParentSearch(t, near)
  PROVE  \A at \in Places(t) : \A c \in Range(level[at]) :
           near[c] = IF at[1] \in t.group THEN at[1] ELSE near[at[1]]
<1> DEFINE Around(o) == IF o \in t.group THEN o ELSE near[o]
           Near(at) == \A c \in Range(level[at]) : near[c] = Around(at[1])
           S == {at \in Places(t) : Near(at)}
<1>1. Layered(t, h)
  BY DEF Rooted
<1>2. ASSUME NEW at \in Places(t), at[2] = 0 PROVE Near(at)
  <2>1. level[at] = <<>>
    BY <1>2 DEF Level
  <2>2. Range(level[at]) = {}
    BY <2>1 DEF Range
  <2> QED BY SMTT(40), <2>2
<1>3. ASSUME NEW at \in Places(t), at[2] # 0, <<at[1], at[2] - 1>> \in S,
             Through(t, t.children[at[1]][at[2]]) \in S
      PROVE  Near(at)
  <2> DEFINE o == at[1]
             child == t.children[o][at[2]]
             front == LevelBefore(level, at)
             inner == LevelBelow(t, level, at)
             tip == LevelAdded(t, level, at)
  <2>1. Range(level[at]) = Range(front) \cup Range(tip)
    BY <1>1, <1>3, LevelStep
  <2>2. o \in Objects(t) /\ child \in Objects(t) /\ o # NoObj /\ t.parent[child] = o
    <3>1. /\ o \in Objects(t) /\ at[2] \in 0..Len(t.children[o]) /\ child \in Objects(t)
      BY SMTT(40), <1>1, <1>3, PlaceSteps
    <3>2. Len(t.children[o]) \in Nat
      BY SMTT(40), <1>1, <3>1 DEF Layered
    <3>3. at[2] \in 1..Len(t.children[o])
      BY <1>3, <3>1, <3>2
    <3> QED BY SMTT(40), <3>1, <3>3 DEF Rooted
  <2>3. near[child] = Around(o)
    BY SMTT(40), <2>2 DEF ParentSearch
  <2>4. \A c \in Range(front) : near[c] = Around(o)
    BY SMTT(40), <1>3 DEF LevelBefore
  <2>5. \A c \in Range(inner) : near[c] = Around(child)
    BY ZenonT(60), <1>3 DEF LevelBelow, Through
  <2>6. tip = IF child \in t.group THEN <<child>> ELSE inner
    BY DEF LevelAdded
  <2> HIDE DEF child, front, inner, tip, o
  <2>7. \A c \in Range(tip) : near[c] = Around(o)
    <3>1. CASE child \in t.group
      <4>1. Range(tip) = {child}
        BY <2>6, <3>1, OneInSeq
      <4> QED BY <2>3, <4>1
    <3>2. CASE child \notin t.group
      BY <2>3, <2>5, <2>6, <3>2
    <3> QED BY <3>1, <3>2
  <2> QED BY <2>1, <2>4, <2>7 DEF o
<1> HIDE DEF Near
<1>4. \A at \in Places(t) :
        (at[2] # 0 => /\ <<at[1], at[2] - 1>> \in S
                      /\ Through(t, t.children[at[1]][at[2]]) \in S) => at \in S
  BY <1>2, <1>3
<1>5. Places(t) \subseteq S
  <2> HIDE DEF S
  <2> QED BY <1>1, <1>4, PlaceInduction
<1> QED BY <1>5 DEF Near

(* The level of an object has the levels of its children. *)
LEMMA LevelHasChildren ==
  ASSUME NEW t, NEW h, Layered(t, h), NEW level, Level(t, level)
  PROVE  \A at \in Places(t) : \A m \in 1..at[2] :
           LET child == t.children[at[1]][m]
           IN  (IF child \in t.group THEN {child} ELSE Range(level[Through(t, child)]))
                 \subseteq Range(level[at])
<1> DEFINE Held(c) == IF c \in t.group THEN {c} ELSE Range(level[Through(t, c)])
           Has(at) == \A m \in 1..at[2] : Held(t.children[at[1]][m]) \subseteq Range(level[at])
           S == {at \in Places(t) : Has(at)}
<1>1. ASSUME NEW at \in Places(t), at[2] = 0 PROVE Has(at)
  BY <1>1
<1>2. ASSUME NEW at \in Places(t), at[2] # 0, <<at[1], at[2] - 1>> \in S
      PROVE  Has(at)
  <2> DEFINE C == t.children[at[1]]
             child == C[at[2]]
             front == LevelBefore(level, at)
             tip == LevelAdded(t, level, at)
  <2>1. Range(level[at]) = Range(front) \cup Range(tip)
    BY <1>2, LevelStep
  <2>2. at[2] \in Nat
    <3>1. at[1] \in Objects(t) /\ at[2] \in 0..Len(t.children[at[1]])
      BY PlaceSteps
    <3>2. Len(t.children[at[1]]) \in Nat
      BY <3>1 DEF Layered
    <3> QED BY <3>1, <3>2
  <2>3. \A m \in 1..(at[2] - 1) : Held(C[m]) \subseteq Range(front)
    BY <1>2 DEF LevelBefore
  <2>4. tip = IF child \in t.group THEN <<child>> ELSE level[Through(t, child)]
    BY DEF LevelAdded, LevelBelow
  <2> HIDE DEF child, C, front, tip
  <2>5. Held(child) = Range(tip)
    BY <2>4, OneInSeq
  <2> HIDE DEF Held
  <2>6. ASSUME NEW m \in 1..at[2] PROVE Held(C[m]) \subseteq Range(level[at])
    <3>1. m \in 1..(at[2] - 1) \/ m = at[2]
      BY <2>2
    <3> QED BY <2>1, <2>3, <2>5, <3>1 DEF child
  <2> QED BY <2>6 DEF C
<1> HIDE DEF Has
<1>3. \A at \in Places(t) :
        (at[2] # 0 => /\ <<at[1], at[2] - 1>> \in S
                      /\ Through(t, t.children[at[1]][at[2]]) \in S) => at \in S
  BY <1>1, <1>2
<1>4. Places(t) \subseteq S
  <2> HIDE DEF S
  <2> QED BY <1>3, PlaceInduction
<1> QED BY <1>4 DEF Has

(* The level of a navigable object is all that has it nearest. *)
LEMMA LevelIsNear ==
  ASSUME NEW t, NEW h, NEW top, Rooted(t, h, top), NEW level, Level(t, level),
         NEW near, ParentSearch(t, near), NEW b \in t.group
  PROVE  Range(level[Through(t, b)]) = {c \in t.group : near[c] = b}
<1> DEFINE O == Objects(t)
           Whole(o) == Range(level[Through(t, o)])
           Held(c) == IF c \in t.group THEN {c} ELSE Whole(c)
           Parent(o) == t.parent[o]
<1>1. Layered(t, h) /\ t.group \subseteq O /\ NoObj \notin O
  BY DEF Rooted
<1>2. b \in O /\ Through(t, b) \in Places(t) /\ Through(t, b)[1] = b
  BY <1>1, PlaceSteps DEF Through
<1>3. Whole(b) \subseteq {c \in t.group : near[c] = b}
  <2>1. level[Through(t, b)] \in Seq(t.group)
    BY <1>2 DEF Level
  <2>2. Whole(b) \subseteq t.group
    BY <2>1, RangeOfSeq
  <2>3. \A c \in Whole(b) : near[c] = b
    BY <1>2, LevelHasNear
  <2> QED BY SMTT(40), <2>2, <2>3
<1>4. PICK depth : Depths(t, depth)
  BY RootedDepths
<1>5. depth \in [O -> Nat] /\ \A o \in O : Parent(o) # NoObj => depth[Parent(o)] < depth[o]
  BY <1>4 DEF Depths
<1>6. \A o \in O : near[o] = IF Parent(o) = NoObj \/ Parent(o) \in t.group THEN Parent(o)
                             ELSE near[Parent(o)]
  BY DEF ParentSearch
<1>7. ASSUME NEW o \in O, Parent(o) # NoObj
      PROVE  Parent(o) \in O /\ Held(o) \subseteq Whole(Parent(o))
  <2> DEFINE p == Parent(o)
  <2>1. PICK i \in 1..Len(t.children[p]) : p \in O /\ t.children[p][i] = o
    BY <1>7 DEF Rooted
  <2>2. Through(t, p) \in Places(t) /\ Through(t, p)[1] = p
        /\ Through(t, p)[2] = Len(t.children[p])
    BY <1>1, <2>1, PlaceSteps DEF Through
  <2> HIDE DEF p
  <2>3. Held(o) \subseteq Range(level[Through(t, p)])
    <3> DEFINE at == Through(t, p)
               child == t.children[at[1]][i]
    <3>1. at \in Places(t) /\ i \in 1..at[2] /\ child = o
      BY <2>1, <2>2
    <3>2. Held(child) \subseteq Range(level[at])
      BY <1>1, <3>1, LevelHasChildren
    <3> HIDE DEF at, child
    <3> QED BY <3>1, <3>2 DEF at
  <2> QED BY <2>1, <2>3 DEF p
<1> HIDE DEF O, Whole, Held, Parent
<1> DEFINE S == {o \in O : near[o] # NoObj => Held(o) \subseteq Whole(near[o])}
<1>8. ASSUME NEW o \in O, \A y \in O : depth[y] < depth[o] => y \in S
      PROVE  o \in S
  <2> SUFFICES ASSUME near[o] # NoObj PROVE Held(o) \subseteq Whole(near[o])
    OBVIOUS
  <2>1. Parent(o) # NoObj /\ Parent(o) \in O /\ Held(o) \subseteq Whole(Parent(o))
    BY <1>6, <1>7
  <2>2. CASE Parent(o) \in t.group
    BY <1>6, <2>1, <2>2
  <2>3. CASE Parent(o) \notin t.group
    <3>1. near[o] = near[Parent(o)] /\ Parent(o) \in S
      BY <1>5, <1>6, <1>8, <2>1, <2>3
    <3>2. Held(Parent(o)) = Whole(Parent(o))
      BY <2>3 DEF Held
    <3> QED BY <2>1, <3>1, <3>2
  <2> QED BY <2>2, <2>3
<1> HIDE DEF S
<1>9. O \subseteq S
  BY <1>5, <1>8, Smaller
<1>10. ASSUME NEW c \in t.group, near[c] = b PROVE c \in Whole(b)
  <2>1. c \in O /\ b # NoObj /\ Held(c) = {c}
    BY <1>1, <1>2 DEF Held
  <2> QED BY <1>9, <1>10, <2>1 DEF S
<1>11. Whole(b) = {c \in t.group : near[c] = b}
  BY <1>3, <1>10 DEF Whole
<1> QED BY <1>11 DEF Whole

-----------------------------------------------------------------------------
(* What the searches find in a level *)

(* L is A and then B. *)
Joined(A, B, L) ==
  /\ Len(A) \in Nat /\ Len(B) \in Nat /\ Len(L) = Len(A) + Len(B)
  /\ \A k \in 1..Len(A) : L[k] = A[k]
  /\ \A k \in 1..Len(B) : L[Len(A) + k] = B[k]

(* The level of a place joins that of the place before it and what it adds. *)
LEMMA LevelJoined ==
  ASSUME NEW t, NEW h, Layered(t, h), NEW level, Level(t, level),
         NEW at \in Places(t), at[2] # 0
  PROVE  Joined(LevelBefore(level, at), LevelAdded(t, level, at), level[at])
<1> DEFINE A == LevelBefore(level, at)
           B == LevelAdded(t, level, at)
<1>1. A \in Seq(t.group) /\ B \in Seq(t.group) /\ level[at] = A \o B
  BY LevelStep
<1> HIDE DEF A, B
<1>2. /\ Len(A \o B) = Len(A) + Len(B) /\ Len(A) \in Nat /\ Len(B) \in Nat
      /\ \A k \in 1..(Len(A) + Len(B)) : (A \o B)[k] = IF k <= Len(A) THEN A[k] ELSE B[k - Len(A)]
  BY <1>1, ConcatProperties
<1>3. \A k \in 1..Len(A) : (A \o B)[k] = A[k]
  BY <1>2
<1>4. ASSUME NEW k \in 1..Len(B) PROVE (A \o B)[Len(A) + k] = B[k]
  <2>1. /\ Len(A) + k \in 1..(Len(A) + Len(B)) /\ ~(Len(A) + k <= Len(A))
        /\ (Len(A) + k) - Len(A) = k
    BY <1>2
  <2> QED BY <1>2, <2>1
<1> QED BY <1>1, <1>2, <1>3, <1>4 DEF Joined, A, B

(* ENTER finds the first of the level. *)
LEMMA ChildIsFirst ==
  ASSUME NEW t, NEW h, Layered(t, h), NoObj \notin t.group, NEW level, Level(t, level),
         NEW search, ChildSearch(t, search)
  PROVE  \A at \in Places(t) :
           search[at] = IF Len(level[at]) = 0 THEN NoObj ELSE level[at][1]
<1> DEFINE Claim(at) == search[at] = IF Len(level[at]) = 0 THEN NoObj ELSE level[at][1]
           S == {at \in Places(t) : Claim(at)}
<1>1. ASSUME NEW at \in Places(t), at[2] = 0 PROVE Claim(at)
  <2>1. level[at] = <<>> /\ search[at] = NoObj
    BY <1>1 DEF Level, ChildSearch
  <2>2. Len(level[at]) = 0
    BY <2>1
  <2> QED BY SMTT(40), <2>1, <2>2
<1>2. ASSUME NEW at \in Places(t), at[2] # 0, <<at[1], at[2] - 1>> \in S,
             Through(t, t.children[at[1]][at[2]]) \in S
      PROVE  Claim(at)
  <2> DEFINE child == t.children[at[1]][at[2]]
             found == search[<<at[1], at[2] - 1>>]
             below == search[Through(t, child)]
             A == LevelBefore(level, at)
             I == LevelBelow(t, level, at)
             B == LevelAdded(t, level, at)
             L == level[at]
  <2>1. Joined(A, B, L)
    BY <1>2, LevelJoined
  <2>2. search[at] = IF found # NoObj THEN found
                     ELSE IF child \in t.group THEN child ELSE below
    BY <1>2 DEF ChildSearch
  <2>3. found = IF Len(A) = 0 THEN NoObj ELSE A[1]
    BY <1>2 DEF LevelBefore
  <2>4. below = IF Len(I) = 0 THEN NoObj ELSE I[1]
    BY <1>2 DEF LevelBelow
  <2>5. A \in Seq(t.group)
    BY <1>2, LevelStep
  <2>6. B = IF child \in t.group THEN <<child>> ELSE I
    BY DEF LevelAdded
  <2> HIDE DEF child, found, below, A, I, B, L
  <2>7. Len(A) # 0 => A[1] # NoObj
    BY <2>5
  <2>8. (IF child \in t.group THEN child ELSE below) = IF Len(B) = 0 THEN NoObj ELSE B[1]
    <3>1. CASE child \in t.group
      BY <2>6, <3>1, OneInSeq
    <3>2. CASE child \notin t.group
      BY <2>4, <2>6, <3>2
    <3> QED BY <3>1, <3>2
  <2>9. search[at] = IF Len(L) = 0 THEN NoObj ELSE L[1]
    <3>1. CASE Len(A) = 0
      <4>1. Len(L) = Len(B) /\ (Len(B) # 0 => L[1] = B[1])
        <5>1. Len(B) # 0 => 1 \in 1..Len(B)
          BY <2>1 DEF Joined
        <5> QED BY <2>1, <3>1, <5>1 DEF Joined
      <4>2. search[at] = IF child \in t.group THEN child ELSE below
        BY <2>2, <2>3, <3>1
      <4> QED BY <2>8, <4>1, <4>2
    <3>2. CASE Len(A) # 0
      <4>1. Len(L) # 0 /\ L[1] = A[1]
        BY <2>1, <3>2 DEF Joined
      <4> QED BY <2>2, <2>3, <2>7, <3>2, <4>1
    <3> QED BY <3>1, <3>2
  <2> QED BY <2>9 DEF L
<1> HIDE DEF Claim
<1>3. \A at \in Places(t) :
        (at[2] # 0 => /\ <<at[1], at[2] - 1>> \in S
                      /\ Through(t, t.children[at[1]][at[2]]) \in S) => at \in S
  BY <1>1, <1>2
<1>4. Places(t) \subseteq S
  <2> HIDE DEF S
  <2> QED BY <1>3, PlaceInduction
<1> QED BY <1>4 DEF Claim

-----------------------------------------------------------------------------
(* What a scan over the objects of L makes of what was found before it: s   *)
(* becomes r.                                                               *)
Forwards(L, f, s, r) ==
  /\ s.found # NoObj => r = s
  /\ s.found = NoObj /\ s.passed => IF Len(L) = 0 THEN r = s ELSE r.found = L[1]
  /\ s.found = NoObj /\ ~s.passed =>
       /\ (\A k \in 1..Len(L) : L[k] # f) => r = s
       /\ \A k \in 1..Len(L) : L[k] = f =>
            IF k = Len(L) THEN r.found = NoObj /\ r.passed ELSE r.found = L[k + 1]

Backwards(L, f, s, r) ==
  /\ s.found # NoObj => r = s
  /\ s.found = NoObj =>
       /\ (\A k \in 1..Len(L) : L[k] # f) =>
            r.found = NoObj /\ r.last = IF Len(L) = 0 THEN s.last ELSE L[Len(L)]
       /\ \A k \in 1..Len(L) : L[k] = f => r.found = IF k = 1 THEN s.last ELSE L[k - 1]

Scanned(forward, L, f, s, r) == IF forward THEN Forwards(L, f, s, r) ELSE Backwards(L, f, s, r)

(* Forwards, a scan over A and then over B is one over both.                *)
LEMMA ForwardsJoined ==
  ASSUME NEW A, NEW B, NEW L, Joined(A, B, L),
         \A k \in 1..Len(L) : L[k] # NoObj,
         \A j, k \in 1..Len(L) : L[j] = L[k] => j = k,
         NEW f, NEW s, NEW q, NEW r, Forwards(A, f, s, q), Forwards(B, f, q, r)
  PROVE  Forwards(L, f, s, r)
<1> DEFINE a == Len(A)
           b == Len(B)
           n == Len(L)
<1>1. /\ a \in Nat /\ b \in Nat /\ n = a + b
      /\ \A k \in 1..a : k \in 1..n /\ L[k] = A[k]
      /\ \A k \in 1..b : a + k \in 1..n /\ L[a + k] = B[k]
  BY DEF Joined
<1>2. \A k \in 1..n : k \in 1..a \/ k - a \in 1..b
  BY <1>1
<1>3. s.found # NoObj => r = s
  BY DEF Forwards
<1>4. ASSUME s.found = NoObj, s.passed
      PROVE  IF n = 0 THEN r = s ELSE r.found = L[1]
  <2>1. CASE a = 0
    <3>1. q = s
      BY <1>4, <2>1 DEF Forwards
    <3>2. IF b = 0 THEN r = s ELSE r.found = B[1]
      BY <1>4, <3>1 DEF Forwards
    <3>3. n = b /\ (b # 0 => L[1] = B[1])
      <4>1. b # 0 => 1 \in 1..b /\ a + 1 = 1
        BY <1>1, <2>1
      <4> QED BY <1>1, <2>1, <4>1
    <3> QED BY <3>2, <3>3
  <2>2. CASE a # 0
    <3>1. q.found = A[1] /\ 1 \in 1..a
      BY <1>1, <1>4, <2>2 DEF Forwards
    <3>2. L[1] = A[1] /\ L[1] # NoObj /\ n # 0
      BY <1>1, <2>2, <3>1
    <3>3. r = q
      BY <3>1, <3>2 DEF Forwards
    <3> QED BY <3>1, <3>2, <3>3
  <2> QED BY <2>1, <2>2
<1>5. ASSUME s.found = NoObj, ~s.passed, \A k \in 1..n : L[k] # f
      PROVE  r = s
  <2>1. (\A k \in 1..a : A[k] # f) /\ (\A k \in 1..b : B[k] # f)
    BY <1>1, <1>5
  <2>2. q = s
    BY <1>5, <2>1 DEF Forwards
  <2> QED BY <1>5, <2>1, <2>2 DEF Forwards
<1>6. ASSUME s.found = NoObj, ~s.passed, NEW k \in 1..n, L[k] = f
      PROVE  IF k = n THEN r.found = NoObj /\ r.passed ELSE r.found = L[k + 1]
  <2>1. CASE k \in 1..a
    <3>1. A[k] = f
      BY <1>1, <1>6, <2>1
    <3>2. IF k = a THEN q.found = NoObj /\ q.passed ELSE q.found = A[k + 1]
      BY <1>6, <2>1, <3>1 DEF Forwards
    <3>3. CASE k = a
      <4>1. IF b = 0 THEN r = q ELSE r.found = B[1]
        BY <3>2, <3>3 DEF Forwards
      <4>2. b # 0 => k # n /\ 1 \in 1..b /\ B[1] = L[k + 1]
        BY <1>1, <3>3
      <4>3. b = 0 => k = n
        BY <1>1, <3>3
      <4> QED BY <3>2, <3>3, <4>1, <4>2, <4>3
    <3>4. CASE k # a
      <4>1. k + 1 \in 1..a /\ k # n
        BY <1>1, <2>1, <3>4
      <4>2. q.found = L[k + 1] /\ q.found # NoObj
        BY <1>1, <3>2, <3>4, <4>1
      <4>3. r = q
        BY <4>2 DEF Forwards
      <4> QED BY <4>1, <4>2, <4>3
    <3> QED BY <3>3, <3>4
  <2>2. CASE k - a \in 1..b
    <3>1. \A j \in 1..a : A[j] # f
      <4> TAKE j \in 1..a
      <4>1. j # k /\ j \in 1..n /\ L[j] = A[j]
        BY <1>1, <2>2
      <4> QED BY <1>6, <4>1
    <3>2. q = s
      BY <1>6, <3>1 DEF Forwards
    <3>3. a + (k - a) = k
      BY <1>1
    <3>4. B[k - a] = f
      BY <1>1, <1>6, <2>2, <3>3
    <3>5. IF k - a = b THEN r.found = NoObj /\ r.passed ELSE r.found = B[(k - a) + 1]
      BY <1>6, <2>2, <3>2, <3>4 DEF Forwards
    <3>6. k - a = b <=> k = n
      BY <1>1
    <3>7. k # n => B[(k - a) + 1] = L[k + 1]
      <4> HAVE k # n
      <4>1. (k - a) + 1 \in 1..b /\ a + ((k - a) + 1) = k + 1
        BY <1>1, <2>2, <3>6
      <4> QED BY <1>1, <4>1
    <3> QED BY <3>5, <3>6, <3>7
  <2> QED BY <1>2, <2>1, <2>2
<1> QED BY <1>3, <1>4, <1>5, <1>6 DEF Forwards

(* Backwards, a scan over A and then over B is one over both.               *)
LEMMA BackwardsJoined ==
  ASSUME NEW A, NEW B, NEW L, Joined(A, B, L),
         \A k \in 1..Len(L) : L[k] # NoObj,
         \A j, k \in 1..Len(L) : L[j] = L[k] => j = k,
         NEW f, NEW s, NEW q, NEW r, Backwards(A, f, s, q), Backwards(B, f, q, r)
  PROVE  Backwards(L, f, s, r)
<1> DEFINE a == Len(A)
           b == Len(B)
           n == Len(L)
<1>1. /\ a \in Nat /\ b \in Nat /\ n = a + b
      /\ \A k \in 1..a : k \in 1..n /\ L[k] = A[k]
      /\ \A k \in 1..b : a + k \in 1..n /\ L[a + k] = B[k]
  BY DEF Joined
<1>2. \A k \in 1..n : k \in 1..a \/ k - a \in 1..b
  BY <1>1
<1>3. s.found # NoObj => r = s
  BY DEF Backwards
<1>4. (a # 0 => a \in 1..a) /\ (b # 0 => b \in 1..b)
  BY <1>1
<1>5. ASSUME s.found = NoObj, \A k \in 1..n : L[k] # f
      PROVE  r.found = NoObj /\ r.last = IF n = 0 THEN s.last ELSE L[n]
  <2>1. (\A k \in 1..a : A[k] # f) /\ (\A k \in 1..b : B[k] # f)
    BY <1>1, <1>5
  <2>2. q.found = NoObj /\ q.last = IF a = 0 THEN s.last ELSE A[a]
    BY <1>5, <2>1 DEF Backwards
  <2>3. r.found = NoObj /\ r.last = IF b = 0 THEN q.last ELSE B[b]
    BY <2>1, <2>2 DEF Backwards
  <2>4. CASE b = 0
    <3>1. n = a /\ (a # 0 => L[n] = A[a])
      BY <1>1, <1>4, <2>4
    <3> QED BY <2>2, <2>3, <2>4, <3>1
  <2>5. CASE b # 0
    <3>1. n # 0 /\ L[n] = B[b]
      BY <1>1, <1>4, <2>5
    <3> QED BY <2>3, <2>5, <3>1
  <2> QED BY <2>4, <2>5
<1>6. ASSUME s.found = NoObj, NEW k \in 1..n, L[k] = f
      PROVE  r.found = IF k = 1 THEN s.last ELSE L[k - 1]
  <2>1. CASE k \in 1..a
    <3>1. A[k] = f
      BY <1>1, <1>6, <2>1
    <3>2. q.found = IF k = 1 THEN s.last ELSE A[k - 1]
      BY <1>6, <2>1, <3>1 DEF Backwards
    <3>3. k # 1 => k - 1 \in 1..a
      BY <1>1, <2>1
    <3>4. q.found = IF k = 1 THEN s.last ELSE L[k - 1]
      BY <1>1, <3>2, <3>3
    <3>5. CASE q.found # NoObj
      BY <3>4, <3>5 DEF Backwards
    <3>6. CASE q.found = NoObj
      <4>1. \A j \in 1..b : B[j] # f
        <5> TAKE j \in 1..b
        <5>1. a + j # k /\ a + j \in 1..n /\ L[a + j] = B[j]
          BY <1>1, <2>1
        <5> QED BY <1>6, <5>1
      <4>2. r.found = NoObj
        BY <3>6, <4>1 DEF Backwards
      <4> QED BY <3>4, <3>6, <4>2
    <3> QED BY <3>5, <3>6
  <2>2. CASE k - a \in 1..b
    <3>1. \A j \in 1..a : A[j] # f
      <4> TAKE j \in 1..a
      <4>1. j # k /\ j \in 1..n /\ L[j] = A[j]
        BY <1>1, <2>2
      <4> QED BY <1>6, <4>1
    <3>2. q.found = NoObj /\ q.last = IF a = 0 THEN s.last ELSE A[a]
      BY <1>6, <3>1 DEF Backwards
    <3>3. a + (k - a) = k
      BY <1>1
    <3>4. B[k - a] = f
      BY <1>1, <1>6, <2>2, <3>3
    <3>5. r.found = IF k - a = 1 THEN q.last ELSE B[(k - a) - 1]
      BY <2>2, <3>2, <3>4 DEF Backwards
    <3>6. CASE k - a = 1
      <4>1. k = a + 1 /\ k - 1 = a /\ (a = 0 <=> k = 1)
        BY <1>1, <3>6
      <4>2. a # 0 => L[k - 1] = A[a]
        BY <1>1, <1>4, <4>1
      <4> QED BY <3>2, <3>5, <3>6, <4>1, <4>2
    <3>7. CASE k - a # 1
      <4>1. (k - a) - 1 \in 1..b /\ a + ((k - a) - 1) = k - 1 /\ k # 1
        BY <1>1, <2>2, <3>7
      <4> QED BY <1>1, <3>5, <3>7, <4>1
    <3> QED BY <3>6, <3>7
  <2> QED BY <1>2, <2>1, <2>2
<1> QED BY <1>3, <1>5, <1>6 DEF Backwards

(* In either direction                                                      *)
LEMMA ScannedJoined ==
  ASSUME NEW A, NEW B, NEW L, Joined(A, B, L),
         \A k \in 1..Len(L) : L[k] # NoObj,
         \A j, k \in 1..Len(L) : L[j] = L[k] => j = k,
         NEW forward, NEW f, NEW s, NEW q, NEW r,
         Scanned(forward, A, f, s, q), Scanned(forward, B, f, q, r)
  PROVE  Scanned(forward, L, f, s, r)
<1>1. CASE forward
  BY <1>1, ForwardsJoined DEF Scanned
<1>2. CASE ~forward
  BY <1>2, BackwardsJoined DEF Scanned
<1> QED BY <1>1, <1>2

(* A scan over no objects leaves what was found.                            *)
LEMMA NothingScanned ==
  ASSUME NEW forward, NEW f, NEW s
  PROVE  Scanned(forward, <<>>, f, s, s)
<1>1. Len(<<>>) = 0
  OBVIOUS
<1> QED BY <1>1 DEF Scanned, Forwards, Backwards

(* A scan over one object visits it.                                        *)
LEMMA OneScanned ==
  ASSUME NEW t, NoObj \notin t.group, NEW child \in t.group, NEW forward, NEW f,
         NEW s \in Scans(t)
  PROVE  Scanned(forward, <<child>>, f, s,
                 IF s.found # NoObj THEN s ELSE Visit(child, f, forward, s))
<1> DEFINE L == <<child>>
           r == IF s.found # NoObj THEN s ELSE Visit(child, f, forward, s)
<1>1. Len(L) = 1 /\ L[1] = child /\ \A k \in 1..Len(L) : k = 1
  OBVIOUS
<1>2. s.passed \in BOOLEAN /\ [s EXCEPT !.passed = s.passed] = s
      /\ \A x : /\ [s EXCEPT !.found = x].found = x
                /\ [s EXCEPT !.passed = x].passed = x
                /\ [s EXCEPT !.passed = x].found = s.found
                /\ [s EXCEPT !.last = x].found = s.found
                /\ [s EXCEPT !.last = x].last = x
  BY DEF Scans
<1> HIDE DEF L
<1>3. CASE forward
  <2>1. CASE s.found # NoObj
    BY <1>3, <2>1 DEF Forwards, Scanned, L
  <2>2. CASE s.found = NoObj /\ s.passed
    <3>1. r.found = L[1]
      BY <1>1, <1>2, <1>3, <2>2 DEF Visit
    <3> HIDE DEF r
    <3>2. Forwards(L, f, s, r)
      BY <1>1, <2>2, <3>1 DEF Forwards
    <3> QED BY <1>3, <3>2 DEF Scanned, r, L
  <2>3. CASE s.found = NoObj /\ ~s.passed
    <3>1. r = [s EXCEPT !.passed = (child = f)]
      BY <1>3, <2>3, Zenon DEF Visit
    <3> HIDE DEF r
    <3>2. child # f => r = s
      <4> HAVE child # f
      <4>1. (child = f) = s.passed
        BY <1>2, <2>3
      <4> QED BY <1>2, <3>1, <4>1, Zenon
    <3>3. child = f => r.found = NoObj /\ r.passed
      BY <1>2, <2>3, <3>1
    <3>4. Forwards(L, f, s, r)
      BY <1>1, <2>3, <3>2, <3>3 DEF Forwards
    <3> QED BY <1>3, <3>4 DEF Scanned, r, L
  <2> QED BY <2>1, <2>2, <2>3
<1>4. CASE ~forward
  <2>1. CASE s.found # NoObj
    BY <1>4, <2>1 DEF Backwards, Scanned, L
  <2>2. CASE s.found = NoObj /\ child = f
    <3>1. r.found = s.last
      BY <1>2, <1>4, <2>2 DEF Visit
    <3> HIDE DEF r
    <3>2. Backwards(L, f, s, r)
      BY <1>1, <2>2, <3>1 DEF Backwards
    <3> QED BY <1>4, <3>2 DEF Scanned, r, L
  <2>3. CASE s.found = NoObj /\ child # f
    <3>1. r = [s EXCEPT !.last = child]
      BY <1>4, <2>3, Zenon DEF Visit
    <3> HIDE DEF r
    <3>2. r.found = NoObj /\ r.last = child
      BY <1>2, <2>3, <3>1
    <3>3. Backwards(L, f, s, r)
      BY <1>1, <2>3, <3>2 DEF Backwards
    <3> QED BY <1>4, <3>3 DEF Scanned, r, L
  <2> QED BY <2>1, <2>2, <2>3
<1> QED BY <1>3, <1>4 DEF L

(* The objects of a level are different navigable ones. *)
LEMMA LevelIsDistinct ==
  ASSUME NEW t, NEW h, NEW top, Rooted(t, h, top), NEW level, Level(t, level),
         NEW at \in Places(t)
  PROVE  /\ level[at] \in Seq(t.group) /\ Len(level[at]) \in Nat
         /\ \A k \in 1..Len(level[at]) : level[at][k] \in t.group /\ level[at][k] # NoObj
         /\ \A j, k \in 1..Len(level[at]) : level[at][j] = level[at][k] => j = k
<1> DEFINE L == level[at]
<1>1. t.group \subseteq Objects(t) /\ NoObj \notin Objects(t)
  BY SMTT(40) DEF Rooted
<1>2. L \in Seq(t.group)
  BY DEF Level
<1>3. InOrder(t, L)
  BY LevelInOrder
<1>4. TreePaths(t)
  BY PathsOfTree
<1> HIDE DEF L
<1>5. \A k \in 1..Len(L) : L[k] \in t.group
  BY <1>2
<1>6. \A k \in 1..Len(L) : Path(t, L[k]) \in Seq(Nat)
  BY <1>1, <1>4, <1>5 DEF TreePaths
<1>7. \A j, k \in 1..Len(L) : j < k => L[j] # L[k]
  <2> TAKE j, k \in 1..Len(L)
  <2> HAVE j < k
  <2>1. Earlier(Path(t, L[j]), Path(t, L[k]))
    BY <1>3 DEF InOrder
  <2>2. Path(t, L[j]) # Path(t, L[k])
    BY <1>6, <2>1, EarlierIsStrict
  <2> QED BY <2>2
<1>8. Len(L) \in Nat
  BY <1>2
<1>9. \A j, k \in 1..Len(L) : L[j] = L[k] => j = k
  BY <1>7, <1>8
<1> QED BY <1>1, <1>2, <1>5, <1>8, <1>9 DEF L

(* The scan of the code is a scan over the level of the place.              *)
LEMMA ScanOfLevel ==
  ASSUME NEW t, NEW h, NEW top, Rooted(t, h, top), NEW level, Level(t, level),
         NEW f, NEW forward, NEW scan, ScanSearch(t, f, forward, scan)
  PROVE  \A at \in Places(t) : \A s \in Scans(t) :
           Scanned(forward, level[at], f, s, scan[at][s])
<1> DEFINE Claim(at) == \A s \in Scans(t) : Scanned(forward, level[at], f, s, scan[at][s])
           S == {at \in Places(t) : Claim(at)}
<1>1. Layered(t, h) /\ NoObj \notin t.group
  BY DEF Rooted
<1>2. ASSUME NEW at \in Places(t), at[2] = 0 PROVE Claim(at)
  <2> SUFFICES ASSUME NEW s \in Scans(t) PROVE Scanned(forward, level[at], f, s, scan[at][s])
    BY ZenonT(60)
  <2>1. level[at] = <<>> /\ scan[at][s] = s
    BY <1>2 DEF Level, ScanSearch
  <2> QED BY <2>1, NothingScanned
<1>3. ASSUME NEW at \in Places(t), at[2] # 0, <<at[1], at[2] - 1>> \in S,
             Through(t, t.children[at[1]][at[2]]) \in S
      PROVE  Claim(at)
  <2> TAKE s \in Scans(t)
  <2> DEFINE child == t.children[at[1]][at[2]]
             back == <<at[1], at[2] - 1>>
             q == scan[back][s]
             A == LevelBefore(level, at)
             I == LevelBelow(t, level, at)
             B == LevelAdded(t, level, at)
             r == scan[at][s]
  <2>1. Joined(A, B, level[at])
    BY <1>1, <1>3, LevelJoined
  <2>2. r = IF q.found # NoObj THEN q
            ELSE IF child \in t.group THEN Visit(child, f, forward, q)
            ELSE scan[Through(t, child)][q]
    BY <1>3 DEF ScanSearch
  <2>3. Scanned(forward, A, f, s, q)
    BY <1>3 DEF LevelBefore
  <2>4. q \in Scans(t)
    <3>1. back \in Places(t)
      BY <1>1, <1>3, PlaceSteps
    <3> QED BY SMTT(40), <3>1 DEF ScanSearch
  <2>5. \A x \in Scans(t) : Scanned(forward, I, f, x, scan[Through(t, child)][x])
    BY <1>3 DEF LevelBelow
  <2>6. B = IF child \in t.group THEN <<child>> ELSE I
    BY DEF LevelAdded
  <2>7. /\ \A k \in 1..Len(level[at]) : level[at][k] # NoObj
        /\ \A j, k \in 1..Len(level[at]) : level[at][j] = level[at][k] => j = k
    BY LevelIsDistinct
  <2> HIDE DEF child, back, q, A, I, B, r
  <2>8. Scanned(forward, B, f, q, r)
    <3>1. CASE child \in t.group
      <4>1. r = IF q.found # NoObj THEN q ELSE Visit(child, f, forward, q)
        BY <2>2, <3>1
      <4> QED BY <1>1, <2>4, <2>6, <3>1, <4>1, OneScanned
    <3>2. CASE child \notin t.group /\ q.found = NoObj
      BY <2>2, <2>4, <2>5, <2>6, <3>2
    <3>3. CASE q.found # NoObj
      BY <2>2, <3>3 DEF Scanned, Forwards, Backwards
    <3> QED BY <3>1, <3>2, <3>3
  <2>9. Scanned(forward, level[at], f, s, r)
    BY <2>1, <2>3, <2>7, <2>8, ScannedJoined
  <2> QED BY <2>9 DEF r
<1> HIDE DEF Claim
<1>4. \A at \in Places(t) :
        (at[2] # 0 => /\ <<at[1], at[2] - 1>> \in S
                      /\ Through(t, t.children[at[1]][at[2]]) \in S) => at \in S
  BY <1>2, <1>3
<1>5. Places(t) \subseteq S
  <2> HIDE DEF S
  <2> QED BY <1>1, <1>4, PlaceInduction
<1> QED BY <1>5 DEF Claim

NextIn(L, k) == IF k = Len(L) THEN NoObj ELSE L[k + 1]
PrevIn(L, k) == IF k = 1 THEN NoObj ELSE L[k - 1]

(* RIGHT and LEFT go to the neighbours in the level of the nearest object   *)
(* around.                                                                  *)
LEMMA SiblingIsNeighbour ==
  ASSUME NEW t, NEW h, NEW top, Rooted(t, h, top), NEW level, Level(t, level),
         NEW b \in t.group, NEW k \in 1..Len(level[Through(t, b)])
  PROVE  LET L == level[Through(t, b)]
         IN  /\ scan_subtree_focus_sequence(t, b, L[k], TRUE) = NextIn(L, k)
             /\ scan_subtree_focus_sequence(t, b, L[k], FALSE) = PrevIn(L, k)
<1> DEFINE L == level[Through(t, b)]
           start == Scan(NoObj, NoObj, FALSE)
           at == Through(t, b)
           f == L[k]
<1>1. Layered(t, h) /\ b \in Objects(t)
  BY DEF Rooted
<1>2. at \in Places(t)
  BY <1>1, PlaceSteps
<1>3. /\ start \in Scans(t)
      /\ start.found = NoObj /\ start.last = NoObj /\ ~start.passed
  BY DEF Scan, Scans
<1>4. PICK forth : ScanSearch(t, f, TRUE, forth)
  BY <1>1, ScanSearched
<1>5. PICK back : ScanSearch(t, f, FALSE, back)
  BY <1>1, ScanSearched
<1>6. scan_subtree_focus_sequence(t, b, f, TRUE) = forth[at][start].found
  BY <1>1, <1>4 DEF ScanSearch
<1>7. scan_subtree_focus_sequence(t, b, f, FALSE) = back[at][start].found
  BY <1>1, <1>5 DEF ScanSearch
<1>8. Forwards(L, f, start, forth[at][start])
  <2>1. Scanned(TRUE, L, f, start, forth[at][start])
    BY <1>2, <1>3, <1>4, ScanOfLevel
  <2> QED BY <2>1 DEF Scanned
<1>9. Backwards(L, f, start, back[at][start])
  <2>1. Scanned(FALSE, L, f, start, back[at][start])
    BY <1>2, <1>3, <1>5, ScanOfLevel
  <2> QED BY <2>1 DEF Scanned
<1> HIDE DEF start, at
<1>10. forth[at][start].found = NextIn(L, k)
  BY <1>3, <1>8 DEF Forwards, NextIn
<1>11. back[at][start].found = PrevIn(L, k)
  BY <1>3, <1>9 DEF Backwards, PrevIn
<1> QED BY <1>6, <1>7, <1>10, <1>11

-----------------------------------------------------------------------------
(* The searches and the order of the tree *)

FirstOf(ps) == {p \in ps : \A q \in ps \ {p} : Earlier(p, q)}
LastOf(ps) == {p \in ps : \A q \in ps \ {p} : Earlier(q, p)}

(* The first and the last of paths that are numbered in the order of the tree *)
LEMMA Ends ==
  ASSUME NEW s, NEW a \in Nat, NEW b \in Nat, a <= b,
         \A j \in a..b : s[j] \in Seq(Nat),
         \A j, k \in a..b : j < k => Earlier(s[j], s[k])
  PROVE  LET ps == {s[j] : j \in a..b}
         IN  FirstOf(ps) = {s[a]} /\ LastOf(ps) = {s[b]}
<1> DEFINE ps == {s[j] : j \in a..b}
<1>1. a \in a..b /\ b \in a..b
  OBVIOUS
<1>2. \A j, k \in a..b : j < k \/ k < j \/ j = k
  OBVIOUS
<1>3. \A j, k \in a..b : j < k => ~Earlier(s[k], s[j]) /\ s[j] # s[k]
  BY EarlierIsStrict
<1>4. \A j \in a..b : j # a => a < j
  OBVIOUS
<1>5. \A j \in a..b : j # b => j < b
  OBVIOUS
<1>6. s[a] \in ps /\ s[b] \in ps /\ \A p \in ps : \E j \in a..b : p = s[j]
  BY <1>1
<1> HIDE DEF ps
<1>7. FirstOf(ps) = {s[a]}
  <2>1. \A q \in ps \ {s[a]} : Earlier(s[a], q)
    BY <1>1, <1>4, <1>6
  <2>2. \A p \in ps : p # s[a] => ~Earlier(p, s[a])
    BY SMTT(40), <1>1, <1>3, <1>4, <1>6
  <2> QED BY <1>6, <2>1, <2>2 DEF FirstOf
<1>8. LastOf(ps) = {s[b]}
  <2>1. \A q \in ps \ {s[b]} : Earlier(q, s[b])
    BY SMTT(40), <1>1, <1>5, <1>6
  <2>2. \A p \in ps : p # s[b] => ~Earlier(s[b], p)
    BY <1>1, <1>3, <1>5, <1>6
  <2> QED BY <1>6, <2>1, <2>2 DEF LastOf
<1> QED BY <1>7, <1>8 DEF ps

Named(t, ps) == IF ps = {} THEN NoObj ELSE CHOOSE c \in t.group : Path(t, c) \in ps

(* A path names the object that has it.                                     *)
LEMMA NamedOne ==
  ASSUME NEW t, NEW h, NEW top, Rooted(t, h, top), NEW o \in t.group
  PROVE  Named(t, {Path(t, o)}) = o
<1>1. t.group \subseteq Objects(t)
  BY DEF Rooted
<1>2. \A c \in t.group : Path(t, c) \in {Path(t, o)} <=> c = o
  BY <1>1, PathsDiffer
<1>3. {Path(t, o)} # {}
  OBVIOUS
<1> QED BY <1>2, <1>3 DEF Named

PathsFrom(t, L, a, b) == {Path(t, L[j]) : j \in a..b}

(* The paths of the objects from one place of a level to another: their     *)
(* first and their last are named by the objects at these places.           *)
LEMMA LevelEnds ==
  ASSUME NEW t, NEW h, NEW top, Rooted(t, h, top), NEW level, Level(t, level),
         NEW at \in Places(t), NEW a \in Nat, NEW b \in Nat, 1 <= a, a <= b, b <= Len(level[at])
  PROVE  LET ps == PathsFrom(t, level[at], a, b)
         IN  Named(t, FirstOf(ps)) = level[at][a] /\ Named(t, LastOf(ps)) = level[at][b]
<1> DEFINE L == level[at]
           s == [j \in a..b |-> Path(t, L[j])]
           ps == PathsFrom(t, L, a, b)
<1>1. /\ Len(L) \in Nat /\ \A k \in 1..Len(L) : L[k] \in t.group
      /\ InOrder(t, L) /\ 1 <= a /\ b <= Len(L)
  BY LevelIsDistinct, LevelInOrder
<1>2. TreePaths(t) /\ t.group \subseteq Objects(t)
  BY PathsOfTree DEF Rooted
<1> HIDE DEF L
<1>3. \A j \in a..b : j \in 1..Len(L)
  BY <1>1
<1>4. \A j \in a..b : s[j] = Path(t, L[j])
  OBVIOUS
<1>5. ps = {s[j] : j \in a..b}
  BY DEF PathsFrom
<1> HIDE DEF s
<1>6. \A j \in a..b : s[j] \in Seq(Nat)
  BY <1>1, <1>2, <1>3, <1>4 DEF TreePaths
<1>7. \A j, k \in a..b : j < k => Earlier(s[j], s[k])
  BY <1>1, <1>3, <1>4 DEF InOrder
<1>8. FirstOf(ps) = {s[a]} /\ LastOf(ps) = {s[b]}
  <2>1. LET qs == {s[j] : j \in a..b} IN FirstOf(qs) = {s[a]} /\ LastOf(qs) = {s[b]}
    BY ZenonT(60), <1>6, <1>7, Ends
  <2> QED BY <1>5, <2>1, Zenon
<1>9. a \in a..b /\ b \in a..b
  OBVIOUS
<1>10. L[a] \in t.group /\ L[b] \in t.group
  BY <1>1, <1>3, <1>9
<1> HIDE DEF ps
<1>11. Named(t, FirstOf(ps)) = L[a] /\ Named(t, LastOf(ps)) = L[b]
  BY <1>4, <1>8, <1>9, <1>10, NamedOne
<1> QED BY <1>11 DEF L, ps

(* Without objects there is neither.                                        *)
LEMMA NoEnds ==
  ASSUME NEW t
  PROVE  Named(t, FirstOf({})) = NoObj /\ Named(t, LastOf({})) = NoObj
BY DEF Named, FirstOf, LastOf

(* The paths around which exactly o and what is around o lie are those of   *)
(* the level of o.                                                          *)
LEMMA LevelPaths ==
  ASSUME NEW t, NEW h, NEW top, Rooted(t, h, top), NEW level, Level(t, level),
         NEW near, ParentSearch(t, near), NEW o \in t.group
  PROVE  LET L == level[Through(t, o)]
         IN  {p \in {Path(t, c) : c \in t.group} :
                AroundOf(t, p) = AroundOf(t, Path(t, o)) \cup {Path(t, o)}}
               = PathsFrom(t, L, 1, Len(L))
<1> DEFINE L == level[Through(t, o)]
           P(c) == Path(t, c)
           A(p) == AroundOf(t, p)
<1>1. \A c \in t.group : A(P(c)) = A(P(o)) \cup {P(o)} <=> near[c] = o
  <2>1. t.group \subseteq Objects(t)
    BY DEF Rooted
  <2> QED BY <2>1, AroundBoth
<1>2. Range(L) = {c \in t.group : near[c] = o}
  BY LevelIsNear
<1>3. Layered(t, h) /\ o \in Objects(t)
  BY DEF Rooted
<1>4. L \in Seq(t.group)
  <2>1. Through(t, o) \in Places(t)
    BY <1>3, PlaceSteps
  <2> QED BY <2>1 DEF Level
<1> HIDE DEF L
<1>5. Range(L) = {L[j] : j \in 1..Len(L)}
  BY <1>4, RangeEquality
<1> HIDE DEF P, A
<1>6. {p \in {P(c) : c \in t.group} : A(p) = A(P(o)) \cup {P(o)}} = {P(c) : c \in Range(L)}
  BY <1>1, <1>2
<1>7. {P(c) : c \in Range(L)} = PathsFrom(t, L, 1, Len(L))
  BY <1>5 DEF PathsFrom, P
<1> QED BY <1>6, <1>7 DEF L, P, A

(* ENTER leads to the first of the objects directly inside.                 *)
LEMMA ChildInOrder ==
  ASSUME NEW t, NEW h, NEW top, Rooted(t, h, top), NEW o \in t.group
  PROVE  find_first_focusable_child_dfs(t, o) =
           Named(t, FirstOf({p \in {Path(t, c) : c \in t.group} :
                               AroundOf(t, p) = AroundOf(t, Path(t, o)) \cup {Path(t, o)}}))
<1>1. Layered(t, h) /\ o \in Objects(t) /\ NoObj \notin t.group
  BY DEF Rooted
<1>2. PICK level : Level(t, level)
  BY <1>1, LevelExists
<1>3. PICK search : ChildSearch(t, search)
  BY <1>1, ChildSearched
<1>4. PICK depth : Depths(t, depth)
  BY RootedDepths
<1>5. PICK near : ParentSearch(t, near)
  BY <1>4, ParentSearched
<1> DEFINE at == Through(t, o)
           L == level[at]
           inner == {p \in {Path(t, c) : c \in t.group} :
                       AroundOf(t, p) = AroundOf(t, Path(t, o)) \cup {Path(t, o)}}
<1>6. at \in Places(t)
  BY <1>1, PlaceSteps
<1>7. find_first_focusable_child_dfs(t, o) = IF Len(L) = 0 THEN NoObj ELSE L[1]
  <2>1. search[at] = IF Len(L) = 0 THEN NoObj ELSE L[1]
    BY <1>1, <1>2, <1>3, <1>6, ChildIsFirst
  <2> QED BY <1>1, <1>3, <2>1 DEF ChildSearch
<1>8. inner = PathsFrom(t, L, 1, Len(L))
  BY <1>2, <1>5, LevelPaths
<1>9. Len(L) \in Nat
  BY <1>2, <1>6, LevelIsDistinct
<1>10. Named(t, FirstOf(inner)) = IF Len(L) = 0 THEN NoObj ELSE L[1]
  <2>1. CASE Len(L) = 0
    <3> HIDE DEF inner, L
    <3>1. inner = {}
      BY <1>8, <2>1 DEF PathsFrom
    <3> QED BY <2>1, <3>1, NoEnds
  <2>2. CASE Len(L) # 0
    <3>1. Len(L) \in Nat /\ 1 <= Len(L) /\ 1 \in Nat
      BY <1>9, <2>2
    <3>2. Named(t, FirstOf(PathsFrom(t, L, 1, Len(L)))) = L[1]
      BY <1>2, <1>6, <3>1, LevelEnds
    <3> QED BY <1>8, <2>2, <3>2, Zenon
  <2> QED BY <2>1, <2>2
<1> QED BY <1>7, <1>10

(* ESC leads to the innermost object around.                                *)
LEMMA ParentInOrder ==
  ASSUME NEW t, NEW h, NEW top, Rooted(t, h, top), NEW o \in t.group
  PROVE  find_first_focusable_parent_dfs(t, o) =
           Named(t, {p \in AroundOf(t, Path(t, o)) :
                       \A q \in AroundOf(t, Path(t, o)) : Len(q) <= Len(p)})
<1>1. o \in Objects(t)
  BY DEF Rooted
<1>2. PICK depth : Depths(t, depth)
  BY RootedDepths
<1>3. PICK near : ParentSearch(t, near)
  BY <1>2, ParentSearched
<1> DEFINE A == AroundOf(t, Path(t, o))
           longest == {p \in A : \A q \in A : Len(q) <= Len(p)}
           n == near[o]
<1>4. find_first_focusable_parent_dfs(t, o) = n
  BY <1>1, <1>3 DEF ParentSearch
<1>5. CASE n = NoObj
  <2>1. A = {}
    BY <1>1, <1>3, <1>5, AroundNear
  <2> HIDE DEF A
  <2>2. longest = {}
    BY <2>1
  <2> QED BY <1>4, <1>5, <2>2 DEF Named, A
<1>6. CASE n # NoObj
  <2>1. n \in t.group
    BY <1>1, <1>3, <1>6 DEF ParentSearch
  <2>2. Path(t, n) \in A
    BY <1>1, <1>3, <1>6, AroundNear
  <2>3. \A q \in A : q \in Seq(Nat) /\ (q = Path(t, n) \/ Len(q) < Len(Path(t, n)))
    BY <1>1, <1>3, NearIsLongest
  <2> HIDE DEF A, n
  <2>4. \A q \in A : Len(q) \in Nat
    BY <2>3
  <2>5. longest = {Path(t, n)}
    BY <2>2, <2>3, <2>4
  <2>6. Named(t, longest) = n
    BY <2>1, <2>5, NamedOne
  <2> QED BY <1>4, <2>6 DEF A, n
<1> QED BY <1>5, <1>6

(* RIGHT and LEFT lead to the next and the previous of the objects that have *)
(* the same ones around them.                                               *)
LEMMA SiblingsInOrder ==
  ASSUME NEW t, NEW h, NEW top, Rooted(t, h, top), NEW o \in t.group
  PROVE  LET here == Path(t, o)
             level == IF AroundOf(t, here) = {} THEN {}
                      ELSE {p \in {Path(t, c) : c \in t.group} :
                              AroundOf(t, p) = AroundOf(t, here)}
         IN  /\ FocusableSibling(t, o, TRUE) = Named(t, FirstOf({p \in level : Earlier(here, p)}))
             /\ FocusableSibling(t, o, FALSE) = Named(t, LastOf({p \in level : Earlier(p, here)}))
<1>1. Layered(t, h) /\ o \in Objects(t) /\ NoObj \notin t.group /\ t.group \subseteq Objects(t)
  BY DEF Rooted
<1>2. PICK depth : Depths(t, depth)
  BY RootedDepths
<1>3. PICK near : ParentSearch(t, near)
  BY <1>2, ParentSearched
<1>4. PICK lev : Level(t, lev)
  BY <1>1, LevelExists
<1> DEFINE P(c) == Path(t, c)
           here == P(o)
           paths == {P(c) : c \in t.group}
           level == IF AroundOf(t, here) = {} THEN {}
                    ELSE {p \in paths : AroundOf(t, p) = AroundOf(t, here)}
           after == {p \in level : Earlier(here, p)}
           before == {p \in level : Earlier(p, here)}
           b == near[o]
<1>5. find_first_focusable_parent_dfs(t, o) = b
  BY <1>1, <1>3 DEF ParentSearch
<1>6. CASE b = NoObj
  <2>1. AroundOf(t, here) = {}
    BY <1>1, <1>3, <1>6, AroundNear
  <2>2. level = {}
    BY <2>1
  <2> HIDE DEF level
  <2>3. after = {} /\ before = {}
    BY <2>2
  <2>4. FocusableSibling(t, o, TRUE) = NoObj /\ FocusableSibling(t, o, FALSE) = NoObj
    BY <1>5, <1>6 DEF FocusableSibling
  <2> HIDE DEF after, before
  <2>5. Named(t, FirstOf(after)) = NoObj /\ Named(t, LastOf(before)) = NoObj
    BY <2>3, NoEnds
  <2> QED BY <2>4, <2>5 DEF level, after, before
<1>7. CASE b # NoObj
  <2>1. b \in t.group /\ b \in Objects(t)
    BY <1>1, <1>3, <1>7 DEF ParentSearch
  <2> DEFINE at == Through(t, b)
             M == lev[at]
  <2>2. at \in Places(t)
    BY <1>1, <2>1, PlaceSteps
  <2>3. /\ M \in Seq(t.group) /\ Len(M) \in Nat
        /\ \A k \in 1..Len(M) : M[k] \in t.group
    BY <1>4, <2>2, LevelIsDistinct
  <2>4. InOrder(t, M)
    BY <1>4, <2>2, LevelInOrder
  <2>5. level = PathsFrom(t, M, 1, Len(M))
    <3>1. AroundOf(t, here) = AroundOf(t, P(b)) \cup {P(b)}
      BY <1>1, <1>3, <1>7, AroundNear
    <3>2. {p \in paths : AroundOf(t, p) = AroundOf(t, P(b)) \cup {P(b)}}
            = PathsFrom(t, M, 1, Len(M))
      BY <1>3, <1>4, <2>1, LevelPaths
    <3>3. AroundOf(t, here) # {}
      BY <3>1
    <3> HIDE DEF P, M, here, paths
    <3> QED BY <3>1, <3>2, <3>3
  <2>6. PICK k \in 1..Len(M) : M[k] = o
    <3>1. o \in Range(M)
      BY <1>3, <1>4, <2>1, LevelIsNear
    <3>2. Range(M) = {M[j] : j \in 1..Len(M)}
      BY <2>3, RangeEquality
    <3> QED BY <3>1, <3>2
  <2>7. TreePaths(t)
    BY PathsOfTree
  <2>8. \A j \in 1..Len(M) : P(M[j]) \in Seq(Nat)
    BY <1>1, <2>3, <2>7 DEF TreePaths
  <2>17. \A m \in 1..Len(M) :
           /\ scan_subtree_focus_sequence(t, b, M[m], TRUE) = NextIn(M, m)
           /\ scan_subtree_focus_sequence(t, b, M[m], FALSE) = PrevIn(M, m)
    BY <1>4, <2>1, SiblingIsNeighbour
  <2> HIDE DEF M
  <2>9. \A i, j \in 1..Len(M) : i < j => Earlier(P(M[i]), P(M[j]))
    BY <2>4 DEF InOrder
  <2> HIDE DEF P, level
  <2>10. \A i, j \in 1..Len(M) : Earlier(P(M[i]), P(M[j])) <=> i < j
    <3> TAKE i, j \in 1..Len(M)
    <3>1. i < j \/ j < i \/ i = j
      BY <2>3
    <3>2. j < i => ~Earlier(P(M[i]), P(M[j]))
      BY <2>8, <2>9, EarlierIsStrict
    <3>3. i = j => ~Earlier(P(M[i]), P(M[j]))
      BY <2>8, EarlierIsStrict
    <3> QED BY <2>9, <3>1, <3>2, <3>3
  <2>11. after = PathsFrom(t, M, k + 1, Len(M))
    <3>1. \A j \in 1..Len(M) : Earlier(here, P(M[j])) <=> j \in (k + 1)..Len(M)
      BY <2>3, <2>6, <2>10
    <3>2. \A j \in (k + 1)..Len(M) : j \in 1..Len(M)
      BY <2>3, <2>6
    <3> HIDE DEF here
    <3> QED BY <2>5, <3>1, <3>2 DEF PathsFrom, P
  <2>12. before = PathsFrom(t, M, 1, k - 1)
    <3>1. \A j \in 1..Len(M) : Earlier(P(M[j]), here) <=> j \in 1..(k - 1)
      BY <2>3, <2>6, <2>10
    <3>2. \A j \in 1..(k - 1) : j \in 1..Len(M)
      BY <2>3, <2>6
    <3> HIDE DEF here
    <3> QED BY <2>5, <3>1, <3>2 DEF PathsFrom, P
  <2>13. FocusableSibling(t, o, TRUE) = NextIn(M, k)
    BY <1>5, <1>7, <2>6, <2>17 DEF FocusableSibling
  <2>14. FocusableSibling(t, o, FALSE) = PrevIn(M, k)
    BY <1>5, <1>7, <2>6, <2>17 DEF FocusableSibling
  <2> HIDE DEF after, before
  <2>15. Named(t, FirstOf(after)) = NextIn(M, k)
    <3>1. CASE k = Len(M)
      <4>1. (k + 1)..Len(M) = {}
        BY <2>3, <3>1
      <4>2. after = {}
        BY <2>11, <4>1 DEF PathsFrom
      <4> QED BY <3>1, <4>2, NoEnds DEF NextIn, PrevIn
    <3>2. CASE k # Len(M)
      <4>1. k + 1 \in Nat /\ Len(M) \in Nat /\ 1 <= k + 1 /\ k + 1 <= Len(M) /\ Len(M) <= Len(M)
        BY <2>3, <2>6, <3>2
      <4>2. Named(t, FirstOf(PathsFrom(t, M, k + 1, Len(M)))) = M[k + 1]
        BY <1>4, <2>2, <4>1, LevelEnds DEF M
      <4>3. NextIn(M, k) = M[k + 1]
        BY <3>2 DEF NextIn
      <4> QED BY <2>11, <4>2, <4>3, Zenon
    <3> QED BY <3>1, <3>2
  <2>16. Named(t, LastOf(before)) = PrevIn(M, k)
    <3>1. CASE k = 1
      <4>1. 1..(k - 1) = {}
        BY <3>1
      <4>2. before = {}
        BY <2>12, <4>1 DEF PathsFrom
      <4> QED BY <3>1, <4>2, NoEnds DEF NextIn, PrevIn
    <3>2. CASE k # 1
      <4>1. k - 1 \in Nat /\ 1 \in Nat /\ 1 <= 1 /\ 1 <= k - 1 /\ k - 1 <= Len(M)
        BY <2>3, <2>6, <3>2
      <4>2. Named(t, LastOf(PathsFrom(t, M, 1, k - 1))) = M[k - 1]
        BY <1>4, <2>2, <4>1, LevelEnds DEF M
      <4>3. PrevIn(M, k) = M[k - 1]
        BY <3>2 DEF PrevIn
      <4> QED BY <2>12, <4>2, <4>3, Zenon
    <3> QED BY <3>1, <3>2
  <2>18. /\ FocusableSibling(t, o, TRUE) = Named(t, FirstOf(after))
         /\ FocusableSibling(t, o, FALSE) = Named(t, LastOf(before))
    BY <2>13, <2>14, <2>15, <2>16, Zenon
  <2> QED BY <2>18, Zenon DEF level, after, before, P
<1> QED BY <1>6, <1>7

(* In every tree, from every navigable object *)
THEOREM SearchesInTreeOrder ==
  ASSUME NEW t, NEW h, NEW top, Rooted(t, h, top), NEW o \in t.group
  PROVE  [child |-> find_first_focusable_child_dfs(t, o),
          parent |-> find_first_focusable_parent_dfs(t, o),
          next |-> find_next_focusable_sibling(t, o),
          prev |-> find_prev_focusable_sibling(t, o)] = InTreeOrder(t, o)
<1> DEFINE here == Path(t, o)
           paths == {Path(t, c) : c \in t.group}
           inner == {p \in paths : AroundOf(t, p) = AroundOf(t, here) \cup {here}}
           outer == {p \in AroundOf(t, here) : \A q \in AroundOf(t, here) : Len(q) <= Len(p)}
           level == IF AroundOf(t, here) = {} THEN {}
                    ELSE {p \in paths : AroundOf(t, p) = AroundOf(t, here)}
           after == {p \in level : Earlier(here, p)}
           before == {p \in level : Earlier(p, here)}
<1>1. InTreeOrder(t, o) = [child |-> Named(t, FirstOf(inner)), parent |-> Named(t, outer),
                           next |-> Named(t, FirstOf(after)), prev |-> Named(t, LastOf(before))]
  BY DEF InTreeOrder, Named, FirstOf, LastOf, AroundOf, Within
<1>2. find_first_focusable_child_dfs(t, o) = Named(t, FirstOf(inner))
  BY ChildInOrder
<1>3. find_first_focusable_parent_dfs(t, o) = Named(t, outer)
  BY ParentInOrder
<1>4. /\ FocusableSibling(t, o, TRUE) = Named(t, FirstOf(after))
      /\ FocusableSibling(t, o, FALSE) = Named(t, LastOf(before))
  BY SiblingsInOrder
<1> HIDE DEF inner, outer, after, before
<1> QED BY <1>1, <1>2, <1>3, <1>4 DEF find_next_focusable_sibling, find_prev_focusable_sibling

-----------------------------------------------------------------------------
(* The tree of the page *)

Group(n, buttons) == {content, scr} \cup NavigableOfCards(n) \cup NavigableOfDetails(buttons)

Weight(n, d, o) ==
  CASE o[1] = "tabview_content" -> 15 + n + d
    [] o[1] = "notify_page" -> 13 + n + d
    [] o[1] = "notification_root_cont" -> 11 + n + d
    [] o[1] = "notification_scr" -> 9 + n
    [] o[1] = "scroll_container" -> 7
    [] o[1] \in {"card", "detail"} -> 4
    [] o[1] \in {"text_wrapper", "btn_wrapper", "bottom_bar"} -> 1
    [] OTHER -> 0

(* Around which object an object is drawn, as which of its children         *)
Up(o) ==
  CASE o[1] = "tabview_content" -> NoObj
    [] o[1] = "notify_page" -> content
    [] o[1] = "notification_root_cont" -> page_chain
    [] o[1] = "notification_scr" -> root_cont
    [] o[1] \in {"scroll_container", "detail"} -> scr
    [] o[1] \in {"empty_wrapper", "card"} -> scroll
    [] o[1] \in {"text_wrapper", "btn_wrapper"} -> <<"card", o[2]>>
    [] o[1] = "title" -> <<"text_wrapper", o[2]>>
    [] o[1] = "close" -> <<"btn_wrapper", o[2]>>
    [] o[1] = "bottom_bar" -> <<"detail", o[2]>>
    [] OTHER -> <<"bottom_bar", o[2]>>

ChildNumber(buttons, o) ==
  CASE o[1] = "detail" -> o[2] + 1
    [] o[1] = "card" -> o[2]
    [] o[1] = "btn_wrapper" -> 2
    [] o[1] = "btn_cl" -> buttons[o[2]]
    [] OTHER -> 1

PlacedIn(children, buttons, o) ==
  \A i \in 1..Len(children[o]) :
    Up(children[o][i]) = o /\ ChildNumber(buttons, children[o][i]) = i

HasPlace(children, buttons, o) ==
  /\ Up(o) \in DOMAIN children
  /\ ChildNumber(buttons, o) \in 1..Len(children[Up(o)])
  /\ children[Up(o)][ChildNumber(buttons, o)] = o

(* The numbered objects are a sequence.                                     *)
LEMMA NumberedIs ==
  ASSUME NEW name, NEW n \in Nat
  PROVE  /\ Numbered(name, n) \in Seq({name} \X (1..n))
         /\ Len(Numbered(name, n)) = n
         /\ \A i \in 1..n : Numbered(name, n)[i] = <<name, i>>
BY DEF Numbered

(* A sequence with one object put in front                                  *)
LEMMA FirstThen ==
  ASSUME NEW S, NEW x \in S, NEW rest \in Seq(S)
  PROVE  /\ <<x>> \o rest \in Seq(S) /\ Len(<<x>> \o rest) = 1 + Len(rest)
         /\ (<<x>> \o rest)[1] = x
         /\ \A i \in 2..(1 + Len(rest)) : (<<x>> \o rest)[i] = rest[i - 1]
<1>1. <<x>> \in Seq(S) /\ Len(<<x>>) = 1 /\ <<x>>[1] = x
  OBVIOUS
<1> QED BY <1>1, ConcatProperties

(* Sequences of two objects and of one                                      *)
LEMMA ShortConcat ==
  ASSUME NEW x, NEW y
  PROVE  <<x>> \o <<y>> = <<x, y>> /\ <<>> \o <<y>> = <<y>>
<1> DEFINE S == {x, y}
<1>1. <<x>> \in Seq(S) /\ <<y>> \in Seq(S) /\ <<x, y>> \in Seq(S)
  OBVIOUS
<1>2. <<>> \o <<y>> = <<y>>
  BY <1>1, ConcatEmptySeq
<1>3. <<x>> \o <<y>> = <<x, y>>
  <2>1. <<x>> \o <<y>> \in Seq(S) /\ Len(<<x>> \o <<y>>) = 2
        /\ (<<x>> \o <<y>>)[1] = x /\ (<<x>> \o <<y>>)[2] = y
    <3>1. Len(<<x>>) = 1 /\ Len(<<y>>) = 1 /\ <<x>>[1] = x /\ <<y>>[1] = y
      OBVIOUS
    <3> HIDE DEF S
    <3> QED BY <1>1, <3>1, ConcatProperties
  <2>2. Len(<<x, y>>) = 2 /\ <<x, y>>[1] = x /\ <<x, y>>[2] = y
    OBVIOUS
  <2> HIDE DEF S
  <2>3. \A i \in 1..2 : (<<x>> \o <<y>>)[i] = <<x, y>>[i]
    BY <2>1, <2>2
  <2> QED BY <1>1, <2>1, <2>2, <2>3, SeqEqual
<1> QED BY <1>2, <1>3

(* A screen with cards and details is a tree of its objects. *)
LEMMA PageTree ==
  ASSUME NEW n \in Nat, NEW buttons \in Seq({1, 2})
  PROVE  LET t == Tree(n, buttons)
         IN  \E children, h :
               /\ t = TreeOf(children, Group(n, buttons))
               /\ Group(n, buttons) \subseteq DOMAIN children
               /\ Layered(t, h)
               /\ \A o \in DOMAIN children : h[o] <= 15 + n + Len(buttons)
               /\ NoObj \notin DOMAIN children /\ content \in DOMAIN children
               /\ \A o \in DOMAIN children : PlacedIn(children, buttons, o)
               /\ \A o \in DOMAIN children : o # content => HasPlace(children, buttons, o)
<1> DEFINE d == Len(buttons)
           group == Group(n, buttons)
           plain == {page_chain, root_cont, scroll, empty}
                      \cup ({"text_wrapper", "btn_wrapper"} \X (1..n))
                      \cup ({"bottom_bar"} \X DOMAIN buttons)
           O == (group \cup plain) \ (IF n = 0 THEN {} ELSE {empty})
           Children(o) ==
             CASE o = content -> <<page_chain>>
               [] o = page_chain -> <<root_cont>>
               [] o = root_cont -> <<scr>>
               [] o = scr -> <<scroll>> \o Numbered("detail", Len(buttons))
               [] o = scroll -> IF n = 0 THEN <<empty>> ELSE Numbered("card", n)
               [] o[1] = "card" -> <<<<"text_wrapper", o[2]>>, <<"btn_wrapper", o[2]>>>>
               [] o[1] = "text_wrapper" -> <<<<"title", o[2]>>>>
               [] o[1] = "btn_wrapper" -> <<<<"close", o[2]>>>>
               [] o[1] = "detail" -> <<<<"bottom_bar", o[2]>>>>
               [] o[1] = "bottom_bar" ->
                    (IF buttons[o[2]] = 2 THEN <<<<"btn_ok", o[2]>>>> ELSE <<>>)
                      \o <<<<"btn_cl", o[2]>>>>
               [] OTHER -> <<>>
           children == [o \in O |-> Children(o)]
           h == [o \in O |-> Weight(n, d, o)]
<1>1. Tree(n, buttons) = TreeOf(children, group)
  BY DEF Tree, Group
<1>2. d \in Nat /\ DOMAIN buttons = 1..d /\ \A j \in 1..d : buttons[j] \in {1, 2}
  OBVIOUS
<1>3. group \subseteq O
  BY DEF Group, NavigableOfCards, NavigableOfDetails, content, scr, empty
<1>4. O = {content, scr, page_chain, root_cont, scroll}
            \cup (IF n = 0 THEN {empty} ELSE {})
            \cup ({"card", "title", "close", "text_wrapper", "btn_wrapper"} \X (1..n))
            \cup ({"detail", "btn_cl", "bottom_bar"} \X (1..d))
            \cup {<<"btn_ok", j>> : j \in {i \in 1..d : buttons[i] = 2}}
  BY <1>2 DEF Group, NavigableOfCards, NavigableOfDetails, content, scr, page_chain, root_cont,
              scroll, empty
<1>5. /\ Children(content) = <<page_chain>>
      /\ Children(page_chain) = <<root_cont>>
      /\ Children(root_cont) = <<scr>>
      /\ Children(scr) = <<scroll>> \o Numbered("detail", d)
      /\ Children(scroll) = IF n = 0 THEN <<empty>> ELSE Numbered("card", n)
      /\ Children(empty) = <<>>
  BY DEF content, scr, page_chain, root_cont, scroll, empty
<1>6. \A k : /\ Children(<<"card", k>>) = <<<<"text_wrapper", k>>, <<"btn_wrapper", k>>>>
             /\ Children(<<"text_wrapper", k>>) = <<<<"title", k>>>>
             /\ Children(<<"btn_wrapper", k>>) = <<<<"close", k>>>>
             /\ Children(<<"title", k>>) = <<>>
             /\ Children(<<"close", k>>) = <<>>
  BY DEF content, scr, page_chain, root_cont, scroll, empty
<1>7. \A j : /\ Children(<<"detail", j>>) = <<<<"bottom_bar", j>>>>
             /\ Children(<<"btn_cl", j>>) = <<>>
             /\ Children(<<"btn_ok", j>>) = <<>>
             /\ Children(<<"bottom_bar", j>>) =
                  (IF buttons[j] = 2 THEN <<<<"btn_ok", j>>>> ELSE <<>>) \o <<<<"btn_cl", j>>>>
  BY DEF content, scr, page_chain, root_cont, scroll, empty
<1> HIDE DEF Children
<1>8. \A j : Children(<<"bottom_bar", j>>) =
              IF buttons[j] = 2 THEN <<<<"btn_ok", j>>, <<"btn_cl", j>>>> ELSE <<<<"btn_cl", j>>>>
  BY <1>7, ShortConcat
<1>9. /\ Len(Children(scr)) = d + 1 /\ Children(scr)[1] = scroll
      /\ \A i \in 2..(d + 1) : Children(scr)[i] = <<"detail", i - 1>>
      /\ Children(scr) \in Seq({scroll} \cup ({"detail"} \X (1..d)))
  <2> DEFINE S == {scroll} \cup ({"detail"} \X (1..d))
             rest == Numbered("detail", d)
  <2>1. rest \in Seq({"detail"} \X (1..d)) /\ Len(rest) = d
        /\ \A i \in 1..d : rest[i] = <<"detail", i>>
    BY <1>2, NumberedIs
  <2> HIDE DEF rest
  <2>2. rest \in Seq(S)
    BY <2>1
  <2>3. scroll \in S /\ Children(scr) = <<scroll>> \o rest
    BY <1>5 DEF rest
  <2> HIDE DEF S
  <2>4. /\ Children(scr) \in Seq(S) /\ Len(Children(scr)) = 1 + d /\ Children(scr)[1] = scroll
        /\ \A i \in 2..(1 + d) : Children(scr)[i] = rest[i - 1]
    BY SMTT(40), <2>1, <2>2, <2>3, FirstThen
  <2>5. \A i \in 2..(1 + d) : i - 1 \in 1..d
    BY <1>2
  <2>6. d + 1 = 1 + d
    BY <1>2
  <2> QED BY <2>1, <2>4, <2>5, <2>6 DEF S
<1>10. /\ n = 0 => Children(scroll) = <<empty>>
       /\ n > 0 => /\ Len(Children(scroll)) = n
                   /\ \A i \in 1..n : Children(scroll)[i] = <<"card", i>>
                   /\ Children(scroll) \in Seq({"card"} \X (1..n))
  <2>1. n > 0 => n # 0
    OBVIOUS
  <2>2. n > 0 => Children(scroll) = Numbered("card", n)
    BY <1>5, <2>1
  <2>3. n = 0 => Children(scroll) = <<empty>>
    BY <1>5
  <2>4. CASE n > 0
    <3> DEFINE cards_of == Numbered("card", n)
    <3>1. cards_of \in Seq({"card"} \X (1..n)) /\ Len(cards_of) = n
          /\ \A i \in 1..n : cards_of[i] = <<"card", i>>
      BY NumberedIs
    <3> HIDE DEF cards_of
    <3>2. Children(scroll) = cards_of /\ n # 0
      BY <2>2, <2>4 DEF cards_of
    <3> QED BY <3>1, <3>2
  <2>5. CASE n = 0
    BY <2>3, <2>5
  <2> QED BY <2>4, <2>5
<1> DEFINE Wt(o) == Weight(n, d, o)
           L(o) == Len(Children(o))
           Falls(o) ==
             /\ Children(o) \in Seq(O)
             /\ \A i \in 1..L(o) :
                  Wt(Children(o)[i]) + L(Children(o)[i]) < Wt(o)
<1>11. /\ Wt(content) = 15 + n + d /\ Wt(page_chain) = 13 + n + d
       /\ Wt(root_cont) = 11 + n + d /\ Wt(scr) = 9 + n
       /\ Wt(scroll) = 7 /\ Wt(empty) = 0
       /\ \A k : /\ Wt(<<"card", k>>) = 4 /\ Wt(<<"detail", k>>) = 4
                 /\ \A name \in {"text_wrapper", "btn_wrapper", "bottom_bar"} :
                      Wt(<<name, k>>) = 1
                 /\ \A name \in {"title", "close", "btn_cl", "btn_ok"} :
                      Wt(<<name, k>>) = 0
  BY DEF Weight, content, scr, page_chain, root_cont, scroll, empty
<1>12. \A o : /\ Children(o) = <<>> => L(o) = 0
              /\ \A a : Children(o) = <<a>> => L(o) = 1
              /\ \A a, b : Children(o) = <<a, b>> => L(o) = 2
  OBVIOUS
<1>13. /\ L(page_chain) = 1 /\ L(root_cont) = 1 /\ (n = 0 => L(scroll) = 1) /\ L(empty) = 0
       /\ \A k : /\ L(<<"card", k>>) = 2 /\ L(<<"text_wrapper", k>>) = 1
                 /\ L(<<"btn_wrapper", k>>) = 1 /\ L(<<"title", k>>) = 0
                 /\ L(<<"close", k>>) = 0 /\ L(<<"detail", k>>) = 1
                 /\ L(<<"btn_cl", k>>) = 0 /\ L(<<"btn_ok", k>>) = 0
  <2> HIDE DEF L
  <2>1. L(page_chain) = 1 /\ L(root_cont) = 1 /\ (n = 0 => L(scroll) = 1) /\ L(empty) = 0
    BY <1>5, <1>10, <1>12
  <2>2. ASSUME NEW k
        PROVE  /\ L(<<"card", k>>) = 2 /\ L(<<"text_wrapper", k>>) = 1
               /\ L(<<"btn_wrapper", k>>) = 1 /\ L(<<"title", k>>) = 0 /\ L(<<"close", k>>) = 0
    BY SMTT(40), <1>6, <1>12
  <2>3. ASSUME NEW k
        PROVE  L(<<"detail", k>>) = 1 /\ L(<<"btn_cl", k>>) = 0 /\ L(<<"btn_ok", k>>) = 0
    BY <1>7, <1>12
  <2> QED BY <2>1, <2>2, <2>3
<1>14. \A k : L(<<"bottom_bar", k>>) = 1 \/ L(<<"bottom_bar", k>>) = 2
  BY <1>8, <1>12
<1> HIDE DEF O, Wt
<1>15. \A o : /\ Children(o) = <<>> => Falls(o)
              /\ \A a : /\ Children(o) = <<a>> /\ a \in O
                        /\ Wt(a) + L(a) < Wt(o)
                        => Falls(o)
              /\ \A a, b : /\ Children(o) = <<a, b>> /\ a \in O /\ b \in O
                           /\ Wt(a) + L(a) < Wt(o)
                           /\ Wt(b) + L(b) < Wt(o)
                           => Falls(o)
  <2> TAKE o
  <2>1. Children(o) = <<>> => Falls(o)
    OBVIOUS
  <2>2. ASSUME NEW a \in O, Children(o) = <<a>>,
               Wt(a) + L(a) < Wt(o)
        PROVE  Falls(o)
    <3>1. L(o) = 1 /\ Children(o)[1] = a /\ Children(o) \in Seq(O)
      BY <2>2
    <3>2. \A i \in 1..L(o) : Children(o)[i] = a
      BY <3>1
    <3> QED BY <2>2, <3>1, <3>2
  <2>3. ASSUME NEW a \in O, NEW b \in O, Children(o) = <<a, b>>,
               Wt(a) + L(a) < Wt(o),
               Wt(b) + L(b) < Wt(o)
        PROVE  Falls(o)
    <3>1. L(o) = 2 /\ Children(o)[1] = a /\ Children(o)[2] = b
          /\ Children(o) \in Seq(O)
      BY <2>3
    <3>2. \A i \in 1..L(o) : Children(o)[i] = a \/ Children(o)[i] = b
      BY <3>1
    <3> QED BY <2>3, <3>1, <3>2
  <2> QED BY <2>1, <2>2, <2>3
<1>16. L(scr) = d + 1 /\ (n > 0 => L(scroll) = n)
  BY <1>9, <1>10
<1> HIDE DEF L, d
<1>27. Falls(scr)
  <2>1. scroll \in O /\ \A j \in 1..d : <<"detail", j>> \in O
    BY <1>4
  <2>2. Children(scr) \in Seq(O)
    BY <1>9, <2>1
  <2>3. ASSUME NEW i \in 1..(d + 1)
        PROVE  Wt(Children(scr)[i]) + L(Children(scr)[i]) < 9 + n
    <3>1. CASE i = 1
      <4>1. L(scroll) = IF n = 0 THEN 1 ELSE n
        <5>1. n = 0 \/ n > 0
          OBVIOUS
        <5> QED BY <1>13, <1>16, <5>1
      <4>2. Children(scr)[i] = scroll /\ Wt(scroll) = 7
        BY <1>9, <1>11, <3>1
      <4> QED BY <4>1, <4>2
    <3>2. CASE i # 1
      <4>1. i \in 2..(d + 1)
        BY <1>2, <3>2
      <4>2. Children(scr)[i] = <<"detail", i - 1>>
        BY <1>9, <4>1
      <4>3. Wt(<<"detail", i - 1>>) = 4 /\ L(<<"detail", i - 1>>) = 1
        BY <1>11, <1>13
      <4> QED BY <4>2, <4>3
    <3> QED BY <3>1, <3>2
  <2> QED BY <1>11, <1>16, <2>2, <2>3
<1>17. Falls(scroll)
  <2>1. CASE n = 0
    <3>1. Children(scroll) = <<empty>> /\ empty \in O
      BY <1>4, <1>10, <2>1
    <3> QED BY <1>11, <1>13, <1>15, <3>1
  <2>2. CASE n > 0
    <3>1. Children(scroll) \in Seq(O)
      <4>1. {"card"} \X (1..n) \subseteq O
        BY <1>4
      <4> QED BY <1>10, <2>2, <4>1
    <3>2. ASSUME NEW i \in 1..n
          PROVE  Wt(Children(scroll)[i]) + L(Children(scroll)[i]) < 7
      <4>1. Children(scroll)[i] = <<"card", i>>
        BY <1>10, <2>2
      <4>2. Wt(<<"card", i>>) = 4 /\ L(<<"card", i>>) = 2
        BY <1>11, <1>13
      <4> QED BY <4>1, <4>2
    <3> QED BY <1>11, <1>16, <2>2, <3>1, <3>2
  <2> QED BY <2>1, <2>2
<1> HIDE DEF Falls
<1>18. Falls(empty)
  BY <1>5, <1>15
<1>19. Falls(content) /\ Falls(page_chain) /\ Falls(root_cont)
  <2>1. page_chain \in O /\ root_cont \in O /\ scr \in O
    BY <1>4
  <2>2. Wt(page_chain) + L(page_chain) < Wt(content)
    BY <1>2, <1>11, <1>13
  <2>3. Wt(root_cont) + L(root_cont) < Wt(page_chain)
    BY <1>2, <1>11, <1>13
  <2>4. Wt(scr) + L(scr) < Wt(root_cont)
    BY <1>2, <1>11, <1>16
  <2> QED BY <1>5, <1>15, <2>1, <2>2, <2>3, <2>4
<1>20. ASSUME NEW k \in 1..n
       PROVE  /\ Falls(<<"card", k>>) /\ Falls(<<"title", k>>) /\ Falls(<<"close", k>>)
              /\ Falls(<<"text_wrapper", k>>) /\ Falls(<<"btn_wrapper", k>>)
  <2>1. \A name \in {"card", "title", "close", "text_wrapper", "btn_wrapper"} : <<name, k>> \in O
    BY <1>4
  <2>2. Falls(<<"title", k>>) /\ Falls(<<"close", k>>)
    BY <1>6, <1>15
  <2>3. /\ Wt(<<"title", k>>) = 0 /\ Wt(<<"close", k>>) = 0
        /\ Wt(<<"text_wrapper", k>>) = 1 /\ Wt(<<"btn_wrapper", k>>) = 1
        /\ Wt(<<"card", k>>) = 4
    BY <1>11
  <2>4. /\ Wt(<<"title", k>>) + L(<<"title", k>>)
             < Wt(<<"text_wrapper", k>>)
        /\ Wt(<<"close", k>>) + L(<<"close", k>>)
             < Wt(<<"btn_wrapper", k>>)
    BY <1>13, <2>3
  <2>5. /\ Wt(<<"text_wrapper", k>>) + L(<<"text_wrapper", k>>)
             < Wt(<<"card", k>>)
        /\ Wt(<<"btn_wrapper", k>>) + L(<<"btn_wrapper", k>>)
             < Wt(<<"card", k>>)
    BY <1>13, <2>3
  <2>6. Falls(<<"text_wrapper", k>>) /\ Falls(<<"btn_wrapper", k>>)
    BY <1>6, <1>15, <2>1, <2>4
  <2>7. Falls(<<"card", k>>)
    BY <1>6, <1>15, <2>1, <2>5
  <2> QED BY <2>2, <2>6, <2>7
<1>21. ASSUME NEW j \in 1..d
       PROVE  /\ Falls(<<"detail", j>>) /\ Falls(<<"btn_cl", j>>) /\ Falls(<<"btn_ok", j>>)
              /\ Falls(<<"bottom_bar", j>>)
  <2>1. /\ <<"bottom_bar", j>> \in O /\ <<"btn_cl", j>> \in O
        /\ buttons[j] = 2 => <<"btn_ok", j>> \in O
    BY <1>4
  <2>2. Falls(<<"btn_cl", j>>) /\ Falls(<<"btn_ok", j>>)
    BY <1>7, <1>15
  <2>3. /\ Wt(<<"btn_cl", j>>) = 0 /\ Wt(<<"btn_ok", j>>) = 0
        /\ Wt(<<"bottom_bar", j>>) = 1 /\ Wt(<<"detail", j>>) = 4
    BY <1>11
  <2>4. /\ Wt(<<"btn_cl", j>>) + L(<<"btn_cl", j>>)
             < Wt(<<"bottom_bar", j>>)
        /\ Wt(<<"btn_ok", j>>) + L(<<"btn_ok", j>>)
             < Wt(<<"bottom_bar", j>>)
    BY <1>13, <2>3
  <2>5. Wt(<<"bottom_bar", j>>) + L(<<"bottom_bar", j>>)
             < Wt(<<"detail", j>>)
    <3>1. L(<<"bottom_bar", j>>) = 1 \/ L(<<"bottom_bar", j>>) = 2
      BY <1>14
    <3>2. Wt(<<"bottom_bar", j>>) = 1 /\ Wt(<<"detail", j>>) = 4
      BY <2>3
    <3> QED BY <3>1, <3>2
  <2>6. Falls(<<"bottom_bar", j>>)
    <3>1. CASE buttons[j] = 2
      BY <1>8, <1>15, <2>1, <2>4, <3>1
    <3>2. CASE buttons[j] # 2
      BY <1>8, <1>15, <2>1, <2>4, <3>2
    <3> QED BY <3>1, <3>2
  <2>7. Falls(<<"detail", j>>)
    BY <1>7, <1>15, <2>1, <2>5
  <2> QED BY <2>2, <2>6, <2>7
<1>22. ASSUME NEW o \in O PROVE Falls(o)
  <2>1. CASE o \in {content, scr, page_chain, root_cont, scroll, empty}
    BY <1>27, <1>17, <1>18, <1>19, <2>1
  <2>2. CASE o \in {"card", "title", "close", "text_wrapper", "btn_wrapper"} \X (1..n)
    <3>1. PICK k \in 1..n : \E name \in {"card", "title", "close", "text_wrapper", "btn_wrapper"} :
                             o = <<name, k>>
      BY <2>2
    <3> QED BY <1>20, <3>1
  <2>3. CASE o \in ({"detail", "btn_cl", "bottom_bar"} \X (1..d))
                    \cup {<<"btn_ok", j>> : j \in {i \in 1..d : buttons[i] = 2}}
    <3>1. PICK j \in 1..d : \E name \in {"detail", "btn_cl", "bottom_bar", "btn_ok"} :
                             o = <<name, j>>
      BY <2>3
    <3> QED BY <1>21, <3>1
  <2> QED BY <1>4, <2>1, <2>2, <2>3
<1>23. \A o : Wt(o) \in Nat /\ Wt(o) <= 15 + n + d
  BY SMTT(40), <1>2 DEF Weight, Wt
<1>24. Objects(Tree(n, buttons)) = O /\ Tree(n, buttons).children = children
  BY <1>1 DEF TreeOf, Objects
<1>25. Layered(Tree(n, buttons), h)
  <2>1. children \in [O -> Seq(O)] /\ h \in [O -> Nat]
    BY <1>22, <1>23 DEF Falls, Wt
  <2>2. ASSUME NEW o \in O, NEW i \in 1..Len(children[o])
        PROVE  h[children[o][i]] + Len(children[children[o][i]]) < h[o]
    <3>1. children[o] = Children(o) /\ h[o] = Wt(o)
      BY DEF Wt
    <3>2. Children(o)[i] \in O
      BY <2>1, <3>1
    <3>3. children[Children(o)[i]] = Children(Children(o)[i])
          /\ h[Children(o)[i]] = Wt(Children(o)[i])
      BY <3>2 DEF Wt
    <3> QED BY <1>22, <3>1, <3>3 DEF Falls, L, Wt
  <2> QED BY <1>24, <2>1, <2>2 DEF Layered
<1>26. DOMAIN children = O /\ \A o \in O : h[o] <= 15 + n + Len(buttons)
  BY <1>23 DEF d, Wt
<1> DEFINE C(o) == Children(o)
           No(o) == ChildNumber(buttons, o)
           Placed(o) == \A i \in 1..L(o) : Up(C(o)[i]) = o /\ No(C(o)[i]) = i
           At(o, p) == Up(o) = p /\ p \in O /\ No(o) \in 1..L(p) /\ C(p)[No(o)] = o
<1>28. /\ Up(content) = NoObj /\ Up(page_chain) = content /\ Up(root_cont) = page_chain
       /\ Up(scr) = root_cont /\ Up(scroll) = scr /\ Up(empty) = scroll
       /\ \A k : /\ Up(<<"detail", k>>) = scr /\ Up(<<"card", k>>) = scroll
                 /\ Up(<<"text_wrapper", k>>) = <<"card", k>>
                 /\ Up(<<"btn_wrapper", k>>) = <<"card", k>>
                 /\ Up(<<"title", k>>) = <<"text_wrapper", k>>
                 /\ Up(<<"close", k>>) = <<"btn_wrapper", k>>
                 /\ Up(<<"bottom_bar", k>>) = <<"detail", k>>
                 /\ Up(<<"btn_ok", k>>) = <<"bottom_bar", k>>
                 /\ Up(<<"btn_cl", k>>) = <<"bottom_bar", k>>
  BY DEF Up, content, scr, page_chain, root_cont, scroll, empty
<1>29. /\ No(page_chain) = 1 /\ No(root_cont) = 1 /\ No(scr) = 1 /\ No(scroll) = 1 /\ No(empty) = 1
       /\ \A k : /\ No(<<"detail", k>>) = k + 1 /\ No(<<"card", k>>) = k
                 /\ No(<<"btn_wrapper", k>>) = 2 /\ No(<<"btn_cl", k>>) = buttons[k]
                 /\ \A name \in {"text_wrapper", "title", "close", "bottom_bar", "btn_ok"} :
                      No(<<name, k>>) = 1
  BY DEF ChildNumber, scr, page_chain, root_cont, scroll, empty
<1> HIDE DEF No
<1>30. \A o : /\ C(o) = <<>> => Placed(o)
              /\ \A a : C(o) = <<a>> /\ Up(a) = o /\ No(a) = 1 => Placed(o) /\ (o \in O => At(a, o))
              /\ \A a, b : /\ C(o) = <<a, b>> /\ Up(a) = o /\ No(a) = 1
                           /\ Up(b) = o /\ No(b) = 2
                           => Placed(o) /\ (o \in O => At(a, o) /\ At(b, o))
  <2> TAKE o
  <2>1. C(o) = <<>> => Placed(o)
    BY DEF L
  <2>2. ASSUME NEW a, C(o) = <<a>>, Up(a) = o, No(a) = 1 PROVE Placed(o) /\ (o \in O => At(a, o))
    <3>1. L(o) = 1 /\ C(o)[1] = a
      BY <2>2 DEF L
    <3>2. \A i \in 1..L(o) : i = 1
      BY <3>1
    <3> HIDE DEF C
    <3> QED BY <2>2, <3>1, <3>2
  <2>3. ASSUME NEW a, NEW b, C(o) = <<a, b>>, Up(a) = o, No(a) = 1, Up(b) = o, No(b) = 2
        PROVE  Placed(o) /\ (o \in O => At(a, o) /\ At(b, o))
    <3>1. L(o) = 2 /\ C(o)[1] = a /\ C(o)[2] = b
      BY <2>3 DEF L
    <3>2. (\A i \in 1..L(o) : i = 1 \/ i = 2) /\ 1 \in 1..L(o) /\ 2 \in 1..L(o)
      BY <3>1
    <3> HIDE DEF C
    <3> QED BY <2>3, <3>1, <3>2
  <2> QED BY <2>1, <2>2, <2>3
<1>31. /\ Placed(scr) /\ At(scroll, scr) /\ \A j \in 1..d : At(<<"detail", j>>, scr)
  <2>1. /\ L(scr) = d + 1 /\ C(scr)[1] = scroll
        /\ \A i \in 2..(d + 1) : C(scr)[i] = <<"detail", i - 1>>
    BY <1>9, <1>16
  <2>2. \A i \in 1..(d + 1) : i = 1 \/ (i \in 2..(d + 1) /\ i - 1 \in 1..d /\ (i - 1) + 1 = i)
    BY <1>2
  <2>3. \A j \in 1..d : j + 1 \in 2..(d + 1) /\ j + 1 \in 1..(d + 1) /\ (j + 1) - 1 = j
    BY <1>2
  <2>4. scr \in O /\ 1 \in 1..(d + 1)
    BY <1>2, <1>4
  <2> HIDE DEF C
  <2>5. Placed(scr)
    <3> SUFFICES ASSUME NEW i \in 1..(d + 1)
                 PROVE  Up(C(scr)[i]) = scr /\ No(C(scr)[i]) = i
      BY <2>1
    <3>1. CASE i = 1
      BY <1>28, <1>29, <2>1, <3>1
    <3>2. CASE i \in 2..(d + 1) /\ i - 1 \in 1..d /\ (i - 1) + 1 = i
      <4>1. C(scr)[i] = <<"detail", i - 1>>
        BY <2>1, <3>2
      <4>2. Up(<<"detail", i - 1>>) = scr /\ No(<<"detail", i - 1>>) = (i - 1) + 1
        BY <1>28, <1>29
      <4> QED BY <3>2, <4>1, <4>2
    <3> QED BY <2>2, <3>1, <3>2
  <2>6. At(scroll, scr)
    BY <1>28, <1>29, <2>1, <2>4
  <2>7. \A j \in 1..d : At(<<"detail", j>>, scr)
    BY ZenonT(60), <1>28, <1>29, <2>1, <2>3, <2>4
  <2> QED BY <2>5, <2>6, <2>7
<1>32. /\ Placed(scroll) /\ (n = 0 => At(empty, scroll))
       /\ n > 0 => \A k \in 1..n : At(<<"card", k>>, scroll)
  <2>1. scroll \in O
    BY <1>4
  <2>2. CASE n = 0
    <3>1. C(scroll) = <<empty>>
      BY <1>10, <2>2
    <3> HIDE DEF C, Placed, At
    <3>2. Placed(scroll) /\ At(empty, scroll)
      BY <1>28, <1>29, <1>30, <2>1, <3>1
    <3> QED BY <2>2, <3>2
  <2>3. CASE n > 0
    <3>1. L(scroll) = n /\ \A i \in 1..n : C(scroll)[i] = <<"card", i>>
      BY <1>10, <1>16, <2>3
    <3> HIDE DEF C
    <3>2. Placed(scroll)
      BY ZenonT(60), <1>28, <1>29, <3>1
    <3>3. \A k \in 1..n : At(<<"card", k>>, scroll)
      BY ZenonT(60), <1>28, <1>29, <2>1, <3>1
    <3> QED BY <2>3, <3>2, <3>3
  <2> QED BY <2>2, <2>3
<1> HIDE DEF Placed, At
<1>33. /\ Placed(empty)
       /\ Placed(content) /\ At(page_chain, content)
       /\ Placed(page_chain) /\ At(root_cont, page_chain)
       /\ Placed(root_cont) /\ At(scr, root_cont)
  <2>1. content \in O /\ page_chain \in O /\ root_cont \in O
    BY <1>4
  <2> QED BY <1>5, <1>28, <1>29, <1>30, <2>1
<1>34. ASSUME NEW k \in 1..n
       PROVE  /\ Placed(<<"card", k>>) /\ Placed(<<"title", k>>) /\ Placed(<<"close", k>>)
              /\ Placed(<<"text_wrapper", k>>) /\ Placed(<<"btn_wrapper", k>>)
              /\ At(<<"text_wrapper", k>>, <<"card", k>>)
              /\ At(<<"btn_wrapper", k>>, <<"card", k>>)
              /\ At(<<"title", k>>, <<"text_wrapper", k>>)
              /\ At(<<"close", k>>, <<"btn_wrapper", k>>)
  <2>1. \A name \in {"card", "title", "close", "text_wrapper", "btn_wrapper"} : <<name, k>> \in O
    BY <1>4
  <2>2. Placed(<<"title", k>>) /\ Placed(<<"close", k>>)
    BY <1>6, <1>30
  <2>3. Placed(<<"text_wrapper", k>>) /\ At(<<"title", k>>, <<"text_wrapper", k>>)
    <3>1. C(<<"text_wrapper", k>>) = <<<<"title", k>>>>
      BY <1>6
    <3>2. Up(<<"title", k>>) = <<"text_wrapper", k>> /\ No(<<"title", k>>) = 1
      BY <1>28, <1>29
    <3>3. <<"text_wrapper", k>> \in O
      BY <2>1
    <3> HIDE DEF C
    <3> QED BY <1>30, <3>1, <3>2, <3>3
  <2>4. Placed(<<"btn_wrapper", k>>) /\ At(<<"close", k>>, <<"btn_wrapper", k>>)
    <3>1. C(<<"btn_wrapper", k>>) = <<<<"close", k>>>>
      BY <1>6
    <3>2. Up(<<"close", k>>) = <<"btn_wrapper", k>> /\ No(<<"close", k>>) = 1
      BY <1>28, <1>29
    <3>3. <<"btn_wrapper", k>> \in O
      BY <2>1
    <3> HIDE DEF C
    <3> QED BY <1>30, <3>1, <3>2, <3>3
  <2>5. /\ Placed(<<"card", k>>) /\ At(<<"text_wrapper", k>>, <<"card", k>>)
        /\ At(<<"btn_wrapper", k>>, <<"card", k>>)
    <3>1. C(<<"card", k>>) = <<<<"text_wrapper", k>>, <<"btn_wrapper", k>>>>
      BY <1>6
    <3>2. /\ Up(<<"text_wrapper", k>>) = <<"card", k>> /\ No(<<"text_wrapper", k>>) = 1
          /\ Up(<<"btn_wrapper", k>>) = <<"card", k>> /\ No(<<"btn_wrapper", k>>) = 2
      BY <1>28, <1>29
    <3>3. <<"card", k>> \in O
      BY <2>1
    <3> HIDE DEF C
    <3> QED BY <1>30, <3>1, <3>2, <3>3
  <2> QED BY <2>2, <2>3, <2>4, <2>5
<1>35. ASSUME NEW j \in 1..d
       PROVE  /\ Placed(<<"detail", j>>) /\ Placed(<<"btn_cl", j>>) /\ Placed(<<"btn_ok", j>>)
              /\ Placed(<<"bottom_bar", j>>)
              /\ At(<<"bottom_bar", j>>, <<"detail", j>>)
              /\ At(<<"btn_cl", j>>, <<"bottom_bar", j>>)
              /\ buttons[j] = 2 => At(<<"btn_ok", j>>, <<"bottom_bar", j>>)
  <2>1. <<"detail", j>> \in O /\ <<"bottom_bar", j>> \in O
    BY <1>4
  <2>2. Placed(<<"btn_cl", j>>) /\ Placed(<<"btn_ok", j>>)
    BY <1>7, <1>30
  <2>3. Placed(<<"detail", j>>) /\ At(<<"bottom_bar", j>>, <<"detail", j>>)
    BY ZenonT(60), <1>7, <1>28, <1>29, <1>30, <2>1
  <2>4. CASE buttons[j] = 2
    <3>1. C(<<"bottom_bar", j>>) = <<<<"btn_ok", j>>, <<"btn_cl", j>>>>
      BY <1>8, <2>4
    <3> HIDE DEF C
    <3>2. Placed(<<"bottom_bar", j>>) /\ At(<<"btn_ok", j>>, <<"bottom_bar", j>>)
          /\ At(<<"btn_cl", j>>, <<"bottom_bar", j>>)
      <4>1. /\ Up(<<"btn_ok", j>>) = <<"bottom_bar", j>> /\ No(<<"btn_ok", j>>) = 1
            /\ Up(<<"btn_cl", j>>) = <<"bottom_bar", j>> /\ No(<<"btn_cl", j>>) = 2
        BY <1>28, <1>29, <2>4
      <4>2. <<"bottom_bar", j>> \in O
        BY <2>1
      <4> QED BY <1>30, <3>1, <4>1, <4>2
    <3> QED BY <2>2, <2>3, <3>2
  <2>5. CASE buttons[j] = 1
    <3>1. C(<<"bottom_bar", j>>) = <<<<"btn_cl", j>>>>
      <4>1. buttons[j] # 2
        BY <2>5
      <4> QED BY <1>8, <4>1
    <3> HIDE DEF C
    <3>2. Placed(<<"bottom_bar", j>>) /\ At(<<"btn_cl", j>>, <<"bottom_bar", j>>)
      <4>1. Up(<<"btn_cl", j>>) = <<"bottom_bar", j>> /\ No(<<"btn_cl", j>>) = 1
        BY <1>28, <1>29, <2>5
      <4>2. <<"bottom_bar", j>> \in O
        BY <2>1
      <4> QED BY <1>30, <3>1, <4>1, <4>2
    <3>3. buttons[j] # 2
      BY <2>5
    <3> QED BY <2>2, <2>3, <3>2, <3>3
  <2> QED BY <1>2, <2>4, <2>5
<1>36. ASSUME NEW o \in O PROVE Placed(o) /\ (o # content => At(o, Up(o)))
  <2>1. CASE o \in {content, scr, page_chain, root_cont, scroll}
    BY <1>28, <1>31, <1>32, <1>33, <2>1
  <2>2. CASE n = 0 /\ o = empty
    BY <1>28, <1>32, <1>33, <2>2
  <2>3. CASE o \in {"card", "title", "close", "text_wrapper", "btn_wrapper"} \X (1..n)
    <3>1. PICK k \in 1..n : \/ o = <<"card", k>> \/ o = <<"title", k>> \/ o = <<"close", k>>
                            \/ o = <<"text_wrapper", k>> \/ o = <<"btn_wrapper", k>>
      BY <2>3
    <3>2. n > 0
      BY <3>1
    <3>3. At(<<"card", k>>, scroll)
      BY <1>32, <3>1, <3>2
    <3>4. /\ Up(<<"card", k>>) = scroll
          /\ Up(<<"text_wrapper", k>>) = <<"card", k>> /\ Up(<<"btn_wrapper", k>>) = <<"card", k>>
          /\ Up(<<"title", k>>) = <<"text_wrapper", k>> /\ Up(<<"close", k>>) = <<"btn_wrapper", k>>
      BY <1>28
    <3> QED BY <1>34, <3>1, <3>3, <3>4
  <2>4. CASE o \in ({"detail", "btn_cl", "bottom_bar"} \X (1..d))
                    \cup {<<"btn_ok", j>> : j \in {i \in 1..d : buttons[i] = 2}}
    <3>1. PICK j \in 1..d : \/ o = <<"detail", j>> \/ o = <<"btn_cl", j>>
                            \/ o = <<"bottom_bar", j>>
                            \/ o = <<"btn_ok", j>> /\ buttons[j] = 2
      BY <2>4
    <3>2. At(<<"detail", j>>, scr)
      BY <1>31, <3>1
    <3>3. /\ Up(<<"detail", j>>) = scr /\ Up(<<"bottom_bar", j>>) = <<"detail", j>>
          /\ Up(<<"btn_cl", j>>) = <<"bottom_bar", j>> /\ Up(<<"btn_ok", j>>) = <<"bottom_bar", j>>
      BY <1>28
    <3> QED BY <1>35, <3>1, <3>2, <3>3
  <2> QED BY <1>4, <2>1, <2>2, <2>3, <2>4
<1>37. NoObj \notin O /\ content \in O
  <2>1. \A o \in O : o[1] # "NULL"
    BY <1>4 DEF content, scr, page_chain, root_cont, scroll, empty
  <2>2. NoObj[1] = "NULL"
    BY DEF NoObj
  <2> QED BY <1>4, <2>1, <2>2
<1>38. \A o \in O : PlacedIn(children, buttons, o)
  BY <1>36 DEF PlacedIn, Placed, L, No
<1>39. \A o \in O : o # content => HasPlace(children, buttons, o)
  BY <1>36 DEF HasPlace, At, L, No
<1> QED BY <1>1, <1>3, <1>25, <1>26, <1>37, <1>38, <1>39

(* The tree of the page is rooted in the tab view's content.                *)
LEMMA PageRooted ==
  ASSUME NEW n \in Nat, NEW buttons \in Seq({1, 2})
  PROVE  \E h : Rooted(Tree(n, buttons), h, 15 + n + Len(buttons))
<1> DEFINE t == Tree(n, buttons)
           group == Group(n, buttons)
           top == 15 + n + Len(buttons)
<1>1. PICK children, h :
        /\ t = TreeOf(children, group)
        /\ group \subseteq DOMAIN children
        /\ Layered(t, h)
        /\ \A o \in DOMAIN children : h[o] <= top
        /\ NoObj \notin DOMAIN children /\ content \in DOMAIN children
        /\ \A o \in DOMAIN children : PlacedIn(children, buttons, o)
        /\ \A o \in DOMAIN children : o # content => HasPlace(children, buttons, o)
  BY PageTree
<1> DEFINE O == DOMAIN children
           Has(p, o) == o \in Range(children[p])
<1>2. /\ t.children = children /\ t.group = group
      /\ t.parent = [o \in O |-> IF \E p \in O : Has(p, o) THEN CHOOSE p \in O : Has(p, o)
                                ELSE NoObj]
  BY <1>1 DEF TreeOf
<1> HIDE DEF t, group
<1>3. Objects(t) = O
  BY <1>2 DEF Objects
<1>4. children \in [O -> Seq(O)]
  BY <1>1, <1>2, <1>3 DEF Layered
<1>5. \A p \in O : Len(children[p]) \in Nat /\ DOMAIN children[p] = 1..Len(children[p])
                  /\ \A i \in 1..Len(children[p]) : children[p][i] \in O
  BY <1>4
<1>6. \A p \in O : \A o : Has(p, o) <=> \E i \in 1..Len(children[p]) : children[p][i] = o
  BY <1>5 DEF Range
<1> HIDE DEF Has
<1>7. \A p \in O : \A i \in 1..Len(children[p]) :
        Up(children[p][i]) = p /\ ChildNumber(buttons, children[p][i]) = i
  BY <1>1 DEF PlacedIn
<1>8. \A o \in O \ {content} : Up(o) \in O /\ Has(Up(o), o)
  BY <1>1, <1>6 DEF HasPlace
<1>9. \A o \in O, p \in O : Has(p, o) => p = Up(o)
  BY <1>6, <1>7
<1>10. Up(content) = NoObj
  BY DEF Up, content
<1>11. t.parent[content] = NoObj
  <2>1. ~ \E p \in O : Has(p, content)
    BY <1>1, <1>9, <1>10
  <2> QED BY <1>1, <1>2, <2>1
<1>12. ASSUME NEW o \in O \ {content} PROVE t.parent[o] = Up(o)
  <2>1. \E p \in O : Has(p, o)
    BY <1>8
  <2>2. (CHOOSE p \in O : Has(p, o)) \in O /\ Has(CHOOSE p \in O : Has(p, o), o)
    BY <2>1
  <2>3. (CHOOSE p \in O : Has(p, o)) = Up(o)
    BY <1>9, <2>2
  <2> QED BY <1>2, <2>1, <2>3
<1>13. \A o \in O \ {content} : t.parent[o] # NoObj
  BY <1>1, <1>8, <1>12
<1>14. ASSUME NEW o \in O
       PROVE  IF t.parent[o] = NoObj
              THEN \A c \in O : t.parent[c] = NoObj => c = o
              ELSE /\ t.parent[o] \in O
                   /\ \E i \in 1..Len(children[t.parent[o]]) : children[t.parent[o]][i] = o
  <2>1. CASE o = content
    BY <1>11, <1>13, <2>1
  <2>2. CASE o # content
    <3>1. t.parent[o] = Up(o) /\ Up(o) \in O /\ t.parent[o] # NoObj
      BY <1>8, <1>12, <1>13, <2>2
    <3>2. \E i \in 1..Len(children[Up(o)]) : children[Up(o)][i] = o
      BY <1>6, <1>8, <2>2
    <3> QED BY <3>1, <3>2
  <2> QED BY <2>1, <2>2
<1>15. ASSUME NEW o \in O, NEW i \in 1..Len(children[o])
       PROVE  /\ t.parent[children[o][i]] = o
              /\ \A j \in 1..Len(children[o]) : children[o][j] = children[o][i] => j = i
  <2>1. children[o][i] \in O /\ Up(children[o][i]) = o
    BY <1>5, <1>7
  <2>2. children[o][i] # content
    BY <1>1, <1>10, <2>1
  <2>3. t.parent[children[o][i]] = o
    BY <1>12, <2>1, <2>2
  <2> QED BY <1>7, <2>3
<1>16. top \in Nat
  OBVIOUS
<1> HIDE DEF top
<1>17. Layered(t, h) /\ (\A o \in O : h[o] <= top) /\ NoObj \notin O /\ group \subseteq O
  BY <1>1 DEF O
<1> HIDE DEF O
<1>18. \A o \in Objects(t) :
         IF t.parent[o] = NoObj
         THEN \A c \in Objects(t) : t.parent[c] = NoObj => c = o
         ELSE /\ t.parent[o] \in Objects(t)
              /\ \E i \in 1..Len(t.children[t.parent[o]]) : t.children[t.parent[o]][i] = o
  BY <1>2, <1>3, <1>14
<1>19. \A o \in Objects(t) : \A i \in 1..Len(t.children[o]) :
         /\ t.parent[t.children[o][i]] = o
         /\ \A j \in 1..Len(t.children[o]) : t.children[o][j] = t.children[o][i] => j = i
  BY <1>2, <1>3, <1>15
<1>20. /\ Layered(t, h) /\ top \in Nat /\ \A o \in Objects(t) : h[o] <= top
       /\ t.group \subseteq Objects(t) /\ NoObj \notin Objects(t)
  BY <1>2, <1>3, <1>16, <1>17
<1>21. Rooted(t, h, top)
  BY <1>18, <1>19, <1>20, Zenon DEF Rooted
<1> QED BY <1>21 DEF t, top

(* The screens that can be, their trees and what the walk through them is   *)
LEMMA WalkIs ==
  ASSUME NEW n \in 0..VISIBLE_CARDS, NEW d \in 0..MaxDetails, NEW buttons \in [1..d -> {1, 2}]
  PROVE  LET t == Tree(n, buttons)
         IN  /\ n \in Nat /\ buttons \in Seq({1, 2}) /\ <<n, buttons>> \in Shapes
             /\ Trees[<<n, buttons>>] = t /\ t.group = Group(n, buttons)
             /\ \A o \in Group(n, buttons) :
                  Walk[<<n, buttons>>][o] =
                    [child |-> find_first_focusable_child_dfs(t, o),
                     parent |-> find_first_focusable_parent_dfs(t, o),
                     next |-> find_next_focusable_sibling(t, o),
                     prev |-> find_prev_focusable_sibling(t, o)]
<1> DEFINE t == Tree(n, buttons)
           Keys(tr, c) == [child |-> find_first_focusable_child_dfs(tr, c),
                           parent |-> find_first_focusable_parent_dfs(tr, c),
                           next |-> find_next_focusable_sibling(tr, c),
                           prev |-> find_prev_focusable_sibling(tr, c)]
<1>1. n \in Nat /\ buttons \in Seq({1, 2}) /\ <<n, buttons>> \in Shapes
  BY NotificationAssumption, ScreenAssumption DEF Shapes
<1>2. t.group = Group(n, buttons)
  BY DEF Tree, TreeOf, Group
<1>3. Trees[<<n, buttons>>] = t
  BY <1>1 DEF Trees
<1> HIDE DEF t
<1>4. Walk = [shape \in Shapes |-> [c \in Trees[shape].group |-> Keys(Trees[shape], c)]]
  BY DEF Walk
<1> HIDE DEF Keys
<1>5. Walk[<<n, buttons>>] = [c \in t.group |-> Keys(t, c)]
  BY <1>1, <1>3, <1>4, Zenon
<1>6. \A o \in Group(n, buttons) : Walk[<<n, buttons>>][o] = Keys(t, o)
  BY <1>2, <1>5
<1> QED BY <1>1, <1>2, <1>3, <1>6 DEF t, Keys

(* Wherever the focus is, the four keys lead to an object of the page, or   *)
(* nowhere.                                                                 *)
LEMMA WalkInGroup ==
  ASSUME NEW n \in 0..VISIBLE_CARDS, NEW d \in 0..MaxDetails, NEW buttons \in [1..d -> {1, 2}],
         NEW o \in Group(n, buttons), NEW key \in {"child", "parent", "next", "prev"}
  PROVE  Walk[<<n, buttons>>][o][key] \in Group(n, buttons) \cup {NoObj}
<1> DEFINE t == Tree(n, buttons)
<1>1. n \in Nat /\ buttons \in Seq({1, 2})
  BY WalkIs
<1>2. PICK h : Rooted(t, h, 15 + n + Len(buttons))
  BY <1>1, PageRooted
<1>3. /\ t.group = Group(n, buttons)
      /\ Walk[<<n, buttons>>][o] = [child |-> find_first_focusable_child_dfs(t, o),
                                   parent |-> find_first_focusable_parent_dfs(t, o),
                                   next |-> find_next_focusable_sibling(t, o),
                                   prev |-> find_prev_focusable_sibling(t, o)]
  BY WalkIs
<1> HIDE DEF t
<1>4. Layered(t, h) /\ o \in Objects(t) /\ Group(n, buttons) \subseteq Objects(t)
  BY <1>2, <1>3 DEF Rooted
<1>5. PICK depth : Depths(t, depth)
  BY <1>2, RootedDepths
<1>6. find_first_focusable_child_dfs(t, o) \in Group(n, buttons) \cup {NoObj}
  <2>1. PICK search : ChildSearch(t, search)
    BY <1>4, ChildSearched
  <2>2. Through(t, o) \in Places(t)
    BY <1>4, PlaceSteps
  <2> QED BY <1>3, <1>4, <2>1, <2>2 DEF ChildSearch
<1>7. \A c \in Objects(t) : find_first_focusable_parent_dfs(t, c) \in Group(n, buttons) \cup {NoObj}
  <2>1. PICK search : ParentSearch(t, search)
    BY <1>5, ParentSearched
  <2> QED BY <1>3, <2>1 DEF ParentSearch
<1>8. \A forward : FocusableSibling(t, o, forward) \in Group(n, buttons) \cup {NoObj}
  <2> TAKE forward
  <2> DEFINE roof == find_first_focusable_parent_dfs(t, o)
  <2>1. CASE roof = NoObj
    BY <2>1 DEF FocusableSibling
  <2>2. CASE roof # NoObj
    <3>1. roof \in Objects(t)
      BY <1>4, <1>7, <2>2
    <3>2. FocusableSibling(t, o, forward) = scan_subtree_focus_sequence(t, roof, o, forward)
      BY <2>2 DEF FocusableSibling
    <3> HIDE DEF roof
    <3>3. PICK scan : ScanSearch(t, o, forward, scan)
      BY <1>4, ScanSearched
    <3>4. Through(t, roof) \in Places(t)
      BY <1>4, <3>1, PlaceSteps
    <3>5. Scan(NoObj, NoObj, FALSE) \in Scans(t)
          /\ \A s \in Scans(t) : s.found \in t.group \cup {NoObj}
      BY DEF Scan, Scans
    <3>6. scan[Through(t, roof)][Scan(NoObj, NoObj, FALSE)] \in Scans(t)
      BY ZenonT(60), <3>3, <3>4, <3>5 DEF ScanSearch
    <3>7. FocusableSibling(t, o, forward)
            = scan[Through(t, roof)][Scan(NoObj, NoObj, FALSE)].found
      BY <3>1, <3>2, <3>3 DEF ScanSearch
    <3> QED BY <1>3, <3>5, <3>6, <3>7
  <2> QED BY <2>1, <2>2
<1> DEFINE W == Walk[<<n, buttons>>][o]
           Found == Group(n, buttons) \cup {NoObj}
<1>9. /\ W.child = find_first_focusable_child_dfs(t, o)
      /\ W.parent = find_first_focusable_parent_dfs(t, o)
      /\ W.next = FocusableSibling(t, o, TRUE)
      /\ W.prev = FocusableSibling(t, o, FALSE)
  BY <1>3 DEF find_next_focusable_sibling, find_prev_focusable_sibling
<1> HIDE DEF W
<1>10. W.child \in Found /\ W.parent \in Found /\ W.next \in Found /\ W.prev \in Found
  BY <1>4, <1>6, <1>7, <1>8, <1>9, Zenon
<1> QED BY <1>10 DEF W

-----------------------------------------------------------------------------
(* The inductive invariant *)

(* No more notifications than that are missing to the end of the list fit.  *)
PageLen(len, base) == (IF len < base + VISIBLE_CARDS THEN len ELSE base + VISIBLE_CARDS) - base

(* No notification that has pushed the others on waits for its refresh.     *)
Settled == rx = "idle" \/ write_idx > 0

(* The cards are those of the page's list. *)
CardsOfList ==
  drawn => /\ cards \in Seq(Msgs)
           /\ Len(cards) = PageLen(noti_snapshot_len, noti_curr_base_idx)
           /\ Settled => cards = PopulatedCards(notif_list, noti_snapshot_len, noti_curr_base_idx)

(* The open detail screens, each with the card under it while it exists *)
DetailsOK ==
  /\ details \in Seq([msg : Msgs, from : Nat]) /\ Len(details) <= MaxDetails
  /\ \A j \in DOMAIN details :
       details[j].from # Gone =>
         /\ details[j].from \in 1..Len(cards)
         /\ Settled => details[j].msg = cards[details[j].from]

(* The focus is on an object that exists. *)
FocusOK ==
  /\ drawn => focus \in Group(Len(cards), Buttons(details))
  /\ ~drawn => focus = content /\ details = <<>>

ScreenInv == IInv /\ CardsOfList /\ DetailsOK /\ FocusOK

(* The list of a drawn page fits on it.                                     *)
LEMMA ListFits ==
  IInv /\ drawn =>
    LET list == PopulatedCards(notif_list, noti_snapshot_len, noti_curr_base_idx)
    IN  /\ list \in Seq(Msgs)
        /\ Len(list) = PageLen(noti_snapshot_len, noti_curr_base_idx)
        /\ Len(list) \in 0..VISIBLE_CARDS
<1> SUFFICES ASSUME IInv, drawn
             PROVE  LET list == PopulatedCards(notif_list, noti_snapshot_len, noti_curr_base_idx)
                    IN  /\ list \in Seq(Msgs)
                        /\ Len(list) = PageLen(noti_snapshot_len, noti_curr_base_idx)
                        /\ Len(list) \in 0..VISIBLE_CARDS
  OBVIOUS
<1> DEFINE list == PopulatedCards(notif_list, noti_snapshot_len, noti_curr_base_idx)
           n == PageLen(noti_snapshot_len, noti_curr_base_idx)
<1>1. /\ notif_list \in Nat /\ noti_snapshot_len \in Nat /\ noti_curr_base_idx \in Nat
      /\ write_idx <= notif_list /\ notif_list + noti_snapshot_len <= MAX_NOTIFICATION
      /\ noti_curr_base_idx = 0 \/ noti_curr_base_idx + VISIBLE_CARDS <= noti_snapshot_len
      /\ StoreOK
  BY StoreArithmetic DEF IInv, TypeOK, ListOK, BaseInList
<1>2. n \in 0..VISIBLE_CARDS
  BY <1>1, StoreArithmetic DEF PageLen
<1>3. list = [k \in 1..n |-> all_noti[notif_list + noti_curr_base_idx + k - 1]]
  BY DEF PopulatedCards, PageLen
<1>4. \A k \in 1..n : list[k] \in Msgs
  <2>1. DOMAIN list = 1..n
    BY <1>3
  <2>2. \A k \in DOMAIN list : list[k] \in Msgs
    BY <1>1, PopulatedMsgs
  <2> HIDE DEF list
  <2> QED BY <2>1, <2>2
<1> HIDE DEF n
<1>5. list \in Seq(Msgs) /\ Len(list) = n
  <2> DEFINE f == [k \in 1..n |-> all_noti[notif_list + noti_curr_base_idx + k - 1]]
  <2>1. f = list
    BY <1>3
  <2> HIDE DEF f, list
  <2>2. f = [k \in 1..n |-> f[k]]
    BY DEF f
  <2>3. list = [k \in 1..n |-> list[k]]
    BY <2>1, <2>2
  <2> QED BY <1>2, <1>4, <2>3, StoreArithmetic
<1> QED BY <1>2, <1>5 DEF n

(* The number of cards, and of buttons on each detail screen *)
LEMMA ScreenShape ==
  ScreenInv => /\ Len(details) \in 0..MaxDetails
               /\ DOMAIN details = 1..Len(details)
               /\ Buttons(details) \in [1..Len(details) -> {1, 2}]
               /\ drawn => Len(cards) \in 0..VISIBLE_CARDS
<1> SUFFICES ASSUME ScreenInv
             PROVE  /\ Len(details) \in 0..MaxDetails
                    /\ DOMAIN details = 1..Len(details)
                    /\ Buttons(details) \in [1..Len(details) -> {1, 2}]
                    /\ drawn => Len(cards) \in 0..VISIBLE_CARDS
  OBVIOUS
<1>1. details \in Seq([msg : Msgs, from : Nat]) /\ Len(details) <= MaxDetails
  BY DEF ScreenInv, DetailsOK
<1>2. Len(details) \in 0..MaxDetails /\ DOMAIN details = 1..Len(details)
  BY <1>1, ScreenAssumption
<1>3. Buttons(details) \in [1..Len(details) -> {1, 2}]
  BY <1>2 DEF Buttons
<1>4. drawn => Len(cards) \in 0..VISIBLE_CARDS
  BY ListFits DEF ScreenInv, CardsOfList
<1> QED BY <1>2, <1>3, <1>4

(* A key that only moves the focus *)
LEMMA KeyKeeps ==
  ASSUME ScreenInv, AtScreen, NEW key \in {"child", "parent", "next", "prev"},
         FocusOn(Walk[Screen][focus][key])
  PROVE  ScreenInv'
<1>1. focus \in Group(Len(cards), Buttons(details))
  BY DEF AtScreen, ScreenInv, FocusOK
<1>2. Walk[<<Len(cards), Buttons(details)>>][focus][key]
        \in Group(Len(cards), Buttons(details)) \cup {NoObj}
  BY <1>1, ScreenShape, WalkInGroup DEF AtScreen
<1>3. focus' \in Group(Len(cards), Buttons(details))
  BY <1>1, <1>2 DEF FocusOn, Screen
<1>4. UNCHANGED <<vars, details>>
  BY DEF FocusOn
<1>5. UNCHANGED <<all_noti, noti_len, write_idx, rx, notify, drawn, nav, notif_list,
                  noti_snapshot_len, noti_curr_base_idx, cards, details>>
  BY <1>4 DEF vars, store, page
<1>6. FocusOK'
  BY <1>3, <1>5 DEF FocusOK, AtScreen, Buttons
<1>7. CardsOfList' /\ DetailsOK'
  BY <1>5 DEF ScreenInv, CardsOfList, DetailsOK, Settled, PopulatedCards
<1>8. IInv'
  BY <1>5 DEF ScreenInv, IInv, TypeOK, StoreOK, BaseInList, CardsHoldNotifications, ScreenCurrent,
     PopulatedCards, NavigationOK, ListOK
<1> QED BY <1>6, <1>7, <1>8 DEF ScreenInv

(* What a step does to the cards and the focus is no step of the store's.   *)
LEMMA StepsOfStore == ScreenNext => [Next]_vars
<1>1. ASSUME NEW m \in Msgs, Arrival(m) PROVE Next
  BY <1>1 DEF Arrival, Next
<1>2. Notice => Next
  BY DEF Notice, Next
<1>3. key_right \/ key_left \/ key_esc \/ key_enter => UNCHANGED vars
  BY DEF key_right, key_left, key_esc, key_enter, FocusOn
<1>4. edge_left \/ edge_right => Next
  BY DEF edge_left, edge_right, Next
<1>5. ASSUME NEW k \in 1..VISIBLE_CARDS PROVE /\ open_detail(k) => UNCHANGED vars
                                              /\ click_close(k) => Next
  BY DEF open_detail, click_close, Next
<1>6. ASSUME NEW j \in 1..MaxDetails PROVE close_detail(j) => UNCHANGED vars
  BY DEF close_detail
<1>7. EnterPage \/ DrawPage \/ LeavePage \/ LeftPage => Next
  BY DEF EnterPage, DrawPage, LeavePage, LeftPage, Next
<1> QED BY <1>1, <1>2, <1>3, <1>4, <1>5, <1>6, <1>7 DEF ScreenNext

Detached == details' = [j \in DOMAIN details |-> [details[j] EXCEPT !.from = Gone]]

(* The cards are gone from under the detail screens, which stay as they are *)
LEMMA DetachedDetails ==
  ASSUME ScreenInv, Detached
  PROVE  DetailsOK' /\ Buttons(details)' = Buttons(details)
<1> DEFINE Rec == [msg : Msgs, from : Nat]
           n == Len(details)
<1>1. details \in Seq(Rec) /\ n \in 0..MaxDetails /\ DOMAIN details = 1..n
  BY ScreenShape DEF ScreenInv, DetailsOK
<1>2. \A j \in 1..n : details[j] \in Rec
  <2> HIDE DEF Rec
  <2> QED BY <1>1
<1>3. \A r \in Rec : [r EXCEPT !.from = Gone] \in Rec /\ [r EXCEPT !.from = Gone].msg = r.msg
                     /\ [r EXCEPT !.from = Gone].from = Gone
  BY DEF Gone
<1> HIDE DEF Rec
<1>4. details' = [j \in 1..n |-> [details[j] EXCEPT !.from = Gone]]
  BY <1>1 DEF Detached
<1>5. \A j \in 1..n : details'[j] \in Rec /\ details'[j].msg = details[j].msg
                      /\ details'[j].from = Gone
  BY <1>2, <1>3, <1>4
<1>6. n \in Nat /\ n <= MaxDetails
  BY <1>1, ScreenAssumption
<1> HIDE DEF n
<1>7. details' \in Seq(Rec) /\ Len(details') = n /\ DOMAIN details' = 1..n
  <2>1. details' = [j \in 1..n |-> details'[j]]
    BY <1>4
  <2> QED BY <1>5, <1>6, <2>1
<1>8. DetailsOK'
  BY <1>5, <1>6, <1>7 DEF DetailsOK, Rec
<1>9. Buttons(details)' = Buttons(details)
  BY <1>1, <1>5, <1>7 DEF Buttons
<1> QED BY <1>8, <1>9

(* The cards are drawn from the page's list. *)
LEMMA DrawnCards ==
  ASSUME IInv', drawn',
         cards' = PopulatedCards(notif_list, noti_snapshot_len, noti_curr_base_idx)'
  PROVE  CardsOfList'
<1>1. IInv' /\ drawn'
  OBVIOUS
<1>2. (LET list == PopulatedCards(notif_list, noti_snapshot_len, noti_curr_base_idx)
       IN  /\ list \in Seq(Msgs)
           /\ Len(list) = PageLen(noti_snapshot_len, noti_curr_base_idx)
           /\ Len(list) \in 0..VISIBLE_CARDS)'
  BY <1>1, ListFits, PTL
<1> QED BY <1>2 DEF CardsOfList

(* After a refresh the cards are those of the list.                         *)
LEMMA RefreshedCards ==
  ASSUME IInv', drawn', NEW base, Refresh(base)
  PROVE  CardsOfList'
<1>1. cards' = PopulatedCards(notif_list, noti_snapshot_len, noti_curr_base_idx)'
  BY DEF Refresh, PopulatedCards
<1> QED BY <1>1, DrawnCards

(* The cards are drawn again, and the focus is not lost with one of them.   *)
LEMMA RedrawnKeeps ==
  ASSUME ScreenInv, IInv', drawn, drawn', NEW base, Refresh(base), Redrawn
  PROVE  ScreenInv'
<1>1. CardsOfList'
  BY RefreshedCards
<1>2. DetailsOK' /\ Buttons(details)' = Buttons(details)
  BY DetachedDetails DEF Redrawn, Detached
<1>3. focus \in Group(Len(cards), Buttons(details))
  BY DEF ScreenInv, FocusOK
<1>4. focus' \in {content, scr} \cup NavigableOfDetails(Buttons(details))
  <2>1. CASE OfCard(focus)
    BY <2>1 DEF Redrawn
  <2>2. CASE ~OfCard(focus)
    <3>1. focus \notin NavigableOfCards(Len(cards))
      BY <2>2 DEF OfCard, NavigableOfCards
    <3> QED BY <1>3, <2>2, <3>1 DEF Redrawn, Group
  <2> QED BY <2>1, <2>2
<1>5. FocusOK'
  BY <1>2, <1>4 DEF FocusOK, Group
<1> QED BY <1>1, <1>2, <1>5 DEF ScreenInv

(* A notification arrives: the cards stay until the refresh.                *)
LEMMA ArrivalKeeps ==
  ASSUME ScreenInv, NEW m \in Msgs, Arrival(m)
  PROVE  ScreenInv'
<1>1. IInv'
  BY ReceiveIInv DEF Arrival, ScreenInv
<1>2. UNCHANGED <<notify, drawn, nav, notif_list, noti_snapshot_len, noti_curr_base_idx, cards,
                  focus, details>>
  BY DEF Arrival, receive_notification, page
<1>3. rx = "idle" /\ rx' = "update"
  BY DEF Arrival, receive_notification
<1>4. FocusOK'
  BY <1>2 DEF ScreenInv, FocusOK, Buttons
<1>5. ASSUME drawn, Settled'
      PROVE  PopulatedCards(notif_list, noti_snapshot_len, noti_curr_base_idx)'
               = PopulatedCards(notif_list, noti_snapshot_len, noti_curr_base_idx)
  <2>1. write_idx' > 0
    BY <1>3, <1>5 DEF Settled
  <2>2. write_idx # 0 /\ all_noti' = [all_noti EXCEPT ![write_idx - 1] = m]
    BY <2>1 DEF Arrival, receive_notification
  <2>3. /\ write_idx \in Nat /\ notif_list \in Nat /\ noti_curr_base_idx \in Nat
        /\ noti_snapshot_len \in Nat /\ write_idx <= notif_list
        /\ all_noti = [s \in Slots |-> all_noti[s]]
    BY <1>5 DEF ScreenInv, IInv, TypeOK, StoreOK, ListOK
  <2>4. \A s : s # write_idx - 1 => all_noti'[s] = all_noti[s]
    <3> TAKE s
    <3> HAVE s # write_idx - 1
    <3>1. CASE s \in Slots
      BY <2>2, <2>3, <3>1
    <3>2. CASE s \notin Slots
      BY <2>2, <2>3, <3>2
    <3> QED BY <3>1, <3>2
  <2>5. \A k \in Nat : k >= 1 => all_noti'[notif_list + noti_curr_base_idx + k - 1]
                                = all_noti[notif_list + noti_curr_base_idx + k - 1]
    BY <2>3, <2>4
  <2> QED BY <1>2, <2>3, <2>5, StoreArithmetic DEF PopulatedCards
<1>6. CardsOfList'
  BY <1>2, <1>3, <1>5 DEF ScreenInv, CardsOfList, Settled, PageLen
<1>7. DetailsOK'
  BY <1>2, <1>3 DEF ScreenInv, DetailsOK, Settled
<1> QED BY <1>1, <1>4, <1>6, <1>7 DEF ScreenInv

(* The interface notices it and redraws a page that is drawn.               *)
LEMMA NoticeKeeps ==
  ASSUME ScreenInv, Notice
  PROVE  ScreenInv'
<1>1. IInv'
  BY UpdateIInv DEF Notice, ScreenInv
<1>2. UNCHANGED <<store, notify, drawn, nav>>
  BY DEF Notice, update_notification_ui
<1>3. CASE notify /\ drawn
  <2>1. Refresh(noti_curr_base_idx) /\ Redrawn
    BY <1>3 DEF Notice, update_notification_ui, notification_ui_invalidate
  <2> QED BY <1>1, <1>2, <1>3, <2>1, RedrawnKeeps
<1>4. CASE ~(notify /\ drawn)
  <2>1. ~drawn
    BY <1>4 DEF ScreenInv, IInv, NavigationOK, TypeOK
  <2>2. UNCHANGED <<focus, details>>
    BY <1>4 DEF Notice
  <2>3. focus = content /\ details = <<>>
    BY <2>1 DEF ScreenInv, FocusOK
  <2> QED BY <1>1, <1>2, <2>1, <2>2, <2>3, ScreenAssumption
          DEF ScreenInv, CardsOfList, DetailsOK, FocusOK
<1> QED BY <1>3, <1>4

(* The base moves by one card, and the focus stays on the card at the edge. *)
LEMMA EdgeKeeps ==
  ASSUME ScreenInv, edge_left \/ edge_right
  PROVE  ScreenInv'
<1>1. IInv'
  BY CardKeysIInv DEF edge_left, edge_right, ScreenInv
<1>2. /\ drawn /\ Detached /\ UNCHANGED focus
      /\ \/ focus = <<"card", 1>>
         \/ focus = <<"card", VISIBLE_CARDS>>
  BY DEF edge_left, edge_right, card_left, card_right, Detached
<1>3. PICK base \in Nat : Rebase(base) /\ base + VISIBLE_CARDS <= noti_snapshot_len
  <2>1. /\ noti_curr_base_idx \in Nat /\ noti_snapshot_len \in Nat
        /\ noti_curr_base_idx = 0 \/ noti_curr_base_idx + VISIBLE_CARDS <= noti_snapshot_len
    BY StoreArithmetic DEF ScreenInv, IInv, TypeOK, BaseInList
  <2>2. CASE edge_left
    <3>1. noti_curr_base_idx > 0 /\ Rebase(noti_curr_base_idx - 1)
      BY <2>2 DEF edge_left, card_left
    <3>2. noti_curr_base_idx - 1 \in Nat
          /\ noti_curr_base_idx - 1 + VISIBLE_CARDS <= noti_snapshot_len
      BY <2>1, <3>1, StoreArithmetic
    <3> QED BY <3>1, <3>2
  <2>3. CASE edge_right
    <3>1. /\ noti_curr_base_idx + VISIBLE_CARDS < noti_snapshot_len
          /\ Rebase(noti_curr_base_idx + 1)
      BY <2>3 DEF edge_right, card_right
    <3>2. noti_curr_base_idx + 1 \in Nat
          /\ noti_curr_base_idx + 1 + VISIBLE_CARDS <= noti_snapshot_len
      BY <2>1, <3>1, StoreArithmetic
    <3> QED BY <3>1, <3>2
  <2> QED BY <2>2, <2>3
<1>4. /\ noti_curr_base_idx' = base /\ cards' = PopulatedCards(notif_list, noti_snapshot_len, base)
      /\ UNCHANGED <<notif_list, noti_snapshot_len, store, rx, notify, drawn, nav>>
  BY <1>3 DEF Rebase
<1>5. cards' = PopulatedCards(notif_list, noti_snapshot_len, noti_curr_base_idx)'
  BY <1>4 DEF PopulatedCards, store
<1>6. CardsOfList'
  BY <1>1, <1>2, <1>4, <1>5, DrawnCards
<1>7. Len(cards') = VISIBLE_CARDS
  <2>1. Len(cards') = PageLen(noti_snapshot_len, base)
    BY <1>2, <1>4, <1>6 DEF CardsOfList, PageLen
  <2>2. noti_snapshot_len \in Nat
    BY DEF ScreenInv, IInv, TypeOK
  <2> QED BY <1>3, <2>1, <2>2, StoreArithmetic DEF PageLen
<1>8. DetailsOK' /\ Buttons(details)' = Buttons(details)
  BY <1>2, DetachedDetails
<1>9. FocusOK'
  <2>1. focus' \in NavigableOfCards(VISIBLE_CARDS)
    BY <1>2, StoreArithmetic DEF NavigableOfCards
  <2> QED BY <1>2, <1>4, <1>7, <2>1 DEF FocusOK, Group
<1> QED BY <1>1, <1>6, <1>8, <1>9 DEF ScreenInv

(* A detail screen opened from a title shows the card that is drawn there.  *)
LEMMA OpenKeeps ==
  ASSUME ScreenInv, NEW k \in 1..VISIBLE_CARDS, open_detail(k)
  PROVE  ScreenInv'
<1> DEFINE Rec == [msg : Msgs, from : Nat]
           opened == [msg |-> CardData(k), from |-> k]
           n == Len(details)
<1>1. UNCHANGED <<all_noti, noti_len, write_idx, rx, notify, drawn, nav, notif_list,
                  noti_snapshot_len, noti_curr_base_idx, cards>>
  BY DEF open_detail, vars, store, page
<1>2. /\ drawn /\ focus = <<"title", k>> /\ n < MaxDetails
      /\ details' = Append(details, opened) /\ focus' = <<"detail", n + 1>>
  BY DEF open_detail, AtScreen
<1>3. details \in Seq(Rec) /\ n \in Nat /\ DOMAIN details = 1..n
  BY DEF ScreenInv, DetailsOK
<1>4. k \in 1..Len(cards)
  <2>1. focus \in Group(Len(cards), Buttons(details))
    BY <1>2 DEF ScreenInv, FocusOK
  <2>2. <<"title", k>> \in NavigableOfCards(Len(cards))
    BY <1>2, <2>1 DEF Group, NavigableOfDetails, content, scr
  <2> QED BY <2>2 DEF NavigableOfCards
<1>5. CardData(k) = PopulatedCards(notif_list, noti_snapshot_len, noti_curr_base_idx)[k]
      /\ CardData(k) \in Msgs
  <2> DEFINE list == PopulatedCards(notif_list, noti_snapshot_len, noti_curr_base_idx)
  <2>1. IInv
    BY DEF ScreenInv
  <2>2. list \in Seq(Msgs) /\ Len(list) = PageLen(noti_snapshot_len, noti_curr_base_idx)
    BY <1>2, <2>1, ListFits
  <2>3. Len(cards) = PageLen(noti_snapshot_len, noti_curr_base_idx)
    BY <1>2 DEF ScreenInv, CardsOfList
  <2>4. k \in DOMAIN list /\ list[k] \in Msgs
    <3> HIDE DEF list
    <3> QED BY <1>4, <2>2, <2>3
  <2>5. list[k] = CardData(k)
    BY <2>4 DEF PopulatedCards, CardData
  <2> QED BY <2>4, <2>5
<1>6. Settled => CardData(k) = cards[k]
  BY <1>2, <1>5 DEF ScreenInv, CardsOfList
<1>7. opened \in Rec /\ opened.msg = CardData(k) /\ opened.from = k
  BY <1>5
<1> HIDE DEF opened
<1>8. /\ details' \in Seq(Rec) /\ Len(details') = n + 1 /\ DOMAIN details' = 1..(n + 1)
      /\ \A j \in 1..n : details'[j] = details[j]
      /\ details'[n + 1] = opened
  <2> HIDE DEF Rec
  <2> QED BY <1>2, <1>3, <1>7
<1>9. DetailsOK'
  <2>1. \A j \in 1..n : details[j].from # Gone =>
          /\ details[j].from \in 1..Len(cards)
          /\ Settled => details[j].msg = cards[details[j].from]
    BY <1>3 DEF ScreenInv, DetailsOK
  <2>2. Settled' <=> Settled
    BY <1>1 DEF Settled
  <2>3. n + 1 <= MaxDetails
    BY <1>2, <1>3, ScreenAssumption
  <2>4. ASSUME NEW j \in 1..(n + 1), details'[j].from # Gone
        PROVE  /\ details'[j].from \in 1..Len(cards)
               /\ Settled => details'[j].msg = cards[details'[j].from]
    <3>1. CASE j = n + 1
      BY <1>4, <1>6, <1>7, <1>8, <3>1
    <3>2. CASE j # n + 1
      <4>1. j \in 1..n
        BY <1>3, <3>2
      <4> QED BY <1>8, <2>1, <2>4, <4>1
    <3> QED BY <3>1, <3>2
  <2> QED BY <1>1, <1>8, <2>2, <2>3, <2>4 DEF DetailsOK
<1>10. FocusOK'
  <2>1. focus' \in NavigableOfDetails(Buttons(details)')
    <3>1. n + 1 \in DOMAIN Buttons(details)'
      BY <1>3, <1>8 DEF Buttons
    <3> QED BY <1>2, <3>1 DEF NavigableOfDetails
  <2> QED BY <1>1, <1>2, <2>1 DEF FocusOK, Group
<1>11. IInv' /\ CardsOfList'
  BY <1>1 DEF ScreenInv, CardsOfList, Settled, IInv, TypeOK, StoreOK, BaseInList,
     CardsHoldNotifications, ScreenCurrent, PopulatedCards, NavigationOK, ListOK
<1> QED BY <1>9, <1>10, <1>11 DEF ScreenInv

(* Back to the title, if that is still there *)
LEMMA CloseKeeps ==
  ASSUME ScreenInv, NEW j \in 1..MaxDetails, close_detail(j)
  PROVE  ScreenInv'
<1> DEFINE Rec == [msg : Msgs, from : Nat]
           n == Len(details)
<1>1. UNCHANGED <<all_noti, noti_len, write_idx, rx, notify, drawn, nav, notif_list,
                  noti_snapshot_len, noti_curr_base_idx, cards>>
  BY DEF close_detail, vars, store, page
<1>2. drawn /\ j \in DOMAIN details /\ details' = RemoveIndex(details, j)
  BY DEF close_detail, AtScreen
<1>3. details \in Seq(Rec) /\ n \in Nat /\ DOMAIN details = 1..n /\ n <= MaxDetails
  BY DEF ScreenInv, DetailsOK
<1>4. \A i \in 1..n : details[i] \in Rec
  <2> HIDE DEF Rec
  <2> QED BY <1>3
<1>5. n - 1 \in Nat /\ j \in 1..n
  BY <1>2, <1>3
<1>6. details' = [i \in 1..(n - 1) |-> IF i < j THEN details[i] ELSE details[i + 1]]
  BY <1>2 DEF RemoveIndex
<1>7. \A i \in 1..(n - 1) : \E l \in 1..n : details'[i] = details[l]
  <2> TAKE i \in 1..(n - 1)
  <2>1. i \in 1..n /\ i + 1 \in 1..n
    BY <1>3
  <2>2. details'[i] = details[i] \/ details'[i] = details[i + 1]
    BY <1>6
  <2> QED BY <2>1, <2>2
<1> HIDE DEF Rec
<1>8. details' \in Seq(Rec) /\ Len(details') = n - 1 /\ DOMAIN details' = 1..(n - 1)
  <2> DEFINE m == n - 1
  <2>1. details' = [i \in 1..m |-> details'[i]] /\ DOMAIN details' = 1..m
    BY <1>6
  <2>2. \A i \in 1..m : details'[i] \in Rec
    BY <1>4, <1>7
  <2>3. m \in Nat
    BY <1>5
  <2> HIDE DEF m
  <2>4. details' \in Seq(Rec) /\ Len(details') = m
    BY <2>1, <2>2, <2>3
  <2> QED BY <2>1, <2>4 DEF m
<1>9. DetailsOK'
  <2>1. \A l \in 1..n : details[l].from # Gone =>
          /\ details[l].from \in 1..Len(cards)
          /\ Settled => details[l].msg = cards[details[l].from]
    BY <1>3 DEF ScreenInv, DetailsOK
  <2>2. Settled' <=> Settled
    BY <1>1 DEF Settled
  <2>3. \A i \in 1..(n - 1) : details'[i].from # Gone =>
          /\ details'[i].from \in 1..Len(cards)
          /\ Settled => details'[i].msg = cards[details'[i].from]
    BY <1>7, <2>1
  <2>4. n - 1 <= MaxDetails
    BY <1>3, ScreenAssumption
  <2> QED BY <1>1, <1>8, <2>2, <2>3, <2>4 DEF DetailsOK, Rec
<1>10. FocusOK'
  <2>1. CASE details[j].from # Gone
    <3>1. details[j].from \in 1..Len(cards)
      BY <1>2, <2>1 DEF ScreenInv, DetailsOK
    <3>2. focus' = <<"title", details[j].from>>
      BY <2>1 DEF close_detail
    <3>3. focus' \in NavigableOfCards(Len(cards))
      BY <3>1, <3>2 DEF NavigableOfCards
    <3> QED BY <1>1, <1>2, <3>3 DEF FocusOK, Group
  <2>2. CASE details[j].from = Gone
    <3> DEFINE b == Buttons(details')
    <3>1. focus' \in Trees[<<Len(cards), b>>].group
      BY <2>2 DEF close_detail
    <3>2. b \in [1..(n - 1) -> {1, 2}] /\ n - 1 \in 0..MaxDetails
      BY <1>3, <1>5, <1>8, ScreenAssumption DEF Buttons
    <3>3. Len(cards) \in 0..VISIBLE_CARDS
      BY <1>2, ScreenShape
    <3>4. Trees[<<Len(cards), b>>] = Tree(Len(cards), b)
      <4> HIDE DEF b
      <4>1. <<Len(cards), b>> \in Shapes
        BY <3>2, <3>3 DEF Shapes
      <4> QED BY <4>1 DEF Trees
    <3>5. Tree(Len(cards), b).group = Group(Len(cards), b)
      BY DEF Tree, TreeOf, Group
    <3> QED BY <1>1, <1>2, <3>1, <3>4, <3>5 DEF FocusOK, Buttons
  <2> QED BY <2>1, <2>2
<1>11. IInv' /\ CardsOfList'
  BY <1>1 DEF ScreenInv, CardsOfList, Settled, IInv, TypeOK, StoreOK, BaseInList,
     CardsHoldNotifications, ScreenCurrent, PopulatedCards, NavigationOK, ListOK
<1> QED BY <1>9, <1>10, <1>11 DEF ScreenInv

(* A click on a close button deletes the notification and redraws.          *)
LEMMA ClickKeeps ==
  ASSUME ScreenInv, NEW k \in 1..VISIBLE_CARDS, click_close(k)
  PROVE  ScreenInv'
<1>1. dismiss_handler_cb(k) /\ Redrawn
  BY DEF click_close
<1>2. IInv'
  BY <1>1, DismissIInv DEF ScreenInv
<1>3. drawn /\ drawn' /\ Refresh(DismissBase)
  BY <1>1 DEF dismiss_handler_cb
<1> QED BY <1>1, <1>2, <1>3, RedrawnKeeps

(* To this page and away from it *)
LEMMA PageKeeps ==
  ASSUME ScreenInv, EnterPage \/ DrawPage \/ LeavePage \/ LeftPage
  PROVE  ScreenInv'
<1>1. IInv'
  BY NavigationIInv DEF ScreenInv, EnterPage, DrawPage, LeavePage, LeftPage
<1>2. ~drawn => focus = content /\ details = <<>>
  BY DEF ScreenInv, FocusOK
<1>3. DOMAIN << >> = {} /\ Len(<<>>) = 0 /\ << >> \in Seq([msg : Msgs, from : Nat])
  OBVIOUS
<1>4. ASSUME details' = <<>> PROVE DetailsOK'
  BY <1>3, <1>4, ScreenAssumption DEF DetailsOK
<1>5. CASE EnterPage \/ LeftPage
  <2>1. ~drawn' /\ details' = <<>> /\ focus' = content
    BY <1>2, <1>5
    DEF EnterPage, LeftPage, EnterState, LeaveState, ScreenInv, IInv, TypeOK, NavigationOK
  <2> QED BY <1>1, <1>4, <2>1 DEF ScreenInv, CardsOfList, FocusOK
<1>6. CASE DrawPage
  <2>1. drawn' /\ details' = <<>> /\ focus' = scr /\ Refresh(noti_curr_base_idx)
    BY <1>2, <1>6 DEF DrawPage, draw_notification_ui, ScreenInv, IInv, NavigationOK
  <2>2. CardsOfList'
    BY <1>1, <2>1, RefreshedCards
  <2> QED BY <1>1, <1>4, <2>1, <2>2 DEF ScreenInv, FocusOK, Group
<1>7. CASE LeavePage
  <2>1. ~drawn' /\ details' = <<>> /\ focus' = content
    BY <1>7 DEF LeavePage, del_notification_ui
  <2> QED BY <1>1, <1>4, <2>1 DEF ScreenInv, CardsOfList, FocusOK
<1> QED BY <1>5, <1>6, <1>7

(* Before the page is drawn for the first time                              *)
LEMMA StartScreen == ScreenInit => ScreenInv
<1> SUFFICES ASSUME ScreenInit
             PROVE  ScreenInv
  OBVIOUS
<1>1. IInv /\ ~drawn
  BY InitIInv DEF ScreenInit, Init
<1>2. focus = content /\ details = <<>>
  BY DEF ScreenInit
<1>3. DOMAIN <<>> = {} /\ Len(<<>>) = 0 /\ <<>> \in Seq([msg : Msgs, from : Nat])
  OBVIOUS
<1> QED BY <1>1, <1>2, <1>3, ScreenAssumption DEF ScreenInv, CardsOfList, DetailsOK, FocusOK

-----------------------------------------------------------------------------
(* The page with the user at it only takes steps of the page without: the   *)
(* keys, the focus and the detail screens of notification_ui.c never touch  *)
(* the store or the cards in a way that its callbacks alone do not.         *)
THEOREM ScreenImplementsPage == ScreenSpec => Spec
<1>1. ScreenInit => Init
  BY DEF ScreenInit
<1>2. [ScreenNext]_screenVars => [Next]_vars
  BY StepsOfStore DEF screenVars
<1> QED BY <1>1, <1>2, PTL DEF ScreenSpec, Spec

(* So what holds of the store and the page holds whatever the user does.    *)
THEOREM ScreenSafety ==
  ScreenSpec => /\ [](TypeOK /\ BaseInList /\ CardsHoldNotifications /\ ScreenCurrent)
                /\ OneAtATime /\ DismissHitsCard
BY ScreenImplementsPage, NotificationTypeOK, NotificationBaseInList, NotificationCardsHold,
   NotificationScreenCurrent, NotificationOneAtATime, NotificationDismissHitsCard, PTL

(* In every reachable state the focus is on an object that exists, the      *)
(* cards are those of the page's list and no detail screen refers to a card *)
(* that is gone.                                                            *)
THEOREM ScreenInvariant == ScreenSpec => []ScreenInv
<1>1. ScreenInv /\ [ScreenNext]_screenVars => ScreenInv'
  <2> SUFFICES ASSUME ScreenInv, [ScreenNext]_screenVars
               PROVE  ScreenInv'
    OBVIOUS
  <2>1. ASSUME NEW m \in Msgs, Arrival(m) PROVE ScreenInv'
    BY <2>1, ArrivalKeeps
  <2>2. CASE Notice
    BY <2>2, NoticeKeeps
  <2>3. CASE key_right
    BY <2>3, KeyKeeps DEF key_right
  <2>4. CASE key_left
    BY <2>4, KeyKeeps DEF key_left
  <2>5. CASE key_esc
    BY <2>5, KeyKeeps DEF key_esc
  <2>6. CASE key_enter
    BY <2>6, KeyKeeps DEF key_enter
  <2>7. CASE edge_left \/ edge_right
    BY <2>7, EdgeKeeps
  <2>8. ASSUME NEW k \in 1..VISIBLE_CARDS, open_detail(k) \/ click_close(k) PROVE ScreenInv'
    BY <2>8, OpenKeeps, ClickKeeps
  <2>9. ASSUME NEW j \in 1..MaxDetails, close_detail(j) PROVE ScreenInv'
    BY <2>9, CloseKeeps
  <2>10. CASE EnterPage \/ DrawPage \/ LeavePage \/ LeftPage
    BY <2>10, PageKeeps
  <2>11. CASE UNCHANGED screenVars
    <3>1. UNCHANGED <<all_noti, noti_len, write_idx, rx, notify, drawn, nav, notif_list,
                      noti_snapshot_len, noti_curr_base_idx, cards, focus, details>>
      BY <2>11 DEF screenVars, vars, store, page
    <3> QED BY <3>1 DEF ScreenInv, CardsOfList, DetailsOK, FocusOK, Settled, Buttons, IInv, TypeOK,
            StoreOK, BaseInList, CardsHoldNotifications, ScreenCurrent, PopulatedCards,
            NavigationOK, ListOK
  <2> QED BY <2>1, <2>2, <2>3, <2>4, <2>5, <2>6, <2>7, <2>8, <2>9, <2>10, <2>11 DEF ScreenNext
<1> QED BY StartScreen, <1>1, PTL DEF ScreenSpec

(* A detail screen shows the notification of the card to which ESC returns. *)
THEOREM DetailsShowTheirCard == ScreenSpec => []DetailOfCard
<1>1. ScreenInv => DetailOfCard
  <2> SUFFICES ASSUME ScreenInv, rx = "idle" \/ write_idx > 0, NEW j \in DOMAIN details,
                      details[j].from # Gone
               PROVE  details[j].from \in DOMAIN cards /\ details[j].msg = cards[details[j].from]
    BY DEF DetailOfCard
  <2>1. drawn
    BY DEF ScreenInv, FocusOK
  <2>2. DOMAIN cards = 1..Len(cards)
    BY <2>1 DEF ScreenInv, CardsOfList
  <2> QED BY <2>2 DEF ScreenInv, DetailsOK, Settled
<1> QED BY ScreenInvariant, <1>1, PTL

(* On every screen that can be reached, ENTER goes to the first object      *)
(* inside the one with the focus, ESC to the innermost around it, RIGHT and *)
(* LEFT to its neighbours in the order of the tree and never past either    *)
(* end.                                                                     *)
THEOREM FocusWalksInOrder == ScreenSpec => []SearchesAgree
<1>1. ScreenInv => SearchesAgree
  <2> SUFFICES ASSUME ScreenInv, drawn
               PROVE  <<Screen, TRUE>> \in Verdicts
    BY DEF SearchesAgree
  <2> DEFINE n == Len(cards)
             d == Len(details)
             buttons == Buttons(details)
             t == Tree(n, buttons)
  <2>1. n \in 0..VISIBLE_CARDS /\ d \in 0..MaxDetails /\ buttons \in [1..d -> {1, 2}]
    BY ScreenShape
  <2>2. Screen = <<n, buttons>>
    BY DEF Screen
  <2> HIDE DEF n, d, buttons
  <2>3. /\ n \in Nat /\ buttons \in Seq({1, 2}) /\ <<n, buttons>> \in Shapes
        /\ Trees[<<n, buttons>>] = t /\ t.group = Group(n, buttons)
        /\ \A o \in Group(n, buttons) :
             Walk[<<n, buttons>>][o] = [child |-> find_first_focusable_child_dfs(t, o),
                                        parent |-> find_first_focusable_parent_dfs(t, o),
                                        next |-> find_next_focusable_sibling(t, o),
                                        prev |-> find_prev_focusable_sibling(t, o)]
    BY <2>1, WalkIs
  <2>4. PICK h : Rooted(t, h, 15 + n + Len(buttons))
    BY <2>3, PageRooted
  <2> HIDE DEF t
  <2>5. \A o \in t.group : Walk[<<n, buttons>>][o] = InTreeOrder(t, o)
    BY <2>3, <2>4, SearchesInTreeOrder
  <2>6. (\A o \in Trees[Screen].group : Walk[Screen][o] = InTreeOrder(Trees[Screen], o)) = TRUE
    BY <2>2, <2>3, <2>5
  <2> QED BY <2>2, <2>3, <2>6 DEF Verdicts
<1> QED BY ScreenInvariant, <1>1, PTL
=============================================================================
