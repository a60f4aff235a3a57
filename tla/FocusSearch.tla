---------------------------- MODULE FocusSearch ----------------------------
(***************************************************************************)
(* The searches of ui/util.c for the object that gets the focus next.      *)
(*                                                                         *)
(* A tree t has t.children (the children of every object, in order),       *)
(* t.parent and t.group (the objects of the keypad's group, the navigable  *)
(* ones).  A search never looks below a navigable object it has found: to  *)
(* go deeper is the user's choice.                                         *)
(***************************************************************************)
EXTENDS Integers, SequencesExt

NoObj == <<"NULL", 0>>

(* The tree in which the objects have these children *)
TreeOf(children, group) ==
  LET Has(p, o) == o \in Range(children[p])
      objects == DOMAIN children
  IN  [group |-> group, children |-> children,
       parent |-> [o \in objects |->
                     IF \E p \in objects : Has(p, o) THEN CHOOSE p \in objects : Has(p, o)
                     ELSE NoObj]]

Objects(t) == DOMAIN t.children

(* Where a loop over the children of an object can be: <<o, i>> after i of   *)
(* them, Through(t, o) after the last.                                      *)
Places(t) == UNION {{o} \X (0..Len(t.children[o])) : o \in Objects(t)}
Through(t, o) == <<o, Len(t.children[o])>>

(* In the order of the children, the first that is navigable or has a       *)
(* navigable descendant decides.                                            *)
find_first_focusable_child_dfs(t, root) ==
  LET search[at \in Places(t)] ==
        LET o == at[1]
            i == at[2]
            child == t.children[o][i]
            found == search[<<o, i - 1>>]
        IN  IF i = 0 THEN NoObj
            ELSE IF found # NoObj THEN found
            ELSE IF child \in t.group THEN child ELSE search[Through(t, child)]
  IN  search[Through(t, root)]

find_first_focusable_parent_dfs(t, obj) ==
  LET search[o \in Objects(t)] ==
        LET parent == t.parent[o]
        IN  IF parent = NoObj \/ parent \in t.group THEN parent ELSE search[parent]
  IN  search[obj]

(* What a scan has found so far: the answer, last_found_nav and             *)
(* origin_node_passed.                                                      *)
Scan(found, last, passed) == [found |-> found, last |-> last, passed |-> passed]
Scans(t) == [found : t.group \cup {NoObj}, last : t.group \cup {NoObj}, passed : BOOLEAN]

(* Mutant: the object itself is taken for the one before it *)
VisitLate(child, current_focus, forward, s) ==
  IF forward
  THEN IF s.passed THEN [s EXCEPT !.found = child] ELSE [s EXCEPT !.passed = (child = current_focus)]
  ELSE IF child = current_focus THEN [s EXCEPT !.found = child] ELSE [s EXCEPT !.last = child]

(* A navigable child.  Backwards, a focus that comes first has none before  *)
(* it and the scan goes on without finding it again.                        *)
Visit(child, current_focus, forward, s) ==
  IF forward
  THEN IF s.passed THEN [s EXCEPT !.found = child] ELSE [s EXCEPT !.passed = (child = current_focus)]
  ELSE IF child = current_focus THEN [s EXCEPT !.found = s.last] ELSE [s EXCEPT !.last = child]

(* From what was found before the loop to what is found at that place *)
scan_subtree_focus_sequence(t, root, current_focus, forward) ==
  LET scan[at \in Places(t)] ==
        LET o == at[1]
            i == at[2]
            child == t.children[o][i]
            After(s) == IF s.found # NoObj THEN s
                        ELSE IF child \in t.group THEN Visit(child, current_focus, forward, s)
                        ELSE scan[Through(t, child)][s]
        IN  [before \in Scans(t) |-> IF i = 0 THEN before ELSE After(scan[<<o, i - 1>>][before])]
  IN  scan[Through(t, root)][Scan(NoObj, NoObj, FALSE)].found

FocusableSibling(t, obj, forward) ==
  LET boundary_roof == find_first_focusable_parent_dfs(t, obj)
  IN  IF boundary_roof = NoObj THEN NoObj
      ELSE scan_subtree_focus_sequence(t, boundary_roof, obj, forward)

find_next_focusable_sibling(t, obj) == FocusableSibling(t, obj, TRUE)
find_prev_focusable_sibling(t, obj) == FocusableSibling(t, obj, FALSE)

-----------------------------------------------------------------------------
(* The same without a search: where the objects stand in the tree.          *)

Path(t, obj) ==  \* the child numbers that lead from the root to obj
  LET path[o \in Objects(t)] ==
        LET p == t.parent[o]
        IN  IF p = NoObj THEN <<>>
            ELSE Append(path[p], CHOOSE i \in DOMAIN t.children[p] : t.children[p][i] = o)
  IN  path[obj]

(* p stands before q in the order of the tree, neither inside the other.    *)
Earlier(p, q) ==
  \E i \in DOMAIN p \cap DOMAIN q : p[i] < q[i] /\ \A j \in 1..(i - 1) : p[j] = q[j]

(* Inwards is the first of the objects that have no navigable one between   *)
(* them and o, outwards the innermost around o, sideways the neighbour that *)
(* has the same one around it, and nothing exactly where there is none.     *)
InTreeOrder(t, o) ==
  LET paths == {Path(t, c) : c \in t.group}
      here == Path(t, o)
      Inside(p, q) == p # q /\ IsPrefix(q, p)
      Around(p) == {q \in paths : Inside(p, q)}
      Named(ps) == IF ps = {} THEN NoObj
                   ELSE CHOOSE c \in t.group : Path(t, c) \in ps
      inner == {p \in paths : Around(p) = Around(here) \cup {here}}
      level == IF Around(here) = {} THEN {} ELSE {p \in paths : Around(p) = Around(here)}
      after == {p \in level : Earlier(here, p)}
      before == {p \in level : Earlier(p, here)}
  IN  [child |-> Named({p \in inner : \A q \in inner \ {p} : Earlier(p, q)}),
       parent |-> Named({p \in Around(here) : \A q \in Around(here) : Len(q) <= Len(p)}),
       next |-> Named({p \in after : \A q \in after \ {p} : Earlier(p, q)}),
       prev |-> Named({p \in before : \A q \in before \ {p} : Earlier(q, p)})]
=============================================================================
