-------------------------------- MODULE Tree ---------------------------------
(* tree.h: splay trees and red-black trees.  The code writes every case for  *)
(* the left and for the right; here a side is a parameter.                   *)
EXTENDS Integers, Sequences, FiniteSets

CONSTANTS RbKeys, SplayKeys  \* the keys of a tree of each kind, 1..n

VARIABLES tree,  \* the tree: its kind, its root and the fields of its elements
          held,  \* history: the keys inserted and not removed
          tlast  \* history: the last call, was its answer right?

treevars == <<tree, held, tlast>>

TreeKeys == RbKeys \cup SplayKeys
Nil == 0
Header == -1  \* __node of SPLAY
Side == {"l", "r"}
Opp(s) == IF s = "l" THEN "r" ELSE "l"
SideOf(elm, n) == IF elm < n THEN "l" ELSE "r"

\* An element outside of the tree has these fields: the ones it had are not read again.
Unlinked(kind) == [kind |-> kind, root |-> Nil,
                   child |-> [s \in Side |-> [n \in TreeKeys \cup {Header} |-> Nil]],
                   parent |-> [n \in TreeKeys |-> Nil], color |-> [n \in TreeKeys |-> "black"]]

Forget(t, n) == [t EXCEPT !.child["l"][n] = Nil, !.child["r"][n] = Nil, !.parent[n] = Nil,
                          !.color[n] = "black"]

(***************************************************************************)
(* Red-black trees                                                         *)
(***************************************************************************)
\* parent, the root if there is none, points to new instead of old.
Repoint(t, parent, old, new) ==
  IF parent = Nil THEN [t EXCEPT !.root = new]
  ELSE [t EXCEPT !.child[IF t.child["l"][parent] = old THEN "l" ELSE "r"][parent] = new]

SetParent(t, n, parent) == IF n = Nil THEN t ELSE [t EXCEPT !.parent[n] = parent]

\* RB_ROTATE_LEFT, RB_ROTATE_RIGHT: elm goes down to the side s.
Rotate(t, s, elm) ==
  LET tmp    == t.child[Opp(s)][elm]
      inner  == t.child[s][tmp]
      parent == t.parent[elm]
      a == SetParent([t EXCEPT !.child[Opp(s)][elm] = inner], inner, elm)
      b == Repoint([a EXCEPT !.parent[tmp] = parent], parent, elm, tmp)
  IN  [b EXCEPT !.child[s][tmp] = elm, !.parent[elm] = tmp]

IsBlack(t, n) == n = Nil \/ t.color[n] = "black"

\* RB_SET_BLACKRED.
BlackRed(t, black, red) == [t EXCEPT !.color[black] = "black", !.color[red] = "red"]

\* RB_INSERT_COLOR.
RECURSIVE InsertColor(_, _)
InsertColor(t, elm) ==
  LET parent  == t.parent[elm]
      gparent == t.parent[parent]
      s       == IF parent = t.child["l"][gparent] THEN "l" ELSE "r"
      uncle   == t.child[Opp(s)][gparent]
      turn    == t.child[Opp(s)][parent] = elm
      a       == IF turn THEN Rotate(t, s, parent) ELSE t
      upper   == IF turn THEN elm ELSE parent
      lower   == IF turn THEN parent ELSE elm
  IN  IF parent = Nil \/ IsBlack(t, parent) THEN [t EXCEPT !.color[t.root] = "black"]
      ELSE IF ~IsBlack(t, uncle)
           THEN InsertColor(BlackRed([t EXCEPT !.color[uncle] = "black"], parent, gparent), gparent)
      ELSE InsertColor(Rotate(BlackRed(a, upper, gparent), Opp(s), gparent), lower)

\* RB_REMOVE_COLOR, the end of it: elm lacks a black element.
Blacken(t, elm) == IF elm = Nil THEN t ELSE [t EXCEPT !.color[elm] = "black"]

\* The sibling has a red child: the far one, after a rotation if it was the near one, lets it
\* take the colour of parent.
Borrow(t, s, parent, sib) ==
  LET near == t.child[s][sib]
      a    == IF IsBlack(t, t.child[Opp(s)][sib])
              THEN Rotate([Blacken(t, near) EXCEPT !.color[sib] = "red"], Opp(s), sib) ELSE t
      tmp  == a.child[Opp(s)][parent]
      b    == [a EXCEPT !.color[tmp] = a.color[parent], !.color[parent] = "black"]
      c    == Rotate(Blacken(b, b.child[Opp(s)][tmp]), s, parent)
  IN  Blacken(c, c.root)

RECURSIVE RemoveColor(_, _, _)
RemoveColor(t, parent, elm) ==
  LET s    == IF t.child["l"][parent] = elm THEN "l" ELSE "r"
      tmp  == t.child[Opp(s)][parent]
      a    == IF IsBlack(t, tmp) THEN t ELSE Rotate(BlackRed(t, tmp, parent), s, parent)
      sib  == a.child[Opp(s)][parent]
  IN  IF ~IsBlack(t, elm) \/ elm = t.root THEN Blacken(t, elm)
      ELSE IF IsBlack(a, a.child["l"][sib]) /\ IsBlack(a, a.child["r"][sib])
           THEN RemoveColor([a EXCEPT !.color[sib] = "red"], a.parent[parent], parent)
      ELSE Borrow(a, s, parent, sib)

RECURSIVE Outermost(_, _, _)
Outermost(t, s, n) == IF t.child[s][n] = Nil THEN n ELSE Outermost(t, s, t.child[s][n])

\* RB_REMOVE of an element with at most one child.
Splice(t, elm) ==
  LET child  == IF t.child["l"][elm] = Nil THEN t.child["r"][elm] ELSE t.child["l"][elm]
      parent == t.parent[elm]
      a      == Repoint(SetParent(t, child, parent), parent, elm, child)
  IN  IF t.color[elm] = "black" THEN RemoveColor(a, parent, child) ELSE a

\* RB_REMOVE of an element with two: the next one takes its place, and colour says what is
\* missing where that one was.
TakePlace(t, old, elm, colour) ==
  LET child  == t.child["r"][elm]
      up     == t.parent[elm]
      parent == IF up = old THEN elm ELSE up
      a == Repoint(SetParent(t, child, up), up, elm, child)
      b == [a EXCEPT !.child["l"][elm] = a.child["l"][old], !.child["r"][elm] = a.child["r"][old],
                     !.parent[elm] = a.parent[old], !.color[elm] = a.color[old]]
      c == Repoint(b, b.parent[old], old, elm)
      d == SetParent(SetParent(c, c.child["l"][old], elm), c.child["r"][old], elm)
  IN  IF colour = "black" THEN RemoveColor(d, parent, child) ELSE d

\* Mutant: a black element is not missed where it was.
SpliceNextRed(t, old) == TakePlace(t, old, Outermost(t, "l", t.child["r"][old]), "red")

SpliceNext(t, old) ==
  LET elm == Outermost(t, "l", t.child["r"][old]) IN TakePlace(t, old, elm, t.color[elm])

RbRemove(t, elm) ==
  Forget(IF t.child["l"][elm] = Nil \/ t.child["r"][elm] = Nil THEN Splice(t, elm) ELSE SpliceNext(t, elm),
         elm)

\* RB_FIND, and the search of RB_INSERT: the element, or the one below which it would be.
RECURSIVE SearchFrom(_, _, _, _)
SearchFrom(t, n, parent, elm) ==
  IF n = Nil THEN [found |-> Nil, parent |-> parent]
  ELSE IF n = elm THEN [found |-> n, parent |-> parent]
  ELSE SearchFrom(t, t.child[SideOf(elm, n)][n], n, elm)

RbFind(t, elm) == SearchFrom(t, t.root, Nil, elm)

RbInsert(t, elm) ==
  LET parent == RbFind(t, elm).parent
      a == [t EXCEPT !.parent[elm] = parent, !.color[elm] = "red"]
      b == IF parent = Nil THEN [a EXCEPT !.root = elm]
           ELSE [a EXCEPT !.child[SideOf(elm, parent)][parent] = elm]
  IN  InsertColor(b, elm)

\* RB_NEXT.
RECURSIVE Above(_, _)
Above(t, n) == IF t.parent[n] # Nil /\ n = t.child["r"][t.parent[n]] THEN Above(t, t.parent[n])
               ELSE t.parent[n]

RbSucc(t, n) == IF t.child["r"][n] # Nil THEN Outermost(t, "l", t.child["r"][n]) ELSE Above(t, n)

(***************************************************************************)
(* Splay trees                                                             *)
(***************************************************************************)
\* SPLAY_ROTATE_RIGHT with "l", SPLAY_ROTATE_LEFT with "r".
SplayRotate(t, s, tmp) ==
  [t EXCEPT !.child[s][t.root] = t.child[Opp(s)][tmp], !.child[Opp(s)][tmp] = t.root, !.root = tmp]

\* SPLAY_ASSEMBLE; Header is left empty.
Assemble(t, left, right) ==
  LET a == [t EXCEPT !.child["r"][left] = t.child["l"][t.root]]
      b == [a EXCEPT !.child["l"][right] = a.child["r"][a.root]]
  IN  [b EXCEPT !.child["l"][b.root] = b.child["r"][Header], !.child["r"][b.root] = b.child["l"][Header],
                !.child["l"][Header] = Nil, !.child["r"][Header] = Nil]

\* The loop of SPLAY: ends are __left and __right.  SPLAY_MINMAX is the same with a key that
\* is smaller, or greater, than all.
RECURSIVE SplayLoop(_, _, _)
SplayLoop(t, elm, ends) ==
  LET s   == SideOf(elm, t.root)
      tmp == t.child[s][t.root]
      zig == tmp # Nil /\ tmp # elm /\ SideOf(elm, tmp) = s
      a   == IF zig THEN SplayRotate(t, s, tmp) ELSE t
  IN  IF elm = t.root \/ tmp = Nil THEN Assemble(t, ends["l"], ends["r"])
      ELSE IF zig /\ a.child[s][a.root] = Nil THEN Assemble(a, ends["l"], ends["r"])
      ELSE SplayLoop([a EXCEPT !.child[s][ends[Opp(s)]] = a.root, !.root = a.child[s][a.root]],
                     elm, [ends EXCEPT ![Opp(s)] = a.root])

Splay(t, elm) == SplayLoop(t, elm, [s \in Side |-> Header])

SplayInsert(t, elm) ==
  LET a == Splay(t, elm)
      s == SideOf(elm, a.root)
  IN  IF t.root = Nil THEN [t EXCEPT !.root = elm]
      ELSE IF a.root = elm THEN a
      ELSE [a EXCEPT !.child[s][elm] = a.child[s][a.root], !.child[Opp(s)][elm] = a.root,
                     !.child[s][a.root] = Nil, !.root = elm]

SplayRemove(t, elm) ==
  LET a == Splay(t, elm)
      b == Splay([a EXCEPT !.root = a.child["l"][a.root]], elm)
  IN  IF a.root # elm THEN a
      ELSE IF a.child["l"][elm] = Nil THEN Forget([a EXCEPT !.root = a.child["r"][elm]], elm)
      ELSE Forget([b EXCEPT !.child["r"][b.root] = a.child["r"][elm]], elm)

\* SPLAY_NEXT: the tree and the next element.
SplaySucc(t, elm) ==
  LET a == Splay(t, elm)
      n == a.child["r"][elm]
  IN  <<a, IF n = Nil THEN Nil ELSE Outermost(a, "l", n)>>

(***************************************************************************)
(* The calls                                                               *)
(***************************************************************************)
KeysOf(t) == IF t.kind = "rb" THEN RbKeys ELSE SplayKeys

TreeInit == /\ \E kind \in {"rb", "splay"} : tree = Unlinked(kind)
            /\ held = {}
            /\ tlast = [call |-> "none", right |-> TRUE]

Answers(call, right) == tlast' = [call |-> call, right |-> right]

\* RB_INSERT, SPLAY_INSERT; the answer is the element that has this key already.
InsertElement(elm) ==
  /\ LET found == IF tree.kind = "rb" THEN RbFind(tree, elm).found
                  ELSE IF tree.root # Nil /\ Splay(tree, elm).root = elm THEN elm ELSE Nil
     IN  /\ tree' = (IF tree.kind = "splay" THEN SplayInsert(tree, elm)
                     ELSE IF found # Nil THEN tree ELSE RbInsert(tree, elm))
         /\ Answers("insert", found = IF elm \in held THEN elm ELSE Nil)
  /\ held' = held \cup {elm}

\* RB_REMOVE of an element that was found, SPLAY_REMOVE of any.
RemoveElement(elm) ==
  /\ tree.kind = "rb" => RbFind(tree, elm).found = elm
  /\ tree' = (IF tree.root = Nil THEN tree
              ELSE IF tree.kind = "rb" THEN RbRemove(tree, elm) ELSE SplayRemove(tree, elm))
  /\ held' = held \ {elm}
  /\ Answers("remove", elm \notin held => tree.kind = "splay")

\* RB_FIND, SPLAY_FIND.
FindElement(elm) ==
  /\ tree.root # Nil
  /\ tree' = (IF tree.kind = "splay" THEN Splay(tree, elm) ELSE tree)
  /\ LET found == IF tree.kind = "rb" THEN RbFind(tree, elm).found = elm ELSE Splay(tree, elm).root = elm
     IN  Answers("find", found = (elm \in held))
  /\ UNCHANGED held

\* RB_FOREACH, SPLAY_FOREACH: each tree is walked in one step.
RECURSIVE WalkFrom(_, _, _)
WalkFrom(t, n, seen) ==
  IF n = Nil \/ Len(seen) > Cardinality(TreeKeys) THEN <<t, seen>>
  ELSE IF t.kind = "rb" THEN WalkFrom(t, RbSucc(t, n), Append(seen, n))
  ELSE WalkFrom(SplaySucc(t, n)[1], SplaySucc(t, n)[2], Append(seen, n))

Walk ==
  LET a == IF tree.root = Nil \/ tree.kind = "rb" THEN tree ELSE Splay(tree, 0)
      first == IF a.root = Nil THEN Nil ELSE IF a.kind = "rb" THEN Outermost(a, "l", a.root) ELSE a.root
      w == WalkFrom(a, first, <<>>)
  IN  /\ tree' = w[1]
      /\ Answers("walk", /\ {w[2][k] : k \in 1..Len(w[2])} = held
                         /\ \A k, l \in 1..Len(w[2]) : k < l => w[2][k] < w[2][l])
      /\ UNCHANGED held

TreeNext == Walk \/ \E elm \in KeysOf(tree) : InsertElement(elm) \/ RemoveElement(elm) \/ FindElement(elm)

(***************************************************************************)
(* Properties                                                              *)
(***************************************************************************)
\* The elements below n, its height, and the black elements on its paths.
RECURSIVE Below(_, _)
Below(t, n) == IF n = Nil THEN {} ELSE {n} \cup Below(t, t.child["l"][n]) \cup Below(t, t.child["r"][n])

RECURSIVE Height(_, _)
Height(t, n) == IF n = Nil THEN 0
                ELSE LET l == Height(t, t.child["l"][n])  r == Height(t, t.child["r"][n])
                     IN  1 + (IF l > r THEN l ELSE r)

RECURSIVE BlackHeights(_, _)
BlackHeights(t, n) ==
  IF n = Nil THEN {0}
  ELSE {h + (IF t.color[n] = "black" THEN 1 ELSE 0) :
          h \in BlackHeights(t, t.child["l"][n]) \cup BlackHeights(t, t.child["r"][n])}

\* Every search tree is in order and holds what was inserted and not removed, and every call
\* says so; a red-black tree keeps the conditions of the comment in tree.h, "every search path
\* from the root to a leaf consists of the same number of black nodes, each red node (except
\* for the root) has a black parent", its parents are right, and its height is at most
\* 2lg (n+1), as it says.
TreeRight ==
  /\ tlast.right
  /\ Below(tree, tree.root) = held
  /\ \A n \in held : /\ \A m \in Below(tree, tree.child["l"][n]) : m < n
                     /\ \A m \in Below(tree, tree.child["r"][n]) : m > n
  /\ tree.kind = "rb" =>
       /\ Cardinality(BlackHeights(tree, tree.root)) = 1
       /\ \A n \in held : LET p == tree.parent[n]
                          IN  IF p = Nil THEN tree.root = n
                              ELSE /\ n \in {tree.child["l"][p], tree.child["r"][p]}
                                   /\ tree.color[n] = "black" \/ tree.color[p] = "black"
       /\ 2 ^ Height(tree, tree.root) <= (Cardinality(held) + 1) ^ 2
=============================================================================
