--------------------------- MODULE TaxonomyProofs ---------------------------
(***************************************************************************)
(* Theorems about Taxonomy, for every value of its constants.              *)
(***************************************************************************)
EXTENDS Taxonomy, SequenceTheorems, FiniteSetTheorems, WellFoundedInduction, TLAPS

\* A table of categories, and whether it has a row.
TreeRows == [parent: CategoryIds \cup {NoCategory}, path: Seq(CategoryIds), depth: Int, current: Nat]
Tables == [CategoryIds -> TreeRows]
Has(tree, c) == tree[c].path # <<>>

\* Whoever moves what, no category comes or goes by it: a move that is open
\* keeps the rows it read, and those are there still.
TablesInv ==
    /\ categories \in Tables
    /\ DOMAIN publishing = Publishers /\ DOMAIN moving = Movers
    /\ \A m \in Movers : moving[m] # NotMoving =>
          /\ moving[m].read \in Tables /\ moving[m].new \in Tables
          /\ \A c \in CategoryIds :
                /\ Has(moving[m].read, c) => Has(categories, c)
                /\ Has(moving[m].read, c) <=> Has(moving[m].new, c)

\* What the rows of the specification are.
RowTables == [RowIds -> [kind: Kinds \cup {"none"}, category: CategoryIds \cup {NoCategory},
                         key: Keys \cup {"none"}, revision: Nat, introduced: Nat]]
RowsInv == rows \in RowTables /\ StampsArePublished

\* A category is published version after version, and current_spec_version is
\* the last one: two publications at once lose and repeat none.
VersionsOf(c) == {row.version : row \in {q \in versions : q.category = c}}
CurrentIsLatest == \A c \in CategoryIds : VersionsOf(c) = 1..categories[c].current

\* An open publication read a version that was current once.
VersionsInv ==
    /\ CurrentIsLatest
    /\ \A c \in CategoryIds : ~Has(categories, c) => categories[c].current = NoVersion
    /\ \A p \in Publishers : publishing[p] # NotPublishing =>
          /\ publishing[p].category \in CategoryIds
          /\ Has(categories, publishing[p].category)
          /\ publishing[p].previous \in 0..categories[publishing[p].category].current

PublishingInv == TablesInv /\ RowsInv /\ VersionsInv

\* A row hangs below a parent that exists: its path is the parent's with the
\* category appended, and its depth counts it.
Grown(tree, c) ==
    /\ tree[c].parent # NoCategory => Has(tree, tree[c].parent)
    /\ tree[c].path = IF tree[c].parent = NoCategory THEN <<c>>
                      ELSE Append(tree[tree[c].parent].path, c)
    /\ tree[c].depth + 1 = Len(tree[c].path)
Tree(tree) == \A c \in CategoryIds : Has(tree, c) => Grown(tree, c)

\* Two tables that are the same tree.
SameTree(tree, other) ==
    \A c \in CategoryIds :
        /\ tree[c].parent = other[c].parent
        /\ tree[c].path = other[c].path
        /\ tree[c].depth = other[c].depth

\* With one editor at a time a move read the tree as it still is, and makes a
\* tree of it.
TreeInv ==
    /\ Tree(categories)
    /\ \A m \in Movers : moving[m] # NotMoving =>
          /\ \A n \in Movers : n # m => moving[n] = NotMoving
          /\ SameTree(moving[m].read, categories)
          /\ Tree(moving[m].new)

------------------------------------------------------------------------------
(* Paths *)

\* NoCategory is no id.
LEMMA IdFacts == NoCategory \notin CategoryIds
  BY TaxonomyAssumptions DEF NoCategory, CategoryIds

\* A prefix, element by element.
LEMMA PrefixFacts ==
    ASSUME NEW S, NEW s \in Seq(S), NEW t \in Seq(S)
    PROVE  IsStrictPrefix(s, t) <=> Len(s) < Len(t) /\ \A i \in 1..Len(s) : s[i] = t[i]
<1>1. Len(s) \in Nat /\ Len(t) \in Nat
  OBVIOUS
<1>2. SubSeq(s, 1, Len(s)) = s
  BY SubSeqFull
<1>3. ASSUME Len(s) <= Len(t)
      PROVE  /\ SubSeq(t, 1, Len(s)) \in Seq(S) /\ Len(SubSeq(t, 1, Len(s))) = Len(s)
             /\ \A i \in 1..Len(s) : SubSeq(t, 1, Len(s))[i] = t[i]
  <2>1. \A i \in 1..Len(s) : t[i] \in S
    BY <1>1, <1>3
  <2>2. QED
    BY <1>1, <2>1, SubSeqProperties
<1>4. ASSUME Len(s) <= Len(t)
      PROVE  s = SubSeq(t, 1, Len(s)) <=> \A i \in 1..Len(s) : s[i] = t[i]
  BY <1>3, <1>4, SeqEqual
<1>5. ASSUME Len(s) <= Len(t), \A i \in 1..Len(s) : s[i] = t[i]
      PROVE  s # t <=> Len(s) < Len(t)
  BY <1>1, <1>5, SeqEqual
<1>6. QED
  BY <1>1, <1>2, <1>4, <1>5 DEF IsStrictPrefix, IsPrefix

\* What reparent_subtree makes of a path s that goes on after the n elements of
\* the one that moves: they are replaced by q.
Rebased(q, s, n) == q \o SubSeq(s, n + 1, Len(s))

\* t is s rebased, element by element.
Moved(t, q, s, n) ==
    /\ Len(t) = Len(q) + (Len(s) - n)
    /\ \A i \in 1..Len(q) : t[i] = q[i]
    /\ \A i \in (Len(q) + 1)..(Len(q) + (Len(s) - n)) : t[i] = s[(i - Len(q)) + n]

\* That is what Rebased makes.
LEMMA MovedFacts ==
    ASSUME NEW S, NEW q \in Seq(S), NEW s \in Seq(S), NEW n \in Nat, n <= Len(s)
    PROVE  Rebased(q, s, n) \in Seq(S) /\ Moved(Rebased(q, s, n), q, s, n)
<1>1. Len(s) \in Nat /\ Len(q) \in Nat
  OBVIOUS
<1> PICK lo \in Int, hi \in Int : lo = n + 1 /\ hi = Len(s)
  BY <1>1
<1> PICK tail : tail = SubSeq(s, lo, hi)
  OBVIOUS
<1>2. \A i \in lo..hi : s[i] \in S
  BY <1>1
<1>3. /\ tail \in Seq(S)
      /\ Len(tail) = IF lo <= hi THEN hi - lo + 1 ELSE 0
      /\ \A i \in 1..(hi - lo + 1) : tail[i] = s[lo + i - 1]
  BY <1>2, SubSeqProperties
<1>4. Len(tail) = Len(s) - n /\ \A i \in 1..(Len(s) - n) : tail[i] = s[i + n]
  BY <1>1, <1>3
<1>5. /\ q \o tail \in Seq(S) /\ Len(q \o tail) = Len(q) + Len(tail)
      /\ \A i \in 1..(Len(q) + Len(tail)) :
            (q \o tail)[i] = IF i <= Len(q) THEN q[i] ELSE tail[i - Len(q)]
  BY <1>3, ConcatProperties
<1> PICK t \in Seq(S) : t = q \o tail
  BY <1>5
<1>6. Rebased(q, s, n) = t
  BY DEF Rebased
<1>7. Len(t) = Len(q) + (Len(s) - n)
  BY <1>1, <1>4, <1>5
<1>8. \A i \in 1..Len(q) : t[i] = q[i]
  BY <1>1, <1>4, <1>5
<1>9. ASSUME NEW i \in (Len(q) + 1)..(Len(q) + (Len(s) - n))
      PROVE  t[i] = s[(i - Len(q)) + n]
  <2>1. i \in 1..(Len(q) + Len(tail)) /\ ~(i <= Len(q)) /\ i - Len(q) \in 1..(Len(s) - n)
    BY <1>1, <1>4
  <2>2. t[i] = tail[i - Len(q)]
    BY <1>5, <2>1
  <2>3. QED
    BY <1>4, <2>1, <2>2
<1>10. Moved(t, q, s, n)
  BY <1>7, <1>8, <1>9 DEF Moved
<1>11. QED
  BY <1>6, <1>10, Zenon

\* Its elements, with the definition expanded.
LEMMA RebasedFacts ==
    ASSUME NEW S, NEW q \in Seq(S), NEW s \in Seq(S), NEW n \in Nat, n <= Len(s)
    PROVE  /\ Rebased(q, s, n) \in Seq(S)
           /\ Len(Rebased(q, s, n)) = Len(q) + (Len(s) - n)
           /\ \A i \in 1..Len(q) : Rebased(q, s, n)[i] = q[i]
           /\ \A i \in (Len(q) + 1)..(Len(q) + (Len(s) - n)) :
                 Rebased(q, s, n)[i] = s[(i - Len(q)) + n]
<1> PICK t \in Seq(S) : t = Rebased(q, s, n) /\ Moved(t, q, s, n)
  BY MovedFacts, Zenon
<1>1. QED
  BY DEF Moved

\* A path that moves does not vanish.
LEMMA RebasedStays ==
    ASSUME NEW S, NEW q \in Seq(S), NEW s \in Seq(S), NEW n \in Nat, n <= Len(s), q # <<>>
    PROVE  Rebased(q, s, n) # <<>>
<1> PICK t \in Seq(S) : t = Rebased(q, s, n)
  BY RebasedFacts
<1>1. Len(t) = Len(q) + (Len(s) - n)
  BY RebasedFacts
<1>2. Len(q) > 0
  OBVIOUS
<1>3. Len(t) # 0
  BY <1>1, <1>2
<1>4. QED
  BY <1>3

\* Category.create and the row a move puts under its new parent.
LEMMA PlacedFacts ==
    ASSUME categories \in Tables, NEW c \in CategoryIds, NEW parent \in CategoryIds \cup {NoCategory}
    PROVE  LET row == Placed(c, parent) IN
           /\ row \in TreeRows /\ row.parent = parent /\ row.current = NoVersion
           /\ row.path = (IF parent = NoCategory THEN <<c>> ELSE Append(categories[parent].path, c))
           /\ row.path # <<>>
           /\ row.depth = (IF parent = NoCategory THEN 0 ELSE categories[parent].depth + 1)
<1>1. CASE parent = NoCategory
  <2>1. Placed(c, parent) = [parent |-> NoCategory, path |-> <<c>>, depth |-> 0, current |-> NoVersion]
    BY <1>1 DEF Placed, EmptyCategory
  <2>2. <<c>> \in Seq(CategoryIds) /\ <<c>> # <<>>
    OBVIOUS
  <2>3. QED
    BY <1>1, <2>1, <2>2 DEF TreeRows, NoVersion
<1>2. CASE parent # NoCategory
  <2> PICK path, depth : path = Append(categories[parent].path, c) /\ depth = categories[parent].depth + 1
    OBVIOUS
  <2>1. categories[parent].path \in Seq(CategoryIds) /\ categories[parent].depth \in Int
    BY <1>2 DEF Tables, TreeRows
  <2>2. path \in Seq(CategoryIds) /\ path # <<>> /\ depth \in Int
    BY <2>1
  <2>3. Placed(c, parent) = [parent |-> parent, path |-> path, depth |-> depth, current |-> NoVersion]
    BY <1>2 DEF Placed, EmptyCategory
  <2>4. QED
    BY <1>2, <2>2, <2>3 DEF TreeRows, NoVersion
<1>3. QED
  BY <1>1, <1>2

\* list_subtree, element by element.
LEMMA SubtreeFacts ==
    ASSUME categories \in Tables, NEW c \in CategoryIds, NEW d \in CategoryIds
    PROVE  d \in Subtree(c) <=>
              /\ Has(categories, d)
              /\ \/ d = c
                 \/ /\ Len(categories[c].path) < Len(categories[d].path)
                    /\ \A i \in 1..Len(categories[c].path) :
                          categories[c].path[i] = categories[d].path[i]
<1>1. categories[c].path \in Seq(CategoryIds) /\ categories[d].path \in Seq(CategoryIds)
  BY DEF Tables, TreeRows
<1>2. QED
  BY <1>1, PrefixFacts DEF Subtree, Existing, Exists, Has

\* The rows of a subtree that moves, and the others.
LEMMA ReparentedRows ==
    ASSUME categories \in Tables, NEW c \in CategoryIds, NEW parent \in CategoryIds \cup {NoCategory},
           Has(categories, c), NEW d \in CategoryIds
    PROVE  LET new == Placed(c, parent)
               old == categories[c]
               row == Reparented(c, parent)[d]
           IN  /\ d \notin Subtree(c) => row = categories[d]
               /\ d \in Subtree(c) =>
                     /\ row \in TreeRows
                     /\ row.parent = (IF d = c THEN parent ELSE categories[d].parent)
                     /\ row.path = Rebased(new.path, categories[d].path, Len(old.path))
                     /\ row.depth = (categories[d].depth + new.depth) - old.depth
                     /\ row.current = categories[d].current
<1> PICK new, old : new = Placed(c, parent) /\ old = categories[c]
  OBVIOUS
<1>1. new \in TreeRows /\ old \in TreeRows /\ categories[d] \in TreeRows
  BY PlacedFacts DEF Tables
<1>2. CASE d \notin Subtree(c)
  BY <1>2 DEF Reparented
<1>3. CASE d \in Subtree(c)
  <2> PICK up, path, depth :
          /\ up = (IF d = c THEN parent ELSE categories[d].parent)
          /\ path = Rebased(new.path, categories[d].path, Len(old.path))
          /\ depth = (categories[d].depth + new.depth) - old.depth
    OBVIOUS
  <2>1. up \in CategoryIds \cup {NoCategory} /\ depth \in Int
    BY <1>1 DEF TreeRows
  <2>2. path \in Seq(CategoryIds)
    <3>1. /\ new.path \in Seq(CategoryIds) /\ categories[d].path \in Seq(CategoryIds)
          /\ Len(old.path) \in Nat
      BY <1>1 DEF TreeRows
    <3>2. Len(old.path) <= Len(categories[d].path)
      BY <1>3, <3>1, SubtreeFacts
    <3>3. QED
      BY <3>1, <3>2, RebasedFacts
  <2>3. Reparented(c, parent)[d] = [categories[d] EXCEPT !.parent = up, !.path = path, !.depth = depth]
    BY <1>1, <1>3 DEF Reparented, TreeRows, Rebased
  <2> PICK row : row = Reparented(c, parent)[d]
    OBVIOUS
  <2>4. /\ row \in TreeRows /\ row.parent = up /\ row.path = path /\ row.depth = depth
        /\ row.current = categories[d].current
    BY <1>1, <2>1, <2>2, <2>3 DEF TreeRows
  <2>5. QED
    BY <1>3, <2>4
<1>4. QED
  BY <1>2, <1>3

\* A move makes and removes no category.
LEMMA ReparentedTable ==
    ASSUME categories \in Tables, NEW c \in CategoryIds, NEW parent \in CategoryIds \cup {NoCategory},
           Has(categories, c)
    PROVE  /\ Reparented(c, parent) \in Tables
           /\ \A d \in CategoryIds : Has(Reparented(c, parent), d) <=> Has(categories, d)
<1> PICK tree : tree = Reparented(c, parent)
  OBVIOUS
<1>1. \A d \in CategoryIds : tree[d] \in TreeRows
  BY ReparentedRows DEF Tables
<1>2. tree = [d \in CategoryIds |-> tree[d]]
  BY DEF Reparented
<1>3. tree \in Tables
  BY <1>1, <1>2 DEF Tables
<1>4. ASSUME NEW d \in CategoryIds PROVE Has(tree, d) <=> Has(categories, d)
  <2>1. CASE d \notin Subtree(c)
    BY <2>1, ReparentedRows DEF Has
  <2>2. CASE d \in Subtree(c)
    <3>1. /\ Len(categories[c].path) \in Nat /\ categories[d].path \in Seq(CategoryIds)
          /\ Len(categories[d].path) \in Nat
      BY DEF Tables, TreeRows
    <3>2. /\ Placed(c, parent).path \in Seq(CategoryIds) /\ Placed(c, parent).path # <<>>
      BY PlacedFacts DEF TreeRows
    <3> PICK q \in Seq(CategoryIds), s \in Seq(CategoryIds), n \in Nat :
            q = Placed(c, parent).path /\ s = categories[d].path /\ n = Len(categories[c].path)
      BY <3>1, <3>2
    <3>3. Has(categories, d) /\ n <= Len(s) /\ q # <<>>
      BY <2>2, <3>1, <3>2, SubtreeFacts
    <3>4. tree[d].path = Rebased(q, s, n)
      BY <2>2, ReparentedRows
    <3>5. Rebased(q, s, n) # <<>>
      BY <3>3, RebasedStays
    <3>6. QED
      BY <3>3, <3>4, <3>5 DEF Has
  <2>3. QED
    BY <2>1, <2>2
<1>5. QED
  BY <1>3, <1>4

\* t is s with x appended, element by element.
Appended(t, s, x) ==
    /\ Len(t) = Len(s) + 1 /\ t[Len(s) + 1] = x
    /\ \A i \in 1..Len(s) : t[i] = s[i]

\* That is what Append makes.
LEMMA AppendedFacts ==
    ASSUME NEW S, NEW s \in Seq(S), NEW x \in S
    PROVE  Append(s, x) \in Seq(S) /\ Appended(Append(s, x), s, x)
  BY AppendProperties DEF Appended

\* A path that is rebased keeps its last element.
LEMMA RebasedAppend ==
    ASSUME NEW S, NEW q \in Seq(S), NEW s \in Seq(S), NEW n \in Nat, n <= Len(s), NEW x \in S
    PROVE  Rebased(q, Append(s, x), n) = Append(Rebased(q, s, n), x)
<1> PICK t \in Seq(S) : t = Append(s, x) /\ Appended(t, s, x)
  BY AppendedFacts, Zenon
<1>b. /\ Len(t) = Len(s) + 1 /\ t[Len(s) + 1] = x
      /\ \A i \in 1..Len(s) : t[i] = s[i]
  BY DEF Appended
<1>c. n <= Len(t)
  BY <1>b
<1>1. Len(s) \in Nat /\ Len(q) \in Nat /\ Len(t) = Len(s) + 1
  BY <1>b
<1> PICK a \in Seq(S) : a = Rebased(q, t, n) /\ Moved(a, q, t, n)
  BY <1>c, MovedFacts, Zenon
<1>2. /\ Len(a) = Len(q) + (Len(t) - n)
      /\ \A i \in 1..Len(q) : a[i] = q[i]
      /\ \A i \in (Len(q) + 1)..(Len(q) + (Len(t) - n)) : a[i] = t[(i - Len(q)) + n]
  BY DEF Moved
<1> PICK b \in Seq(S) : b = Rebased(q, s, n) /\ Moved(b, q, s, n)
  BY MovedFacts, Zenon
<1>3. /\ Len(b) = Len(q) + (Len(s) - n)
      /\ \A i \in 1..Len(q) : b[i] = q[i]
      /\ \A i \in (Len(q) + 1)..(Len(q) + (Len(s) - n)) : b[i] = s[(i - Len(q)) + n]
  BY DEF Moved
<1> PICK e \in Seq(S) : e = Append(b, x) /\ Appended(e, b, x)
  BY AppendedFacts, Zenon
<1>f. /\ Len(e) = Len(b) + 1 /\ e[Len(b) + 1] = x
      /\ \A i \in 1..Len(b) : e[i] = b[i]
  BY DEF Appended
<1>4. Len(b) \in Nat /\ Len(e) = Len(b) + 1 /\ e[Len(b) + 1] = x
  BY <1>f
<1>5. ASSUME NEW i \in 1..Len(a) PROVE a[i] = e[i]
  <2>1. CASE i <= Len(q)
    <3>1. i \in 1..Len(q) /\ i \in 1..Len(b)
      BY <1>1, <1>2, <1>3, <2>1
    <3>2. a[i] = q[i] /\ b[i] = q[i] /\ e[i] = b[i]
      BY <1>2, <1>3, <1>f, <3>1, Zenon
    <3>3. QED
      BY <3>2
  <2>2. CASE Len(q) < i /\ i <= Len(b)
    <3>1. /\ i \in (Len(q) + 1)..(Len(q) + (Len(t) - n)) /\ i \in (Len(q) + 1)..(Len(q) + (Len(s) - n))
          /\ (i - Len(q)) + n \in 1..Len(s) /\ i \in 1..Len(b)
      BY <1>1, <1>2, <1>3, <2>2
    <3>2. a[i] = t[(i - Len(q)) + n] /\ b[i] = s[(i - Len(q)) + n] /\ e[i] = b[i]
      BY <1>2, <1>3, <1>f, <3>1, Zenon
    <3>3. t[(i - Len(q)) + n] = s[(i - Len(q)) + n]
      BY <1>b, <3>1, Zenon
    <3>4. QED
      BY <3>2, <3>3, Zenon
  <2>3. CASE i = Len(b) + 1
    <3>1. /\ i \in (Len(q) + 1)..(Len(q) + (Len(t) - n)) /\ (i - Len(q)) + n = Len(s) + 1
      BY <1>1, <1>2, <1>3, <2>3
    <3>2. a[i] = t[(i - Len(q)) + n]
      BY <1>2, <3>1, Zenon
    <3>3. QED
      BY <1>b, <1>f, <2>3, <3>1, <3>2, Zenon
  <2>4. Len(a) = Len(b) + 1
    BY <1>1, <1>2, <1>3
  <2>5. i \in Nat /\ (i <= Len(q) \/ (Len(q) < i /\ i <= Len(b)) \/ i = Len(b) + 1)
    BY <1>1, <1>4, <2>4
  <2>6. QED
    BY <2>1, <2>2, <2>3, <2>5, Zenon
<1>6. Len(a) = Len(e)
  BY <1>1, <1>2, <1>3, <1>4
<1>7. a = e
  BY <1>5, <1>6, SeqEqual
<1>8. QED
  BY <1>7

\* The category that moves takes its new path whole.
LEMMA RebasedWhole ==
    ASSUME NEW S, NEW q \in Seq(S), NEW s \in Seq(S)
    PROVE  Rebased(q, s, Len(s)) = q
<1>1. Len(s) \in Nat /\ Len(q) \in Nat
  OBVIOUS
<1> PICK n \in Nat : n = Len(s) /\ n <= Len(s)
  BY <1>1
<1> PICK a \in Seq(S) : a = Rebased(q, s, n) /\ Moved(a, q, s, n)
  BY MovedFacts, Zenon
<1>2. Len(a) = Len(q) /\ \A i \in 1..Len(q) : a[i] = q[i]
  BY <1>1 DEF Moved
<1>3. QED
  BY <1>2, SeqEqual

\* The path of a tree's row, seen from its parent.
LEMMA PathFacts ==
    ASSUME categories \in Tables, Tree(categories), NEW d \in CategoryIds, Has(categories, d)
    PROVE  LET path == categories[d].path
               up == categories[d].parent
           IN  /\ path \in Seq(CategoryIds) /\ Len(path) \in Nat \ {0} /\ path[Len(path)] = d
               /\ up = NoCategory => Len(path) = 1
               /\ up # NoCategory =>
                     /\ up \in CategoryIds /\ Has(categories, up)
                     /\ path = Append(categories[up].path, d)
                     /\ categories[up].path \in Seq(CategoryIds)
                     /\ Len(path) = Len(categories[up].path) + 1
                     /\ \A i \in 1..Len(categories[up].path) : path[i] = categories[up].path[i]
<1> PICK path \in Seq(CategoryIds), up \in CategoryIds \cup {NoCategory} :
        path = categories[d].path /\ up = categories[d].parent
  BY DEF Tables, TreeRows
<1>1. /\ up # NoCategory => Has(categories, up)
      /\ path = IF up = NoCategory THEN <<d>> ELSE Append(categories[up].path, d)
  BY DEF Tree, Grown
<1>2. CASE up = NoCategory
  BY <1>1, <1>2
<1>3. CASE up # NoCategory
  <2> PICK above \in Seq(CategoryIds) : above = categories[up].path
    BY <1>3 DEF Tables, TreeRows
  <2>1. path = Append(above, d)
    BY <1>1, <1>3
  <2>2. /\ Len(path) = Len(above) + 1 /\ path[Len(above) + 1] = d
        /\ \A i \in 1..Len(above) : path[i] = above[i]
    <3>1. Appended(path, above, d)
      BY <2>1, AppendedFacts, Zenon
    <3>2. QED
      BY <3>1, Zenon DEF Appended
  <2>3. Len(above) \in Nat
    OBVIOUS
  <2>4. QED
    BY <1>1, <1>3, <2>1, <2>2, <2>3
<1>4. QED
  BY <1>2, <1>3

\* A subtree holds the parent of each of its rows but its root.
LEMMA ParentInside ==
    ASSUME categories \in Tables, Tree(categories), NEW c \in CategoryIds, Has(categories, c),
           NEW d \in CategoryIds, d \in Subtree(c), d # c
    PROVE  categories[d].parent \in CategoryIds /\ categories[d].parent \in Subtree(c)
<1>1. Has(categories, d)
  BY SubtreeFacts
<1> PICK s \in Seq(CategoryIds), t \in Seq(CategoryIds), p \in CategoryIds \cup {NoCategory} :
        s = categories[c].path /\ t = categories[d].path /\ p = categories[d].parent
  BY DEF Tables, TreeRows
<1>2. Len(s) < Len(t) /\ \A i \in 1..Len(s) : s[i] = t[i]
  BY SubtreeFacts
<1>3. Len(s) \in Nat \ {0} /\ Len(t) \in Nat /\ s[Len(s)] = c
  BY PathFacts
<1>4. p # NoCategory
  <2>1. p = NoCategory => Len(t) = 1
    BY <1>1, PathFacts
  <2>2. QED
    BY <1>2, <1>3, <2>1
<1>5. p \in CategoryIds /\ Has(categories, p) /\ categories[p].path \in Seq(CategoryIds)
  BY <1>1, <1>4, PathFacts
<1> PICK u \in Seq(CategoryIds) : u = categories[p].path
  BY <1>5
<1>6. Len(t) = Len(u) + 1 /\ \A i \in 1..Len(u) : t[i] = u[i]
  BY <1>1, <1>4, PathFacts
<1>7. Len(u) \in Nat /\ u[Len(u)] = p
  BY <1>5, PathFacts
<1>8. CASE Len(s) < Len(u)
  <2>1. \A i \in 1..Len(s) : s[i] = u[i]
    BY <1>2, <1>3, <1>6, <1>7, <1>8
  <2>2. QED
    BY <1>5, <1>8, <2>1, SubtreeFacts
<1>9. CASE Len(s) = Len(u)
  <2>1. Len(s) \in 1..Len(s) /\ Len(s) \in 1..Len(u)
    BY <1>3, <1>9
  <2>2. s[Len(s)] = t[Len(s)] /\ t[Len(s)] = u[Len(s)]
    BY <1>2, <1>6, <2>1, Zenon
  <2>3. p = c
    BY <1>3, <1>7, <1>9, <2>2, Zenon
  <2>4. QED
    BY <1>5, <2>3, SubtreeFacts
<1>10. QED
  BY <1>2, <1>3, <1>6, <1>7, <1>8, <1>9

\* What hangs below a row of a subtree is of the subtree.
LEMMA ParentOutside ==
    ASSUME categories \in Tables, Tree(categories), NEW c \in CategoryIds,
           NEW d \in CategoryIds, Has(categories, d), d \notin Subtree(c),
           categories[d].parent # NoCategory
    PROVE  categories[d].parent \in CategoryIds /\ categories[d].parent \notin Subtree(c)
<1> PICK s \in Seq(CategoryIds), t \in Seq(CategoryIds), p \in CategoryIds \cup {NoCategory} :
        s = categories[c].path /\ t = categories[d].path /\ p = categories[d].parent
  BY DEF Tables, TreeRows
<1>1. p \in CategoryIds /\ categories[p].path \in Seq(CategoryIds)
  BY PathFacts
<1> PICK u \in Seq(CategoryIds) : u = categories[p].path
  BY <1>1
<1>2. Len(t) = Len(u) + 1 /\ \A i \in 1..Len(u) : t[i] = u[i]
  BY PathFacts
<1>3. Len(u) \in Nat /\ Len(s) \in Nat
  OBVIOUS
<1>4. SUFFICES ASSUME p \in Subtree(c) PROVE FALSE
  BY <1>1
<1>5. Len(s) <= Len(u) /\ \A i \in 1..Len(s) : s[i] = u[i]
  <2>1. CASE p = c
    BY <1>3, <2>1
  <2>2. CASE p # c
    <3>1. Len(s) < Len(u) /\ \A i \in 1..Len(s) : s[i] = u[i]
      BY <1>1, <1>4, <2>2, SubtreeFacts
    <3>2. QED
      BY <1>3, <3>1
  <2>3. QED
    BY <2>1, <2>2
<1>6. Len(s) < Len(t) /\ \A i \in 1..Len(s) : s[i] = t[i]
  BY <1>2, <1>3, <1>5
<1>7. QED
  BY <1>6, SubtreeFacts

\* A move within the tree, and not below itself, makes a tree.
LEMMA ReparentedTree ==
    ASSUME categories \in Tables, Tree(categories), NEW c \in CategoryIds, Has(categories, c),
           NEW parent \in CategoryIds \cup {NoCategory},
           parent # NoCategory => Has(categories, parent), parent \notin Subtree(c)
    PROVE  Tree(Reparented(c, parent))
<1> PICK tree : tree = Reparented(c, parent)
  OBVIOUS
<1>0. PICK q \in Seq(CategoryIds), s \in Seq(CategoryIds), n \in Nat, down \in Int, was \in Int :
        /\ q = Placed(c, parent).path /\ s = categories[c].path /\ n = Len(s)
        /\ down = Placed(c, parent).depth /\ was = categories[c].depth
  <2>1. Placed(c, parent) \in TreeRows /\ categories[c] \in TreeRows
    BY PlacedFacts DEF Tables
  <2>2. QED
    BY <2>1 DEF TreeRows
<1>1. was + 1 = n
  BY <1>0 DEF Tree, Grown
<1>2. /\ q = (IF parent = NoCategory THEN <<c>> ELSE Append(categories[parent].path, c))
      /\ down = (IF parent = NoCategory THEN 0 ELSE categories[parent].depth + 1)
  BY <1>0, PlacedFacts
<1>3. down + 1 = Len(q)
  <2>1. CASE parent = NoCategory
    BY <1>2, <2>1
  <2>2. CASE parent # NoCategory
    <3>1. parent \in CategoryIds /\ categories[parent].depth + 1 = Len(categories[parent].path)
      BY <2>2 DEF Tree, Grown
    <3> PICK u \in Seq(CategoryIds), deep \in Int :
            u = categories[parent].path /\ deep = categories[parent].depth
      BY <3>1 DEF Tables, TreeRows
    <3>2. q = Append(u, c) /\ down = deep + 1
      BY <1>2, <2>2
    <3>3. Appended(q, u, c)
      BY <3>2, AppendedFacts, Zenon
    <3>4. Len(q) = Len(u) + 1
      BY <3>3, Zenon DEF Appended
    <3>5. QED
      BY <3>1, <3>2, <3>4
  <2>3. QED
    BY <2>1, <2>2
<1>4. \A d \in CategoryIds : d \notin Subtree(c) => tree[d] = categories[d]
  BY ReparentedRows
<1>5. \A d \in CategoryIds : d \in Subtree(c) =>
          /\ tree[d].parent = (IF d = c THEN parent ELSE categories[d].parent)
          /\ tree[d].path = Rebased(q, categories[d].path, n)
          /\ tree[d].depth = (categories[d].depth + down) - was
  BY <1>0, ReparentedRows
<1>6. \A d \in CategoryIds : Has(tree, d) <=> Has(categories, d)
  BY ReparentedTable
<1>7. SUFFICES ASSUME NEW d \in CategoryIds, Has(tree, d) PROVE Grown(tree, d)
  BY DEF Tree
<1>8. Has(categories, d)
  BY <1>6, <1>7
<1>9. CASE d = c
  <2>1. c \in Subtree(c)
    BY SubtreeFacts
  <2>2. tree[c].parent = parent /\ tree[c].path = Rebased(q, s, n) /\ tree[c].depth = (was + down) - was
    BY <1>0, <1>5, <2>1
  <2>3. tree[c].path = q /\ tree[c].depth = down
    <3>1. Rebased(q, s, Len(s)) = q
      BY RebasedWhole, Zenon
    <3>2. (was + down) - was = down
      OBVIOUS
    <3>3. QED
      BY <1>0, <2>2, <3>1, <3>2, Zenon
  <2>4. parent # NoCategory => parent \in CategoryIds /\ tree[parent] = categories[parent] /\ Has(tree, parent)
    BY <1>4, <1>6
  <2>5. q = IF parent = NoCategory THEN <<c>> ELSE Append(tree[parent].path, c)
    BY <1>2, <2>4
  <2>6. QED
    BY <1>3, <1>9, <2>2, <2>3, <2>4, <2>5 DEF Grown
<1>10. CASE d # c /\ d \in Subtree(c)
  <2>a. PICK p : p = categories[d].parent
    OBVIOUS
  <2>b. PICK t \in Seq(CategoryIds), deep \in Int : t = categories[d].path /\ deep = categories[d].depth
    BY DEF Tables, TreeRows
  <2>1. p \in CategoryIds /\ p \in Subtree(c)
    BY <1>10, <2>a, ParentInside
  <2>c. PICK u \in Seq(CategoryIds) : u = categories[p].path
    BY <2>1 DEF Tables, TreeRows
  <2>2. p # NoCategory /\ Has(categories, p) /\ Has(tree, p)
    BY <1>6, <2>1, IdFacts, SubtreeFacts
  <2>3. t = Append(u, d) /\ Len(t) = Len(u) + 1 /\ deep + 1 = Len(t)
    <3>1. t = Append(u, d) /\ deep + 1 = Len(t)
      BY <1>8, <2>2, <2>a, <2>b, <2>c DEF Tree, Grown
    <3>2. Len(t) = Len(u) + 1
      <4>1. Appended(t, u, d)
        BY <3>1, AppendedFacts, Zenon
      <4>2. QED
        BY <4>1, Zenon DEF Appended
    <3>3. QED
      BY <3>1, <3>2
  <2>4. n <= Len(u)
    <3>1. p = c \/ Len(s) < Len(u)
      BY <1>0, <2>1, <2>c, SubtreeFacts, Zenon
    <3>2. CASE p = c
      BY <1>0, <2>c, <3>2
    <3>3. CASE Len(s) < Len(u)
      BY <1>0, <3>3
    <3>4. QED
      BY <3>1, <3>2, <3>3
  <2>5. tree[d].path = Rebased(q, t, n) /\ tree[p].path = Rebased(q, u, n)
        /\ tree[d].parent = p /\ tree[d].depth = (deep + down) - was
    BY <1>5, <1>10, <2>1, <2>a, <2>b, <2>c
  <2>6. Rebased(q, Append(u, d), n) = Append(Rebased(q, u, n), d)
    BY <2>4, RebasedAppend
  <2>7. tree[d].path = Append(tree[p].path, d)
    BY <2>3, <2>5, <2>6, Zenon
  <2>8. n <= Len(t)
    BY <2>3, <2>4
  <2>9. Moved(Rebased(q, t, n), q, t, n)
    BY <2>8, MovedFacts, Zenon
  <2>10. Len(tree[d].path) = Len(q) + (Len(t) - n)
    BY <2>5, <2>9, Zenon DEF Moved
  <2>11. tree[d].depth + 1 = Len(tree[d].path)
    <3>1. ((deep + down) - was) + 1 = Len(q) + (Len(t) - n)
      BY <1>1, <1>3, <2>3
    <3>2. QED
      BY <2>5, <2>10, <3>1, Zenon
  <2>12. QED
    BY <2>2, <2>5, <2>7, <2>11 DEF Grown
<1>11. CASE d \notin Subtree(c)
  <2>1. tree[d] = categories[d] /\ Grown(categories, d)
    BY <1>4, <1>8, <1>11 DEF Tree
  <2>2. categories[d].parent # NoCategory =>
            /\ tree[categories[d].parent] = categories[categories[d].parent]
            /\ Has(categories, categories[d].parent) => Has(tree, categories[d].parent)
    BY <1>4, <1>6, <1>8, <1>11, ParentOutside
  <2>3. QED
    BY <2>1, <2>2 DEF Grown
<1>12. QED
  BY <1>9, <1>10, <1>11

------------------------------------------------------------------------------
(* What the steps do to the table of categories *)

\* Category.create adds one row below a parent that is there.
LEMMA CreateMoves ==
    ASSUME TablesInv, NEW c \in CategoryIds, NEW parent \in CategoryIds \cup {NoCategory},
           CreateCategory(c, parent)
    PROVE  /\ categories' \in Tables /\ categories'[c] = Placed(c, parent)
           /\ \A d \in CategoryIds : d # c => categories'[d] = categories[d]
           /\ ~Has(categories, c) /\ Has(categories', c)
           /\ parent # NoCategory => Has(categories, parent)
<1>1. categories \in Tables /\ categories' = [categories EXCEPT ![c] = Placed(c, parent)]
  BY DEF TablesInv, CreateCategory
<1>2. Placed(c, parent) \in TreeRows /\ Placed(c, parent).path # <<>>
  BY <1>1, PlacedFacts
<1>3. /\ categories' \in Tables /\ categories'[c] = Placed(c, parent)
      /\ \A d \in CategoryIds : d # c => categories'[d] = categories[d]
  BY <1>1, <1>2 DEF Tables
<1>4. ~Has(categories, c) /\ (parent # NoCategory => Has(categories, parent))
  BY DEF CreateCategory, Exists, Existing, Has
<1>5. QED
  BY <1>2, <1>3, <1>4 DEF Has

\* The UPDATE of one row.
LEMMA RewrittenFacts ==
    ASSUME NEW row \in TreeRows, NEW read \in TreeRows, NEW new \in TreeRows
    PROVE  LET to == Rewritten(row, read, new) IN
           /\ to \in TreeRows /\ to.current = row.current
           /\ to.parent = (IF new.parent = read.parent THEN row.parent ELSE new.parent)
           /\ to.path = (IF new.path = read.path THEN row.path ELSE new.path)
           /\ to.depth = (IF new.depth = read.depth THEN row.depth ELSE new.depth)
<1> PICK parent, path, depth :
        /\ parent = (IF new.parent = read.parent THEN row.parent ELSE new.parent)
        /\ path = (IF new.path = read.path THEN row.path ELSE new.path)
        /\ depth = (IF new.depth = read.depth THEN row.depth ELSE new.depth)
  OBVIOUS
<1>1. parent \in CategoryIds \cup {NoCategory} /\ path \in Seq(CategoryIds) /\ depth \in Int
  BY DEF TreeRows
<1>2. Rewritten(row, read, new) = [row EXCEPT !.parent = parent, !.path = path, !.depth = depth]
  BY DEF Rewritten, TreeRows
<1>3. QED
  BY <1>1, <1>2 DEF TreeRows

\* A move that commits makes and removes no category, and publishes none.
LEMMA CommitMoves ==
    ASSUME TablesInv, NEW m \in Movers, MoveCommit(m)
    PROVE  /\ categories' \in Tables
           /\ \A d \in CategoryIds :
                 /\ categories'[d] = Rewritten(categories[d], moving[m].read[d], moving[m].new[d])
                 /\ categories'[d].current = categories[d].current
                 /\ Has(categories', d) <=> Has(categories, d)
<1>1. /\ categories \in Tables /\ moving[m].read \in Tables /\ moving[m].new \in Tables
      /\ \A c \in CategoryIds : Has(moving[m].read, c) => Has(categories, c)
      /\ \A c \in CategoryIds : Has(moving[m].read, c) <=> Has(moving[m].new, c)
  BY DEF TablesInv, MoveCommit
<1>2. categories' = [d \in CategoryIds |->
                        Rewritten(categories[d], moving[m].read[d], moving[m].new[d])]
  BY DEF MoveCommit
<1>3. \A d \in CategoryIds :
          categories[d] \in TreeRows /\ moving[m].read[d] \in TreeRows /\ moving[m].new[d] \in TreeRows
  BY <1>1 DEF Tables
<1>4. ASSUME NEW d \in CategoryIds
      PROVE  /\ Rewritten(categories[d], moving[m].read[d], moving[m].new[d]) \in TreeRows
             /\ categories'[d] = Rewritten(categories[d], moving[m].read[d], moving[m].new[d])
             /\ categories'[d].current = categories[d].current
             /\ Has(categories', d) <=> Has(categories, d)
  <2> PICK row \in TreeRows, read \in TreeRows, new \in TreeRows :
          row = categories[d] /\ read = moving[m].read[d] /\ new = moving[m].new[d]
    BY <1>3
  <2>1. categories'[d] = Rewritten(row, read, new)
    BY <1>2
  <2>2. (read.path # <<>> => row.path # <<>>) /\ (read.path # <<>> <=> new.path # <<>>)
    BY <1>1 DEF Has
  <2>3. QED
    BY <2>1, <2>2, RewrittenFacts DEF Has
<1>5. categories' \in Tables
  BY <1>2, <1>4 DEF Tables
<1>6. QED
  BY <1>4, <1>5

\* The version a publication inserts is the one after the current: of two
\* that read the same version one only finds it free.
LEMMA PublishMoves ==
    ASSUME PublishingInv, NEW p \in Publishers, PublishCommit(p)
    PROVE  LET c == publishing[p].category
               v == categories[c].current + 1
           IN  /\ c \in CategoryIds /\ Has(categories, c) /\ v = publishing[p].previous + 1
               /\ categories' \in Tables
               /\ \A d \in CategoryIds :
                     /\ categories'[d].parent = categories[d].parent
                     /\ categories'[d].path = categories[d].path
                     /\ categories'[d].depth = categories[d].depth
                     /\ categories'[d].current = (IF d = c THEN v ELSE categories[d].current)
<1>0. PICK c, k : c = publishing[p].category /\ k = publishing[p].previous /\ c \in CategoryIds
  BY DEF PublishingInv, VersionsInv, PublishCommit
<1>1. categories \in Tables /\ Has(categories, c)
  BY <1>0 DEF PublishingInv, TablesInv, VersionsInv, PublishCommit
<1>2. PICK now \in Nat : now = categories[c].current
  BY <1>0, <1>1 DEF Tables, TreeRows
<1>3. k \in 0..now /\ VersionsOf(c) = 1..now
  BY <1>0, <1>2 DEF PublishingInv, VersionsInv, CurrentIsLatest, PublishCommit
<1>4. k + 1 \notin VersionsOf(c)
  <2>1. VersionIsFree(c, k + 1)
    BY <1>0 DEF PublishCommit
  <2>2. QED
    BY <2>1 DEF VersionIsFree, VersionsOf
<1>5. k = now
  BY <1>3, <1>4
<1>6. categories' = [categories EXCEPT ![c].current = now + 1]
  BY <1>0, <1>5 DEF PublishCommit
<1>7. ASSUME NEW d \in CategoryIds
      PROVE  /\ categories'[d] \in TreeRows
             /\ categories'[d].parent = categories[d].parent
             /\ categories'[d].path = categories[d].path
             /\ categories'[d].depth = categories[d].depth
             /\ categories'[d].current = (IF d = c THEN now + 1 ELSE categories[d].current)
  <2>1. categories[d] \in TreeRows
    BY <1>1 DEF Tables
  <2>2. categories'[d] = IF d = c THEN [categories[d] EXCEPT !.current = now + 1] ELSE categories[d]
    BY <1>1, <1>6 DEF Tables
  <2>3. QED
    BY <2>1, <2>2 DEF TreeRows
<1>8. categories' \in Tables
  BY <1>1, <1>6, <1>7 DEF Tables
<1>9. QED
  BY <1>0, <1>1, <1>2, <1>5, <1>7, <1>8

------------------------------------------------------------------------------
(* The tables, the stamps and the versions, whoever edits the tree *)

\* A step that neither adds nor removes a category, keeps what the open moves
\* read and opens none, keeps the tables as they should be.
LEMMA TablesFramed ==
    ASSUME TablesInv, categories' \in Tables, DOMAIN publishing' = Publishers,
           DOMAIN moving' = Movers,
           \A d \in CategoryIds : Has(categories, d) => Has(categories', d),
           \A m \in Movers : moving'[m] = moving[m] \/ moving'[m] = NotMoving
    PROVE  TablesInv'
<1>1. ASSUME NEW m \in Movers, moving'[m] # NotMoving
      PROVE  /\ moving'[m].read \in Tables /\ moving'[m].new \in Tables
             /\ \A c \in CategoryIds :
                   /\ Has(moving'[m].read, c) => Has(categories', c)
                   /\ Has(moving'[m].read, c) <=> Has(moving'[m].new, c)
  <2>1. moving'[m] = moving[m] /\ moving[m] # NotMoving
    BY <1>1
  <2>2. QED
    BY <2>1 DEF TablesInv
<1>2. QED
  BY <1>1 DEF TablesInv, Tables, Has

\* Every step keeps the tables as they should be.
LEMMA TablesKept ==
    ASSUME PublishingInv, Next
    PROVE  TablesInv'
<1>1. TablesInv /\ categories \in Tables /\ DOMAIN publishing = Publishers /\ DOMAIN moving = Movers
  BY DEF PublishingInv, TablesInv
<1>2. ASSUME NEW c \in CategoryIds, NEW parent \in CategoryIds \cup {NoCategory},
             CreateCategory(c, parent)
      PROVE  TablesInv'
  <2>1. /\ categories' \in Tables
        /\ \A d \in CategoryIds : Has(categories, d) => Has(categories', d)
    BY <1>1, <1>2, CreateMoves DEF Has
  <2>2. publishing' = publishing /\ moving' = moving
    BY <1>2 DEF CreateCategory
  <2>3. QED
    BY <1>1, <2>1, <2>2, TablesFramed
<1>3. ASSUME NEW m \in Movers, NEW c \in CategoryIds, NEW parent \in CategoryIds \cup {NoCategory},
             MoveRead(m, c, parent)
      PROVE  TablesInv'
  <2>1. /\ categories' = categories /\ publishing' = publishing
        /\ moving' = [moving EXCEPT ![m] = [read |-> categories, new |-> Reparented(c, parent)]]
        /\ Has(categories, c)
    BY <1>3 DEF MoveRead, Existing, Exists, Has
  <2>2. /\ Reparented(c, parent) \in Tables
        /\ \A d \in CategoryIds : Has(Reparented(c, parent), d) <=> Has(categories, d)
    BY <1>1, <2>1, ReparentedTable
  <2>3. DOMAIN moving' = Movers
    BY <1>1, <2>1
  <2>4. ASSUME NEW n \in Movers, moving'[n] # NotMoving
        PROVE  /\ moving'[n].read \in Tables /\ moving'[n].new \in Tables
               /\ \A d \in CategoryIds :
                     /\ Has(moving'[n].read, d) => Has(categories, d)
                     /\ Has(moving'[n].read, d) <=> Has(moving'[n].new, d)
    <3>1. CASE n = m
      <4>1. moving'[m].read = categories /\ moving'[m].new = Reparented(c, parent)
        BY <1>1, <2>1
      <4>2. QED
        BY <1>1, <2>2, <3>1, <4>1
    <3>2. CASE n # m
      <4>1. moving'[n] = moving[n]
        BY <1>1, <2>1, <3>2
      <4>2. QED
        BY <1>1, <2>4, <4>1 DEF TablesInv
    <3>3. QED
      BY <3>1, <3>2
  <2>5. QED
    BY <1>1, <2>1, <2>3, <2>4 DEF TablesInv, Tables, Has
<1>4. ASSUME NEW m \in Movers, MoveCommit(m)
      PROVE  TablesInv'
  <2>1. /\ categories' \in Tables
        /\ \A d \in CategoryIds : Has(categories, d) => Has(categories', d)
    BY <1>1, <1>4, CommitMoves
  <2>2. publishing' = publishing /\ moving' = [moving EXCEPT ![m] = NotMoving]
    BY <1>4 DEF MoveCommit
  <2>3. /\ DOMAIN moving' = Movers
        /\ \A n \in Movers : moving'[n] = moving[n] \/ moving'[n] = NotMoving
    BY <1>1, <2>2
  <2>4. QED
    BY <1>1, <2>1, <2>2, <2>3, TablesFramed
<1>5. ASSUME categories' = categories, moving' = moving, DOMAIN publishing' = Publishers
      PROVE  TablesInv'
  BY <1>1, <1>5, TablesFramed
<1>6. ASSUME NEW p \in Publishers, PublishCommit(p)
      PROVE  TablesInv'
  <2>1. /\ categories' \in Tables
        /\ \A d \in CategoryIds : categories'[d].path = categories[d].path
    BY <1>6, PublishMoves
  <2>2. publishing' = [publishing EXCEPT ![p] = NotPublishing] /\ moving' = moving
    BY <1>6 DEF PublishCommit
  <2>3. QED
    BY <1>1, <2>1, <2>2, TablesFramed DEF Has
<1>7. CASE EditTree
  BY <1>1, <1>2, <1>3, <1>4, <1>5, <1>7 DEF EditTree, UpdateCategory, vars
<1>8. CASE AddRow \/ EditRow
  <2>1. categories' = categories /\ moving' = moving /\ publishing' = publishing
    BY <1>8 DEF AddRow, EditRow, CreateAttributeDefinition, CreateVariantAxis,
          CreateInputImageSlot, CreateCatalogImageSlot, CreateRow, UpdateAttributeDefinition,
          UpdateInputImageSlot, UpdateVariantAxis, CreateVariantAxisValue,
          UpdateVariantAxisValue, UpdateCatalogImageSlot, AttachInputToCatalogSlot,
          UpdateCatalogSlotInputRequirement, DetachInputFromCatalogSlot, ReviseRow
  <2>2. QED
    BY <1>1, <1>5, <2>1
<1>9. CASE Publish
  <2>1. ASSUME NEW p \in Publishers, NEW c \in CategoryIds, PublishRead(p, c)
        PROVE  TablesInv'
    BY <1>1, <1>5, <2>1 DEF PublishRead
  <2>2. ASSUME NEW p \in Publishers, PublishConflict(p)
        PROVE  TablesInv'
    BY <1>1, <1>5, <2>2 DEF PublishConflict
  <2>3. QED
    BY <1>6, <1>9, <2>1, <2>2 DEF Publish
<1>10. QED
  BY <1>7, <1>8, <1>9 DEF Next

\* The use cases of the specification rows add one without a stamp or write one
\* without touching its category and its stamp.
LEMMA RowSteps ==
    ASSUME rows \in RowTables, AddRow \/ EditRow
    PROVE  /\ rows' \in RowTables
           /\ \A r \in RowIds :
                 \/ rows'[r].introduced = NoVersion
                 \/ rows'[r].category = rows[r].category /\ rows'[r].introduced = rows[r].introduced
           /\ UNCHANGED <<categories, versions, publishing, moving>>
<1>1. ASSUME NEW r \in RowIds, NEW kind \in Kinds, NEW c \in CategoryIds, NEW key \in Keys,
             CreateRow(r, kind, c, key)
      PROVE  /\ rows' \in RowTables
             /\ \A q \in RowIds : rows'[q].introduced = NoVersion \/ rows'[q] = rows[q]
             /\ UNCHANGED <<categories, versions, publishing, moving>>
  <2> PICK row : row = [EmptyRow EXCEPT !.kind = kind, !.category = c, !.key = key]
    OBVIOUS
  <2>1. row = [kind |-> kind, category |-> c, key |-> key, revision |-> 0, introduced |-> NoVersion]
    BY DEF EmptyRow
  <2>2. rows' = [rows EXCEPT ![r] = row] /\ UNCHANGED <<categories, versions, publishing, moving>>
    BY <1>1 DEF CreateRow
  <2>3. QED
    BY <2>1, <2>2 DEF RowTables, NoVersion
<1>2. ASSUME NEW r \in RowIds, NEW kind \in Kinds, ReviseRow(r, kind)
      PROVE  /\ rows' \in RowTables
             /\ \A q \in RowIds : /\ rows'[q].category = rows[q].category
                                  /\ rows'[q].introduced = rows[q].introduced
             /\ UNCHANGED <<categories, versions, publishing, moving>>
  <2>1. rows' = [rows EXCEPT ![r] = [rows[r] EXCEPT !.revision = rows[r].revision + 1]]
        /\ UNCHANGED <<categories, versions, publishing, moving>>
    BY <1>2 DEF ReviseRow
  <2>2. QED
    BY <2>1 DEF RowTables
<1>3. CASE AddRow
  <2>1. PICK r \in RowIds, kind \in Kinds, c \in CategoryIds, key \in Keys : CreateRow(r, kind, c, key)
    BY <1>3 DEF AddRow, CreateAttributeDefinition, CreateVariantAxis, CreateInputImageSlot,
          CreateCatalogImageSlot, Kinds
  <2>2. QED
    BY <1>1, <2>1
<1>4. CASE EditRow
  <2>1. PICK r \in RowIds, kind \in Kinds : ReviseRow(r, kind)
    BY <1>4 DEF EditRow, UpdateAttributeDefinition, UpdateInputImageSlot, UpdateVariantAxis,
          CreateVariantAxisValue, UpdateVariantAxisValue, UpdateCatalogImageSlot,
          AttachInputToCatalogSlot, UpdateCatalogSlotInputRequirement,
          DetachInputFromCatalogSlot, Kinds
  <2>2. QED
    BY <1>2, <2>1
<1>5. QED
  BY <1>3, <1>4

\* Every step keeps the stamps published.
LEMMA RowsKept ==
    ASSUME PublishingInv, Next
    PROVE  RowsInv'
<1>1. rows \in RowTables /\ StampsArePublished
  BY DEF PublishingInv, RowsInv
<1>2. CASE rows' = rows /\ versions' = versions
  BY <1>1, <1>2 DEF RowsInv, StampsArePublished, RowTables
<1>3. CASE AddRow \/ EditRow
  <2>1. /\ rows' \in RowTables /\ versions' = versions
        /\ \A r \in RowIds :
              \/ rows'[r].introduced = NoVersion
              \/ rows'[r].category = rows[r].category /\ rows'[r].introduced = rows[r].introduced
    BY <1>1, <1>3, RowSteps
  <2>2. QED
    BY <1>1, <2>1 DEF RowsInv, StampsArePublished, RowTables
<1>4. ASSUME NEW p \in Publishers, PublishCommit(p) PROVE RowsInv'
  <2>1. PICK c \in CategoryIds, now \in Nat :
            /\ c = publishing[p].category /\ now = categories[c].current
            /\ now + 1 = publishing[p].previous + 1
    <3>1. categories \in Tables
      BY DEF PublishingInv, TablesInv
    <3>2. QED
      BY <1>4, <3>1, PublishMoves DEF Tables, TreeRows
  <2> PICK new : new = [category |-> c, version |-> now + 1, published_by |-> p,
                        snapshot |-> publishing[p].snapshot]
    OBVIOUS
  <2>2. versions' = versions \cup {new} /\ rows' = Stamped(c, now + 1)
    BY <1>4, <2>1 DEF PublishCommit
  <2>3. new.category = c /\ new.version = now + 1
    OBVIOUS
  <2>4. ASSUME NEW r \in RowIds
        PROVE  /\ rows'[r] \in [kind: Kinds \cup {"none"}, category: CategoryIds \cup {NoCategory},
                                key: Keys \cup {"none"}, revision: Nat, introduced: Nat]
               /\ rows'[r].introduced # NoVersion =>
                     \/ rows'[r].category = new.category /\ rows'[r].introduced = new.version
                     \/ rows'[r].category = rows[r].category /\ rows'[r].introduced = rows[r].introduced
    <3>1. rows'[r] = IF rows[r].category = c /\ rows[r].introduced = NoVersion
                     THEN [rows[r] EXCEPT !.introduced = now + 1] ELSE rows[r]
      BY <2>2 DEF Stamped
    <3>2. QED
      BY <1>1, <2>3, <3>1 DEF RowTables
  <2>5. rows' \in RowTables
    BY <2>2, <2>4 DEF RowTables, Stamped
  <2>6. QED
    BY <1>1, <2>2, <2>4, <2>5 DEF RowsInv, StampsArePublished, RowTables
<1>5. QED
  BY <1>2, <1>3, <1>4 DEF Next, EditTree, CreateCategory, UpdateCategory, MoveRead, MoveCommit,
        Publish, PublishRead, PublishConflict, vars

\* A step that publishes nothing and closes publications at most.
LEMMA VersionsFramed ==
    ASSUME VersionsInv, versions' = versions,
           \A d \in CategoryIds : /\ categories'[d].current = categories[d].current
                                  /\ Has(categories, d) => Has(categories', d),
           \A p \in Publishers : publishing'[p] = publishing[p] \/ publishing'[p] = NotPublishing
    PROVE  VersionsInv'
<1>1. CurrentIsLatest'
  BY DEF VersionsInv, CurrentIsLatest, VersionsOf
<1>2. \A c \in CategoryIds : ~Has(categories', c) => categories'[c].current = NoVersion
  BY DEF VersionsInv
<1>3. ASSUME NEW p \in Publishers, publishing'[p] # NotPublishing
      PROVE  /\ publishing'[p].category \in CategoryIds
             /\ Has(categories', publishing'[p].category)
             /\ publishing'[p].previous \in 0..categories'[publishing'[p].category].current
  <2>1. publishing'[p] = publishing[p] /\ publishing[p] # NotPublishing
    BY <1>3
  <2>2. QED
    BY <2>1 DEF VersionsInv
<1>4. QED
  BY <1>1, <1>2, <1>3 DEF VersionsInv, Has

\* Every step keeps the versions consecutive.
LEMMA VersionsKept ==
    ASSUME PublishingInv, Next
    PROVE  VersionsInv'
<1>1. /\ VersionsInv /\ TablesInv /\ categories \in Tables /\ rows \in RowTables
      /\ DOMAIN publishing = Publishers
  BY DEF PublishingInv, TablesInv, RowsInv
<1>2. ASSUME NEW c \in CategoryIds, NEW parent \in CategoryIds \cup {NoCategory},
             CreateCategory(c, parent)
      PROVE  VersionsInv'
  <2>1. /\ categories'[c] = Placed(c, parent) /\ ~Has(categories, c) /\ Has(categories', c)
        /\ \A d \in CategoryIds : d # c => categories'[d] = categories[d]
    BY <1>1, <1>2, CreateMoves
  <2>2. categories'[c].current = NoVersion /\ categories[c].current = NoVersion
    <3>1. Placed(c, parent).current = NoVersion
      BY <1>1, PlacedFacts
    <3>2. categories[c].current = NoVersion
      BY <1>1, <2>1, Zenon DEF VersionsInv
    <3>3. QED
      BY <2>1, <3>1, <3>2
  <2>3. \A d \in CategoryIds : /\ categories'[d].current = categories[d].current
                               /\ Has(categories, d) => Has(categories', d)
    BY <2>1, <2>2 DEF Has
  <2>4. versions' = versions /\ publishing' = publishing
    BY <1>2 DEF CreateCategory
  <2>5. QED
    BY <1>1, <2>3, <2>4, VersionsFramed
<1>3. ASSUME NEW m \in Movers, MoveCommit(m) PROVE VersionsInv'
  <2>1. \A d \in CategoryIds : /\ categories'[d].current = categories[d].current
                               /\ Has(categories, d) => Has(categories', d)
    BY <1>1, <1>3, CommitMoves
  <2>2. versions' = versions /\ publishing' = publishing
    BY <1>3 DEF MoveCommit
  <2>3. QED
    BY <1>1, <2>1, <2>2, VersionsFramed
<1>4. CASE categories' = categories /\ versions' = versions /\ publishing' = publishing
  BY <1>1, <1>4, VersionsFramed
<1>5. ASSUME NEW p \in Publishers, PublishConflict(p) PROVE VersionsInv'
  BY <1>1, <1>5, VersionsFramed DEF PublishConflict
<1>6. ASSUME NEW p \in Publishers, NEW c \in CategoryIds, PublishRead(p, c) PROVE VersionsInv'
  <2>1. /\ categories' = categories /\ versions' = versions /\ Has(categories, c)
        /\ publishing' = [publishing EXCEPT ![p] = [category |-> c, previous |-> categories[c].current,
                                                    snapshot |-> Snapshot(c)]]
    BY <1>6 DEF PublishRead, Existing, Exists, Has
  <2>2. categories[c].current \in Nat
    BY <1>1 DEF Tables, TreeRows
  <2>3. ASSUME NEW q \in Publishers, publishing'[q] # NotPublishing
        PROVE  /\ publishing'[q].category \in CategoryIds
               /\ Has(categories, publishing'[q].category)
               /\ publishing'[q].previous \in 0..categories[publishing'[q].category].current
    <3>1. CASE q = p
      <4>1. publishing'[p].category = c /\ publishing'[p].previous = categories[c].current
        BY <1>1, <2>1
      <4>2. QED
        BY <2>1, <2>2, <3>1, <4>1
    <3>2. CASE q # p
      <4>1. publishing'[q] = publishing[q]
        BY <1>1, <2>1, <3>2
      <4>2. QED
        BY <1>1, <2>3, <4>1 DEF VersionsInv
    <3>3. QED
      BY <3>1, <3>2
  <2>4. CurrentIsLatest'
    BY <1>1, <2>1 DEF VersionsInv, CurrentIsLatest, VersionsOf
  <2>5. \A d \in CategoryIds : ~Has(categories, d) => categories[d].current = NoVersion
    BY <1>1 DEF VersionsInv
  <2>6. QED
    BY <2>1, <2>3, <2>4, <2>5, Zenon DEF VersionsInv, Has
<1>7. ASSUME NEW p \in Publishers, PublishCommit(p) PROVE VersionsInv'
  <2>1. PICK c \in CategoryIds, now \in Nat :
            /\ c = publishing[p].category /\ now = categories[c].current
            /\ now + 1 = publishing[p].previous + 1 /\ Has(categories, c)
            /\ \A d \in CategoryIds :
                  /\ categories'[d].path = categories[d].path
                  /\ categories'[d].current = (IF d = c THEN now + 1 ELSE categories[d].current)
    <3>1. PICK c \in CategoryIds : c = publishing[p].category
      BY <1>7, PublishMoves
    <3>2. PICK now \in Nat : now = categories[c].current
      BY <1>1 DEF Tables, TreeRows
    <3>3. QED
      BY <1>7, <3>1, <3>2, PublishMoves
  <2> PICK new : new = [category |-> c, version |-> now + 1, published_by |-> p,
                        snapshot |-> publishing[p].snapshot]
    OBVIOUS
  <2>2. versions' = versions \cup {new} /\ publishing' = [publishing EXCEPT ![p] = NotPublishing]
    BY <1>7, <2>1 DEF PublishCommit
  <2>3. new.category = c /\ new.version = now + 1
    OBVIOUS
  <2>4. \A d \in CategoryIds : Has(categories', d) <=> Has(categories, d)
    BY <2>1 DEF Has
  <2>5. ASSUME NEW d \in CategoryIds PROVE VersionsOf(d)' = 1..categories'[d].current
    <3>1. VersionsOf(d) = 1..categories[d].current
      BY <1>1 DEF VersionsInv, CurrentIsLatest
    <3>2. CASE d = c
      <4>1. VersionsOf(d)' = VersionsOf(d) \cup {now + 1}
        BY <2>2, <2>3, <3>2 DEF VersionsOf
      <4>2. QED
        BY <2>1, <3>1, <3>2, <4>1
    <3>3. CASE d # c
      <4>1. VersionsOf(d)' = VersionsOf(d)
        BY <2>2, <2>3, <3>3 DEF VersionsOf
      <4>2. QED
        BY <2>1, <3>1, <3>3, <4>1
    <3>4. QED
      BY <3>2, <3>3
  <2>6. ASSUME NEW q \in Publishers, publishing'[q] # NotPublishing
        PROVE  /\ publishing'[q].category \in CategoryIds
               /\ Has(categories', publishing'[q].category)
               /\ publishing'[q].previous \in 0..categories'[publishing'[q].category].current
    <3>1. publishing'[q] = publishing[q]
      BY <1>1, <2>2, <2>6
    <3>2. PICK e, k : e = publishing[q].category /\ k = publishing[q].previous /\ e \in CategoryIds
      BY <1>1, <2>6, <3>1 DEF VersionsInv
    <3>3. Has(categories, e) /\ k \in 0..categories[e].current
      BY <1>1, <2>6, <3>1, <3>2 DEF VersionsInv
    <3>4. categories[e].current \in Nat
      BY <1>1, <3>2 DEF Tables, TreeRows
    <3>5. k \in 0..categories'[e].current
      BY <2>1, <3>2, <3>3, <3>4
    <3>6. QED
      BY <2>4, <3>1, <3>2, <3>3, <3>5
  <2>7. \A d \in CategoryIds : ~Has(categories', d) => categories'[d].current = NoVersion
    BY <1>1, <2>1, <2>4 DEF VersionsInv
  <2>8. CurrentIsLatest'
    BY <2>5 DEF CurrentIsLatest
  <2>9. QED
    BY <2>6, <2>7, <2>8, Zenon DEF VersionsInv, Has
<1>8. CASE EditTree
  BY <1>2, <1>3, <1>4, <1>8 DEF EditTree, UpdateCategory, MoveRead, vars
<1>9. CASE AddRow \/ EditRow
  BY <1>1, <1>4, <1>9, RowSteps
<1>10. CASE Publish
  BY <1>5, <1>6, <1>7, <1>10 DEF Publish
<1>11. QED
  BY <1>8, <1>9, <1>10 DEF Next

\* The three parts hold together, with or without editors at the same time.
THEOREM PublishingInvariant == Spec => []PublishingInv
<1>1. Init => PublishingInv
  <2> SUFFICES ASSUME Init PROVE PublishingInv
    OBVIOUS
  <2>1. EmptyCategory \in TreeRows /\ EmptyCategory.path = <<>> /\ EmptyCategory.current = NoVersion
    BY DEF EmptyCategory, TreeRows, NoVersion
  <2>2. categories \in Tables /\ \A c \in CategoryIds : categories[c] = EmptyCategory
    BY <2>1 DEF Init, Tables
  <2>3. TablesInv
    BY <2>2 DEF Init, TablesInv
  <2>4. RowsInv
    BY DEF Init, RowsInv, RowTables, StampsArePublished, EmptyRow, NoVersion
  <2>5. \A c \in CategoryIds : VersionsOf(c) = {} /\ 1..categories[c].current = {}
    BY <2>1, <2>2 DEF Init, VersionsOf, NoVersion
  <2>6. VersionsInv
    BY <2>1, <2>2, <2>5 DEF Init, VersionsInv, CurrentIsLatest
  <2>7. QED
    BY <2>3, <2>4, <2>6 DEF PublishingInv
<1>2. PublishingInv /\ [Next]_vars => PublishingInv'
  <2> SUFFICES ASSUME PublishingInv, [Next]_vars PROVE PublishingInv'
    OBVIOUS
  <2>1. CASE Next
    BY <2>1, TablesKept, RowsKept, VersionsKept DEF PublishingInv
  <2>2. CASE UNCHANGED vars
    BY <2>2 DEF vars, PublishingInv, TablesInv, Tables, Has, RowsInv, RowTables,
          StampsArePublished, VersionsInv, CurrentIsLatest, VersionsOf
  <2>3. QED
    BY <2>1, <2>2
<1>3. QED
  BY <1>1, <1>2, PTL DEF Spec

\* A row is stamped with a version that was published, however many
\* publications run at once.
THEOREM StampsPublished == Spec => []StampsArePublished
<1>1. PublishingInv => StampsArePublished
  BY DEF PublishingInv, RowsInv
<1>2. QED
  BY <1>1, PublishingInvariant, PTL

\* The versions of a category are 1, 2, ... with none left out, and
\* current_spec_version is the last: of two publications that read the same
\* version one is inserted and the other rolled back.
THEOREM VersionsConsecutive == Spec => []CurrentIsLatest
<1>1. PublishingInv => CurrentIsLatest
  BY DEF PublishingInv, VersionsInv
<1>2. QED
  BY <1>1, PublishingInvariant, PTL

------------------------------------------------------------------------------
(* The tree, with one editor of it at a time *)

\* A table with the paths of a tree is one.
LEMMA SameTreeGrows ==
    ASSUME NEW tree \in Tables, NEW other \in Tables, Tree(tree), SameTree(other, tree)
    PROVE  Tree(other)
<1> SUFFICES ASSUME NEW c \in CategoryIds, Has(other, c) PROVE Grown(other, c)
  BY DEF Tree
<1>1. Has(tree, c) /\ Grown(tree, c)
  BY DEF Tree, SameTree, Has
<1>2. PICK p \in CategoryIds \cup {NoCategory} : p = tree[c].parent
  BY DEF Tables, TreeRows
<1>3. other[c].parent = p /\ other[c].path = tree[c].path /\ other[c].depth = tree[c].depth
  BY <1>2 DEF SameTree
<1>4. p # NoCategory => p \in CategoryIds /\ other[p].path = tree[p].path
  BY DEF SameTree
<1>5. QED
  BY <1>1, <1>2, <1>3, <1>4 DEF Grown, Has

\* Category.create grows the tree by a leaf.
LEMMA CreatedTree ==
    ASSUME TablesInv, Tree(categories), NEW c \in CategoryIds,
           NEW parent \in CategoryIds \cup {NoCategory}, CreateCategory(c, parent)
    PROVE  Tree(categories')
<1>1. categories \in Tables
  BY DEF TablesInv
<1>2. /\ categories'[c] = Placed(c, parent) /\ ~Has(categories, c)
      /\ \A d \in CategoryIds : d # c => categories'[d] = categories[d]
      /\ parent # NoCategory => Has(categories, parent)
  BY CreateMoves
<1>3. ASSUME NEW p \in CategoryIds, Has(categories, p)
      PROVE  categories'[p] = categories[p] /\ Has(categories', p)
  BY <1>2, <1>3 DEF Has
<1>4. Grown(categories', c)
  <2>1. /\ categories'[c].parent = parent
        /\ categories'[c].path = (IF parent = NoCategory THEN <<c>> ELSE Append(categories[parent].path, c))
        /\ categories'[c].depth = (IF parent = NoCategory THEN 0 ELSE categories[parent].depth + 1)
    BY <1>1, <1>2, PlacedFacts
  <2>2. CASE parent = NoCategory
    BY <2>1, <2>2 DEF Grown
  <2>3. CASE parent # NoCategory
    <3>1. parent \in CategoryIds /\ Has(categories, parent) /\ Grown(categories, parent)
      BY <1>2, <2>3 DEF Tree
    <3>2. PICK u \in Seq(CategoryIds), deep \in Int :
              u = categories[parent].path /\ deep = categories[parent].depth
      BY <1>1, <3>1 DEF Tables, TreeRows
    <3>3. deep + 1 = Len(u)
      BY <3>1, <3>2 DEF Grown
    <3>4. Appended(Append(u, c), u, c)
      BY AppendedFacts, Zenon
    <3>5. Len(Append(u, c)) = Len(u) + 1
      BY <3>4, Zenon DEF Appended
    <3>6. categories'[c].path = Append(u, c) /\ categories'[c].depth = deep + 1
      BY <2>1, <2>3, <3>2
    <3>7. categories'[c].depth + 1 = Len(categories'[c].path)
      BY <3>3, <3>5, <3>6
    <3>8. Has(categories', parent) /\ categories'[parent].path = u
      BY <1>3, <3>1, <3>2
    <3>9. QED
      BY <2>1, <2>3, <3>6, <3>7, <3>8, Zenon DEF Grown
  <2>4. QED
    BY <2>2, <2>3
<1>5. ASSUME NEW d \in CategoryIds, d # c, Has(categories', d) PROVE Grown(categories', d)
  <2>1. categories'[d] = categories[d] /\ Has(categories, d) /\ Grown(categories, d)
    BY <1>2, <1>5 DEF Has, Tree
  <2>2. PICK p \in CategoryIds \cup {NoCategory} : p = categories[d].parent
    BY <1>1 DEF Tables, TreeRows
  <2>3. p # NoCategory => p \in CategoryIds /\ Has(categories, p)
    BY <2>1, <2>2 DEF Grown
  <2>4. p # NoCategory => categories'[p] = categories[p] /\ Has(categories', p)
    BY <1>3, <2>3
  <2>5. QED
    BY <2>1, <2>2, <2>4 DEF Grown
<1>6. QED
  BY <1>4, <1>5 DEF Tree

\* Every step keeps the tree.
LEMMA TreeKept ==
    ASSUME SerialMoves, PublishingInv, TreeInv, Next
    PROVE  TreeInv'
<1>1. /\ TablesInv /\ categories \in Tables /\ DOMAIN moving = Movers
      /\ \A m \in Movers : moving[m] # NotMoving =>
            moving[m].read \in Tables /\ moving[m].new \in Tables
  BY DEF PublishingInv, TablesInv
<1>2. Tree(categories)
  BY DEF TreeInv
<1>3. ASSUME NEW c \in CategoryIds, NEW parent \in CategoryIds \cup {NoCategory},
             CreateCategory(c, parent)
      PROVE  TreeInv'
  <2>1. Tree(categories')
    BY <1>1, <1>2, <1>3, CreatedTree
  <2>2. \A m \in Movers : moving'[m] = NotMoving
    BY <1>3 DEF CreateCategory, TreeIsQuiet
  <2>3. QED
    BY <2>1, <2>2 DEF TreeInv, Tree, Grown, Has
<1>4. ASSUME NEW m \in Movers, NEW c \in CategoryIds, NEW parent \in CategoryIds \cup {NoCategory},
             MoveRead(m, c, parent)
      PROVE  TreeInv'
  <2>1. /\ categories' = categories /\ \A n \in Movers : moving[n] = NotMoving
        /\ moving' = [moving EXCEPT ![m] = [read |-> categories, new |-> Reparented(c, parent)]]
        /\ Has(categories, c) /\ (parent # NoCategory => Has(categories, parent))
        /\ parent \notin Subtree(c)
    BY <1>4 DEF MoveRead, TreeIsQuiet, Existing, Exists, Has
  <2>2. Tree(Reparented(c, parent))
    BY <1>1, <1>2, <2>1, ReparentedTree
  <2>3. /\ moving'[m].read = categories /\ moving'[m].new = Reparented(c, parent)
        /\ \A n \in Movers : n # m => moving'[n] = NotMoving
    BY <1>1, <2>1
  <2>4. SameTree(categories, categories)
    BY DEF SameTree
  <2>5. ASSUME NEW k \in Movers, moving'[k] # NotMoving
        PROVE  /\ \A n \in Movers : n # k => moving'[n] = NotMoving
               /\ SameTree(moving'[k].read, categories')
               /\ Tree(moving'[k].new)
    <3>1. k = m
      BY <2>3, <2>5
    <3>2. QED
      BY <2>1, <2>2, <2>3, <2>4, <3>1
  <2>6. Tree(categories')
    BY <1>2, <2>1
  <2>7. QED
    BY <2>5, <2>6 DEF TreeInv, Tree, Grown, Has, SameTree
<1>5. ASSUME NEW m \in Movers, MoveCommit(m)
      PROVE  TreeInv'
  <2>1. /\ moving[m] # NotMoving /\ moving' = [moving EXCEPT ![m] = NotMoving]
    BY <1>5 DEF MoveCommit
  <2>2. /\ \A n \in Movers : n # m => moving[n] = NotMoving
        /\ SameTree(moving[m].read, categories) /\ Tree(moving[m].new)
    BY <2>1 DEF TreeInv
  <2>3. \A n \in Movers : moving'[n] = NotMoving
    BY <1>1, <2>1, <2>2
  <2>4. PICK read \in Tables, new \in Tables : read = moving[m].read /\ new = moving[m].new
    BY <1>1, <2>1
  <2>5. /\ categories' \in Tables
        /\ \A d \in CategoryIds : categories'[d] = Rewritten(categories[d], read[d], new[d])
    BY <1>1, <1>5, <2>4, CommitMoves
  <2>6. ASSUME NEW d \in CategoryIds
        PROVE  /\ categories'[d].parent = new[d].parent
               /\ categories'[d].path = new[d].path
               /\ categories'[d].depth = new[d].depth
    <3>1. categories[d] \in TreeRows /\ read[d] \in TreeRows /\ new[d] \in TreeRows
      BY <1>1 DEF Tables
    <3>2. /\ read[d].parent = categories[d].parent /\ read[d].path = categories[d].path
          /\ read[d].depth = categories[d].depth
      BY <2>2, <2>4 DEF SameTree
    <3>3. QED
      BY <2>5, <3>1, <3>2, RewrittenFacts
  <2>7. SameTree(categories', new)
    BY <2>6 DEF SameTree
  <2>8. Tree(categories')
    BY <2>2, <2>4, <2>5, <2>7, SameTreeGrows
  <2>9. QED
    BY <2>3, <2>8 DEF TreeInv, Tree, Grown, Has
<1>6. ASSUME NEW p \in Publishers, PublishCommit(p)
      PROVE  TreeInv'
  <2>1. /\ categories' \in Tables
        /\ \A d \in CategoryIds : /\ categories'[d].parent = categories[d].parent
                                  /\ categories'[d].path = categories[d].path
                                  /\ categories'[d].depth = categories[d].depth
    BY <1>6, PublishMoves
  <2>2. moving' = moving
    BY <1>6 DEF PublishCommit
  <2>3. SameTree(categories', categories)
    BY <2>1 DEF SameTree
  <2>4. Tree(categories')
    BY <1>1, <1>2, <2>1, <2>3, SameTreeGrows
  <2>5. ASSUME NEW m \in Movers, moving[m] # NotMoving
        PROVE  /\ \A n \in Movers : n # m => moving[n] = NotMoving
               /\ SameTree(moving[m].read, categories')
               /\ Tree(moving[m].new)
    BY <2>1, <2>5 DEF TreeInv, SameTree
  <2>6. QED
    BY <2>2, <2>4, <2>5 DEF TreeInv, Tree, Grown, Has, SameTree
<1>7. CASE categories' = categories /\ moving' = moving
  BY <1>7 DEF TreeInv, Tree, Grown, Has, SameTree
<1>8. CASE EditTree
  BY <1>3, <1>4, <1>5, <1>7, <1>8 DEF EditTree, UpdateCategory, vars
<1>9. CASE AddRow \/ EditRow
  <2>1. rows \in RowTables
    BY DEF PublishingInv, RowsInv
  <2>2. QED
    BY <1>7, <1>9, <2>1, RowSteps
<1>10. CASE Publish
  BY <1>6, <1>7, <1>10 DEF Publish, PublishRead, PublishConflict
<1>11. QED
  BY <1>8, <1>9, <1>10 DEF Next

\* With one editor of the tree at a time it stays a tree, and what an open move
\* read is still what is there.
THEOREM TreeStays == SerialMoves /\ Spec => []TreeInv
<1>1. CASE SerialMoves
  <2>1. Init => TreeInv
    BY DEF Init, TreeInv, Tree, Has, EmptyCategory
  <2>2. PublishingInv /\ TreeInv /\ [Next]_vars => TreeInv'
    <3> SUFFICES ASSUME PublishingInv, TreeInv, [Next]_vars PROVE TreeInv'
      OBVIOUS
    <3>1. CASE Next
      BY <1>1, <3>1, TreeKept
    <3>2. CASE UNCHANGED vars
      BY <3>2 DEF vars, TreeInv, Tree, Grown, Has, SameTree
    <3>3. QED
      BY <3>1, <3>2
  <2>3. QED
    BY <2>1, <2>2, PublishingInvariant, PTL DEF Spec
<1>2. CASE ~SerialMoves
  BY <1>2
<1>3. QED
  BY <1>1, <1>2

\* However subtrees are moved, with one editor of the tree at a time and any
\* number of publications beside, every path is the parent's with the category
\* appended, so a prefix query finds the whole subtree.  Without the hypothesis
\* it is false: a move locks nothing of what it read.
THEOREM PathsStay == SerialMoves /\ Spec => []PathsAgree
<1>1. TreeInv => PathsAgree
  BY DEF TreeInv, Tree, Grown, Has, PathsAgree, Existing, Exists
<1>2. QED
  BY <1>1, TreeStays, PTL

------------------------------------------------------------------------------
(* Induction and folds.  A set of numbers that is not empty has a least      *)
(* element; that gives induction for sets, and with it the functions that    *)
(* FoldLeft and a recursive definition CHOOSE.                               *)

\* A set of numbers that is not empty has a least element.
LEMMA LeastNumber ==
    ASSUME NEW T \in SUBSET Nat, T # {}
    PROVE  \E x \in T : \A y \in T : x <= y
<1> DEFINE R == OpToRel(<, Nat)
<1>1. IsWellFoundedOn(R, Nat)
  BY NatLessThanWellFounded, Zenon
<1>2. \A x, y \in Nat : y < x => <<y, x>> \in R
  BY DEF OpToRel
<1> HIDE DEF R
<1>3. PICK x \in T : \A y \in T : ~(<<y, x>> \in R)
  BY <1>1, WFMin
<1>4. \A y \in T : ~(y < x)
  BY <1>2, <1>3
<1>5. \A y \in T : x <= y
  BY <1>4
<1>6. QED
  BY <1>5

\* Induction, for a set in place of a predicate.
LEMMA Induction ==
    ASSUME NEW S, 0 \in S, \A n \in Nat : n \in S => n + 1 \in S
    PROVE  Nat \subseteq S
<1> SUFFICES ASSUME Nat \ S # {} PROVE FALSE
  OBVIOUS
<1>1. PICK x \in Nat \ S : \A y \in Nat \ S : x <= y
  BY LeastNumber
<1>2. x # 0 /\ x - 1 \in Nat
  BY <1>1
<1>3. x - 1 \in S
  BY <1>1, <1>2
<1>4. QED
  BY <1>2, <1>3

\* The subsets of D up to a size, and g as the fold of step over some sets.
Small(D, k) == {s \in SUBSET D : Cardinality(s) <= k}
Folds(g, sets, b, pick, step) ==
    \A s \in sets : g[s] = IF s = {} THEN b ELSE step[pick[s]][g[s \ {pick[s]}]]

\* A set without one of its elements is smaller.
LEMMA Smaller ==
    ASSUME NEW D, IsFiniteSet(D), NEW k \in Nat, NEW s \in Small(D, k), NEW x \in s
    PROVE  k # 0 /\ s \ {x} \in Small(D, k - 1)
<1>1. IsFiniteSet(s) /\ s \in SUBSET D
  BY FS_Subset DEF Small
<1>2. Cardinality(s) \in Nat /\ Cardinality(s) # 0 /\ Cardinality(s) <= k
  BY <1>1, FS_CardinalityType, FS_EmptySet DEF Small
<1>3. Cardinality(s \ {x}) = Cardinality(s) - 1
  BY <1>1, FS_RemoveElement
<1>4. QED
  BY <1>1, <1>2, <1>3 DEF Small

\* A fold over a finite set exists, whatever order the elements are picked in:
\* by induction on the size of the subsets it is defined on.
LEMMA FoldExists ==
    ASSUME NEW D, IsFiniteSet(D), NEW V, NEW b \in V, NEW pick,
           \A s \in SUBSET D : s # {} => pick[s] \in s,
           NEW step \in [D -> [V -> V]]
    PROVE  \E g \in [SUBSET D -> V] : Folds(g, SUBSET D, b, pick, step)
<1> DEFINE Done == {k \in Nat : \E g \in [Small(D, k) -> V] : Folds(g, Small(D, k), b, pick, step)}
<1>1. 0 \in Done
  <2>1. \A s \in Small(D, 0) : s = {}
    BY Smaller
  <2> DEFINE g == [s \in Small(D, 0) |-> b]
  <2>2. g \in [Small(D, 0) -> V] /\ Folds(g, Small(D, 0), b, pick, step)
    BY <2>1 DEF Folds
  <2>3. QED
    BY <2>2
<1>2. ASSUME NEW k \in Nat, k \in Done PROVE k + 1 \in Done
  <2>1. PICK f \in [Small(D, k) -> V] : Folds(f, Small(D, k), b, pick, step)
    BY <1>2
  <2> DEFINE g == [s \in Small(D, k + 1) |-> IF s = {} THEN b ELSE step[pick[s]][f[s \ {pick[s]}]]]
  <2>2. ASSUME NEW s \in Small(D, k + 1), s # {}
        PROVE  pick[s] \in D /\ s \ {pick[s]} \in Small(D, k) /\ s \ {pick[s]} \in Small(D, k + 1)
    <3>1. pick[s] \in s /\ pick[s] \in D
      BY <2>2 DEF Small
    <3>2. s \ {pick[s]} \in Small(D, (k + 1) - 1)
      BY <3>1, Smaller
    <3>3. s \ {pick[s]} \in Small(D, k)
      BY <3>2
    <3>4. IsFiniteSet(s \ {pick[s]})
      BY FS_Subset DEF Small
    <3>5. QED
      BY <3>1, <3>3, <3>4, FS_CardinalityType DEF Small
  <2>3. g \in [Small(D, k + 1) -> V]
    <3> SUFFICES ASSUME NEW s \in Small(D, k + 1), s # {}
                 PROVE  step[pick[s]][f[s \ {pick[s]}]] \in V
      OBVIOUS
    <3>1. QED
      BY <2>2
  <2>4. \A s \in Small(D, k) : s \in Small(D, k + 1) /\ g[s] = f[s]
    <3> SUFFICES ASSUME NEW s \in Small(D, k) PROVE s \in Small(D, k + 1) /\ g[s] = f[s]
      OBVIOUS
    <3>1. IsFiniteSet(s)
      BY FS_Subset DEF Small
    <3>2. s \in Small(D, k + 1)
      BY <3>1, FS_CardinalityType DEF Small
    <3>3. QED
      BY <2>1, <3>2 DEF Folds
  <2>5. Folds(g, Small(D, k + 1), b, pick, step)
    <3> SUFFICES ASSUME NEW s \in Small(D, k + 1)
                 PROVE  g[s] = IF s = {} THEN b ELSE step[pick[s]][g[s \ {pick[s]}]]
      BY DEF Folds
    <3>1. s # {} => g[s \ {pick[s]}] = f[s \ {pick[s]}]
      BY <2>2, <2>4
    <3>2. QED
      BY <3>1
  <2> HIDE DEF g
  <2>6. \E h \in [Small(D, k + 1) -> V] : Folds(h, Small(D, k + 1), b, pick, step)
    BY <2>3, <2>5, Zenon
  <2>7. QED
    BY <2>6
<1> HIDE DEF Done
<1>3. Nat \subseteq Done
  BY <1>1, <1>2, Induction
<1>4. Cardinality(D) \in Done
  BY <1>3, FS_CardinalityType
<1>5. Small(D, Cardinality(D)) = SUBSET D
  BY FS_Subset DEF Small
<1>6. PICK g \in [Small(D, Cardinality(D)) -> V] :
          Folds(g, Small(D, Cardinality(D)), b, pick, step)
  BY <1>4 DEF Done
<1>7. QED
  BY <1>5, <1>6, Zenon

\* Max picks the last of a set of positions.
LEMMA MaxFacts ==
    ASSUME NEW n \in Nat, NEW s \in SUBSET (1..n), s # {}
    PROVE  Max(s) \in s /\ \A y \in s : Max(s) >= y
<1> DEFINE Above == {m \in Nat : \A y \in s : y <= m}
<1>1. n \in Above
  OBVIOUS
<1>2. PICK m \in Above : \A k \in Above : m <= k
  BY <1>1, LeastNumber
<1>3. m \in Nat /\ \A y \in s : y <= m /\ y >= 1 /\ y \in Nat
  OBVIOUS
<1>4. m \in s
  <2> SUFFICES ASSUME m \notin s PROVE FALSE
    OBVIOUS
  <2>1. m - 1 \in Nat
    <3>1. PICK y \in s : TRUE
      OBVIOUS
    <3>2. y \in Nat /\ y >= 1 /\ y <= m
      BY <1>3
    <3>3. QED
      BY <1>3, <3>2
  <2>2. ASSUME NEW y \in s PROVE y <= m - 1
    <3>1. y # m /\ y <= m /\ y \in Nat
      BY <1>3
    <3>2. QED
      BY <1>3, <3>1
  <2>3. m <= m - 1
    BY <1>2, <2>1, <2>2
  <2>4. QED
    BY <1>3, <2>3
<1>5. m \in s /\ \A y \in s : m >= y
  BY <1>3, <1>4
<1>6. QED
  BY <1>5 DEF Max

\* The positions before the last.
LEMMA MaxOfInterval ==
    ASSUME NEW i \in Nat \ {0}
    PROVE  Max(1..i) = i /\ (1..i) \ {i} = 1..(i - 1)
<1>1. PICK s \in SUBSET (1..i) : s = 1..i /\ i \in s
  OBVIOUS
<1>2. Max(s) \in s /\ \A y \in s : Max(s) >= y
  BY <1>1, MaxFacts
<1>3. QED
  BY <1>1, <1>2

\* g folds from the left: position after position, step is applied to what came
\* before.
LeftFold(g, n, b, step) ==
    \A s \in SUBSET (1..n) : g[s] = IF s = {} THEN b ELSE step[Max(s)][g[s \ {Max(s)}]]

\* Such a fold exists: CHOOSE finds what FoldLeft is defined by.
LEMMA LeftFoldExists ==
    ASSUME NEW n \in Nat, NEW V, NEW b \in V, NEW step \in [1..n -> [V -> V]]
    PROVE  \E g \in [SUBSET (1..n) -> V] : LeftFold(g, n, b, step)
<1> DEFINE pick == [s \in SUBSET (1..n) |-> Max(s)]
<1>1. IsFiniteSet(1..n)
  BY FS_Interval
<1>2. \A s \in SUBSET (1..n) : pick[s] = Max(s) /\ (s # {} => pick[s] \in s)
  BY MaxFacts
<1> HIDE DEF pick
<1>3. PICK g \in [SUBSET (1..n) -> V] : Folds(g, SUBSET (1..n), b, pick, step)
  BY <1>1, <1>2, FoldExists
<1>4. ASSUME NEW s \in SUBSET (1..n)
      PROVE  g[s] = IF s = {} THEN b ELSE step[Max(s)][g[s \ {Max(s)}]]
  <2>1. g[s] = IF s = {} THEN b ELSE step[pick[s]][g[s \ {pick[s]}]]
    BY <1>3 DEF Folds
  <2>2. pick[s] = Max(s)
    BY <1>2
  <2>3. QED
    BY <2>1, <2>2
<1>5. LeftFold(g, n, b, step)
  BY <1>4, Zenon DEF LeftFold
<1>6. QED
  BY <1>5

\* f is what the fold g over the positions 1..n has after each of them.
AfterEach(f, g, n) ==
    /\ f[0] = g[{}] /\ f[n] = g[1..n]
    /\ \A i \in 1..n : /\ 1..i \in SUBSET (1..n) /\ 1..i # {} /\ Max(1..i) = i
                       /\ f[i] = g[1..i] /\ f[i - 1] = g[(1..i) \ {i}]

\* The positions so far are 1..i, and i the last of them.
LEMMA Passes ==
    ASSUME NEW n \in Nat, NEW g
    PROVE  \E f : AfterEach(f, g, n)
<1> DEFINE f == [i \in 0..n |-> g[1..i]]
<1>1. f[0] = g[{}] /\ f[n] = g[1..n]
  <2>1. 1..0 = {} /\ 0 \in 0..n /\ n \in 0..n
    OBVIOUS
  <2>2. QED
    BY <2>1
<1>2. ASSUME NEW i \in 1..n
      PROVE  /\ 1..i \in SUBSET (1..n) /\ 1..i # {} /\ Max(1..i) = i
             /\ f[i] = g[1..i] /\ f[i - 1] = g[(1..i) \ {i}]
  <2>1. i \in Nat \ {0} /\ 1 \in 1..i /\ i - 1 \in 0..n /\ i \in 0..n /\ 1..i \in SUBSET (1..n)
    OBVIOUS
  <2>2. Max(1..i) = i /\ (1..i) \ {i} = 1..(i - 1)
    BY <2>1, MaxOfInterval
  <2>3. QED
    BY <2>1, <2>2
<1> HIDE DEF f
<1>3. AfterEach(f, g, n)
  BY <1>1, <1>2, Zenon DEF AfterEach
<1>4. QED
  BY <1>3

\* f solves a recursion over the numbers up to n.
Recursion(f, n, b, step) == f[0] = b /\ \A i \in 1..n : f[i] = step[i][f[i - 1]]

\* Every such recursion has one.
LEMMA RecursionExists ==
    ASSUME NEW n \in Nat, NEW V, NEW b \in V, NEW step \in [1..n -> [V -> V]]
    PROVE  \E f \in [0..n -> V] : Recursion(f, n, b, step)
<1>1. PICK g \in [SUBSET (1..n) -> V] : LeftFold(g, n, b, step)
  BY LeftFoldExists, Zenon
<1> DEFINE f == [i \in 0..n |-> g[1..i]]
<1>2. f \in [0..n -> V]
  <2>1. \A i \in 0..n : 1..i \in SUBSET (1..n)
    OBVIOUS
  <2>2. QED
    BY <2>1
<1>3. f[0] = b
  <2>1. 1..0 = {} /\ 0 \in 0..n /\ {} \in SUBSET (1..n)
    OBVIOUS
  <2>2. g[{}] = b
    BY <1>1, <2>1, Zenon DEF LeftFold
  <2>3. QED
    BY <2>1, <2>2
<1>4. ASSUME NEW i \in 1..n PROVE f[i] = step[i][f[i - 1]]
  <2>1. i \in Nat \ {0} /\ 1 \in 1..i /\ i - 1 \in 0..n /\ i \in 0..n /\ 1..i \in SUBSET (1..n)
    OBVIOUS
  <2>2. Max(1..i) = i /\ (1..i) \ {i} = 1..(i - 1)
    BY <2>1, MaxOfInterval
  <2>3. 1..i # {}
    BY <2>1
  <2>4. g[1..i] = step[Max(1..i)][g[(1..i) \ {Max(1..i)}]]
    BY <1>1, <2>1, <2>3, Zenon DEF LeftFold
  <2>5. QED
    BY <2>1, <2>2, <2>4
<1> HIDE DEF f
<1>5. Recursion(f, n, b, step)
  BY <1>3, <1>4, Zenon DEF Recursion
<1>6. QED
  BY <1>2, <1>5

------------------------------------------------------------------------------
(* The ancestors of a category *)

\* A category of the path of another: its own path is the path so far.
Stop(path, i) ==
    /\ path[i] \in CategoryIds /\ Has(categories, path[i])
    /\ Len(categories[path[i]].path) = i /\ categories[path[i]].depth = i - 1
    /\ \A j \in 1..i : categories[path[i]].path[j] = path[j]

\* The parent of a category of a path is the one before it.
LEMMA StopBefore ==
    ASSUME categories \in Tables, Tree(categories), NEW path \in Seq(CategoryIds),
           NEW i \in 1..Len(path), Stop(path, i)
    PROVE  /\ i = 1 => categories[path[i]].parent = NoCategory
           /\ i # 1 => categories[path[i]].parent = path[i - 1] /\ Stop(path, i - 1)
<1> PICK d \in CategoryIds : d = path[i] /\ Has(categories, d)
  BY DEF Stop
<1> PICK t \in Seq(CategoryIds), up \in CategoryIds \cup {NoCategory} :
        t = categories[d].path /\ up = categories[d].parent
  BY DEF Tables, TreeRows
<1>1. Len(t) = i /\ \A j \in 1..i : t[j] = path[j]
  BY DEF Stop
<1>2. ASSUME up # NoCategory
      PROVE  up = path[i - 1] /\ Stop(path, i - 1)
  <2>1. up \in CategoryIds /\ Has(categories, up) /\ categories[up].path \in Seq(CategoryIds)
    BY <1>2, PathFacts
  <2>2. PICK u \in Seq(CategoryIds) : u = categories[up].path
    BY <2>1
  <2>3. Len(t) = Len(u) + 1 /\ \A j \in 1..Len(u) : t[j] = u[j]
    BY <1>2, <2>2, PathFacts
  <2>4. Len(u) \in Nat \ {0} /\ u[Len(u)] = up
    BY <2>1, <2>2, PathFacts
  <2>5. Len(u) = i - 1 /\ \A j \in 1..(i - 1) : u[j] = path[j]
    BY <1>1, <2>3, <2>4
  <2>6. categories[up].depth + 1 = Len(u) /\ categories[up].depth \in Int
    BY <2>1, <2>2 DEF Tree, Grown, Tables, TreeRows
  <2>7. up = path[i - 1]
    BY <2>4, <2>5
  <2>8. QED
    BY <2>1, <2>2, <2>5, <2>6, <2>7 DEF Stop
<1>3. ASSUME up = NoCategory PROVE i = 1
  <2>1. Len(t) = 1
    BY <1>3, PathFacts
  <2>2. QED
    BY <1>1, <2>1
<1>4. ASSUME i = 1 PROVE up = NoCategory
  <2> SUFFICES ASSUME up # NoCategory PROVE FALSE
    OBVIOUS
  <2>1. Stop(path, 0)
    BY <1>2, <1>4
  <2>2. PICK e \in CategoryIds : e = path[0] /\ Has(categories, e) /\ Len(categories[e].path) = 0
    BY <2>1 DEF Stop
  <2>3. Len(categories[e].path) \in Nat \ {0}
    BY <2>2, PathFacts
  <2>4. QED
    BY <2>2, <2>3
<1>5. QED
  BY <1>2, <1>3, <1>4

\* So it is all the way up.
LEMMA Stops ==
    ASSUME categories \in Tables, Tree(categories), NEW c \in CategoryIds, Has(categories, c),
           NEW path \in Seq(CategoryIds), path = categories[c].path, NEW n \in Nat, n = Len(path)
    PROVE  n # 0 /\ path[n] = c /\ \A i \in 1..n : Stop(path, i)
<1>1. n # 0 /\ path[n] = c
  BY PathFacts
<1> DEFINE Up == {m \in Nat : m < n => Stop(path, n - m)}
<1>2. 0 \in Up
  <2>1. categories[c].depth + 1 = Len(path) /\ categories[c].depth \in Int
    BY DEF Tree, Grown, Tables, TreeRows
  <2>2. Stop(path, n)
    BY <1>1, <2>1 DEF Stop
  <2>3. QED
    BY <2>2
<1>3. ASSUME NEW m \in Nat, m \in Up PROVE m + 1 \in Up
  <2> SUFFICES ASSUME m + 1 < n PROVE Stop(path, n - (m + 1))
    OBVIOUS
  <2>1. PICK i : i = n - m
    OBVIOUS
  <2>2. i \in 1..n /\ i # 1 /\ i - 1 = n - (m + 1)
    BY <2>1
  <2>3. Stop(path, i)
    BY <1>3, <2>1
  <2>4. QED
    BY <2>2, <2>3, StopBefore
<1> HIDE DEF Up
<1>4. Nat \subseteq Up
  BY <1>2, <1>3, Induction
<1>5. ASSUME NEW i \in 1..n PROVE Stop(path, i)
  <2>1. n - i \in Up /\ n - i < n /\ n - (n - i) = i
    BY <1>4
  <2>2. QED
    BY <2>1 DEF Up
<1>6. QED
  BY <1>1, <1>5

\* No category is twice on a path, so a path is no longer than there are ids.
LEMMA PathLength ==
    ASSUME categories \in Tables, NEW path \in Seq(CategoryIds), NEW n \in Nat, n = Len(path),
           \A i \in 1..n : Stop(path, i)
    PROVE  (\A i, j \in 1..n : path[i] = path[j] => i = j) /\ n <= MaxCategories
<1>1. ASSUME NEW i \in 1..n, NEW j \in 1..n, path[i] = path[j] PROVE i = j
  <2>1. Len(categories[path[i]].path) = i /\ Len(categories[path[j]].path) = j
    BY DEF Stop
  <2>2. QED
    BY <1>1, <2>1
<1>2. path \in [1..n -> CategoryIds]
  OBVIOUS
<1>3. path \in Injection(1..n, CategoryIds)
  BY <1>1, <1>2 DEF Injection, IsInjective
<1>4. IsFiniteSet(CategoryIds) /\ Cardinality(CategoryIds) = MaxCategories
  BY FS_Interval, TaxonomyAssumptions DEF CategoryIds
<1>5. Cardinality(1..n) = n
  <2>1. PICK lo \in Int, hi \in Int : lo = 1 /\ hi = n
    OBVIOUS
  <2>2. Cardinality(lo..hi) = IF lo > hi THEN 0 ELSE hi - lo + 1
    BY FS_Interval
  <2>3. QED
    BY <2>1, <2>2
<1>6. QED
  BY <1>1, <1>3, <1>4, <1>5, FS_Injection

\* One generation up.
Above(set) == set \cup ({categories[d].parent : d \in set} \ {NoCategory})

\* The ancestors, generation after generation.
LEMMA AncestorsRecursion ==
    ASSUME categories \in Tables, NEW c \in CategoryIds
    PROVE  \E up : /\ up[0] = {c} /\ \A m \in 1..MaxCategories : up[m] = Above(up[m - 1])
                   /\ Ancestors(c) = up[MaxCategories]
<1> PICK n \in Nat : n = MaxCategories
  BY TaxonomyAssumptions
<1> DEFINE V == SUBSET CategoryIds
<1> DEFINE step == [i \in 1..n |-> [v \in V |-> Above(v)]]
<1>1. ASSUME NEW v \in V PROVE Above(v) \in V
  <2>1. \A d \in v : categories[d].parent \in CategoryIds \cup {NoCategory}
    BY DEF Tables, TreeRows
  <2>2. QED
    BY <2>1 DEF Above
<1>2. {c} \in V /\ step \in [1..n -> [V -> V]] /\ \A i \in 1..n : \A v \in V : step[i][v] = Above(v)
  BY <1>1
<1> HIDE DEF step, V
<1>3. PICK h \in [0..n -> V] : Recursion(h, n, {c}, step)
  BY <1>2, RecursionExists, Zenon
<1> DEFINE Chosen(k) == k = [m \in 0..MaxCategories |->
                                IF m = 0 THEN {c}
                                ELSE k[m - 1] \cup ({categories[d].parent : d \in k[m - 1]} \ {NoCategory})]
<1>4. Chosen(h)
  <2>1. h = [m \in 0..MaxCategories |-> h[m]]
    OBVIOUS
  <2>2. ASSUME NEW m \in 0..MaxCategories
        PROVE  h[m] = IF m = 0 THEN {c} ELSE Above(h[m - 1])
    <3>1. CASE m = 0
      BY <1>3, <3>1 DEF Recursion
    <3>2. CASE m # 0
      <4>1. m \in 1..n /\ m - 1 \in 0..n
        BY <3>2
      <4>2. h[m] = step[m][h[m - 1]] /\ h[m - 1] \in V
        BY <1>3, <4>1 DEF Recursion
      <4>3. QED
        BY <1>2, <3>2, <4>1, <4>2, Zenon
    <3>3. QED
      BY <3>1, <3>2
  <2>3. QED
    BY <2>1, <2>2 DEF Above
<1>5. PICK g : g = CHOOSE k : Chosen(k)
  OBVIOUS
<1>6. Chosen(g)
  BY <1>4, <1>5, Zenon
<1>7. Ancestors(c) = g[MaxCategories]
  BY <1>5, Zenon DEF Ancestors
<1>8. ASSUME NEW m \in 0..n PROVE g[m] = IF m = 0 THEN {c} ELSE Above(g[m - 1])
  BY <1>6 DEF Above
<1>9. g[0] = {c}
  BY <1>8
<1>10. ASSUME NEW m \in 1..MaxCategories PROVE g[m] = Above(g[m - 1])
  <2>1. m \in 0..n /\ m # 0
    OBVIOUS
  <2>2. QED
    BY <1>8, <2>1, Zenon
<1>11. QED
  BY <1>7, <1>9, <1>10

\* The ancestors by parent_id are the categories of the path.
LEMMA AncestorsFacts ==
    ASSUME categories \in Tables, Tree(categories), NEW c \in CategoryIds, Has(categories, c),
           NEW path \in Seq(CategoryIds), path = categories[c].path, NEW n \in Nat, n = Len(path)
    PROVE  Ancestors(c) = {path[i] : i \in 1..n}
<1>1. n # 0 /\ path[n] = c /\ \A i \in 1..n : Stop(path, i)
  BY Stops
<1>2. n <= MaxCategories
  BY <1>1, PathLength
<1>3. PICK up : /\ up[0] = {c} /\ \A m \in 1..MaxCategories : up[m] = Above(up[m - 1])
                /\ Ancestors(c) = up[MaxCategories]
  BY AncestorsRecursion
<1> PICK all \in Nat : all = MaxCategories
  BY TaxonomyAssumptions
<1> DEFINE Lowest(m) == {path[i] : i \in {k \in 1..n : k >= n - m}}
<1> DEFINE Known == {m \in Nat : m <= all => up[m] = Lowest(m)}
<1>4. 0 \in Known
  <2>1. {k \in 1..n : k >= n - 0} = {n}
    BY <1>1
  <2>2. Lowest(0) = {c}
    BY <1>1, <2>1
  <2>3. QED
    BY <1>3, <2>2
<1>5. ASSUME NEW m \in Nat, m \in Known PROVE m + 1 \in Known
  <2> SUFFICES ASSUME m + 1 <= all PROVE up[m + 1] = Lowest(m + 1)
    OBVIOUS
  <2>1. up[m] = Lowest(m)
    BY <1>5
  <2>2. up[m + 1] = Above(Lowest(m))
    <3>1. PICK k : k = m + 1 /\ k \in 1..all /\ k - 1 = m
      OBVIOUS
    <3>2. up[k] = Above(up[k - 1])
      BY <1>3, <3>1
    <3>3. QED
      BY <2>1, <3>1, <3>2
  <2>3. ASSUME NEW i \in 1..n
        PROVE  categories[path[i]].parent = IF i = 1 THEN NoCategory ELSE path[i - 1]
    BY <1>1, StopBefore
  <2>4. ASSUME NEW x, x \in Above(Lowest(m)) PROVE x \in Lowest(m + 1)
    <3>1. CASE x \in Lowest(m)
      <4>1. PICK i \in 1..n : i >= n - m /\ x = path[i]
        BY <3>1
      <4>2. i >= n - (m + 1)
        BY <4>1
      <4>3. QED
        BY <4>1, <4>2
    <3>2. CASE x # NoCategory /\ \E d \in Lowest(m) : x = categories[d].parent
      <4>1. PICK i \in 1..n : i >= n - m /\ x = categories[path[i]].parent
        BY <3>2
      <4>2. i # 1 /\ x = path[i - 1]
        BY <2>3, <3>2, <4>1
      <4>3. PICK k \in 1..n : k = i - 1
        BY <4>2
      <4>4. k >= n - (m + 1) /\ x = path[k]
        BY <4>1, <4>2, <4>3
      <4>5. QED
        BY <4>4
    <3>3. QED
      BY <2>4, <3>1, <3>2 DEF Above
  <2>5. ASSUME NEW i \in 1..n, i >= n - (m + 1) PROVE path[i] \in Above(Lowest(m))
    <3>1. CASE i >= n - m
      <4>1. path[i] \in Lowest(m)
        BY <3>1
      <4>2. QED
        BY <4>1 DEF Above
    <3>2. CASE i < n - m
      <4>1. PICK k : k = i + 1
        OBVIOUS
      <4>2. k \in 1..n /\ k >= n - m /\ k # 1 /\ k - 1 = i
        BY <2>5, <3>2, <4>1
      <4>3. path[k] \in Lowest(m) /\ categories[path[k]].parent = path[i]
        BY <2>3, <4>2
      <4>4. path[i] # NoCategory
        BY IdFacts
      <4>5. QED
        BY <4>3, <4>4 DEF Above
    <3>3. QED
      BY <3>1, <3>2
  <2>6. QED
    BY <2>2, <2>4, <2>5
<1>6. Nat \subseteq Known
  <2> HIDE DEF Known
  <2>1. QED
    BY <1>4, <1>5, Induction
<1>7. up[all] = Lowest(all)
  BY <1>6
<1>8. {k \in 1..n : k >= n - all} = 1..n
  BY <1>2
<1>9. QED
  BY <1>3, <1>7, <1>8

------------------------------------------------------------------------------
(* Settings *)

\* SettingsResolver.resolve is the loop over its scopes: f is what it has found
\* after so many of them.
SettingLoop(f, order, set) ==
    /\ f[0] = Unset
    /\ \A i \in 1..Len(order) : f[i] = IF order[i] \in set THEN order[i] ELSE f[i - 1]

\* That is what the fold of ResolveSetting computes.
LEMMA ResolveIsLoop ==
    ASSUME NEW c, NEW set, NEW S, NEW order \in Seq(S), order = ResolutionOrder(c)
    PROVE  \E f : SettingLoop(f, order, set) /\ ResolveSetting(set, c) = f[Len(order)]
<1> PICK n \in Nat : n = Len(order) /\ DOMAIN order = 1..n
  OBVIOUS
<1> DEFINE V == S \cup {Unset}
<1> DEFINE step == [i \in 1..n |-> [v \in V |-> IF order[i] \in set THEN order[i] ELSE v]]
<1>1. Unset \in V /\ step \in [1..n -> [V -> V]]
  OBVIOUS
<1>2. \A i \in 1..n : \A v \in V : step[i][v] = IF order[i] \in set THEN order[i] ELSE v
  OBVIOUS
<1> HIDE DEF step, V
<1>3. PICK h \in [SUBSET (1..n) -> V] : LeftFold(h, n, Unset, step)
  BY <1>1, LeftFoldExists, Zenon
<1>4. ASSUME NEW k \in [SUBSET (1..n) -> V], NEW s \in SUBSET (1..n), s # {}
      PROVE  step[Max(s)][k[s \ {Max(s)}]] =
                IF order[Max(s)] \in set THEN order[Max(s)] ELSE k[s \ {Max(s)}]
  <2>1. Max(s) \in 1..n /\ k[s \ {Max(s)}] \in V
    BY <1>4, MaxFacts
  <2>2. QED
    BY <1>2, <2>1
<1> DEFINE Chosen(k) == k = [s \in SUBSET DOMAIN order |->
                                IF s = {} THEN Unset
                                ELSE IF order[Max(s)] \in set THEN order[Max(s)] ELSE k[s \ {Max(s)}]]
<1>5. Chosen(h)
  <2>1. h = [s \in SUBSET DOMAIN order |-> h[s]]
    OBVIOUS
  <2>2. ASSUME NEW s \in SUBSET DOMAIN order
        PROVE  h[s] = IF s = {} THEN Unset
                      ELSE IF order[Max(s)] \in set THEN order[Max(s)] ELSE h[s \ {Max(s)}]
    <3>1. s \in SUBSET (1..n)
      OBVIOUS
    <3>2. CASE s = {}
      BY <1>3, <3>1, <3>2, Zenon DEF LeftFold
    <3>3. CASE s # {}
      <4>1. h[s] = step[Max(s)][h[s \ {Max(s)}]]
        BY <1>3, <3>1, <3>3, Zenon DEF LeftFold
      <4>2. QED
        BY <1>4, <3>1, <3>3, <4>1, Zenon
    <3>4. QED
      BY <3>2, <3>3
  <2>3. QED
    BY <2>1, <2>2
<1>6. PICK g : g = CHOOSE k : Chosen(k)
  OBVIOUS
<1>7. Chosen(g)
  BY <1>5, <1>6, Zenon
<1>8. ResolveSetting(set, c) = g[1..n]
  BY <1>6, Zenon DEF ResolveSetting, FoldLeft, MapThenFoldSet
<1>9. \A s \in SUBSET (1..n) :
          g[s] = IF s = {} THEN Unset
                 ELSE IF order[Max(s)] \in set THEN order[Max(s)] ELSE g[s \ {Max(s)}]
  BY <1>7
<1> HIDE DEF Chosen
<1>10. PICK f : AfterEach(f, g, n)
  BY Passes, Zenon
<1>11. f[0] = Unset /\ f[n] = g[1..n]
  BY <1>9, <1>10 DEF AfterEach
<1>12. ASSUME NEW i \in 1..n PROVE f[i] = IF order[i] \in set THEN order[i] ELSE f[i - 1]
  <2>1. /\ 1..i \in SUBSET (1..n) /\ 1..i # {} /\ Max(1..i) = i
        /\ f[i] = g[1..i] /\ f[i - 1] = g[(1..i) \ {i}]
    BY <1>10, Zenon DEF AfterEach
  <2>2. g[1..i] = IF order[Max(1..i)] \in set THEN order[Max(1..i)] ELSE g[(1..i) \ {Max(1..i)}]
    BY <1>9, <2>1, Zenon
  <2>3. QED
    BY <2>1, <2>2
<1>13. QED
  BY <1>8, <1>11, <1>12 DEF SettingLoop

\* The last scope of the order that has a value decides.
LEMMA LastSetWins ==
    ASSUME NEW S, NEW order \in Seq(S), NEW set, NEW f, SettingLoop(f, order, set),
           NEW j \in 1..Len(order), order[j] \in set,
           \A k \in 1..Len(order) : k > j => order[k] \notin set
    PROVE  f[Len(order)] = order[j]
<1> PICK n \in Nat : n = Len(order) /\ j \in 1..n
  OBVIOUS
<1>1. \A i \in 1..n : f[i] = IF order[i] \in set THEN order[i] ELSE f[i - 1]
  BY DEF SettingLoop
<1> DEFINE Same == {m \in Nat : j + m <= n => f[j + m] = order[j]}
<1>2. 0 \in Same
  BY <1>1
<1>3. ASSUME NEW m \in Nat, m \in Same PROVE m + 1 \in Same
  <2> SUFFICES ASSUME j + (m + 1) <= n PROVE f[j + (m + 1)] = order[j]
    OBVIOUS
  <2>1. f[j + m] = order[j]
    BY <1>3
  <2>2. PICK i \in 1..n : i = j + (m + 1) /\ i > j /\ i - 1 = j + m
    OBVIOUS
  <2>3. f[i] = f[i - 1]
    BY <1>1, <2>2
  <2>4. QED
    BY <2>1, <2>2, <2>3
<1> HIDE DEF Same
<1>4. Nat \subseteq Same
  BY <1>2, <1>3, Induction
<1>5. n - j \in Same
  BY <1>4
<1>6. j + (n - j) = n
  OBVIOUS
<1>7. QED
  BY <1>5, <1>6 DEF Same

\* u is s, of m elements, and t, of k, one after the other.
IsJoin(u, s, m, t, k) ==
    Len(u) = m + k /\ \A i \in 1..(m + k) : u[i] = IF i <= m THEN s[i] ELSE t[i - m]

\* That is what \o makes.
LEMMA Joined ==
    ASSUME NEW S, NEW s \in Seq(S), NEW t \in Seq(S), NEW m \in Nat, NEW k \in Nat,
           Len(s) = m, Len(t) = k
    PROVE  s \o t \in Seq(S) /\ IsJoin(s \o t, s, m, t, k)
<1>1. /\ s \o t \in Seq(S) /\ Len(s \o t) = Len(s) + Len(t)
      /\ \A i \in 1..(Len(s) + Len(t)) :
            (s \o t)[i] = IF i <= Len(s) THEN s[i] ELSE t[i - Len(s)]
  BY ConcatProperties
<1>2. QED
  BY <1>1 DEF IsJoin

\* The places of the scopes.
LEMMA OrderFacts ==
    ASSUME NEW c, NEW n \in Nat, categories[c].path \in Seq(CategoryIds), Len(categories[c].path) = n
    PROVE  /\ ResolutionOrder(c) \in Seq(Scopes) /\ Len(ResolutionOrder(c)) = n + 3
           /\ ResolutionOrder(c)[1] = <<"platform">> /\ ResolutionOrder(c)[2] = <<"tenant">>
           /\ \A i \in 1..n : ResolutionOrder(c)[i + 2] = <<"category", categories[c].path[i]>>
           /\ ResolutionOrder(c)[n + 3] = <<"product">>
<1> PICK path \in Seq(CategoryIds) : path = categories[c].path /\ Len(path) = n /\ DOMAIN path = 1..n
  OBVIOUS
<1> DEFINE first == <<<<"platform">>, <<"tenant">>>>
           middle == [i \in 1..n |-> <<"category", path[i]>>]
           last == <<<<"product">>>>
<1>1. first \in Seq(Scopes) /\ Len(first) = 2 /\ first[1] = <<"platform">> /\ first[2] = <<"tenant">>
  BY DEF Scopes
<1>2. last \in Seq(Scopes) /\ Len(last) = 1 /\ last[1] = <<"product">>
  BY DEF Scopes
<1>3. middle \in Seq(Scopes) /\ Len(middle) = n /\ \A i \in 1..n : middle[i] = <<"category", path[i]>>
  BY DEF Scopes
<1>4. ResolutionOrder(c) = (first \o middle) \o last
  BY DEF ResolutionOrder
<1> HIDE DEF first, middle, last
<1>5. 2 \in Nat /\ 1 \in Nat /\ 2 + n \in Nat
  OBVIOUS
<1>6. PICK most \in Seq(Scopes) : most = first \o middle /\ IsJoin(most, first, 2, middle, n)
  BY <1>1, <1>3, <1>5, Joined, Zenon
<1>7. Len(most) = 2 + n /\ \A i \in 1..(2 + n) : most[i] = IF i <= 2 THEN first[i] ELSE middle[i - 2]
  BY <1>6, Zenon DEF IsJoin
<1>8. PICK order \in Seq(Scopes) : order = ResolutionOrder(c) /\ IsJoin(order, most, 2 + n, last, 1)
  BY <1>2, <1>4, <1>5, <1>6, <1>7, Joined, Zenon
<1>9. /\ Len(order) = (2 + n) + 1
       /\ \A i \in 1..((2 + n) + 1) : order[i] = IF i <= 2 + n THEN most[i] ELSE last[i - (2 + n)]
  BY <1>8, Zenon DEF IsJoin
<1>10. Len(order) = n + 3 /\ order[1] = first[1] /\ order[2] = first[2] /\ order[n + 3] = last[1]
  BY <1>7, <1>9
<1>11. \A i \in 1..n : order[i + 2] = middle[i]
  BY <1>7, <1>9
<1>12. QED
  BY <1>1, <1>2, <1>3, <1>8, <1>10, <1>11

\* The scopes are different.
LEMMA ScopeFacts ==
    /\ <<"platform">> # <<"tenant">> /\ <<"tenant">> # <<"product">> /\ <<"platform">> # <<"product">>
    /\ \A a : /\ <<"category", a>> # <<"platform">> /\ <<"category", a>> # <<"tenant">>
              /\ <<"category", a>> # <<"product">>
    /\ \A a, b : <<"category", a>> = <<"category", b>> => a = b
<1>1. \A a : Len(<<"category", a>>) = 2 /\ Len(<<"platform">>) = 1 /\ Len(<<"tenant">>) = 1 /\ Len(<<"product">>) = 1
  OBVIOUS
<1>2. \A a : /\ <<"category", a>> # <<"platform">> /\ <<"category", a>> # <<"tenant">>
             /\ <<"category", a>> # <<"product">>
  BY <1>1
<1>3. QED
  BY <1>2

\* The i-th of n categories of a path is the deepest with a value, and the product has none.
Deepest(set, path, n, i) ==
    /\ <<"product">> \notin set /\ <<"category", path[i]>> \in set
    /\ \A k \in 1..n : k > i => <<"category", path[k]>> \notin set

\* The product decides, then the deepest category of the path, then the tenant.
LEMMA SettingDecided ==
    ASSUME NEW c, NEW n \in Nat, NEW path \in Seq(CategoryIds), path = categories[c].path, Len(path) = n,
           NEW set
    PROVE  /\ <<"product">> \in set => ResolveSetting(set, c) = <<"product">>
           /\ \A i \in 1..n : Deepest(set, path, n, i) =>
                 ResolveSetting(set, c) = <<"category", path[i]>>
           /\ /\ <<"product">> \notin set /\ <<"tenant">> \in set
              /\ \A k \in 1..n : <<"category", path[k]>> \notin set
              => ResolveSetting(set, c) = <<"tenant">>
<1>1. PICK order \in Seq(Scopes) :
          /\ order = ResolutionOrder(c) /\ Len(order) = n + 3
          /\ order[1] = <<"platform">> /\ order[2] = <<"tenant">>
          /\ \A i \in 1..n : order[i + 2] = <<"category", path[i]>>
          /\ order[n + 3] = <<"product">>
  BY OrderFacts
<1>2. PICK f : SettingLoop(f, order, set) /\ ResolveSetting(set, c) = f[Len(order)]
  <2>1. order = ResolutionOrder(c)
    BY <1>1
  <2>2. QED
    BY <2>1, ResolveIsLoop, Zenon
<1>3. ASSUME NEW j \in 1..(n + 3), order[j] \in set, \A k \in 1..(n + 3) : k > j => order[k] \notin set
      PROVE  ResolveSetting(set, c) = order[j]
  <2>1. j \in 1..Len(order) /\ \A k \in 1..Len(order) : k > j => order[k] \notin set
    BY <1>1, <1>3
  <2>2. f[Len(order)] = order[j]
    BY <1>2, <1>3, <2>1, LastSetWins
  <2>3. QED
    BY <1>2, <2>2
<1>4. \A k \in 1..(n + 3) : k > 2 => k = n + 3 \/ \E m \in 1..n : k = m + 2
  <2> TAKE k \in 1..(n + 3)
  <2>1. k > 2 /\ k # n + 3 => k - 2 \in 1..n /\ k = (k - 2) + 2
    OBVIOUS
  <2>2. QED
    BY <2>1
<1>5. ASSUME <<"product">> \in set PROVE ResolveSetting(set, c) = <<"product">>
  <2>1. n + 3 \in 1..(n + 3) /\ order[n + 3] \in set /\ \A k \in 1..(n + 3) : ~(k > n + 3)
    BY <1>1, <1>5
  <2>2. QED
    BY <1>1, <1>3, <2>1
<1>6. ASSUME NEW i \in 1..n, <<"product">> \notin set, <<"category", path[i]>> \in set,
             \A k \in 1..n : k > i => <<"category", path[k]>> \notin set
      PROVE  ResolveSetting(set, c) = <<"category", path[i]>>
  <2>1. order[i + 2] = <<"category", path[i]>>
    BY <1>1, Zenon
  <2>2. i + 2 \in 1..(n + 3)
    OBVIOUS
  <2>3. order[i + 2] \in set
    BY <1>6, <2>1, Zenon
  <2>4. ASSUME NEW k \in 1..(n + 3), k > i + 2 PROVE order[k] \notin set
    <3>1. k > 2
      BY <2>4
    <3>2. CASE k = n + 3
      BY <1>1, <1>6, <3>2
    <3>3. ASSUME NEW m \in 1..n, k = m + 2 PROVE order[k] \notin set
      <4>1. m > i
        BY <2>4, <3>3
      <4>2. order[m + 2] = <<"category", path[m]>>
        BY <1>1, Zenon
      <4>3. QED
        BY <1>6, <3>3, <4>1, <4>2, Zenon
    <3>4. QED
      BY <1>4, <3>1, <3>2, <3>3
  <2>5. QED
    BY <1>3, <2>1, <2>2, <2>3, <2>4
<1>7. ASSUME <<"product">> \notin set, <<"tenant">> \in set,
             \A k \in 1..n : <<"category", path[k]>> \notin set
      PROVE  ResolveSetting(set, c) = <<"tenant">>
  <2>1. 2 \in 1..(n + 3) /\ order[2] \in set
    BY <1>1, <1>7
  <2>2. ASSUME NEW k \in 1..(n + 3), k > 2 PROVE order[k] \notin set
    <3>1. CASE k = n + 3
      BY <1>1, <1>7, <3>1
    <3>2. ASSUME NEW m \in 1..n, k = m + 2 PROVE order[k] \notin set
      BY <1>1, <1>7, <3>2
    <3>3. QED
      BY <1>4, <2>2, <3>1, <3>2
  <2>3. QED
    BY <1>1, <1>3, <2>1, <2>2
<1>8. QED
  BY <1>5, <1>6, <1>7, Zenon DEF Deepest

\* D16 in a tree.
LEMMA SettingsResolved ==
    ASSUME categories \in Tables, Tree(categories)
    PROVE  MostSpecificSettingWins
<1> SUFFICES ASSUME NEW c \in Existing
             PROVE  /\ ResolveSetting({<<"platform">>, <<"tenant">>}, c) = <<"tenant">>
                    /\ \A a \in Ancestors(c) :
                          /\ ResolveSetting({<<"tenant">>, <<"category", a>>}, c) = <<"category", a>>
                          /\ ResolveSetting({<<"category", a>>, <<"product">>}, c) = <<"product">>
                          /\ \A b \in Ancestors(c) : categories[a].depth < categories[b].depth =>
                                ResolveSetting({<<"category", a>>, <<"category", b>>}, c) = <<"category", b>>
                    /\ \A d \in CategoryIds \ Ancestors(c) :
                          ResolveSetting({<<"tenant">>, <<"category", d>>}, c) = <<"tenant">>
  BY Zenon DEF MostSpecificSettingWins
<1>1. c \in CategoryIds /\ Has(categories, c)
  BY DEF Existing, Exists, Has
<1>2. PICK path \in Seq(CategoryIds), n \in Nat : path = categories[c].path /\ n = Len(path)
  BY <1>1 DEF Tables, TreeRows
<1>3. \A i \in 1..n : Stop(path, i)
  BY <1>1, <1>2, Stops
<1>4. \A i, j \in 1..n : path[i] = path[j] => i = j
  BY <1>2, <1>3, PathLength
<1>5. Ancestors(c) = {path[i] : i \in 1..n}
  BY <1>1, <1>2, AncestorsFacts
<1>6. ASSUME NEW set, <<"product">> \notin set, <<"tenant">> \in set,
             \A k \in 1..n : <<"category", path[k]>> \notin set
      PROVE  ResolveSetting(set, c) = <<"tenant">>
  BY <1>2, <1>6, SettingDecided
<1>7. ASSUME NEW set, NEW i \in 1..n, <<"product">> \notin set, <<"category", path[i]>> \in set,
             \A k \in 1..n : k > i => <<"category", path[k]>> \notin set
      PROVE  ResolveSetting(set, c) = <<"category", path[i]>>
  <2>1. Len(path) = n /\ path = categories[c].path
    BY <1>2
  <2>2. Deepest(set, path, n, i)
    BY <1>7, Zenon DEF Deepest
  <2>3. QED
    BY <2>1, <2>2, SettingDecided
<1>8. ASSUME NEW set, <<"product">> \in set PROVE ResolveSetting(set, c) = <<"product">>
  BY <1>2, <1>8, SettingDecided
<1>9. ResolveSetting({<<"platform">>, <<"tenant">>}, c) = <<"tenant">>
  <2> DEFINE set == {<<"platform">>, <<"tenant">>}
  <2>1. <<"product">> \notin set /\ <<"tenant">> \in set /\ \A k \in 1..n : <<"category", path[k]>> \notin set
    BY ScopeFacts, Zenon
  <2> HIDE DEF set
  <2>2. ResolveSetting(set, c) = <<"tenant">>
    BY <1>6, <2>1, Zenon
  <2>3. QED
    BY <2>2 DEF set
<1>10. ASSUME NEW d \in CategoryIds \ Ancestors(c)
       PROVE  ResolveSetting({<<"tenant">>, <<"category", d>>}, c) = <<"tenant">>
  <2> DEFINE set == {<<"tenant">>, <<"category", d>>}
  <2>1. \A k \in 1..n : path[k] # d
    BY <1>5
  <2>2. <<"product">> \notin set /\ <<"tenant">> \in set /\ \A k \in 1..n : <<"category", path[k]>> \notin set
    BY <2>1, ScopeFacts, Zenon
  <2> HIDE DEF set
  <2>3. ResolveSetting(set, c) = <<"tenant">>
    BY <1>6, <2>2, Zenon
  <2>4. QED
    BY <2>3 DEF set
<1>11. ASSUME NEW a \in Ancestors(c)
       PROVE  ResolveSetting({<<"category", a>>, <<"product">>}, c) = <<"product">>
  BY <1>8
<1>12. ASSUME NEW a \in Ancestors(c)
       PROVE  ResolveSetting({<<"tenant">>, <<"category", a>>}, c) = <<"category", a>>
  <2> DEFINE set == {<<"tenant">>, <<"category", a>>}
  <2>1. PICK i \in 1..n : a = path[i]
    BY <1>5
  <2>2. \A k \in 1..n : k > i => path[k] # a
    BY <1>4, <2>1
  <2>3. /\ <<"product">> \notin set /\ <<"category", path[i]>> \in set
        /\ \A k \in 1..n : k > i => <<"category", path[k]>> \notin set
    BY <2>1, <2>2, ScopeFacts, Zenon
  <2> HIDE DEF set
  <2>4. ResolveSetting(set, c) = <<"category", path[i]>>
    BY <1>7, <2>3, Zenon
  <2>5. QED
    BY <2>1, <2>4 DEF set
<1>13. ASSUME NEW a \in Ancestors(c), NEW b \in Ancestors(c), categories[a].depth < categories[b].depth
       PROVE  ResolveSetting({<<"category", a>>, <<"category", b>>}, c) = <<"category", b>>
  <2> DEFINE set == {<<"category", a>>, <<"category", b>>}
  <2>1. PICK i \in 1..n, j \in 1..n : a = path[i] /\ b = path[j]
    BY <1>5
  <2>2. categories[a].depth = i - 1 /\ categories[b].depth = j - 1
    BY <1>3, <2>1 DEF Stop
  <2>3. i < j
    BY <1>13, <2>2
  <2>4. \A k \in 1..n : k > j => path[k] # a /\ path[k] # b
    BY <1>4, <2>1, <2>3
  <2>5. /\ <<"product">> \notin set /\ <<"category", path[j]>> \in set
        /\ \A k \in 1..n : k > j => <<"category", path[k]>> \notin set
    BY <2>1, <2>4, ScopeFacts, Zenon
  <2> HIDE DEF set
  <2>6. ResolveSetting(set, c) = <<"category", path[j]>>
    BY <1>7, <2>5, Zenon
  <2>7. QED
    BY <2>1, <2>6 DEF set
<1>14. QED
  BY <1>9, <1>10, <1>11, <1>12, <1>13, Zenon

------------------------------------------------------------------------------
(* Inheritance *)

\* At most one winner for each kind and key.
SameKey(q, r) == rows[q].kind = rows[r].kind /\ rows[q].key = rows[r].key
OnePerKey(winners) == \A q, r \in winners : SameKey(q, r) => q = r

\* resolved[row.key] = row, wherever resolve_inherited is: the row wins its key,
\* the winner of every other key stays, and no key gets a second winner.
THEOREM OverrideIsExact ==
    ASSUME NEW winners, OnePerKey(winners), NEW r
    PROVE  /\ OnePerKey(Overridden(winners, r))
           /\ \A q : SameKey(q, r) => (q \in Overridden(winners, r) <=> q = r)
           /\ \A q : ~SameKey(q, r) => (q \in Overridden(winners, r) <=> q \in winners)
<1>1. \A q : q \in Overridden(winners, r) <=> q = r \/ (q \in winners /\ ~SameKey(q, r))
  BY DEF Overridden, SameKey
<1>2. SameKey(r, r)
  BY DEF SameKey
<1>3. \A q, t : SameKey(q, t) => SameKey(t, q)
  BY DEF SameKey
<1>4. QED
  BY <1>1, <1>2, <1>3, Zenon DEF OnePerKey

\* One category of the chain is a loop over the rows.
RowLoop(f, winners, a) ==
    /\ f[0] = winners
    /\ \A i \in RowIds : f[i] = IF i \in Owned(a) THEN Overridden(f[i - 1], i) ELSE f[i - 1]

\* That is what the fold of Redefined computes.
LEMMA RedefinedIsLoop ==
    ASSUME NEW winners \in SUBSET RowIds, NEW a
    PROVE  \E f : RowLoop(f, winners, a) /\ Redefined(winners, a) = f[MaxRows]
<1> PICK n \in Nat : n = MaxRows /\ RowIds = 1..n
  BY TaxonomyAssumptions DEF RowIds
<1>0. DOMAIN Listed = 1..n /\ \A i \in 1..n : Listed[i] = i
  BY DEF Listed
<1> DEFINE V == SUBSET RowIds
<1> DEFINE step == [i \in 1..n |-> [v \in V |-> IF i \in Owned(a) THEN Overridden(v, i) ELSE v]]
<1>1. \A i \in 1..n : \A v \in V : Overridden(v, i) \in V
  BY DEF Overridden
<1>2. winners \in V /\ step \in [1..n -> [V -> V]]
  BY <1>1
<1>3. \A i \in 1..n : \A v \in V : step[i][v] = IF i \in Owned(a) THEN Overridden(v, i) ELSE v
  OBVIOUS
<1> HIDE DEF step, V
<1>4. PICK h \in [SUBSET (1..n) -> V] : LeftFold(h, n, winners, step)
  BY <1>2, LeftFoldExists, Zenon
<1> DEFINE Chosen(k) == k = [s \in SUBSET DOMAIN Listed |->
                                IF s = {} THEN winners
                                ELSE IF Listed[Max(s)] \in Owned(a)
                                     THEN Overridden(k[s \ {Max(s)}], Listed[Max(s)])
                                     ELSE k[s \ {Max(s)}]]
<1>5. Chosen(h)
  <2>1. h = [s \in SUBSET DOMAIN Listed |-> h[s]]
    BY <1>0
  <2>2. ASSUME NEW s \in SUBSET DOMAIN Listed
        PROVE  h[s] = IF s = {} THEN winners
                      ELSE IF Listed[Max(s)] \in Owned(a)
                           THEN Overridden(h[s \ {Max(s)}], Listed[Max(s)])
                           ELSE h[s \ {Max(s)}]
    <3>1. s \in SUBSET (1..n)
      BY <1>0
    <3>2. CASE s = {}
      BY <1>4, <3>1, <3>2, Zenon DEF LeftFold
    <3>3. CASE s # {}
      <4>1. h[s] = step[Max(s)][h[s \ {Max(s)}]]
        BY <1>4, <3>1, <3>3, Zenon DEF LeftFold
      <4>2. Max(s) \in s
        BY <3>1, <3>3, MaxFacts
      <4>3. Max(s) \in 1..n /\ h[s \ {Max(s)}] \in V
        BY <3>1, <4>2
      <4>4. Listed[Max(s)] = Max(s)
        BY <1>0, <4>3, Zenon
      <4>5. QED
        BY <1>3, <3>3, <4>1, <4>3, <4>4, Zenon
    <3>4. QED
      BY <3>2, <3>3
  <2>3. QED
    BY <2>1, <2>2
<1>6. PICK g : g = CHOOSE k : Chosen(k)
  OBVIOUS
<1>7. Chosen(g)
  BY <1>5, <1>6, Zenon
<1>8. Redefined(winners, a) = g[DOMAIN Listed]
  BY <1>6, Zenon DEF Redefined, FoldLeft, MapThenFoldSet
<1>9. \A s \in SUBSET (1..n) :
          g[s] = IF s = {} THEN winners
                 ELSE IF Listed[Max(s)] \in Owned(a)
                      THEN Overridden(g[s \ {Max(s)}], Listed[Max(s)])
                      ELSE g[s \ {Max(s)}]
  BY <1>0, <1>7
<1> HIDE DEF Chosen
<1>10. PICK f : AfterEach(f, g, n)
  BY Passes, Zenon
<1>11. f[0] = winners /\ f[n] = g[1..n]
  BY <1>9, <1>10 DEF AfterEach
<1>12. ASSUME NEW i \in 1..n PROVE f[i] = IF i \in Owned(a) THEN Overridden(f[i - 1], i) ELSE f[i - 1]
  <2>1. /\ 1..i \in SUBSET (1..n) /\ 1..i # {} /\ Max(1..i) = i
        /\ f[i] = g[1..i] /\ f[i - 1] = g[(1..i) \ {i}]
    BY <1>10, Zenon DEF AfterEach
  <2>2. Listed[i] = i
    BY <1>0
  <2>3. g[1..i] = IF Listed[Max(1..i)] \in Owned(a)
                  THEN Overridden(g[(1..i) \ {Max(1..i)}], Listed[Max(1..i)])
                  ELSE g[(1..i) \ {Max(1..i)}]
    BY <1>9, <2>1, Zenon
  <2>4. QED
    BY <2>1, <2>2, <2>3, Zenon
<1>13. QED
  BY <1>0, <1>8, <1>11, <1>12 DEF RowLoop

\* What the rows up to i of a category have made of the winners.
Replaced(result, winners, a, i) ==
    /\ result \in SUBSET RowIds /\ OnePerKey(result)
    /\ \A x \in result : x \in winners \/ x \in Owned(a)
    /\ \A q \in winners : \E x \in result : SameKey(x, q) /\ (x = q \/ x \in Owned(a))
    /\ \A q \in Owned(a) : q <= i => \E x \in result : SameKey(x, q) /\ x \in Owned(a)

\* One more row of the category.
LEMMA OneMoreRow ==
    ASSUME NEW winners, NEW a, NEW i \in RowIds, NEW result, Replaced(result, winners, a, i - 1)
    PROVE  Replaced(IF i \in Owned(a) THEN Overridden(result, i) ELSE result, winners, a, i)
<1>0. i \in Nat /\ \A q \in Owned(a) : q \in Nat /\ (q <= i => q = i \/ q <= i - 1)
  BY TaxonomyAssumptions DEF RowIds, Owned
<1>1. /\ result \in SUBSET RowIds /\ OnePerKey(result)
      /\ \A x \in result : x \in winners \/ x \in Owned(a)
      /\ \A q \in winners : \E x \in result : SameKey(x, q) /\ (x = q \/ x \in Owned(a))
      /\ \A q \in Owned(a) : q <= i - 1 => \E x \in result : SameKey(x, q) /\ x \in Owned(a)
  BY Zenon DEF Replaced
<1>2. CASE i \notin Owned(a)
  <2>1. \A q \in Owned(a) : q <= i => q <= i - 1
    BY <1>0, <1>2
  <2>2. QED
    BY <1>1, <1>2, <2>1, Zenon DEF Replaced
<1>3. CASE i \in Owned(a)
  <2> DEFINE new == Overridden(result, i)
  <2>1. /\ OnePerKey(new)
        /\ \A q : SameKey(q, i) => (q \in new <=> q = i)
        /\ \A q : ~SameKey(q, i) => (q \in new <=> q \in result)
    BY <1>1, OverrideIsExact, Zenon
  <2>2. new \in SUBSET RowIds /\ \A x \in new : x \in result \/ x = i
    BY <1>1 DEF Overridden
  <2> HIDE DEF new
  <2>3. SameKey(i, i) /\ i \in new
    BY <2>1 DEF SameKey
  <2>4. ASSUME NEW q, NEW x \in result, SameKey(x, q) PROVE x \in new \/ SameKey(i, q)
    <3>1. SameKey(x, i) => SameKey(i, q)
      BY <2>4 DEF SameKey
    <3>2. QED
      BY <2>1, <3>1, Zenon
  <2>5. \A q \in winners : \E x \in new : SameKey(x, q) /\ (x = q \/ x \in Owned(a))
    BY <1>1, <1>3, <2>3, <2>4, Zenon
  <2>6. \A q \in Owned(a) : q <= i => \E x \in new : SameKey(x, q) /\ x \in Owned(a)
    <3>1. ASSUME NEW q \in Owned(a), q <= i - 1 PROVE \E x \in new : SameKey(x, q) /\ x \in Owned(a)
      BY <1>1, <1>3, <2>3, <2>4, <3>1, Zenon
    <3>2. QED
      BY <1>0, <1>3, <2>3, <3>1, Zenon
  <2>7. \A x \in new : x \in winners \/ x \in Owned(a)
    BY <1>1, <1>3, <2>2, Zenon
  <2>8. Replaced(new, winners, a, i)
    BY <2>1, <2>2, <2>5, <2>6, <2>7, Zenon DEF Replaced
  <2>9. QED
    BY <1>3, <2>8 DEF new
<1>4. QED
  BY <1>2, <1>3

\* All its rows.
LEMMA RedefinedFacts ==
    ASSUME NEW winners \in SUBSET RowIds, OnePerKey(winners), NEW a
    PROVE  Replaced(Redefined(winners, a), winners, a, MaxRows)
<1> PICK n \in Nat : n = MaxRows /\ RowIds = 1..n
  BY TaxonomyAssumptions DEF RowIds
<1>1. PICK f : RowLoop(f, winners, a) /\ Redefined(winners, a) = f[MaxRows]
  BY RedefinedIsLoop
<1> DEFINE Good == {m \in Nat : m <= n => Replaced(f[m], winners, a, m)}
<1>2. 0 \in Good
  <2>1. f[0] = winners
    BY <1>1 DEF RowLoop
  <2>2. \A q \in Owned(a) : ~(q <= 0)
    BY DEF Owned
  <2>3. \A q : SameKey(q, q)
    BY DEF SameKey
  <2>4. Replaced(winners, winners, a, 0)
    BY <2>2, <2>3, Zenon DEF Replaced
  <2>5. QED
    BY <2>1, <2>4
<1>3. ASSUME NEW m \in Nat, m \in Good PROVE m + 1 \in Good
  <2> SUFFICES ASSUME m + 1 <= n PROVE Replaced(f[m + 1], winners, a, m + 1)
    OBVIOUS
  <2>1. PICK i : i = m + 1
    OBVIOUS
  <2>2. i \in RowIds /\ i - 1 = m /\ m <= n
    BY <2>1
  <2>3. Replaced(f[i - 1], winners, a, i - 1)
    BY <1>3, <2>2
  <2>4. f[i] = IF i \in Owned(a) THEN Overridden(f[i - 1], i) ELSE f[i - 1]
    BY <1>1, <2>2, Zenon DEF RowLoop
  <2>5. Replaced(f[i], winners, a, i)
    BY <2>2, <2>3, <2>4, OneMoreRow, Zenon
  <2>6. QED
    BY <2>1, <2>5
<1> HIDE DEF Good
<1>4. Nat \subseteq Good
  BY <1>2, <1>3, Induction
<1>5. n \in Good
  BY <1>4
<1>6. QED
  BY <1>1, <1>5 DEF Good

\* resolve_inherited is a loop over the path.
PathLoop(f, path, n) == f[0] = {} /\ \A i \in 1..n : f[i] = Redefined(f[i - 1], path[i])

\* That is what the fold of ResolveInherited computes.
LEMMA InheritedIsLoop ==
    ASSUME NEW c, NEW path \in Seq(CategoryIds), path = categories[c].path, NEW n \in Nat, n = Len(path)
    PROVE  \E f : PathLoop(f, path, n) /\ ResolveInherited(c) = f[n]
<1>0. DOMAIN path = 1..n
  OBVIOUS
<1> DEFINE V == {w \in SUBSET RowIds : OnePerKey(w)}
<1> DEFINE step == [i \in 1..n |-> [v \in V |-> Redefined(v, path[i])]]
<1>1. ASSUME NEW v \in V, NEW i \in 1..n PROVE Redefined(v, path[i]) \in V
  <2>1. Replaced(Redefined(v, path[i]), v, path[i], MaxRows)
    BY RedefinedFacts
  <2>2. QED
    BY <2>1 DEF Replaced
<1>2. {} \in V /\ step \in [1..n -> [V -> V]]
  BY <1>1 DEF OnePerKey
<1>3. \A i \in 1..n : \A v \in V : step[i][v] = Redefined(v, path[i])
  OBVIOUS
<1> HIDE DEF step, V
<1>4. PICK h \in [SUBSET (1..n) -> V] : LeftFold(h, n, {}, step)
  BY <1>2, LeftFoldExists, Zenon
<1> DEFINE Chosen(k) == k = [s \in SUBSET DOMAIN categories[c].path |->
                                IF s = {} THEN {}
                                ELSE Redefined(k[s \ {Max(s)}], categories[c].path[Max(s)])]
<1>5. Chosen(h)
  <2>1. h = [s \in SUBSET DOMAIN path |-> h[s]]
    BY <1>0
  <2>2. ASSUME NEW s \in SUBSET DOMAIN path
        PROVE  h[s] = IF s = {} THEN {} ELSE Redefined(h[s \ {Max(s)}], path[Max(s)])
    <3>1. s \in SUBSET (1..n)
      BY <1>0
    <3>2. CASE s = {}
      BY <1>4, <3>1, <3>2, Zenon DEF LeftFold
    <3>3. CASE s # {}
      <4>1. h[s] = step[Max(s)][h[s \ {Max(s)}]]
        BY <1>4, <3>1, <3>3, Zenon DEF LeftFold
      <4>2. Max(s) \in s
        BY <3>1, <3>3, MaxFacts
      <4>3. Max(s) \in 1..n /\ h[s \ {Max(s)}] \in V
        BY <3>1, <4>2
      <4>4. QED
        BY <1>3, <3>3, <4>1, <4>3, Zenon
    <3>4. QED
      BY <3>2, <3>3
  <2>3. QED
    BY <2>1, <2>2
<1>6. PICK g : g = CHOOSE k : Chosen(k)
  OBVIOUS
<1>7. Chosen(g)
  BY <1>5, <1>6, Zenon
<1>8. ResolveInherited(c) = g[DOMAIN categories[c].path]
  BY <1>6, Zenon DEF ResolveInherited, FoldLeft, MapThenFoldSet
<1>9. \A s \in SUBSET (1..n) : g[s] = IF s = {} THEN {} ELSE Redefined(g[s \ {Max(s)}], path[Max(s)])
  BY <1>0, <1>7
<1> HIDE DEF Chosen
<1>10. PICK f : AfterEach(f, g, n)
  BY Passes, Zenon
<1>11. f[0] = {} /\ f[n] = g[1..n]
  BY <1>9, <1>10 DEF AfterEach
<1>12. ASSUME NEW i \in 1..n PROVE f[i] = Redefined(f[i - 1], path[i])
  <2>1. /\ 1..i \in SUBSET (1..n) /\ 1..i # {} /\ Max(1..i) = i
        /\ f[i] = g[1..i] /\ f[i - 1] = g[(1..i) \ {i}]
    BY <1>10, Zenon DEF AfterEach
  <2>2. g[1..i] = Redefined(g[(1..i) \ {Max(1..i)}], path[Max(1..i)])
    BY <1>9, <2>1, Zenon
  <2>3. QED
    BY <2>1, <2>2, Zenon
<1>13. QED
  BY <1>0, <1>8, <1>11, <1>12 DEF PathLoop

\* The winners after m categories of a path: rows of those categories, one for
\* each key, and for each of their rows a winner from there or further down.
Covered(winners, path, m) ==
    /\ winners \in SUBSET RowIds /\ OnePerKey(winners)
    /\ \A w \in winners : \E j \in 1..m : w \in Owned(path[j])
    /\ \A i \in 1..m : \A q \in Owned(path[i]) :
          \E w \in winners : SameKey(w, q) /\ \E j \in i..m : w \in Owned(path[j])

\* One category more.
LEMMA OneMoreCategory ==
    ASSUME NEW path, NEW m \in Nat, NEW winners, Covered(winners, path, m)
    PROVE  Covered(Redefined(winners, path[m + 1]), path, m + 1)
<1> PICK n \in Nat : n = MaxRows /\ RowIds = 1..n
  BY TaxonomyAssumptions DEF RowIds
<1> DEFINE a == path[m + 1]
<1> DEFINE new == Redefined(winners, a)
<1>1. /\ winners \in SUBSET RowIds /\ OnePerKey(winners)
      /\ \A w \in winners : \E j \in 1..m : w \in Owned(path[j])
      /\ \A i \in 1..m : \A q \in Owned(path[i]) :
            \E w \in winners : SameKey(w, q) /\ \E j \in i..m : w \in Owned(path[j])
  BY Zenon DEF Covered
<1>2. Replaced(new, winners, a, MaxRows)
  BY <1>1, RedefinedFacts, Zenon
<1> HIDE DEF new
<1>3. /\ new \in SUBSET RowIds /\ OnePerKey(new)
      /\ \A x \in new : x \in winners \/ x \in Owned(a)
      /\ \A q \in winners : \E x \in new : SameKey(x, q) /\ (x = q \/ x \in Owned(a))
      /\ \A q \in Owned(a) : q <= MaxRows => \E x \in new : SameKey(x, q) /\ x \in Owned(a)
  BY <1>2, Zenon DEF Replaced
<1>4. \A q \in Owned(a) : q <= MaxRows
  BY DEF Owned
<1>5. \A j \in 1..m : j \in 1..(m + 1)
  OBVIOUS
<1>6. m + 1 \in 1..(m + 1) /\ \A i \in 1..(m + 1) : m + 1 \in i..(m + 1) /\ (i # m + 1 => i \in 1..m)
  OBVIOUS
<1>7. \A i \in 1..m : \A j \in i..m : j \in i..(m + 1)
  OBVIOUS
<1>8. \A w \in new : \E j \in 1..(m + 1) : w \in Owned(path[j])
  BY <1>1, <1>3, <1>5, <1>6, Zenon
<1>9. ASSUME NEW i \in 1..(m + 1), NEW q \in Owned(path[i])
      PROVE  \E w \in new : SameKey(w, q) /\ \E j \in i..(m + 1) : w \in Owned(path[j])
  <2>1. CASE i = m + 1
    BY <1>3, <1>4, <1>6, <2>1, Zenon
  <2>2. CASE i # m + 1
    <3>1. i \in 1..m
      BY <1>6, <2>2
    <3>2. PICK w \in winners : SameKey(w, q) /\ \E j \in i..m : w \in Owned(path[j])
      BY <1>1, <3>1, Zenon
    <3>3. PICK x \in new : SameKey(x, w) /\ (x = w \/ x \in Owned(a))
      BY <1>3, Zenon
    <3>4. SameKey(x, q)
      BY <3>2, <3>3 DEF SameKey
    <3>5. \E j \in i..(m + 1) : x \in Owned(path[j])
      BY <1>6, <1>7, <3>1, <3>2, <3>3, Zenon
    <3>6. QED
      BY <3>4, <3>5
  <2>3. QED
    BY <2>1, <2>2
<1>10. QED
  BY <1>3, <1>8, <1>9, Zenon DEF Covered, new

\* The whole path.
LEMMA InheritedFacts ==
    ASSUME NEW c, NEW path \in Seq(CategoryIds), path = categories[c].path, NEW n \in Nat, n = Len(path)
    PROVE  Covered(ResolveInherited(c), path, n)
<1>1. PICK f : PathLoop(f, path, n) /\ ResolveInherited(c) = f[n]
  BY InheritedIsLoop
<1> DEFINE Good == {m \in Nat : m <= n => Covered(f[m], path, m)}
<1>2. 0 \in Good
  <2>1. 1..0 = {}
    OBVIOUS
  <2>2. Covered({}, path, 0)
    BY <2>1 DEF Covered, OnePerKey
  <2>3. QED
    BY <1>1, <2>2 DEF PathLoop
<1>3. ASSUME NEW m \in Nat, m \in Good PROVE m + 1 \in Good
  <2> SUFFICES ASSUME m + 1 <= n PROVE Covered(f[m + 1], path, m + 1)
    OBVIOUS
  <2>1. m + 1 \in 1..n /\ (m + 1) - 1 = m /\ m <= n
    OBVIOUS
  <2>2. f[m + 1] = Redefined(f[(m + 1) - 1], path[m + 1])
    BY <1>1, <2>1, Zenon DEF PathLoop
  <2>3. Covered(f[m], path, m)
    BY <1>3, <2>1
  <2>4. Covered(Redefined(f[m], path[m + 1]), path, m + 1)
    BY <2>3, OneMoreCategory, Zenon
  <2>5. QED
    BY <2>1, <2>2, <2>4, Zenon
<1> HIDE DEF Good
<1>4. Nat \subseteq Good
  BY <1>2, <1>3, Induction
<1>5. n \in Good
  BY <1>4
<1>6. QED
  BY <1>1, <1>5 DEF Good

\* D10 in a tree.
LEMMA DefinitionsResolved ==
    ASSUME categories \in Tables, Tree(categories)
    PROVE  NearestDefinitionWins
<1> SUFFICES ASSUME NEW c \in Existing, NEW r \in RowIds, rows[r].category \in Ancestors(c)
             PROVE  \E w \in ResolveInherited(c) :
                       /\ rows[w].kind = rows[r].kind /\ rows[w].key = rows[r].key
                       /\ categories[rows[w].category].depth >= categories[rows[r].category].depth
                       /\ \A x \in ResolveInherited(c) :
                             rows[x].kind = rows[r].kind /\ rows[x].key = rows[r].key => x = w
  BY Zenon DEF NearestDefinitionWins
<1>1. c \in CategoryIds /\ Has(categories, c)
  BY DEF Existing, Exists, Has
<1>2. PICK path \in Seq(CategoryIds), n \in Nat : path = categories[c].path /\ n = Len(path)
  BY <1>1 DEF Tables, TreeRows
<1>3. \A i \in 1..n : Stop(path, i)
  BY <1>1, <1>2, Stops
<1>4. Ancestors(c) = {path[i] : i \in 1..n}
  BY <1>1, <1>2, AncestorsFacts
<1>5. PICK winners : winners = ResolveInherited(c) /\ Covered(winners, path, n)
  BY <1>2, InheritedFacts, Zenon
<1>6. PICK i \in 1..n : rows[r].category = path[i]
  BY <1>4
<1>7. r \in Owned(path[i])
  BY <1>6 DEF Owned
<1>8. PICK w \in winners : SameKey(w, r) /\ \E j \in i..n : w \in Owned(path[j])
  BY <1>5, <1>7, Zenon DEF Covered
<1>9. PICK j \in i..n : w \in Owned(path[j])
  BY <1>8
<1>10. rows[w].category = path[j] /\ j \in 1..n
  BY <1>9 DEF Owned
<1>11. categories[path[i]].depth = i - 1 /\ categories[path[j]].depth = j - 1
  BY <1>3, <1>10 DEF Stop
<1>12. categories[rows[w].category].depth >= categories[rows[r].category].depth
  BY <1>6, <1>9, <1>10, <1>11
<1>13. ASSUME NEW x \in winners, rows[x].kind = rows[r].kind /\ rows[x].key = rows[r].key PROVE x = w
  <2>1. OnePerKey(winners)
    BY <1>5 DEF Covered
  <2>2. SameKey(x, w)
    BY <1>8, <1>13 DEF SameKey
  <2>3. QED
    BY <2>1, <2>2, Zenon DEF OnePerKey
<1>14. QED
  BY <1>5, <1>8, <1>12, <1>13, Zenon DEF SameKey

\* A category sees no row but those of its ancestors.
OnlyAncestorsWin ==
    \A c \in Existing : \A w \in ResolveInherited(c) : rows[w].category \in Ancestors(c)

\* So it is in a tree.
LEMMA WinnersInherited ==
    ASSUME categories \in Tables, Tree(categories)
    PROVE  OnlyAncestorsWin
<1> SUFFICES ASSUME NEW c \in Existing, NEW w \in ResolveInherited(c)
             PROVE  rows[w].category \in Ancestors(c)
  BY DEF OnlyAncestorsWin
<1>1. c \in CategoryIds /\ Has(categories, c)
  BY DEF Existing, Exists, Has
<1>2. PICK path \in Seq(CategoryIds), n \in Nat : path = categories[c].path /\ n = Len(path)
  BY <1>1 DEF Tables, TreeRows
<1>3. Ancestors(c) = {path[i] : i \in 1..n}
  BY <1>1, <1>2, AncestorsFacts
<1>4. Covered(ResolveInherited(c), path, n)
  BY <1>2, InheritedFacts, Zenon
<1>5. PICK j \in 1..n : w \in Owned(path[j])
  BY <1>4, Zenon DEF Covered
<1>6. rows[w].category = path[j]
  BY <1>5 DEF Owned
<1>7. QED
  BY <1>3, <1>6

\* D16, however subtrees are moved: of the scopes that set a key the most
\* specific decides: product, then the nearest ancestor, then tenant, then
\* platform.
THEOREM SettingsMostSpecific == SerialMoves /\ Spec => []MostSpecificSettingWins
<1>1. PublishingInv /\ TreeInv => MostSpecificSettingWins
  BY SettingsResolved DEF PublishingInv, TablesInv, TreeInv
<1>2. QED
  BY <1>1, TreeStays, PublishingInvariant, PTL

\* D10, however subtrees are moved and rows created: for each kind and key a
\* category sees exactly one row, of the nearest ancestor that defines the key.
THEOREM DefinitionsNearest == SerialMoves /\ Spec => []NearestDefinitionWins
<1>1. PublishingInv /\ TreeInv => NearestDefinitionWins
  BY DefinitionsResolved DEF PublishingInv, TablesInv, TreeInv
<1>2. QED
  BY <1>1, TreeStays, PublishingInvariant, PTL

\* And it sees no row of a category that is not one of its ancestors.
THEOREM DefinitionsInherited == SerialMoves /\ Spec => []OnlyAncestorsWin
<1>1. PublishingInv /\ TreeInv => OnlyAncestorsWin
  BY WinnersInherited DEF PublishingInv, TablesInv, TreeInv
<1>2. QED
  BY <1>1, TreeStays, PublishingInvariant, PTL

------------------------------------------------------------------------------
(* Snapshots *)

\* A snapshot names one row for each kind and key.
Unambiguous(snapshot) == \A e, f \in snapshot : e.kind = f.kind /\ e.key = f.key => e = f

\* What it says of a row is what the row is still called.
Current(snapshot) ==
    \A e \in snapshot :
        /\ e.id \in RowIds /\ rows[e.id].category # NoCategory
        /\ rows[e.id].kind = e.kind /\ rows[e.id].key = e.key

\* All that were taken, by a publication that is open as well.
SnapshotsInv ==
    /\ \A row \in versions : Unambiguous(row.snapshot) /\ Current(row.snapshot)
    /\ \A p \in Publishers : Unambiguous(publishing[p].snapshot) /\ Current(publishing[p].snapshot)

\* build_snapshot takes such a one, whatever the tree looks like at that moment.
LEMMA SnapshotFacts ==
    ASSUME categories \in Tables, NEW c \in CategoryIds
    PROVE  Unambiguous(Snapshot(c)) /\ Current(Snapshot(c))
<1>1. PICK path \in Seq(CategoryIds), n \in Nat : path = categories[c].path /\ n = Len(path)
  BY DEF Tables, TreeRows
<1>2. PICK winners : winners = ResolveInherited(c) /\ Covered(winners, path, n)
  BY <1>1, InheritedFacts, Zenon
<1>3. winners \in SUBSET RowIds /\ OnePerKey(winners)
  BY <1>2 DEF Covered
<1>4. ASSUME NEW w \in winners PROVE rows[w].category # NoCategory
  <2>1. PICK j \in 1..n : w \in Owned(path[j])
    BY <1>2, Zenon DEF Covered
  <2>2. path[j] \in CategoryIds
    BY <1>1
  <2>3. QED
    BY <2>1, <2>2, IdFacts DEF Owned
<1>5. \A e \in Snapshot(c) : \E w \in winners :
          e = [id |-> w, kind |-> rows[w].kind, key |-> rows[w].key, revision |-> rows[w].revision]
  BY <1>2 DEF Snapshot
<1>6. Unambiguous(Snapshot(c))
  <2> SUFFICES ASSUME NEW e \in Snapshot(c), NEW f \in Snapshot(c), e.kind = f.kind, e.key = f.key
               PROVE  e = f
    BY DEF Unambiguous
  <2>1. PICK v \in winners :
            e = [id |-> v, kind |-> rows[v].kind, key |-> rows[v].key, revision |-> rows[v].revision]
    BY <1>5
  <2>2. PICK w \in winners :
            f = [id |-> w, kind |-> rows[w].kind, key |-> rows[w].key, revision |-> rows[w].revision]
    BY <1>5
  <2>3. SameKey(v, w)
    BY <2>1, <2>2 DEF SameKey
  <2>4. v = w
    BY <1>3, <2>3, Zenon DEF OnePerKey
  <2>5. QED
    BY <2>1, <2>2, <2>4
<1>7. Current(Snapshot(c))
  <2> SUFFICES ASSUME NEW e \in Snapshot(c)
               PROVE  /\ e.id \in RowIds /\ rows[e.id].category # NoCategory
                      /\ rows[e.id].kind = e.kind /\ rows[e.id].key = e.key
    BY DEF Current
  <2>1. PICK w \in winners :
            e = [id |-> w, kind |-> rows[w].kind, key |-> rows[w].key, revision |-> rows[w].revision]
    BY <1>5
  <2>2. e.id = w /\ e.kind = rows[w].kind /\ e.key = rows[w].key
    BY <2>1
  <2>3. QED
    BY <1>3, <1>4, <2>2
<1>8. QED
  BY <1>6, <1>7

\* A row keeps its name: kind and key are written when it is created.
LEMMA NamesKept ==
    ASSUME PublishingInv, [Next]_vars, NEW r \in RowIds, rows[r].category # NoCategory
    PROVE  /\ rows'[r].category = rows[r].category
           /\ rows'[r].kind = rows[r].kind /\ rows'[r].key = rows[r].key
<1>1. rows \in RowTables
  BY DEF PublishingInv, RowsInv
<1>2. ASSUME NEW q \in RowIds, NEW kind \in Kinds, NEW c \in CategoryIds, NEW key \in Keys,
             CreateRow(q, kind, c, key)
      PROVE  rows'[r] = rows[r]
  <2>1. rows[q].category = NoCategory
    BY <1>2 DEF CreateRow, EmptyRow
  <2>2. QED
    BY <1>1, <1>2, <2>1 DEF CreateRow, RowTables
<1>3. ASSUME NEW q \in RowIds, NEW kind \in Kinds, ReviseRow(q, kind)
      PROVE  /\ rows'[r].category = rows[r].category
             /\ rows'[r].kind = rows[r].kind /\ rows'[r].key = rows[r].key
  <2>1. rows' = [rows EXCEPT ![q] = [rows[q] EXCEPT !.revision = rows[q].revision + 1]]
    BY <1>3 DEF ReviseRow
  <2>2. QED
    BY <1>1, <2>1 DEF RowTables
<1>4. CASE AddRow
  <2>1. PICK q \in RowIds, kind \in Kinds, c \in CategoryIds, key \in Keys : CreateRow(q, kind, c, key)
    BY <1>4 DEF AddRow, CreateAttributeDefinition, CreateVariantAxis, CreateInputImageSlot,
          CreateCatalogImageSlot, Kinds
  <2>2. QED
    BY <1>2, <2>1
<1>5. CASE EditRow
  <2>1. PICK q \in RowIds, kind \in Kinds : ReviseRow(q, kind)
    BY <1>5 DEF EditRow, UpdateAttributeDefinition, UpdateInputImageSlot, UpdateVariantAxis,
          CreateVariantAxisValue, UpdateVariantAxisValue, UpdateCatalogImageSlot,
          AttachInputToCatalogSlot, UpdateCatalogSlotInputRequirement,
          DetachInputFromCatalogSlot, Kinds
  <2>2. QED
    BY <1>3, <2>1
<1>6. ASSUME NEW p \in Publishers, PublishCommit(p)
      PROVE  /\ rows'[r].category = rows[r].category
             /\ rows'[r].kind = rows[r].kind /\ rows'[r].key = rows[r].key
  <2>1. PICK c, v : rows' = Stamped(c, v)
    BY <1>6 DEF PublishCommit
  <2>2. rows'[r] = rows[r] \/ rows'[r] = [rows[r] EXCEPT !.introduced = v]
    BY <2>1 DEF Stamped
  <2>3. QED
    BY <1>1, <2>2 DEF RowTables
<1>7. CASE rows' = rows
  BY <1>7
<1>8. CASE EditTree \/ UNCHANGED vars
  BY <1>7, <1>8 DEF EditTree, CreateCategory, UpdateCategory, MoveRead, MoveCommit, vars
<1>9. CASE Publish
  BY <1>6, <1>7, <1>9 DEF Publish, PublishRead, PublishConflict
<1>10. QED
  BY <1>4, <1>5, <1>8, <1>9 DEF Next

\* Every step keeps the snapshots.
LEMMA SnapshotsKept ==
    ASSUME PublishingInv, SnapshotsInv, [Next]_vars
    PROVE  SnapshotsInv'
<1>1. categories \in Tables /\ DOMAIN publishing = Publishers
  BY DEF PublishingInv, TablesInv
<1>2. ASSUME NEW snapshot, Current(snapshot) PROVE Current(snapshot)'
  <2> SUFFICES ASSUME NEW e \in snapshot
               PROVE  /\ e.id \in RowIds /\ rows'[e.id].category # NoCategory
                      /\ rows'[e.id].kind = e.kind /\ rows'[e.id].key = e.key
    BY DEF Current
  <2>1. /\ e.id \in RowIds /\ rows[e.id].category # NoCategory
        /\ rows[e.id].kind = e.kind /\ rows[e.id].key = e.key
    BY <1>2 DEF Current
  <2>2. QED
    BY <2>1, NamesKept
<1>3. ASSUME NEW snapshot, Unambiguous(snapshot), Current(snapshot)
      PROVE  Unambiguous(snapshot) /\ Current(snapshot)'
  BY <1>2, <1>3
<1>4. Unambiguous({}) /\ Current({})' /\ NotPublishing.snapshot = {}
  BY DEF Unambiguous, Current, NotPublishing
<1>5. ASSUME NEW row \in versions'
      PROVE  \E snapshot : snapshot = row.snapshot /\ Unambiguous(snapshot) /\ Current(snapshot)'
  <2>1. row \in versions \/ \E p \in Publishers : row.snapshot = publishing[p].snapshot
    <3>1. ASSUME NEW p \in Publishers, PublishCommit(p)
          PROVE  row \in versions \/ row.snapshot = publishing[p].snapshot
      BY <1>5, <3>1 DEF PublishCommit
    <3>2. CASE versions' = versions
      BY <1>5, <3>2
    <3>3. CASE AddRow \/ EditRow
      <4>1. rows \in RowTables
        BY DEF PublishingInv, RowsInv
      <4>2. QED
        BY <3>2, <3>3, <4>1, RowSteps
    <3>4. CASE EditTree \/ UNCHANGED vars
      BY <3>2, <3>4 DEF EditTree, CreateCategory, UpdateCategory, MoveRead, MoveCommit, vars
    <3>5. CASE Publish
      BY <3>1, <3>2, <3>5 DEF Publish, PublishRead, PublishConflict
    <3>6. QED
      BY <3>3, <3>4, <3>5 DEF Next
  <2>2. \E snapshot : snapshot = row.snapshot /\ Unambiguous(snapshot) /\ Current(snapshot)
    BY <2>1, Zenon DEF SnapshotsInv
  <2>3. QED
    BY <1>3, <2>2, Zenon
<1>6. ASSUME NEW q \in Publishers
      PROVE  \E snapshot : snapshot = publishing'[q].snapshot /\ Unambiguous(snapshot) /\ Current(snapshot)'
  <2>1. \/ publishing'[q] = publishing[q] \/ publishing'[q] = NotPublishing
        \/ \E c \in CategoryIds : publishing'[q].snapshot = Snapshot(c)
    <3>1. ASSUME NEW p \in Publishers, NEW c \in CategoryIds, PublishRead(p, c)
          PROVE  publishing'[q] = publishing[q] \/ publishing'[q].snapshot = Snapshot(c)
      BY <1>1, <3>1 DEF PublishRead
    <3>2. ASSUME NEW p \in Publishers, PublishCommit(p) \/ PublishConflict(p)
          PROVE  publishing'[q] = publishing[q] \/ publishing'[q] = NotPublishing
      BY <1>1, <3>2 DEF PublishCommit, PublishConflict
    <3>3. CASE AddRow \/ EditRow
      <4>1. rows \in RowTables
        BY DEF PublishingInv, RowsInv
      <4>2. QED
        BY <3>3, <4>1, RowSteps
    <3>4. CASE EditTree \/ UNCHANGED vars
      BY <3>4 DEF EditTree, CreateCategory, UpdateCategory, MoveRead, MoveCommit, vars
    <3>5. CASE Publish
      BY <3>1, <3>2, <3>5 DEF Publish
    <3>6. QED
      BY <3>3, <3>4, <3>5 DEF Next
  <2>2. CASE publishing'[q] = NotPublishing
    BY <1>4, <2>2
  <2>3. CASE publishing'[q] # NotPublishing
    <3>1. \E snapshot : snapshot = publishing'[q].snapshot /\ Unambiguous(snapshot) /\ Current(snapshot)
      BY <1>1, <2>1, <2>3, SnapshotFacts, Zenon DEF SnapshotsInv
    <3>2. QED
      BY <1>3, <3>1, Zenon
  <2>4. QED
    BY <2>2, <2>3
<1>7. ASSUME NEW row \in versions', NEW e \in row.snapshot
      PROVE  /\ e.id \in RowIds /\ rows'[e.id].category # NoCategory
             /\ rows'[e.id].kind = e.kind /\ rows'[e.id].key = e.key
             /\ \A f \in row.snapshot : e.kind = f.kind /\ e.key = f.key => e = f
  BY <1>5, <1>7 DEF Unambiguous, Current
<1>8. ASSUME NEW q \in Publishers, NEW e \in publishing'[q].snapshot
      PROVE  /\ e.id \in RowIds /\ rows'[e.id].category # NoCategory
             /\ rows'[e.id].kind = e.kind /\ rows'[e.id].key = e.key
             /\ \A f \in publishing'[q].snapshot : e.kind = f.kind /\ e.key = f.key => e = f
  BY <1>6, <1>8 DEF Unambiguous, Current
<1>9. QED
  BY <1>7, <1>8, Zenon DEF SnapshotsInv, Unambiguous, Current

\* build_snapshot keeps one row for each kind and key, and the publication that
\* froze it says so for good: every version ever published is unambiguous, also
\* when moves of the tree raced with the publication.
SnapshotsUnambiguous == \A row \in versions : Unambiguous(row.snapshot)

\* The refusal of a renamed key is never what stops a publication: no use case
\* rewrites the key of a row, so the check of classify_changes has nothing to find.
NeverRenamed ==
    \A c \in Existing : ~Renamed(SnapshotOf(c, categories[c].current), Snapshot(c))

\* Every snapshot, kept or about to be, is unambiguous and calls its rows what
\* they are still called.
LEMMA SnapshotsInvariant == Spec => []SnapshotsInv
<1>1. Init => SnapshotsInv
  <2> SUFFICES ASSUME Init PROVE SnapshotsInv
    OBVIOUS
  <2>1. versions = {} /\ \A p \in Publishers : publishing[p].snapshot = {}
    BY DEF Init, NotPublishing
  <2>2. QED
    BY <2>1 DEF SnapshotsInv, Unambiguous, Current
<1>2. PublishingInv /\ SnapshotsInv /\ [Next]_vars => SnapshotsInv'
  BY SnapshotsKept
<1>3. QED
  BY <1>1, <1>2, PublishingInvariant, PTL DEF Spec

\* Every published snapshot has one row for each kind and key, whatever edits,
\* moves and publications ran at once; no assumption on moves is needed.
THEOREM SnapshotsStayUnambiguous == Spec => []SnapshotsUnambiguous
<1>1. SnapshotsInv => SnapshotsUnambiguous
  BY DEF SnapshotsInv, SnapshotsUnambiguous
<1>2. QED
  BY <1>1, SnapshotsInvariant, PTL

\* PublishCategorySpec never raises for a renamed key: a row that kept its id in
\* two snapshots kept its key.
THEOREM RenamesNeverFound == Spec => []NeverRenamed
<1>1. PublishingInv /\ SnapshotsInv => NeverRenamed
  <2> SUFFICES ASSUME PublishingInv, SnapshotsInv, NEW c \in Existing,
                      NEW p \in SnapshotOf(c, categories[c].current), NEW n \in Snapshot(c),
                      p.id = n.id
               PROVE  p.key = n.key
    BY DEF NeverRenamed, Renamed
  <2>1. c \in CategoryIds /\ categories \in Tables
    BY DEF Existing, PublishingInv, TablesInv
  <2>2. rows[n.id].key = n.key
    BY <2>1, SnapshotFacts DEF Current
  <2>3. PICK row \in versions : p \in row.snapshot
    BY DEF SnapshotOf
  <2>4. rows[p.id].key = p.key
    BY <2>3 DEF SnapshotsInv, Current
  <2>5. QED
    BY <2>2, <2>4
<1>2. QED
  BY <1>1, SnapshotsInvariant, PublishingInvariant, PTL
=============================================================================
