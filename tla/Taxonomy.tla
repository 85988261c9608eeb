------------------------------ MODULE Taxonomy ------------------------------
(***************************************************************************)
(* A tenant's category tree, the specification rows its categories own,    *)
(* their inheritance, the versions published from them and the settings    *)
(* that resolve along the same tree (decisions D10-D13, D15, D16).         *)
(*                                                                         *)
(* Four kinds of row share one rule of inheritance: attribute definitions, *)
(* variant axes, input slots and catalog slots.  Everything else a         *)
(* snapshot keeps of a row, the values of an axis and the input            *)
(* requirements of a catalog slot included, is its revision; values and    *)
(* requirements follow their axis or slot and are not inherited on their   *)
(* own.  A publication reads the tables first and stamps, inserts and      *)
(* commits later, and a move reads a subtree and writes it back, so each   *)
(* is two steps; any other editor's transaction writes one row and is one. *)
(***************************************************************************)
EXTENDS Naturals, FiniteSets, SequencesExt

CONSTANTS
    MaxCategories,  \* bound: rows of categories
    MaxRows,        \* bound: specification rows
    Attribute, Axis, InputSlot, CatalogSlot,    \* the kinds of row
    Keys,
    MaxChanges,     \* bound: rows, edits of rows and publications together
    Publishers,     \* calls of PublishCategorySpec in flight
    Movers,         \* calls of MoveCategory in flight
    SerialMoves     \* TRUE: nobody else changes the tree while a move is open

ASSUME TaxonomyAssumptions ==
    /\ MaxCategories \in Nat \ {0} /\ MaxRows \in Nat
    /\ MaxChanges \in Nat
    /\ Cardinality({Attribute, Axis, InputSlot, CatalogSlot}) = 4
    /\ SerialMoves \in BOOLEAN

CategoryIds == 1..MaxCategories     \* in the order of creation
RowIds == 1..MaxRows
Kinds == {Attribute, Axis, InputSlot, CatalogSlot}
NoCategory == 0
NoVersion == 0

\* categories: no path where there is no row; current is current_spec_version.
CategoryRows == [parent: CategoryIds \cup {NoCategory}, path: Seq(CategoryIds),
                 depth: Nat, current: 0..MaxChanges]
EmptyCategory == [parent |-> NoCategory, path |-> <<>>, depth |-> 0, current |-> NoVersion]

\* A specification row.
SpecRows == [kind: Kinds \cup {"none"}, category: CategoryIds \cup {NoCategory},
             key: Keys \cup {"none"}, revision: 0..MaxChanges, introduced: 0..MaxChanges]
EmptyRow == [kind |-> "none", category |-> NoCategory, key |-> "none", revision |-> 0,
             introduced |-> NoVersion]

VARIABLES
    categories,     \* categories
    rows,           \* the four definition tables
    versions,       \* category_spec_versions
    publishing,     \* the open transaction of each publisher
    moving          \* the open transaction of each mover

vars == <<categories, rows, versions, publishing, moving>>

\* What a snapshot keeps of a row.
Entries == [id: RowIds, kind: Kinds, key: Keys, revision: 0..MaxChanges]
Versions == [category: CategoryIds, version: 1..MaxChanges, snapshot: SUBSET Entries,
             published_by: Publishers]

Publications == [category: CategoryIds \cup {NoCategory}, previous: 0..MaxChanges,
                 snapshot: SUBSET Entries]
NotPublishing == [category |-> NoCategory, previous |-> NoVersion, snapshot |-> {}]

\* The rows a move read, and what it makes of them.
Moves == [read: [CategoryIds -> CategoryRows], new: [CategoryIds -> CategoryRows]]
NotMoving == [read |-> <<>>, new |-> <<>>]

TypeOK ==
    /\ categories \in [CategoryIds -> CategoryRows]
    /\ rows \in [RowIds -> SpecRows]
    /\ versions \subseteq Versions
    /\ publishing \in [Publishers -> Publications]
    /\ moving \in [Movers -> Moves \cup {NotMoving}]

Init ==
    /\ categories = [c \in CategoryIds |-> EmptyCategory]
    /\ rows = [r \in RowIds |-> EmptyRow]
    /\ versions = {}
    /\ publishing = [p \in Publishers |-> NotPublishing]
    /\ moving = [m \in Movers |-> NotMoving]

------------------------------------------------------------------------------
(* The tree *)

Exists(c) == categories[c].path # <<>>
Existing == {c \in CategoryIds : Exists(c)}

\* Category.create places itself under its parent.
Placed(c, parent) ==
    IF parent = NoCategory
    THEN [EmptyCategory EXCEPT !.path = <<c>>]
    ELSE [EmptyCategory EXCEPT !.parent = parent,
                               !.path = Append(categories[parent].path, c),
                               !.depth = categories[parent].depth + 1]

\* The assumption SerialMoves makes of the editors.
TreeIsQuiet == SerialMoves => \A m \in Movers : moving[m] = NotMoving

CreateCategory(c, parent) ==
    /\ TreeIsQuiet
    /\ ~Exists(c) /\ \A d \in 1..(c - 1) : Exists(d)
    /\ parent \in Existing \cup {NoCategory}
    /\ categories' = [categories EXCEPT ![c] = Placed(c, parent)]
    /\ UNCHANGED <<rows, versions, publishing, moving>>

\* UpdateCategory writes name, description, position and is_active: data of the
\* row that inheritance, paths and versions do not depend on.
UpdateCategory(c) ==
    /\ c \in Existing
    /\ UNCHANGED vars

\* SqlCategoryRepository.list_subtree: the row and what its path prefixes.
Subtree(c) == {d \in Existing : d = c \/ IsStrictPrefix(categories[c].path, categories[d].path)}

\* Mutant: only the category itself is rewritten.
ReparentedAlone(c, parent) ==
    [d \in CategoryIds |->
        IF d = c THEN [Placed(c, parent) EXCEPT !.current = categories[c].current]
        ELSE categories[d]]

\* reparent_subtree: the old prefix of every row of the subtree is replaced.
Reparented(c, parent) ==
    LET old == categories[c]
        new == Placed(c, parent)
    IN  [d \in CategoryIds |->
            IF d \in Subtree(c)
            THEN [categories[d] EXCEPT
                    !.parent = IF d = c THEN parent ELSE @,
                    !.path = new.path \o SubSeq(@, Len(old.path) + 1, Len(@)),
                    !.depth = (@ + new.depth) - old.depth]
            ELSE categories[d]]

\* MoveCategory reads the category, its new parent and the subtree, none of
\* them locked; a move under itself or a descendant raises ...
MoveRead(m, c, parent) ==
    /\ moving[m] = NotMoving /\ TreeIsQuiet
    /\ c \in Existing
    /\ parent \in Existing \cup {NoCategory}
    /\ parent \notin Subtree(c)
    /\ moving' = [moving EXCEPT ![m] = [read |-> categories, new |-> Reparented(c, parent)]]
    /\ UNCHANGED <<categories, rows, versions, publishing>>

\* The UPDATE of a row writes the columns whose value is not the one read.
Rewritten(row, read, new) ==
    [row EXCEPT !.parent = IF new.parent = read.parent THEN @ ELSE new.parent,
                !.path = IF new.path = read.path THEN @ ELSE new.path,
                !.depth = IF new.depth = read.depth THEN @ ELSE new.depth]

\* ... and writes the subtree it read.
MoveCommit(m) ==
    /\ moving[m] # NotMoving
    /\ categories' = [d \in CategoryIds |->
                         Rewritten(categories[d], moving[m].read[d], moving[m].new[d])]
    /\ moving' = [moving EXCEPT ![m] = NotMoving]
    /\ UNCHANGED <<rows, versions, publishing>>

------------------------------------------------------------------------------
(* Specification rows *)

Owned(c) == {r \in RowIds : rows[r].category = c}

\* What MaxChanges bounds.
Changes ==
    LET created == {r \in RowIds : rows[r] # EmptyRow}
        open == {p \in Publishers : publishing[p] # NotPublishing}
    IN  FoldFunctionOnSet(LAMBDA row, n : row.revision + 1 + n, 0, rows, created)
        + Cardinality(versions) + Cardinality(open)

CreateRow(r, kind, c, key) ==
    /\ rows[r] = EmptyRow /\ \A q \in 1..(r - 1) : rows[q] # EmptyRow
    /\ c \in Existing /\ Changes < MaxChanges
    /\ rows' = [rows EXCEPT ![r] = [EmptyRow EXCEPT !.kind = kind, !.category = c, !.key = key]]
    /\ UNCHANGED <<categories, versions, publishing, moving>>

\* The create use cases: the category must exist, the key be well formed; a
\* key may repeat, in the category as well as along the tree.
CreateAttributeDefinition(r, c, key) == CreateRow(r, Attribute, c, key)
CreateVariantAxis(r, c, key) == CreateRow(r, Axis, c, key)
CreateInputImageSlot(r, c, key) == CreateRow(r, InputSlot, c, key)
CreateCatalogImageSlot(r, c, key) == CreateRow(r, CatalogSlot, c, key)

\* Everything but key, category and kind is edited in place.
ReviseRow(r, kind) ==
    /\ rows[r].kind = kind
    /\ Changes < MaxChanges
    /\ rows' = [rows EXCEPT ![r].revision = @ + 1]
    /\ UNCHANGED <<categories, versions, publishing, moving>>

UpdateAttributeDefinition(r) == ReviseRow(r, Attribute)
UpdateVariantAxis(r) == ReviseRow(r, Axis)
UpdateInputImageSlot(r) == ReviseRow(r, InputSlot)
UpdateCatalogImageSlot(r) == ReviseRow(r, CatalogSlot)

\* The rows that hang on an axis or a catalog slot (whose absence raises).
CreateVariantAxisValue(r) == ReviseRow(r, Axis)
UpdateVariantAxisValue(r) == ReviseRow(r, Axis)
AttachInputToCatalogSlot(r) == ReviseRow(r, CatalogSlot)
UpdateCatalogSlotInputRequirement(r) == ReviseRow(r, CatalogSlot)
DetachInputFromCatalogSlot(r) == ReviseRow(r, CatalogSlot)

------------------------------------------------------------------------------
(* Inheritance *)

\* The rows as a repository lists them: by position, here in the order of
\* creation.
Listed == [r \in RowIds |-> r]

\* Mutant: an inherited row is kept where the descendant redefines its key.
OverriddenKept(winners, r) ==
    IF \E q \in winners : rows[q].kind = rows[r].kind /\ rows[q].key = rows[r].key
    THEN winners ELSE winners \cup {r}

\* resolved[row.key] = row, in the dictionary of its kind.
Overridden(winners, r) ==
    {q \in winners : rows[q].kind # rows[r].kind \/ rows[q].key # rows[r].key} \cup {r}

\* The rows of one category of the chain, in their order.
Redefined(winners, ancestor) ==
    FoldLeft(LAMBDA resolved, r : IF r \in Owned(ancestor) THEN Overridden(resolved, r) ELSE resolved,
             winners, Listed)

\* resolve_inherited: root to leaf along ancestor_ids, the last writer wins.
ResolveInherited(c) == FoldLeft(Redefined, {}, categories[c].path)

\* build_snapshot, with the values and requirements of the winners alone.
Snapshot(c) ==
    {[id |-> r, kind |-> rows[r].kind, key |-> rows[r].key, revision |-> rows[r].revision] : r \in ResolveInherited(c)}

------------------------------------------------------------------------------
(* Publishing *)

\* SpecResolver.resolve_published.
SnapshotOf(c, v) == UNION {row.snapshot : row \in {q \in versions : q.category = c /\ q.version = v}}

\* classify_changes finds a row that kept its id and changed its key.
Renamed(previous, next) == \E p \in previous, n \in next : p.id = n.id /\ p.key # n.key

\* PublishCategorySpec reads the category, the tables and the last snapshot;
\* a rename raises.
PublishRead(p, c) ==
    /\ publishing[p] = NotPublishing
    /\ c \in Existing
    /\ Changes < MaxChanges
    /\ ~Renamed(SnapshotOf(c, categories[c].current), Snapshot(c))
    /\ publishing' = [publishing EXCEPT ![p] = [category |-> c, previous |-> categories[c].current,
                                                snapshot |-> Snapshot(c)]]
    /\ UNCHANGED <<categories, rows, versions, moving>>

\* UNIQUE (tenant_id, category_id, version).
VersionIsFree(c, v) == \A row \in versions : row.category # c \/ row.version # v

\* The category's own rows that have no stamp get the next version.
Stamped(c, v) ==
    [r \in RowIds |-> IF rows[r].category = c /\ rows[r].introduced = NoVersion
                      THEN [rows[r] EXCEPT !.introduced = v] ELSE rows[r]]

\* The stamps, the version row and current_spec_version are one transaction.
PublishCommit(p) ==
    LET c == publishing[p].category
        v == publishing[p].previous + 1
    IN  /\ publishing[p] # NotPublishing
        /\ VersionIsFree(c, v)
        /\ rows' = Stamped(c, v)
        /\ versions' = versions \cup {[category |-> c, version |-> v, published_by |-> p,
                                       snapshot |-> publishing[p].snapshot]}
        /\ categories' = [categories EXCEPT ![c].current = v]
        /\ publishing' = [publishing EXCEPT ![p] = NotPublishing]
        /\ UNCHANGED moving

\* Mutant: the stamps are committed before the version is inserted.
PublishConflictKeepsStamps(p) ==
    /\ publishing[p] # NotPublishing
    /\ ~VersionIsFree(publishing[p].category, publishing[p].previous + 1)
    /\ rows' = Stamped(publishing[p].category, publishing[p].previous + 2)
    /\ publishing' = [publishing EXCEPT ![p] = NotPublishing]
    /\ UNCHANGED <<categories, versions, moving>>

\* The loser of two concurrent publications is rolled back, stamps included.
PublishConflict(p) ==
    /\ publishing[p] # NotPublishing
    /\ ~VersionIsFree(publishing[p].category, publishing[p].previous + 1)
    /\ publishing' = [publishing EXCEPT ![p] = NotPublishing]
    /\ UNCHANGED <<categories, rows, versions, moving>>

EditTree ==
    \/ \E c \in CategoryIds, parent \in CategoryIds \cup {NoCategory} :
          \/ CreateCategory(c, parent) \/ UpdateCategory(c)
          \/ \E m \in Movers : MoveRead(m, c, parent)
    \/ \E m \in Movers : MoveCommit(m)
AddRow ==
    \E r \in RowIds, c \in CategoryIds, key \in Keys :
        \/ CreateAttributeDefinition(r, c, key) \/ CreateVariantAxis(r, c, key)
        \/ CreateInputImageSlot(r, c, key) \/ CreateCatalogImageSlot(r, c, key)
EditRow ==
    \E r \in RowIds :
        \/ UpdateAttributeDefinition(r) \/ UpdateInputImageSlot(r)
        \/ UpdateVariantAxis(r) \/ CreateVariantAxisValue(r) \/ UpdateVariantAxisValue(r)
        \/ UpdateCatalogImageSlot(r) \/ AttachInputToCatalogSlot(r)
        \/ UpdateCatalogSlotInputRequirement(r) \/ DetachInputFromCatalogSlot(r)
Publish ==
    \E p \in Publishers :
        \/ \E c \in CategoryIds : PublishRead(p, c)
        \/ PublishCommit(p) \/ PublishConflict(p)

Next == EditTree \/ AddRow \/ EditRow \/ Publish

Spec == Init /\ [][Next]_vars

------------------------------------------------------------------------------
(* Settings.  The value of a row is named by its scope, so a set of rows is *)
(* the set of scopes that have one for the key.                             *)

Scopes == {<<"platform">>, <<"tenant">>, <<"product">>} \cup {<<"category", c>> : c \in CategoryIds}
Unset == <<"unset">>

\* Mutant: the ancestors are walked leaf to root.
ResolutionOrderUpwards(c) ==
    <<<<"platform">>, <<"tenant">>>> \o [i \in DOMAIN categories[c].path |->
                                            <<"category", Reverse(categories[c].path)[i]>>]
                                     \o <<<<"product">>>>

\* platform, tenant, every ancestor root to leaf, product.
ResolutionOrder(c) ==
    <<<<"platform">>, <<"tenant">>>> \o [i \in DOMAIN categories[c].path |->
                                            <<"category", categories[c].path[i]>>]
                                     \o <<<<"product">>>>

\* SettingsResolver.resolve for a product of category c.
ResolveSetting(set, c) ==
    FoldLeft(LAMBDA resolved, scope : IF scope \in set THEN scope ELSE resolved,
             Unset, ResolutionOrder(c))

------------------------------------------------------------------------------
(* Properties *)

\* The ancestors of a category by parent_id, itself included.
Ancestors(c) ==
    LET up[n \in 0..MaxCategories] ==
            IF n = 0 THEN {c}
            ELSE up[n - 1] \cup ({categories[d].parent : d \in up[n - 1]} \ {NoCategory})
    IN  up[MaxCategories]

\* However subtrees are moved, every materialised path is the path of the parent
\* with the category appended, and depth counts it: so the tree has no cycle and
\* prefix queries find whole subtrees.
PathsAgree ==
    \A c \in Existing :
        LET row == categories[c] IN
        /\ row.path = IF row.parent = NoCategory THEN <<c>>
                      ELSE Append(categories[row.parent].path, c)
        /\ row.depth + 1 = Len(row.path)

\* D10: for each kind and key a category sees exactly one row, of the nearest
\* ancestor that defines the key, after any moves.
NearestDefinitionWins ==
    \A c \in Existing :
        LET visible == {r \in RowIds : rows[r].category \in Ancestors(c)}
            level(r) == categories[rows[r].category].depth
        IN  \A r \in visible :
                \E w \in ResolveInherited(c) :
                    /\ rows[w].kind = rows[r].kind /\ rows[w].key = rows[r].key
                    /\ level(w) >= level(r)
                    /\ \A x \in ResolveInherited(c) :
                          rows[x].kind = rows[r].kind /\ rows[x].key = rows[r].key => x = w

\* D16: of the scopes that set a key the most specific one decides: product, then
\* the nearest ancestor, then tenant, then platform.
MostSpecificSettingWins ==
    \A c \in Existing :
        /\ ResolveSetting({<<"platform">>, <<"tenant">>}, c) = <<"tenant">>
        /\ \A a \in Ancestors(c) :
              /\ ResolveSetting({<<"tenant">>, <<"category", a>>}, c) = <<"category", a>>
              /\ ResolveSetting({<<"category", a>>, <<"product">>}, c) = <<"product">>
              /\ \A b \in Ancestors(c) : categories[a].depth < categories[b].depth =>
                    ResolveSetting({<<"category", a>>, <<"category", b>>}, c) = <<"category", b>>
        /\ \A d \in CategoryIds \ Ancestors(c) :
              ResolveSetting({<<"tenant">>, <<"category", d>>}, c) = <<"tenant">>

\* A row is stamped only with a version that was published, so the loser of a
\* race leaves no stamp behind.
StampsArePublished ==
    \A r \in RowIds : rows[r].introduced # NoVersion =>
        \E row \in versions : row.category = rows[r].category /\ row.version = rows[r].introduced
=============================================================================
