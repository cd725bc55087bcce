----------------------------- MODULE Catalogue -----------------------------
(***************************************************************************)
(* The product library of one user: products with a version each, the      *)
(* shared dictionary of dimensions their configurations are written in,    *)
(* the category tree, and the one-time import of rows of the old price     *)
(* lists.  Every write but the reads of an import runs under productMu in  *)
(* one transaction.  A product has at most one dimension, and one variant for  *)
(* each of its options; clients may send any version and any definition    *)
(* they have ever seen.                                                    *)
(***************************************************************************)
EXTENDS Integers, FiniteSets

CONSTANTS
  Keys, Labels, Options,  \* of dimensions
  Rows,                   \* rows of the old price lists
  Importers,              \* requests importing a row
  MaxProducts,            \* bound: products ever made
  MaxCategories,          \* bound: categories ever made
  MaxWrites               \* bound: transactions that changed something

CatalogueAssumption ==
  \A bound \in {MaxProducts, MaxCategories, MaxWrites} : bound \in Nat

VARIABLES
  products,     \* products with product_catalogs and their variants
  dimensions,   \* product_dimensions
  tombstones,   \* product_dimension_tombstones
  parents,      \* product_categories: id -> its parent, 0 at the top
  migrated,     \* product_price_migrations: rows already imported
  imports,      \* importer -> the SaveProduct call it is about to make
  writes

vars == <<products, dimensions, tombstones, parents, migrated, imports, writes>>
Write == writes < MaxWrites /\ writes' = writes + 1

NoProduct == [version |-> 0]
NoDimension == [version |-> 0]
NoKey == [plain |-> TRUE]
KeyOf(k) == [plain |-> FALSE, key |-> k]
Idle == [step |-> "idle"]
Deleted == [version |-> -1]
Unmade == -1
Gone == -2

\* A text dimension accepts every value.
Definitions ==
  [key : Keys, label : Labels, type : {"text"}, options : {Options}]
    \cup [key : Keys, label : Labels, type : {"select"}, options : SUBSET Options \ {{}}]
Known(k) == dimensions[k] # NoDimension
Alive(p) == products[p].version > 0
CategoryIds == 1..MaxCategories
Filed(c) == parents[c] >= 0
ProductsMade == Cardinality({p \in 1..MaxProducts : products[p] # NoProduct})

Init ==
  /\ products = [p \in 1..MaxProducts |-> NoProduct]
  /\ dimensions = [k \in Keys |-> NoDimension] /\ tombstones = {}
  /\ parents = [c \in CategoryIds |-> Unmade]
  /\ migrated = {} /\ imports = [i \in Importers |-> Idle] /\ writes = 0

TypeOK ==
  /\ \A p \in 1..MaxProducts : Alive(p) =>
       /\ products[p].version \in 1..MaxWrites /\ products[p].category \in 0..MaxCategories
       /\ products[p].sources \subseteq Rows
  /\ \A k \in Keys : Known(k) => dimensions[k].version \in 1..MaxWrites /\ dimensions[k].label \in Labels
  /\ tombstones \subseteq Keys /\ migrated \subseteq Rows /\ writes \in 0..MaxWrites
  /\ \A c \in CategoryIds : parents[c] \in Gone..MaxCategories

-----------------------------------------------------------------------------
(* Products.                                                               *)

SameIdentity(k, d) == Known(k) /\ dimensions[k].label = d.label /\ dimensions[k].type = d.type

\* ensureProductDimension: a known key has its shared meaning, an unknown one that of
\* the same label and type; a removed key must be chosen again.
Accepted(d) == Known(d.key) \/ d.key \notin tombstones
Resolved(d) ==
  IF Known(d.key) THEN d.key
  ELSE IF \E k \in Keys : SameIdentity(k, d) THEN CHOOSE k \in Keys : SameIdentity(k, d)
  ELSE d.key
Ensured(d) ==
  IF Known(Resolved(d)) THEN dimensions
  ELSE [dimensions EXCEPT ![d.key] = [version |-> 1, label |-> d.label, type |-> d.type,
                                      options |-> d.options]]

\* SaveProduct's version check.
Current(p, version) == Alive(p) /\ products[p].version = version

\* The transaction of SaveProduct for a call [id, version, category, def, options, sources].
MaySave(call) ==
  /\ IF call.id = 0 THEN ProductsMade < MaxProducts
     ELSE Current(call.id, call.version)
  /\ call.category # 0 => Filed(call.category)
  /\ call.def # NoKey => Accepted(call.def) /\ call.options \subseteq Ensured(call.def)[Resolved(call.def)].options
Saved(call) ==
  LET p == IF call.id # 0 THEN call.id ELSE ProductsMade + 1 IN
  /\ products' = [products EXCEPT ![p] =
       [version |-> IF call.id = 0 THEN 1 ELSE products[p].version + 1, category |-> call.category,
        key |-> IF call.def = NoKey THEN NoKey ELSE KeyOf(Resolved(call.def)),
        options |-> call.options, sources |-> call.sources]]
  /\ dimensions' = IF call.def = NoKey THEN dimensions ELSE Ensured(call.def)

SaveProduct ==
  /\ Write
  /\ \E id \in 0..MaxProducts, version \in 1..MaxWrites, category \in 0..MaxCategories,
        def \in {NoKey} \cup Definitions :
       \E options \in IF def = NoKey THEN {{}} ELSE SUBSET Options \ {{}},
          sources \in SUBSET (IF id # 0 /\ Alive(id) THEN products[id].sources ELSE {}) :
         LET call == [id |-> id, version |-> version, category |-> category, def |-> def,
                      options |-> options, sources |-> sources] IN
         MaySave(call) /\ Saved(call)
  /\ UNCHANGED <<tombstones, parents, migrated, imports>>

DeleteProduct ==
  /\ Write
  /\ \E p \in 1..MaxProducts, version \in 1..MaxWrites :
       Current(p, version) /\ products' = [products EXCEPT ![p] = Deleted]
  /\ UNCHANGED <<dimensions, tombstones, parents, migrated, imports>>

-----------------------------------------------------------------------------
(* The dictionary of dimensions.                                           *)

Users(k) == {p \in 1..MaxProducts : Alive(p) /\ products[p].key = KeyOf(k)}

BumpNone(ps) == products
\* reindexProductCatalog(bump): the products whose text changed get a new version.
Bump(ps) == [p \in 1..MaxProducts |-> IF p \in ps THEN [products[p] EXCEPT !.version = @ + 1] ELSE products[p]]

OptionsKeptAny(k, d) == TRUE
\* What a changed definition must leave true of the products that use it.
OptionsKept(k, d) ==
  Users(k) # {} => /\ d.type = dimensions[k].type
                   /\ d.type = "select" => \A p \in Users(k) : products[p].options \subseteq d.options

SaveProductDimension ==
  /\ Write
  /\ \E d \in Definitions :
       LET k == d.key IN
       /\ ~\E other \in Keys \ {k} : SameIdentity(other, d)
       /\ \/ ~Known(k) /\ k \notin tombstones /\ products' = products
          \/ /\ Known(k) /\ OptionsKept(k, d)
             /\ products' = Bump(Users(k))
       /\ dimensions' = [dimensions EXCEPT ![k] =
            [version |-> dimensions[k].version + 1, label |-> d.label, type |-> d.type,
             options |-> d.options]]
       /\ [dimensions'[k] EXCEPT !.version = 0] # [dimensions[k] EXCEPT !.version = 0]
  /\ UNCHANGED <<tombstones, parents, migrated, imports>>

Unused(k) == Users(k) = {}

DeleteProductDimension ==
  /\ Write
  /\ \E k \in Keys :
       /\ Known(k) /\ Unused(k)
       /\ dimensions' = [dimensions EXCEPT ![k] = NoDimension] /\ tombstones' = tombstones \cup {k}
  /\ UNCHANGED <<products, parents, migrated, imports>>

-----------------------------------------------------------------------------
(* The category tree.                                                      *)

\* What holds the children of its categories.
Closed(s) == \A d \in CategoryIds : Filed(d) /\ parents[d] \in s => d \in s

\* The categories in and below c: what the recursive query of SaveProductCategory collects.
Subtree(c) == {d \in CategoryIds : \A s \in SUBSET CategoryIds : c \in s /\ Closed(s) => d \in s}

MayMoveNear(c, parent) == parent # 0 => Filed(parent) /\ parent # c
MayMove(c, parent) == parent # 0 => Filed(parent) /\ parent \notin Subtree(c)

SaveProductCategory ==
  /\ Write
  /\ \E parent \in 0..MaxCategories, c \in CategoryIds :
       /\ \/ Filed(c) /\ MayMove(c, parent)
          \/ parents[c] = Unmade /\ (parent # 0 => Filed(parent)) /\ \A d \in 1..c - 1 : parents[d] # Unmade
       /\ parents' = [parents EXCEPT ![c] = parent]
  /\ UNCHANGED <<products, dimensions, tombstones, migrated, imports>>

Filing(c) == {p \in 1..MaxProducts : Alive(p) /\ products[p].category = c}
DeleteProductCategory ==
  /\ Write
  /\ \E c \in CategoryIds :
       /\ Filed(c) /\ ~\E d \in CategoryIds : parents[d] = c
       /\ parents' = [parents EXCEPT ![c] = Gone]
       /\ products' = [p \in 1..MaxProducts |->
            IF p \in Filing(c) THEN [Bump({p})[p] EXCEPT !.category = 0] ELSE products[p]]
  /\ UNCHANGED <<dimensions, tombstones, migrated, imports>>

-----------------------------------------------------------------------------
(* Rows of the old price lists become prices of products, once each.       *)

Named(label) == {k \in Keys : Known(k) /\ dimensions[k].label = label}
Definition(k) == [key |-> k, label |-> dimensions[k].label, type |-> dimensions[k].type,
                  options |-> dimensions[k].options]

\* The dimension a row's extra column stands for: the product's own, the one shared
\* dimension it fits, or a new one under the column's key.
ColumnMeans(p, label, key, option) ==
  IF p # 0 /\ products[p].key # NoKey
  THEN {Definition(k) : k \in {k \in Named(label) : products[p].key = KeyOf(k)}}
  ELSE LET fits == {k \in Named(label) : option \in dimensions[k].options} IN
       IF Cardinality(fits) = 1 THEN {Definition(k) : k \in fits}
       ELSE IF Named(label) # {} THEN {}
       ELSE {[key |-> key, label |-> label, type |-> "text", options |-> Options] :
               free \in IF Known(key) THEN {} ELSE {key}}

\* ImportProductPrice reads the row, the product and the dictionary outside productMu.
ReadRow(i) ==
  /\ imports[i] = Idle
  /\ \E row \in Rows, id \in 0..MaxProducts :
       /\ id # 0 => Alive(id)
       /\ LET p == IF id = 0 THEN [version |-> 0, category |-> 0, options |-> {}, sources |-> {}] ELSE products[id]
              call(def, options) == [step |-> "save", row |-> row, id |-> id, version |-> p.version,
                category |-> p.category, def |-> def, options |-> options, sources |-> p.sources \cup {row}] IN
          \/ /\ id # 0 => products[id].key = NoKey
             /\ imports' = [imports EXCEPT ![i] = call(NoKey, {})]
          \/ \E label \in Labels, key \in Keys, option \in Options :
               \E def \in ColumnMeans(id, label, key, option) :
                 imports' = [imports EXCEPT ![i] = call(def, p.options \cup {option})]
  /\ UNCHANGED <<products, dimensions, tombstones, parents, migrated, writes>>

UnmarkedAny(row) == TRUE
Unmarked(row) == row \notin migrated

\* SaveProduct and its marker are one transaction.
SaveRow(i) ==
  LET call == imports[i] IN
  /\ call # Idle
  /\ imports' = [imports EXCEPT ![i] = Idle]
  /\ IF MaySave(call) /\ Unmarked(call.row)
     THEN Write /\ Saved(call) /\ migrated' = migrated \cup {call.row}
     ELSE UNCHANGED <<products, dimensions, migrated, writes>>
  /\ UNCHANGED <<tombstones, parents>>

Next ==
  \/ SaveProduct \/ DeleteProduct \/ SaveProductDimension \/ DeleteProductDimension
  \/ SaveProductCategory \/ DeleteProductCategory
  \/ \E i \in Importers : ReadRow(i) \/ SaveRow(i)

Spec == Init /\ [][Next]_vars

-----------------------------------------------------------------------------
(* What the library promises.                                              *)

\* Every option a product is offered in is one of the shared definition its dimension
\* has now, and no removed dimension comes back, although definitions are edited,
\* removed and brought along by stale clients and old rows
\* (product_dimensions.go:199-322, product_catalog.go:255-275).
SharedMeaning ==
  /\ \A p \in 1..MaxProducts : Alive(p) /\ products[p].key # NoKey =>
       Known(products[p].key.key) /\ products[p].options \subseteq dimensions[products[p].key.key].options
  /\ \A k \in tombstones : ~Known(k)
  /\ \A j, k \in Keys : j # k /\ Known(j) => ~SameIdentity(k, dimensions[j])

\* Walking up from a category always ends at the top, and every product is filed
\* under a category that exists (product_navigation.go:85-177).
CategoriesAreTree ==
  /\ \A c \in CategoryIds : Filed(c) /\ parents[c] # 0 => Filed(parents[c]) /\ parents[c] \notin Subtree(c)
  /\ \A p \in 1..MaxProducts : Alive(p) /\ products[p].category # 0 => Filed(products[p].category)

\* "Migration markers make retries safe": a row of the old price lists is the price
\* of at most one product, however many requests import it (product_catalog.go:691-692).
ImportedOnce ==
  \A row \in Rows :
    LET carriers == {p \in 1..MaxProducts : Alive(p) /\ row \in products[p].sources} IN
    Cardinality(carriers) <= 1 /\ (carriers # {} => row \in migrated)

\* What a product offers under one version number never changes: a document line that
\* names product and version names one price (ResolveProductPrice, product_catalog.go:601).
Offer(p) == <<products[p], IF products[p].key = NoKey THEN {} ELSE {Definition(products[p].key.key)}>>
VersionNamesOffer ==
  \A p \in 1..MaxProducts : Alive(p) /\ Alive(p)' /\ products'[p].version = products[p].version
    => Offer(p)' = Offer(p)

=============================================================================
