------------------------------ MODULE NodeTree -------------------------------
(***************************************************************************)
(* The nodes of a document, the JavaScript wrappers that name them, and    *)
(* what becomes of a node nobody names any more.                           *)
(*                                                                         *)
(* A node is made by a script or by markup and never made again: its       *)
(* handle carries a generation.  Its wrapper is found again through two    *)
(* weak tables, one in the bridge and one in JavaScript, each emptied by a *)
(* finalizer that runs long after the wrapper was collected.  The backend  *)
(* counts the wrappers of a node until their finalizers have run, and      *)
(* drops a detached tree once none of its nodes is counted.                *)
(* Node kinds, names and attributes are left out.                          *)
(*                                                                         *)
(* External: the engine's collector, which runs finalizers in any order.   *)
(***************************************************************************)
EXTENDS Integers, Filters, FiniteSets, Functions

CONSTANTS MaxNodes,     \* bound: nodes made
          MaxWrappers   \* bound: wrappers made

ASSUME NodeAssumption == {MaxNodes, MaxWrappers} \subseteq Nat

VARIABLES
    kids,                 \* node -> its children, for the nodes that exist
    made,                 \* nodes made so far
    wrapped,              \* wrapper -> the node it was made for
    collected,            \* wrappers the engine has collected
    tableOwed, cacheOwed, \* collected wrappers whose finalizer is still to run
    table,                \* WrapperTable: node -> wrapper
    cache,                \* wrapperCache: node -> wrapper
    references,           \* js_references: node -> wrappers not released
    listening             \* listenerTargets

treeVars == <<kids, made>>
identityVars == <<wrapped, collected, tableOwed, cacheOwed, table, cache, listening>>
domVars == <<treeVars, identityVars, references>>

Doc == 0    \* the document node
Listed(f, x, v) == [y \in DOMAIN f \cup {x} |-> IF y = x THEN v ELSE f[y]]
Unlisted(f, x) == Restrict(f, DOMAIN f \ {x})

NodeInit ==
    /\ kids = [p \in {Doc, 1} |-> IF p = Doc THEN <<1>> ELSE <<>>] /\ made = 1
    /\ wrapped = <<>> /\ collected = {} /\ tableOwed = {} /\ cacheOwed = {}
    /\ table = <<>> /\ cache = <<>> /\ references = <<>> /\ listening = {}

(***************************************************************************)
(* Trees                                                                   *)
(***************************************************************************)
\* What can be reached in as many steps down as there are nodes.
Subtree(t, n) ==
    LET down[k \in Nat] ==
            IF k = 0 THEN {n}
            ELSE LET above == down[k - 1] IN above \cup UNION {ToSet(t[m]) : m \in above}
    IN  down[Cardinality(DOMAIN t)]

Parents(t, n) == {p \in DOMAIN t : n \in ToSet(t[p])}
RootOf(t, n) == CHOOSE r \in DOMAIN t : Parents(t, r) = {} /\ n \in Subtree(t, r)
Cycle(t, parent, n) == parent \in Subtree(t, n)

Detached(t, n) == [p \in DOMAIN t |-> ItemsIn(t[p], Nat \ {n})]
Pruned(t, n) == Restrict(t, DOMAIN t \ Subtree(t, n))

RootHasReference(t, refs, n) == n \in DOMAIN refs
HasReference(t, refs, n) == Subtree(t, n) \cap DOMAIN refs # {}

\* collect_detached_tree: the whole tree the node is in, or nothing of it.
Swept(t, refs, n) ==
    LET root == RootOf(t, n)
    IN  IF root = Doc \/ HasReference(t, refs, root) THEN t ELSE Pruned(t, root)

TakenOut(t, refs, n) == Swept(Detached(t, n), refs, n)
Emptied(t, refs, n) == FoldLeft(LAMBDA u, c : TakenOut(u, refs, c), t, t[n])

\* Before `ref`, or last when there is none: the document is nobody's child.
Placed(t, p, n, ref) ==
    LET u  == Detached(t, n)
        at == IF ref \in ToSet(u[p]) THEN CHOOSE i \in DOMAIN u[p] : u[p][i] = ref
              ELSE Len(u[p]) + 1
    IN  [u EXCEPT ![p] = InsertAt(@, at, n)]
Spliced(t, p, fragment, ref) == FoldLeft(LAMBDA u, c : Placed(u, p, c, ref), t, t[fragment])

(***************************************************************************)
(* Identity                                                                *)
(***************************************************************************)
Live(w) == w \in DOMAIN wrapped \ collected
Finds(tbl, n) == n \in DOMAIN tbl /\ Live(tbl[n])
InScript(n) == \E w \in DOMAIN wrapped : Live(w) /\ wrapped[w] = n

\* A script reaches the document's nodes and those of the trees it holds a node of.
Reachable(n) == LET root == RootOf(kids, n)
                IN  root = Doc \/ \E m \in Subtree(kids, root) : InScript(m)

\* wrap: the cached wrapper, the bridge's, or a new one that is counted.
WrapAs(n, w) ==
    /\ cache' = Listed(cache, n, w)
    /\ IF Finds(table, n)
       THEN w = table[n] /\ UNCHANGED <<wrapped, table, references>>
       ELSE /\ w = Len(wrapped) + 1 /\ w <= MaxWrappers
            /\ wrapped' = Append(wrapped, n)
            /\ table' = Listed(table, n, w)
            /\ references' = Listed(references, n,
                   IF n \in DOMAIN references THEN references[n] + 1 ELSE 1)

Wrap(n) ==
    /\ n \in DOMAIN kids \ {Doc} /\ Reachable(n) /\ ~Finds(cache, n)
    /\ \E w \in 1..MaxWrappers : WrapAs(n, w)
    /\ UNCHANGED <<treeVars, collected, tableOwed, cacheOwed, listening>>

Listen(w) == Live(w) /\ listening' = listening \cup {w}
             /\ UNCHANGED <<treeVars, wrapped, collected, tableOwed, cacheOwed, table, cache, references>>
StopListening(w) == w \in listening /\ listening' = listening \ {w}
             /\ UNCHANGED <<treeVars, wrapped, collected, tableOwed, cacheOwed, table, cache, references>>

\* No script holds the wrapper any more; its listeners would.
Collect(w) ==
    /\ Live(w) /\ w \notin listening
    /\ collected' = collected \cup {w}
    /\ tableOwed' = tableOwed \cup {w} /\ cacheOwed' = cacheOwed \cup {w}
    /\ UNCHANGED <<treeVars, wrapped, table, cache, references, listening>>

\* finalizeWrapperCacheEntry
CacheFinalizer(w) ==
    /\ w \in cacheOwed /\ cacheOwed' = cacheOwed \ {w}
    /\ LET n == wrapped[w]
       IN  cache' = IF n \in DOMAIN cache /\ cache[n] = w THEN Unlisted(cache, n) ELSE cache
    /\ UNCHANGED <<treeVars, wrapped, collected, tableOwed, table, references, listening>>

\* The bridge's finalizer: only its own entry of the table, then the count.
TableFinalizer(w) ==
    LET n == wrapped[w]
        refs == IF references[n] > 1 THEN [references EXCEPT ![n] = @ - 1]
                ELSE Unlisted(references, n)
    IN  /\ w \in tableOwed /\ tableOwed' = tableOwed \ {w}
        /\ table' = IF n \in DOMAIN table /\ table[n] = w THEN Unlisted(table, n) ELSE table
        /\ references' = refs /\ kids' = Swept(kids, refs, n)
        /\ UNCHANGED <<made, wrapped, collected, cacheOwed, cache, listening>>

(***************************************************************************)
(* The operations of a script, on nodes it has wrappers of                 *)
(***************************************************************************)
Shape(t) == kids' = t /\ UNCHANGED <<identityVars, references>>

\* createElement, createTextNode, createFragment: the new node is wrapped at once.
Create ==
    /\ made < MaxNodes /\ made' = made + 1
    /\ kids' = Listed(kids, made + 1, <<>>)
    /\ WrapAs(made + 1, Len(wrapped) + 1)
    /\ UNCHANGED <<collected, tableOwed, cacheOwed, listening>>

\* A node that is an ancestor of its new parent is refused.
InsertBefore(p, n, ref) ==
    /\ InScript(p) /\ InScript(n) /\ ~Cycle(kids, p, n)
    /\ ref = Doc \/ (InScript(ref) /\ ref \in ToSet(kids[p]) /\ ref # n)
    /\ Shape(Placed(kids, p, n, ref)) /\ UNCHANGED made

RemoveNode(n) ==
    /\ InScript(n) /\ Parents(kids, n) # {}
    /\ Shape(TakenOut(kids, references, n)) /\ UNCHANGED made

Replace(old, new) ==
    /\ InScript(old) /\ InScript(new) /\ old # new
    /\ \E p \in Parents(kids, old) :
          /\ ~Cycle(kids, p, new)
          /\ Shape(TakenOut(Placed(kids, p, new, old), references, old))
    /\ UNCHANGED made

\* insertFragment: its children were read through their wrappers and move in order.
InsertFragment(p, fragment, ref) ==
    /\ InScript(p) /\ InScript(fragment) /\ kids[fragment] # <<>>
    /\ \A c \in ToSet(kids[fragment]) : InScript(c) /\ ~Cycle(kids, p, c)
    /\ ref = Doc \/ (InScript(ref) /\ ref \in ToSet(kids[p]) /\ p # fragment)
    /\ Shape(Spliced(kids, p, fragment, ref))
    /\ UNCHANGED made

SetTextContent(n) ==
    /\ InScript(n)
    /\ \/ Shape(Emptied(kids, references, n)) /\ UNCHANGED made
       \/ /\ made < MaxNodes /\ made' = made + 1
          /\ Shape(Listed(Listed(Emptied(kids, references, n), made + 1, <<>>), n, <<made + 1>>))

\* Markup with a template in it, whose contents are moved under the template.
SetInnerHtml(n) ==
    /\ InScript(n) /\ made + 1 < MaxNodes /\ made' = made + 2
    /\ LET emptied == Emptied(kids, references, n)
           parsed  == Listed(Listed(emptied, made + 1, <<made + 2>>), made + 2, <<>>)
       IN  Shape(Listed(parsed, n, <<made + 1>>))

\* The parsed node goes in first or last, or to one side of the node.
InsertAdjacentHtml(n) ==
    LET Put(p, i) == Shape(Listed([kids EXCEPT ![p] = InsertAt(@, i, made + 1)], made + 1, <<>>))
    IN  /\ InScript(n) /\ made < MaxNodes /\ made' = made + 1
        /\ \/ Put(n, 1)
           \/ Put(n, Len(kids[n]) + 1)
           \/ \E p \in Parents(kids, n) \ {Doc} : \E i \in DOMAIN kids[p] :
                 kids[p][i] = n /\ (Put(p, i) \/ Put(p, i + 1))

NodeNext ==
    \/ \E n \in 1..MaxNodes : Wrap(n)
    \/ \E w \in DOMAIN wrapped :
          Listen(w) \/ StopListening(w) \/ Collect(w) \/ CacheFinalizer(w) \/ TableFinalizer(w)
    \/ Create
    \/ \E p, n \in 1..MaxNodes, ref \in 0..MaxNodes : InsertBefore(p, n, ref)
    \/ \E n \in 1..MaxNodes : RemoveNode(n)
    \/ \E old, new \in 1..MaxNodes : Replace(old, new)
    \/ \E p, f \in 1..MaxNodes, ref \in 0..MaxNodes : InsertFragment(p, f, ref)
    \/ \E n \in 1..MaxNodes : SetTextContent(n)
    \/ \E n \in 1..MaxNodes : SetInnerHtml(n)
    \/ \E n \in 1..MaxNodes : InsertAdjacentHtml(n)

NodeSpec == NodeInit /\ [][NodeNext]_domVars

(***************************************************************************)
(* A wrapper a script can still hold names a node that exists, and it is   *)
(* the only one: both tables find it, whichever finalizers of earlier      *)
(* wrappers of the same node have run and in whatever order                *)
(* (docs/TECH.md: two lookups of the same node return the same object).    *)
(***************************************************************************)
WrapperIsItsNodes ==
    \A w \in DOMAIN wrapped : Live(w) =>
        LET n == wrapped[w]
        IN  /\ n \in DOMAIN kids
            /\ n \in DOMAIN table /\ table[n] = w
            /\ n \in DOMAIN cache /\ cache[n] = w
=============================================================================
