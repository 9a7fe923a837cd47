---------------------------- MODULE SemanticMap ----------------------------
(* One map as the simulator keeps it: the elements of its list, in order.  A  *)
(* save merges a delta of the app into it, a cut or a merge of areas replaces *)
(* boundaries.  An element has an id, the ground it encloses (cells) and an   *)
(* owner.  Ids are not unique: the fixture gives an area, its channel and its *)
(* labels the same one.  Shapes, units, names and measured areas are left out.*)
EXTENDS Integers, Sequences, FiniteSets, SequencesExt

CONSTANT NoSource      \* the source of an increment that names none

Element(id, boundary, cells, source) ==
    [id |-> id, boundary |-> boundary, cells |-> cells, source |-> source]

Ids(elements) == { elements[i].id : i \in DOMAIN elements }
Boundaries(elements) == { i \in DOMAIN elements : elements[i].boundary }

\* The elements of a list at the chosen places, in their order (Array.filter).
Kept(list, chosen) ==
    [k \in 1..Cardinality(chosen) |->
       list[CHOOSE i \in chosen : Cardinality({ j \in chosen : j <= i }) = k]]

(****************************** semantic/save *******************************)

\* indexById: of several elements with an id, the last.
LastOf(list, id) == { i \in DOMAIN list : /\ list[i].item.id = id
                                          /\ \A j \in DOMAIN list : list[j].item.id = id => j <= i }

\* The element an increment becomes: it keeps the owner it had, a new one is the app's.
Drawn(increment, previous) ==
    Element(increment.id, increment.boundary, increment.cells,
            IF increment.source # NoSource THEN increment.source
            ELSE IF previous = {} THEN "app" ELSE CHOOSE s \in previous : TRUE)

MergeOne(list, increment) ==
    LET found == LastOf(list, increment.id)
        item  == Drawn(increment, { list[i].item.source : i \in found })
    IN  CASE increment.action = "delete" ->
               [i \in DOMAIN list |-> IF i \in found THEN [list[i] EXCEPT !.removed = TRUE] ELSE list[i]]
          [] increment.action # "delete" /\ found = {} -> Append(list, [item |-> item, removed |-> FALSE])
          [] OTHER ->
               [i \in DOMAIN list |-> IF i \in found THEN [item |-> item, removed |-> FALSE] ELSE list[i]]

\* (Mutant: the delta is the map.)
replaceIncrements(base, delta) ==
    LET kept == SelectSeq(delta, LAMBDA d : d.action # "delete")
    IN  [i \in DOMAIN kept |-> Drawn(kept[i], {})]

\* (Mutant: an increment keeps the source it was sent with, which is none.)
mergeUnowned(base, delta) ==
    LET kept == SelectSeq(delta, LAMBDA d : d.action # "delete")
        left == SelectSeq(base, LAMBDA e : \A i \in DOMAIN delta : delta[i].id # e.id)
    IN  left \o [i \in DOMAIN kept |-> Element(kept[i].id, FALSE, {}, kept[i].source)]

\* The list after each increment of the delta.
MergedRun(start, delta) ==
    LET merged[n \in 0..Len(delta)] ==
          IF n = 0 THEN start ELSE MergeOne(merged[n - 1], delta[n])
    IN  merged

mergeIncrements(base, delta) ==
    LET start  == [i \in DOMAIN base |-> [item |-> base[i], removed |-> FALSE]]
        merged == MergedRun(start, delta)[Len(delta)]
        left   == Kept(merged, { i \in DOMAIN merged : ~merged[i].removed })
    IN  [i \in DOMAIN left |-> left[i].item]

(******************************* topology/edit ******************************)

\* The area of a boundary with an id: the first that is found.
AreaOf(elements, id) ==
    LET found == { i \in Boundaries(elements) : elements[i].id = id }
    IN  elements[CHOOSE i \in found : \A j \in found : i <= j].cells

\* The areas a source id may name; a request that names another is refused.
AreaIds(elements) == { elements[i].id : i \in Boundaries(elements) }

\* The cells lie in a row; only a piece without gaps is one polygon.
Connected(cells) == \A a, b \in cells : \A x \in a..b : x \in cells

\* A cut leaves a piece on each side of the line, here from left to right.  (An area that
\* is not convex may fall into more than two; in a row of cells it does not.)
Halves(cells) ==
    { pair \in (SUBSET cells) \X (SUBSET cells) :
        /\ pair[1] # {} /\ pair[2] # {}
        /\ pair[1] \union pair[2] = cells
        /\ \A x \in pair[1], y \in pair[2] : x < y }

\* (Mutant: the areas that were cut or merged stay.)
ReplacedKeepsSources(elements, sources, areas) == elements \o areas

\* The elements without the boundaries of the source areas, then the new areas.
Replaced(elements, sources, areas) ==
    Kept(elements, { i \in DOMAIN elements : ~elements[i].boundary \/ elements[i].id \notin sources })
    \o areas

Cut(elements, id, pair, names) ==
    Replaced(elements, {id}, << Element(names[1], TRUE, pair[1], "robot"),
                                Element(names[2], TRUE, pair[2], "robot") >>)

MayMerge(elements, result, sources) ==
    /\ Cardinality(sources) >= 2 /\ result \notin sources
    /\ result \notin Ids(elements)
    /\ sources \subseteq AreaIds(elements)
    /\ Connected(UNION { AreaOf(elements, id) : id \in sources })

Merged(elements, result, sources) ==
    Replaced(elements, sources,
             << Element(result, TRUE, UNION { AreaOf(elements, id) : id \in sources }, "robot") >>)
=============================================================================
