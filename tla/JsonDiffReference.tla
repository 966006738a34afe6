--------------------------- MODULE JsonDiffReference ---------------------------
(***************************************************************************)
(* What a comparison of two objects should say, by recursion over them.    *)
(***************************************************************************)
EXTENDS JsonDiff

\* Every attribute has a name of its own, in nested objects too.
RECURSIVE Proper(_)
Proper(obj) ==
  /\ Unambiguous(obj)
  /\ \A i \in DOMAIN obj.child : obj.child[i].type = "Object" => Proper(obj.child[i])

\* The greatest relation that Comparable may be.
RECURSIVE Alike(_, _)
Alike(obj1, obj2) ==
  /\ Unambiguous(obj1) /\ Unambiguous(obj2) /\ SameTypes(obj1, obj2)
  /\ \A it1 \in ToSet(obj1.child), it2 \in ToSet(obj2.child) :
       it1.string = it2.string /\ it1.type = "Object" => Alike(it1, it2)

\* The pairs of objects that are compared, nested ones included.
RECURSIVE Compared(_, _)
Compared(obj1, obj2) ==
  {<<obj1, obj2>>} \cup UNION {Compared(q[1], q[2]) : q \in Below(<<obj1, obj2>>)}

\* The attribute of that name, in a sequence that is empty if there is none.
Attribute(obj, k) == SelectSeq(obj.child, LAMBDA it : it.string = k)

\* Another value, as far as the comparison of numbers tells.
Unlike(it1, it2) ==
  IF it1.type = "Number" THEN <<it1.valuedouble, it2.valuedouble>> \notin Close ELSE it1 # it2

Scalar(it1) == it1.type \notin {"Array", "Object"}

\* The attributes of obj1, as paths of names with an index, that obj2 lacks, arrays
\* apart, or that have another value there, as far as arrays have an element in both.
RECURSIVE Differences(_, _)
Differences(obj1, obj2) ==
  UNION { LET it1 == obj1.child[i]
              its == Attribute(obj2, it1.string)
              Here(index) == [path |-> <<it1.string>>, index |-> index]
          IN  CASE its = <<>> -> IF it1.type = "Array" THEN {} ELSE {Here(NoIndex)}
                [] its # <<>> /\ it1.type = "Object" ->
                     { [d EXCEPT !.path = <<it1.string>> \o @] :
                       d \in Differences(it1, its[1]) }
                [] its # <<>> /\ it1.type = "Array" ->
                     { Here(n - 1) : n \in
                       { m \in DOMAIN it1.child \cap DOMAIN its[1].child :
                         Scalar(it1.child[m]) /\ Unlike(it1.child[m], its[1].child[m]) } }
                [] OTHER -> IF Unlike(it1, its[1]) THEN {Here(NoIndex)} ELSE {}
          : i \in DOMAIN obj1.child }

\* Between objects whose common attributes have the same types, and whose names are
\* unambiguous, the result has one entry for every attribute that both have and that
\* differs, with its value in both, one that says "was added" for every attribute but
\* an array that the first has and the second lacks, and no other: each once, from any
\* depth, from the right object (diffJSONObjects, CNT_JSON.c:968-1046).  It says nothing
\* of what only the second has, nor of numbers closer than an epsilon; of an infinite
\* number it says a difference from itself.
DiffSaysWhatIsDue ==
  state = "done" /\ Alike(root1, root2) =>
    /\ Len(JSONObjDiff) = Cardinality(Differences(root1, root2))
    /\ ToSet(JSONObjDiff) = AllDue(Compared(root1, root2))

\* The comparison returns, or dies, when the names of the first object are proper:
\* no recursion gets to an element of an array, which has no name.
DiffReturns == Proper(root1) ~> state # "run"
===============================================================================
