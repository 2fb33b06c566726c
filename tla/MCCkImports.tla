---------------------------- MODULE MCCkImports ----------------------------
(* CkImports with a model that depends on two others, and one of these on the other. *)
EXTENDS CkImports, TLC

Names == {"A", "B", "C", "System"}

M(n, v) == [name |-> n, version |-> v]

\* What a classic model, a model with ranges and a transitive pin require.
Exact(n, v) == [name |-> n, pin |-> v, low |-> v, high |-> v, direct |-> TRUE]
Floor(n, v) == [name |-> n, pin |-> v, low |-> v, high |-> Major(v) * 10 + 9, direct |-> TRUE]
Pin(n, v) == [Exact(n, v) EXCEPT !.direct = FALSE]

OfA ==
  {<<Exact("B", 10), Exact("C", 10)>>, <<Exact("C", 10), Exact("B", 11)>>,
   <<Floor("B", 10), Pin("C", 10), Pin("System", 10)>>, <<Floor("C", 10), Floor("B", 10)>>}
\* There is no C-12.
OfB == {<<Exact("C", 10)>>, <<Floor("C", 11)>>, <<Exact("C", 20)>>, <<Exact("C", 12)>>}
OfC == {<<>>, <<Floor("System", 10)>>}

\* A-11 is not published any more.
WithdrawnA == {M("A", 11)}
BrokenB == {M("B", 10)}

Small ==
  {M("A", 10) :> a @@ M("A", 11) :> <<Exact("B", 10)>> @@ M("System", 10) :> <<>>
   @@ M("B", 10) :> b @@ M("B", 11) :> bb
   @@ M("C", 10) :> <<>> @@ M("C", 11) :> c @@ M("C", 20) :> <<Exact("System", 10)>> :
     a \in OfA, b \in OfB, bb \in OfB, c \in OfC}

SmallInstalls ==
  {[n \in Names |-> CASE n = "A" -> x [] n = "B" -> y [] n = "C" -> z [] OTHER -> s] :
     x \in {0, 10, 11}, y \in {0, 10, 11}, z \in {0, 10, 11, 20}, s \in {10, 11}}

SmallRoots == {<<M("A", 10)>>, <<M("B", 11)>>, <<M("B", 10), M("C", 11)>>, <<M("C", 20), M("A", 10)>>}
\* A accepts any C of the major version, B needs a later one, which needs D.
Layered ==
  {M("A", 10) :> <<Floor("C", 10), Exact("B", 10)>> @@ M("B", 10) :> <<Exact("C", 11)>>
   @@ M("C", 10) :> <<>> @@ M("C", 11) :> <<Exact("D", 10)>> @@ M("D", 10) :> <<>>}

LayeredNames == {"A", "B", "C", "D"}
Nothing == {[n \in LayeredNames |-> 0]}
OnlyA == {<<M("A", 10)>>}
=============================================================================
