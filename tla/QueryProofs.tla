---------------------------- MODULE QueryProofs ----------------------------
(***************************************************************************)
(* Theorems about the read path, for any points, filters, terms, ids and   *)
(* limits: a filter is the same after it crossed as JSON; the maps between *)
(* ids, the inverted index and the text index are those of the points that *)
(* are there; and from these, that dense and fused answers are right.      *)
(*                                                                         *)
(* What recurses over filters or numbers is a function, which CHOOSE says  *)
(* exists only where it does: the first lemmas show that it does, and an   *)
(* induction over filters takes the least counterexample.                  *)
(***************************************************************************)
EXTENDS Query, FiniteSetTheorems, WellFoundedInduction, SequenceTheorems, TLAPS

-----------------------------------------------------------------------------
(* Filters *)

(* What recurses over filters is shown to exist, and induction over them   *)
(* takes a filter with no smaller counterexample.                          *)
LEMMA LeastFilter ==
    ASSUME NEW S \in SUBSET Filter, S # {}
    PROVE  \E f \in S : f.op \in Combinator => f.parts \cap S = {}
BY FilterAssumption

(* A combinator has filters for its parts, and a comparison is one of those *)
(* there are.                                                               *)
LEMMA Parts ==
    ASSUME NEW f \in Filter, f.op \in Combinator
    PROVE  f = [op |-> f.op, parts |-> f.parts] /\ f.parts \subseteq Filter
BY FilterAssumption, Zenon

LEMMA Compares ==
    ASSUME NEW f \in Filter, f.op \notin Combinator
    PROVE  /\ f = [op |-> f.op, field |-> f.field, value |-> f.value]
           /\ f.op \in Comparison /\ f.field \notin Combinator
           /\ f.value # None
           /\ f.op = "$in" => f.value.t = "array" /\ None \notin f.value.items
           /\ f.op = "$eq" => f.value.t # "object"
BY FilterAssumption, Zenon

(* D has the parts of its members. *)
ClosedIn(D) == D \subseteq Filter /\ \A f \in D : f.op \in Combinator => f.parts \subseteq D

(* h solves the equations of Step on D. *)
Solves(Step, D, h) == ClosedIn(D) /\ \A f \in D : h[f] = Step[<<f, h>>]

Local(V, Step) ==
    \A f \in Filter : \A h1, h2 \in [Filter -> V] :
        (f.op \in Combinator => \A p \in f.parts : h1[p] = h2[p]) => Step[<<f, h1>>] = Step[<<f, h2>>]

(* Two solutions of the equations of a recursion over filters agree where   *)
(* both are defined.                                                        *)
LEMMA SolutionsAgree ==
    ASSUME NEW V, NEW Step, Local(V, Step),
           NEW D1, NEW D2, NEW h1 \in [Filter -> V], NEW h2 \in [Filter -> V],
           Solves(Step, D1, h1), Solves(Step, D2, h2),
           NEW f \in D1 \cap D2
    PROVE  h1[f] = h2[f]
<1> DEFINE S == {g \in D1 \cap D2 : h1[g] # h2[g]}
<1>1. S \subseteq Filter
  BY DEF Solves, ClosedIn
<1>2. S = {}
  <2> SUFFICES ASSUME S # {} PROVE FALSE
    OBVIOUS
  <2>1. PICK g \in S : g.op \in Combinator => g.parts \cap S = {}
    <3> HIDE DEF S
    <3> QED BY <1>1, LeastFilter
  <2>2. g \in D1 /\ g \in D2 /\ h1[g] # h2[g] /\ g \in Filter
    BY <1>1
  <2>3. g.op \in Combinator => \A p \in g.parts : h1[p] = h2[p]
    <3> SUFFICES ASSUME g.op \in Combinator, NEW p \in g.parts PROVE h1[p] = h2[p]
      OBVIOUS
    <3>1. p \in D1 /\ p \in D2
      BY <2>2, Zenon DEF Solves, ClosedIn
    <3>2. p \notin S
      BY <2>1
    <3> QED BY <3>1, <3>2
  <2>4. Step[<<g, h1>>] = Step[<<g, h2>>]
    BY <2>2, <2>3, Zenon DEF Local
  <2> QED BY <2>2, <2>4, Zenon DEF Solves
<1> QED BY <1>2

(* What is defined by recursion over the parts of filters is.              *)
LEMMA FilterRecursion ==
    ASSUME NEW V, NEW Step, Step \in [Filter \X [Filter -> V] -> V], Local(V, Step), V # {}
    PROVE  \E G \in [Filter -> V] : \A f \in Filter : G[f] = Step[<<f, G>>]
<1> DEFINE Solved(D, h, f) == Solves(Step, D, h) /\ f \in D
           T == {f \in Filter : \E D \in SUBSET Filter, h \in [Filter -> V] : Solved(D, h, f)}
           Value(f) == CHOOSE v \in V : f \in T =>
                          \E D \in SUBSET Filter, h \in [Filter -> V] : Solved(D, h, f) /\ v = h[f]
           G == [f \in Filter |-> Value(f)]
<1>1. G \in [Filter -> V]
  <2>1. ASSUME NEW f \in Filter PROVE Value(f) \in V
    <3>1. \E v \in V : f \in T =>
             \E D \in SUBSET Filter, h \in [Filter -> V] : Solved(D, h, f) /\ v = h[f]
      <4>1. CASE f \in T
        <5>1. PICK D \in SUBSET Filter, h \in [Filter -> V] : Solved(D, h, f)
          BY <4>1
        <5>2. h[f] \in V
          OBVIOUS
        <5> HIDE DEF Solved
        <5> QED BY <5>1, <5>2, Zenon
      <4>2. CASE f \notin T
        <5> HIDE DEF T
        <5> QED BY <4>2
      <4> QED BY <4>1, <4>2
    <3> HIDE DEF T, Solved
    <3> QED BY <3>1, Zenon
  <2> HIDE DEF Value
  <2> QED BY <2>1
<1>2. ASSUME NEW D \in SUBSET Filter, NEW h \in [Filter -> V], NEW f \in D, Solves(Step, D, h)
      PROVE  f \in T /\ G[f] = h[f]
  <2>1. f \in T /\ f \in Filter
    <3>1. Solved(D, h, f)
      BY <1>2
    <3> HIDE DEF Solved
    <3> QED BY <3>1
  <2>2. Value(f) \in V /\ \E D2 \in SUBSET Filter, h2 \in [Filter -> V] : Solved(D2, h2, f) /\ Value(f) = h2[f]
    <3>1. \E v \in V : f \in T =>
             \E D2 \in SUBSET Filter, h2 \in [Filter -> V] : Solved(D2, h2, f) /\ v = h2[f]
      <4>1. Solved(D, h, f)
        BY <1>2
      <4>2. h[f] \in V
        BY <2>1
      <4> HIDE DEF Solved
      <4> QED BY <4>1, <4>2, Zenon
    <3> HIDE DEF T, Solved
    <3> QED BY <2>1, <3>1, Zenon
  <2>3. PICK D2 \in SUBSET Filter, h2 \in [Filter -> V] : Solved(D2, h2, f) /\ Value(f) = h2[f]
    <3> HIDE DEF Value, Solved
    <3> QED BY <2>2
  <2>4. h2[f] = h[f]
    <3>1. f \in D2 \cap D /\ Solves(Step, D2, h2)
      BY <2>3
    <3> QED BY <1>2, <3>1, SolutionsAgree
  <2>5. G[f] = Value(f)
    <3> HIDE DEF Value
    <3> QED BY <2>1
  <2> HIDE DEF Value, G, T
  <2> QED BY <2>1, <2>3, <2>4, <2>5
<1>3. T \subseteq Filter
  OBVIOUS
<1>4. ASSUME NEW f \in T
      PROVE  \E D \in SUBSET Filter, h \in [Filter -> V] : Solves(Step, D, h) /\ f \in D
  BY <1>4
<1> HIDE DEF G, Value, T
<1>5. ClosedIn(T) /\ \A f \in T : G[f] = Step[<<f, G>>]
  <2>1. ASSUME NEW f \in T
        PROVE  G[f] = Step[<<f, G>>] /\ (f.op \in Combinator => f.parts \subseteq T)
    <3>1. PICK D \in SUBSET Filter, h \in [Filter -> V] : Solves(Step, D, h) /\ f \in D
      BY <1>4, Zenon
    <3>2. G[f] = h[f] /\ h[f] = Step[<<f, h>>]
      BY <1>2, <3>1, Zenon DEF Solves
    <3>3. f.op \in Combinator => \A p \in f.parts : p \in T /\ G[p] = h[p]
      BY <1>2, <3>1, Zenon DEF Solves, ClosedIn
    <3>4. Step[<<f, h>>] = Step[<<f, G>>]
      BY <1>1, <1>3, <3>3, Zenon DEF Local
    <3> QED BY <3>2, <3>3, <3>4, Zenon
  <2> QED BY <2>1, <1>3 DEF ClosedIn
<1>6. T = Filter
  <2> SUFFICES ASSUME Filter \ T # {} PROVE FALSE
    BY <1>3
  <2>1. PICK f \in Filter \ T : f.op \in Combinator => f.parts \cap (Filter \ T) = {}
    BY LeastFilter
  <2>2. f.op \in Combinator => f.parts \subseteq T
    BY <2>1, Parts
  <2> DEFINE h == [G EXCEPT ![f] = Step[<<f, G>>]]
  <2>3. h \in [Filter -> V] /\ h[f] = Step[<<f, G>>] /\ \A g \in T : h[g] = G[g]
    <3>1. <<f, G>> \in Filter \X [Filter -> V]
      BY <1>1
    <3>2. Step[<<f, G>>] \in V
      BY <3>1, Zenon
    <3> QED BY <1>1, <1>3, <3>2
  <2> HIDE DEF h
  <2>4. Solves(Step, T \cup {f}, h)
    <3>1. ClosedIn(T \cup {f})
      BY <1>5, <2>2 DEF ClosedIn
    <3>2. ASSUME NEW g \in T \cup {f} PROVE h[g] = Step[<<g, h>>]
      <4>1. g \in Filter
        BY <1>3
      <4>2. g.op \in Combinator => \A p \in g.parts : G[p] = h[p]
        BY <1>5, <2>2, <2>3 DEF ClosedIn
      <4>3. Step[<<g, G>>] = Step[<<g, h>>]
        BY <1>1, <2>3, <4>1, <4>2, Zenon DEF Local
      <4> QED BY <1>5, <2>3, <4>3
    <3> QED BY <3>1, <3>2 DEF Solves
  <2>5. f \in T
    <3>1. T \cup {f} \in SUBSET Filter /\ f \in T \cup {f}
      BY <1>3
    <3> QED BY <1>2, <2>3, <2>4, <3>1, Zenon
  <2> QED BY <2>1, <2>5
<1> QED BY <1>1, <1>5, <1>6, Zenon

(* What to_json makes of a filter whose parts h has printed.                *)
Printed(f, h) ==
    Object(IF f.op \in Combinator THEN Single(f.op, Array({h[p] : p \in f.parts}))
           ELSE Single(f.field, IF f.op = "$eq" THEN f.value ELSE Object(Single(f.op, f.value))))

LEMMA PrintedLocal ==
    ASSUME NEW f, NEW h1, NEW h2, f.op \in Combinator => \A p \in f.parts : h1[p] = h2[p]
    PROVE  Printed(f, h1) = Printed(f, h2)
<1>1. CASE f.op \in Combinator
  <2>1. {h1[p] : p \in f.parts} = {h2[p] : p \in f.parts}
    BY <1>1
  <2> QED BY <1>1, <2>1, Zenon DEF Printed
<1>2. CASE f.op \notin Combinator
  BY <1>2, Zenon DEF Printed
<1> QED BY <1>1, <1>2

Prints(D, h) == ClosedIn(D) /\ \A f \in D : h[f] = Printed(f, h)

LEMMA PrintsAgree ==
    ASSUME NEW D1, NEW D2, NEW h1, NEW h2, Prints(D1, h1), Prints(D2, h2), NEW f \in D1 \cap D2
    PROVE  h1[f] = h2[f]
<1> DEFINE S == {g \in D1 \cap D2 : h1[g] # h2[g]}
<1>1. S \subseteq Filter
  BY DEF Prints, ClosedIn
<1>2. S = {}
  <2> SUFFICES ASSUME S # {} PROVE FALSE
    OBVIOUS
  <2>1. PICK g \in S : g.op \in Combinator => g.parts \cap S = {}
    <3> HIDE DEF S
    <3> QED BY <1>1, LeastFilter
  <2>2. g \in D1 /\ g \in D2 /\ h1[g] # h2[g] /\ g \in Filter
    BY <1>1
  <2>3. g.op \in Combinator => \A p \in g.parts : h1[p] = h2[p]
    <3> SUFFICES ASSUME g.op \in Combinator, NEW p \in g.parts PROVE h1[p] = h2[p]
      OBVIOUS
    <3>1. p \in D1 /\ p \in D2
      BY <2>2, Zenon DEF Prints, ClosedIn
    <3>2. p \notin S
      BY <2>1
    <3> QED BY <3>1, <3>2
  <2>4. Printed(g, h1) = Printed(g, h2)
    BY <2>3, PrintedLocal
  <2> QED BY <2>2, <2>4, Zenon DEF Prints
<1> QED BY <1>2

(* The equation of to_json. (Filter::to_json) *)
LEMMA ToJsonIs ==
    /\ ToJson = [f \in Filter |-> ToJson[f]]
    /\ \A f \in Filter : ToJson[f] = Printed(f, ToJson)
<1> DEFINE Done(D, h, f) == Prints(D, h) /\ f \in D
           T == {f \in Filter : \E D \in SUBSET Filter : \E h : Done(D, h, f)}
           Value(f) == CHOOSE v : \E D \in SUBSET Filter : \E h : Done(D, h, f) /\ v = h[f]
           G == [f \in Filter |-> Value(f)]
<1>2. ASSUME NEW D \in SUBSET Filter, NEW h, NEW f \in D, Prints(D, h)
      PROVE  f \in T /\ G[f] = h[f]
  <2>0. Done(D, h, f)
    BY <1>2
  <2>1. f \in T /\ f \in Filter
    <3> HIDE DEF Done
    <3> QED BY <2>0
  <2>2. \E D2 \in SUBSET Filter : \E h2 : Done(D2, h2, f) /\ Value(f) = h2[f]
    <3>1. \E v : \E D2 \in SUBSET Filter : \E h2 : Done(D2, h2, f) /\ v = h2[f]
      <4> HIDE DEF Done
      <4> QED BY <2>0, Zenon
    <3> HIDE DEF Done
    <3> QED BY <3>1, Zenon
  <2>6. PICK D2 \in SUBSET Filter : \E h2 : Done(D2, h2, f) /\ Value(f) = h2[f]
    <3> HIDE DEF Value, Done
    <3> QED BY <2>2
  <2>3. PICK h2 : Done(D2, h2, f) /\ Value(f) = h2[f]
    <3> HIDE DEF Value, Done
    <3> QED BY <2>6
  <2>4. h2[f] = h[f]
    <3>1. f \in D2 \cap D /\ Prints(D2, h2)
      BY <2>3
    <3> QED BY <1>2, <3>1, PrintsAgree
  <2>5. G[f] = Value(f)
    <3> HIDE DEF Value
    <3> QED BY <2>1
  <2> HIDE DEF Value, G, T
  <2> QED BY <2>1, <2>3, <2>4, <2>5
<1>3. T \subseteq Filter
  OBVIOUS
<1>4. ASSUME NEW f \in T
      PROVE  \E D \in SUBSET Filter : \E h : Prints(D, h) /\ f \in D
  BY <1>4
<1>7. G = [f \in Filter |-> G[f]]
  <2> HIDE DEF Value
  <2> QED OBVIOUS
<1> HIDE DEF G, Value, T
<1>5. ClosedIn(T) /\ \A f \in T : G[f] = Printed(f, G)
  <2>1. ASSUME NEW f \in T
        PROVE  G[f] = Printed(f, G) /\ (f.op \in Combinator => f.parts \subseteq T)
    <3>0. \E D \in SUBSET Filter : \E h : Prints(D, h) /\ f \in D
      BY <1>4, Zenon
    <3>5. PICK D \in SUBSET Filter : \E h : Prints(D, h) /\ f \in D
      BY <3>0, Zenon
    <3>1. PICK h : Prints(D, h) /\ f \in D
      BY <3>5, Zenon
    <3>2. G[f] = h[f] /\ h[f] = Printed(f, h)
      BY <1>2, <3>1, Zenon DEF Prints
    <3>3. f.op \in Combinator => \A p \in f.parts : p \in T /\ G[p] = h[p]
      BY <1>2, <3>1, Zenon DEF Prints, ClosedIn
    <3>4. Printed(f, h) = Printed(f, G)
      BY <3>3, PrintedLocal
    <3> QED BY <3>2, <3>3, <3>4, Zenon
  <2> QED BY <2>1, <1>3 DEF ClosedIn
<1>6. T = Filter
  <2> SUFFICES ASSUME Filter \ T # {} PROVE FALSE
    BY <1>3
  <2>1. PICK f \in Filter \ T : f.op \in Combinator => f.parts \cap (Filter \ T) = {}
    BY LeastFilter
  <2>2. f.op \in Combinator => f.parts \subseteq T
    BY <2>1, Parts
  <2> DEFINE h == [g \in T \cup {f} |-> IF g = f THEN Printed(f, G) ELSE G[g]]
  <2>3. h[f] = Printed(f, G) /\ \A g \in T : h[g] = G[g]
    BY <2>1
  <2> HIDE DEF h
  <2>4. Prints(T \cup {f}, h)
    <3>1. ClosedIn(T \cup {f})
      BY <1>5, <2>2 DEF ClosedIn
    <3>2. ASSUME NEW g \in T \cup {f} PROVE h[g] = Printed(g, h)
      <4>2. g.op \in Combinator => \A p \in g.parts : G[p] = h[p]
        BY <1>5, <2>2, <2>3 DEF ClosedIn
      <4>3. Printed(g, G) = Printed(g, h)
        BY <4>2, PrintedLocal
      <4> QED BY <1>5, <2>3, <4>3
    <3> QED BY <3>1, <3>2 DEF Prints
  <2>5. f \in T
    <3>1. T \cup {f} \in SUBSET Filter /\ f \in T \cup {f}
      BY <1>3
    <3> QED BY <1>2, <2>4, <3>1, Zenon
  <2> QED BY <2>1, <2>5
<1>8. G = [f \in Filter |-> Printed(f, G)]
  BY <1>5, <1>6, <1>7, Zenon
<1>9. ToJson = CHOOSE g : g = [f \in Filter |-> Printed(f, g)]
  BY Zenon DEF ToJson, Printed
<1>10. ToJson = [f \in Filter |-> Printed(f, ToJson)]
  BY <1>8, <1>9, Zenon
<1> QED BY <1>10, Zenon

(* to_json and from_json *)

(* The JSON of a combinator and of a comparison. *)
LEMMA CombinedJson ==
    ASSUME NEW f \in Filter, f.op \in Combinator
    PROVE  ToJson[f] = Object(Single(f.op, Array({ToJson[p] : p \in f.parts})))
BY ToJsonIs, Zenon DEF Printed

LEMMA ComparedJson ==
    ASSUME NEW f \in Filter, f.op \notin Combinator
    PROVE  ToJson[f] = Object(Single(f.field, IF f.op = "$eq" THEN f.value
                                               ELSE Object(Single(f.op, f.value))))
BY ToJsonIs, Zenon DEF Printed

(* An object with one key. *)
LEMMA SingleIs ==
    ASSUME NEW key, NEW value
    PROVE  DOMAIN Single(key, value) = {key} /\ Single(key, value)[key] = value
BY DEF Single

LEMMA SameSingle ==
    ASSUME NEW k1, NEW v1, NEW k2, NEW v2, Object(Single(k1, v1)) = Object(Single(k2, v2))
    PROVE  k1 = k2 /\ v1 = v2
<1>1. Single(k1, v1) = Single(k2, v2)
  BY DEF Object
<1>2. {k1} = {k2}
  BY <1>1, SingleIs
<1>3. k1 = k2
  BY <1>2
<1>4. Single(k1, v1)[k1] = v1 /\ Single(k2, v2)[k2] = v2
  BY SingleIs
<1> QED BY <1>1, <1>3, <1>4, Zenon

(* Filters that print alike are alike. *)
LEMMA ToJsonInjective ==
    ASSUME NEW a \in Filter, NEW b \in Filter, ToJson[a] = ToJson[b]
    PROVE  a = b
<1> DEFINE S == {f \in Filter : \E g \in Filter : ToJson[f] = ToJson[g] /\ f # g}
<1> SUFFICES ASSUME S # {} PROVE FALSE
  BY Zenon
<1>1. PICK f \in S : f.op \in Combinator => f.parts \cap S = {}
  <2>1. S \subseteq Filter
    OBVIOUS
  <2> HIDE DEF S
  <2> QED BY <2>1, LeastFilter
<1>2. f \in Filter
  OBVIOUS
<1>3. PICK g \in Filter : ToJson[f] = ToJson[g] /\ f # g
  BY <1>1
<1>4. ASSUME NEW h1 \in Filter, NEW h2 \in Filter, ToJson[h1] = ToJson[h2],
             h1.op \in Combinator, h2.op \notin Combinator
      PROVE  FALSE
  <2> DEFINE items == {ToJson[p] : p \in h1.parts}
             value == IF h2.op = "$eq" THEN h2.value ELSE Object(Single(h2.op, h2.value))
  <2>2. ToJson[h1] = Object(Single(h1.op, Array(items))) /\ ToJson[h2] = Object(Single(h2.field, value))
    BY <1>4, CombinedJson, ComparedJson
  <2> HIDE DEF items, value
  <2>3. Object(Single(h1.op, Array(items))) = Object(Single(h2.field, value))
    BY <1>4, <2>2, Zenon
  <2>1. h1.op = h2.field
    BY <2>3, SameSingle
  <2> QED BY <1>4, <2>1, Compares
<1>5. CASE f.op \in Combinator
  <2>1. g.op \in Combinator
    BY <1>2, <1>3, <1>4, <1>5, Zenon
  <2> DEFINE fs == {ToJson[p] : p \in f.parts}
             gs == {ToJson[p] : p \in g.parts}
  <2>2. ToJson[f] = Object(Single(f.op, Array(fs)))
    BY <1>2, <1>5, CombinedJson
  <2>3. ToJson[g] = Object(Single(g.op, Array(gs)))
    BY <1>3, <2>1, CombinedJson
  <2>4. f.op = g.op /\ Array(fs) = Array(gs)
    <3> HIDE DEF fs, gs
    <3>1. Object(Single(f.op, Array(fs))) = Object(Single(g.op, Array(gs)))
      BY <1>3, <2>2, <2>3, Zenon
    <3> QED BY <3>1, SameSingle
  <2>5. fs = gs
    <3> HIDE DEF fs, gs
    <3> QED BY <2>4 DEF Array
  <2>6. f.parts \subseteq Filter /\ g.parts \subseteq Filter
    BY <1>2, <1>3, <1>5, <2>1, Parts
  <2>7. ASSUME NEW p \in f.parts, NEW q \in g.parts, ToJson[p] = ToJson[q] PROVE p = q
    <3>1. p \notin S
      BY <1>1, <1>5
    <3> QED BY <2>6, <2>7, <3>1
  <2>8. f.parts = g.parts
    <3>1. ASSUME NEW p \in f.parts PROVE p \in g.parts
      <4>1. ToJson[p] \in gs
        <5>1. ToJson[p] \in fs
          OBVIOUS
        <5> HIDE DEF fs, gs
        <5> QED BY <2>5, <5>1
      <4>2. PICK q \in g.parts : ToJson[p] = ToJson[q]
        BY <4>1
      <4> QED BY <2>7, <4>2
    <3>2. ASSUME NEW q \in g.parts PROVE q \in f.parts
      <4>1. ToJson[q] \in fs
        <5>1. ToJson[q] \in gs
          OBVIOUS
        <5> HIDE DEF fs, gs
        <5> QED BY <2>5, <5>1
      <4>2. PICK p \in f.parts : ToJson[q] = ToJson[p]
        BY <4>1
      <4> QED BY <2>7, <4>2
    <3> QED BY <3>1, <3>2
  <2> QED BY <1>2, <1>3, <1>5, <2>1, <2>4, <2>8, Parts
<1>6. CASE f.op \notin Combinator
  <2>1. g.op \notin Combinator
    BY <1>2, <1>3, <1>4, <1>6, Zenon
  <2> DEFINE Value(h) == IF h.op = "$eq" THEN h.value ELSE Object(Single(h.op, h.value))
  <2>2. ToJson[f] = Object(Single(f.field, Value(f)))
    BY <1>2, <1>6, ComparedJson
  <2>3. ToJson[g] = Object(Single(g.field, Value(g)))
    BY <1>3, <2>1, ComparedJson
  <2>4. f.field = g.field /\ Value(f) = Value(g)
    <3> HIDE DEF Value
    <3>1. Object(Single(f.field, Value(f))) = Object(Single(g.field, Value(g)))
      BY <1>3, <2>2, <2>3, Zenon
    <3> QED BY <3>1, SameSingle
  <2>5. ASSUME NEW h \in Filter, h.op \notin Combinator
        PROVE  h.op = "$eq" <=> Value(h).t # "object"
    BY <2>5, Compares DEF Object
  <2>6. f.op = "$eq" <=> g.op = "$eq"
    <3> HIDE DEF Value
    <3> QED BY <1>2, <1>3, <1>6, <2>1, <2>4, <2>5
  <2>7. f.op = g.op /\ f.value = g.value
    <3>1. CASE f.op = "$eq"
      BY <2>4, <2>6, <3>1
    <3>2. CASE f.op # "$eq"
      <4>1. Object(Single(f.op, f.value)) = Object(Single(g.op, g.value))
        BY <2>4, <2>6, <3>2
      <4> QED BY <4>1, SameSingle
    <3> QED BY <3>1, <3>2
  <2> QED BY <1>2, <1>3, <1>6, <2>1, <2>4, <2>7, Compares
<1> QED BY <1>5, <1>6

(* from_json, when h has read the parts.                                    *)
Read(j, h) ==
    IF j.t # "object" \/ DOMAIN j.at = {} THEN Bad
    ELSE LET keys == DOMAIN j.at
             key == CHOOSE k \in keys : TRUE
         IN  IF Cardinality(keys) > 1
             THEN IF keys \cap (Combinator \cup Comparison) # {} THEN Bad
                  ELSE Combined("$and", {Clause(k, j.at[k]) : k \in keys})
             ELSE IF key \notin Combinator THEN Clause(key, j.at[key])
             ELSE IF j.at[key].t # "array" THEN Bad
             ELSE Combined(key, {h[p] : p \in j.at[key].items})

(* What from_json makes of an object with one key. *)
LEMMA ReadSingle ==
    ASSUME NEW key, NEW value, NEW h
    PROVE  Read(Object(Single(key, value)), h) =
               IF key \notin Combinator THEN Clause(key, value)
               ELSE IF value.t # "array" THEN Bad ELSE Combined(key, {h[p] : p \in value.items})
<1> DEFINE j == Object(Single(key, value))
<1>1. j.t = "object" /\ DOMAIN j.at = {key} /\ j.at[key] = value
  BY SingleIs DEF Object
<1>2. Cardinality({key}) = 1
  BY FS_Singleton
<1>3. (CHOOSE k \in {key} : TRUE) = key
  OBVIOUS
<1>4. {key} # {} /\ ~ (1 > 1)
  OBVIOUS
<1>6. Cardinality(DOMAIN j.at) = 1 /\ DOMAIN j.at # {} /\ (CHOOSE k \in DOMAIN j.at : TRUE) = key
  BY <1>1, <1>2, <1>3, <1>4, Zenon
<1> HIDE DEF j
<1>5. Read(j, h) = IF key \notin Combinator THEN Clause(key, value)
                   ELSE IF value.t # "array" THEN Bad ELSE Combined(key, {h[p] : p \in value.items})
  BY <1>1, <1>4, <1>6 DEF Read
<1> QED BY <1>5 DEF j

(* What was printed is read as what it was, when its parts are.             *)
LEMMA ReadPrinted ==
    ASSUME NEW f \in Filter, NEW h, f.op \in Combinator => \A p \in f.parts : h[ToJson[p]] = p
    PROVE  Read(ToJson[f], h) = f
<1>1. CASE f.op \in Combinator
  <2> DEFINE items == {ToJson[p] : p \in f.parts}
             j == Array(items)
  <2>1. j.t = "array" /\ j.items = items
    BY DEF Array
  <2>2. {h[x] : x \in items} = f.parts
    BY <1>1
  <2>3. Read(ToJson[f], h) = Combined(f.op, {h[x] : x \in j.items})
    <3>1. ToJson[f] = Object(Single(f.op, j))
      BY <1>1, CombinedJson
    <3> HIDE DEF j, items
    <3> QED BY <1>1, <2>1, <3>1, ReadSingle
  <2>4. f = [op |-> f.op, parts |-> f.parts] /\ Bad \notin f.parts
    BY <1>1, Parts, FilterAssumption DEF Bad
  <2>5. Read(ToJson[f], h) = Combined(f.op, f.parts)
    <3> HIDE DEF items, j
    <3> QED BY <2>1, <2>2, <2>3
  <2> QED BY <2>4, <2>5, Zenon DEF Combined
<1>2. CASE f.op \notin Combinator
  <2>0. /\ f = [op |-> f.op, field |-> f.field, value |-> f.value]
        /\ f.op \in Comparison /\ f.field \notin Combinator
        /\ f.op = "$in" => f.value.t = "array"
        /\ f.op = "$eq" => f.value.t # "object"
    BY <1>2, Compares
  <2>1. Compared(f.field, f.op, f.value) = f
    BY <2>0, Zenon DEF Compared
  <2>2. CASE f.op = "$eq"
    <3>1. ToJson[f] = Object(Single(f.field, f.value))
      BY <1>2, <2>2, ComparedJson
    <3>2. Read(ToJson[f], h) = Clause(f.field, f.value)
      BY <2>0, <3>1, ReadSingle
    <3> QED BY <2>0, <2>1, <2>2, <3>2, Zenon DEF Clause
  <2>3. CASE f.op # "$eq"
    <3> DEFINE v == Object(Single(f.op, f.value))
    <3>1. ToJson[f] = Object(Single(f.field, v))
      BY <1>2, <2>3, ComparedJson
    <3>2. Read(ToJson[f], h) = Clause(f.field, v)
      <4> HIDE DEF v
      <4> QED BY <2>0, <3>1, ReadSingle
    <3>3. v.t = "object" /\ v.at = Single(f.op, f.value)
      BY DEF Object
    <3>4. Clause(f.field, v) = FieldOps(f.field, Single(f.op, f.value))
      <4> HIDE DEF v
      <4> QED BY <3>3, Zenon DEF Clause
    <3> DEFINE ops == Single(f.op, f.value)
    <3>5. DOMAIN ops = {f.op} /\ ops[f.op] = f.value /\ Cardinality({f.op}) = 1
      BY SingleIs, FS_Singleton
    <3> HIDE DEF ops
    <3> DEFINE parts == {Compared(f.field, op, ops[op]) : op \in DOMAIN ops}
    <3>6. parts = {f}
      BY <2>1, <3>5
    <3>7. (CHOOSE p \in {f} : TRUE) = f
      OBVIOUS
    <3>8. FieldOps(f.field, ops) = f
      BY <3>5, <3>6, <3>7, Zenon DEF FieldOps
    <3> QED BY <3>2, <3>4, <3>8 DEF ops
  <2> QED BY <2>2, <2>3
<1> QED BY <1>1, <1>2

(* A filter that crosses to a shard as JSON arrives as it was.              *)
THEOREM RoundTrip ==
    ASSUME NEW f \in Filter
    PROVE  Parsed[ToJson[f]] = f
<1> DEFINE G == [j \in Json |-> CHOOSE g \in Filter : ToJson[g] = j]
<1>1. ASSUME NEW g \in Filter PROVE ToJson[g] \in Json /\ G[ToJson[g]] = g
  <2>1. ToJson[g] \in Json
    BY DEF Json
  <2>2. (CHOOSE x \in Filter : ToJson[x] = ToJson[g]) = g
    BY ToJsonInjective
  <2> QED BY <2>1, <2>2
<1>2. ASSUME NEW j \in Json PROVE G[j] = Read(j, G)
  <2>1. PICK g \in Filter : j = ToJson[g]
    BY DEF Json
  <2>2. g.op \in Combinator => \A p \in g.parts : G[ToJson[p]] = p
    <3> HIDE DEF G
    <3> QED BY <1>1, Parts
  <2>3. Read(j, G) = g
    <3> HIDE DEF G
    <3> QED BY <2>1, <2>2, ReadPrinted
  <2>4. G[j] = g
    <3> HIDE DEF G
    <3> QED BY <1>1, <2>1
  <2> QED BY <2>3, <2>4
<1>3. G = [j \in Json |-> Read(j, G)]
  <2>1. G = [j \in Json |-> G[j]]
    OBVIOUS
  <2> HIDE DEF G
  <2> QED BY <1>2, <2>1, Zenon
<1>4. Parsed = CHOOSE h : h = [j \in Json |-> Read(j, h)]
  BY Zenon DEF Parsed, Read
<1> HIDE DEF G
<1>5. Parsed = [j \in Json |-> Read(j, Parsed)]
  BY <1>3, <1>4, Zenon
<1>6. \A g \in Filter : Parsed[ToJson[g]] = Read(ToJson[g], Parsed)
  BY <1>1, <1>5, Zenon
<1> DEFINE S == {g \in Filter : Parsed[ToJson[g]] # g}
<1>7. S = {}
  <2> SUFFICES ASSUME S # {} PROVE FALSE
    OBVIOUS
  <2>1. PICK g \in S : g.op \in Combinator => g.parts \cap S = {}
    <3>1. S \subseteq Filter
      OBVIOUS
    <3> HIDE DEF S
    <3> QED BY <3>1, LeastFilter
  <2>2. g \in Filter
    OBVIOUS
  <2>3. g.op \in Combinator => \A p \in g.parts : Parsed[ToJson[p]] = p
    BY <2>1, <2>2, Parts
  <2>4. Parsed[ToJson[g]] = g
    BY <1>6, <2>2, <2>3, ReadPrinted
  <2> QED BY <2>1, <2>4
<1> QED BY <1>7

-----------------------------------------------------------------------------
(* What a filter names, what matches it, and what the index gives for it *)

(* The fields a filter compares by "$ne", from those of its parts. *)
Named(f, h) ==
    IF f.op \in Combinator THEN UNION {h[p] : p \in f.parts}
    ELSE IF f.op = "$ne" THEN {f.field} ELSE {}

(* The equation of the fields a filter compares by "$ne". *)
LEMMA DeniedIs ==
    ASSUME NEW f \in Filter
    PROVE  Denied[f] = IF f.op \in Combinator THEN UNION {Denied[p] : p \in f.parts}
                       ELSE IF f.op = "$ne" THEN {f.field} ELSE {}
<1> DEFINE V == SUBSET {g.field : g \in Filter}
           Step == [x \in Filter \X [Filter -> V] |-> Named(x[1], x[2])]
<1>1. Step \in [Filter \X [Filter -> V] -> V]
  <2>1. ASSUME NEW g \in Filter, NEW h \in [Filter -> V] PROVE Named(g, h) \in V
    <3>1. CASE g.op \in Combinator
      <4>1. g.parts \subseteq Filter
        BY <3>1, Parts
      <4>2. \A p \in g.parts : h[p] \in V
        <5> HIDE DEF V
        <5> QED BY <4>1
      <4> QED BY <3>1, <4>2 DEF Named
    <3>2. CASE g.op \notin Combinator
      BY <3>2 DEF Named
    <3> QED BY <3>1, <3>2
  <2> HIDE DEF V
  <2> QED BY <2>1
<1>2. ASSUME NEW g \in Filter, NEW h1 \in [Filter -> V], NEW h2 \in [Filter -> V],
             g.op \in Combinator => \A p \in g.parts : h1[p] = h2[p]
      PROVE  Named(g, h1) = Named(g, h2)
  <2>1. CASE g.op \in Combinator
    <3>1. {h1[p] : p \in g.parts} = {h2[p] : p \in g.parts}
      BY <1>2, <2>1
    <3> QED BY <2>1, <3>1, Zenon DEF Named
  <2>2. CASE g.op \notin Combinator
    BY <2>2, Zenon DEF Named
  <2> QED BY <2>1, <2>2
<1>3. \A g \in Filter, h \in [Filter -> V] : Step[<<g, h>>] = Named(g, h)
  <2> HIDE DEF V
  <2> QED OBVIOUS
<1>4. V # {}
  OBVIOUS
<1> HIDE DEF V, Step
<1>5. Local(V, Step)
  BY <1>2, <1>3 DEF Local
<1>6. PICK G \in [Filter -> V] : \A g \in Filter : G[g] = Step[<<g, G>>]
  BY <1>1, <1>4, <1>5, FilterRecursion
<1>7. G = [g \in Filter |-> Named(g, G)]
  <2>1. \A g \in Filter : G[g] = Named(g, G)
    BY <1>3, <1>6
  <2> QED BY <2>1
<1>8. Denied = CHOOSE h : h = [g \in Filter |-> Named(g, h)]
  BY Zenon DEF Denied, Named
<1>9. Denied = [g \in Filter |-> Named(g, Denied)]
  BY <1>7, <1>8, Zenon
<1>10. Denied[f] = Named(f, Denied)
  BY <1>9, Zenon
<1> QED BY <1>10, Zenon DEF Named

MatchedBy(f, h, doc) ==
    CASE f.op = "$and" -> \A p \in f.parts : h[p]
      [] f.op = "$or" -> \E p \in f.parts : h[p]
      [] OTHER -> Holds(f, doc)

(* The equation of matches, then one fact per kind of filter.               *)
(* (Filter::matches)                                                        *)
LEMMA MatchesIs ==
    ASSUME NEW f \in Filter, NEW doc
    PROVE  Matches(f, doc) = CASE f.op = "$and" -> \A p \in f.parts : Matches(p, doc)
                               [] f.op = "$or" -> \E p \in f.parts : Matches(p, doc)
                               [] OTHER -> Holds(f, doc)
<1> DEFINE Step == [x \in Filter \X [Filter -> BOOLEAN] |-> MatchedBy(x[1], x[2], doc)]
<1>0. \A g : Holds(g, doc) \in BOOLEAN
  BY Zenon DEF Holds
<1>1. Step \in [Filter \X [Filter -> BOOLEAN] -> BOOLEAN]
  <2>1. ASSUME NEW g \in Filter, NEW h \in [Filter -> BOOLEAN] PROVE MatchedBy(g, h, doc) \in BOOLEAN
    <3>1. CASE g.op = "$and"
      <4>1. MatchedBy(g, h, doc) = \A p \in g.parts : h[p]
        BY <3>1, Zenon DEF MatchedBy
      <4> QED BY <4>1
    <3>2. CASE g.op = "$or"
      <4>1. MatchedBy(g, h, doc) = \E p \in g.parts : h[p]
        BY <3>2, "$or" # "$and", Zenon DEF MatchedBy
      <4> QED BY <4>1
    <3>3. CASE g.op # "$and" /\ g.op # "$or"
      <4>1. MatchedBy(g, h, doc) = Holds(g, doc)
        BY <3>3, Zenon DEF MatchedBy
      <4> QED BY <1>0, <4>1
    <3> QED BY <3>1, <3>2, <3>3
  <2> QED BY <2>1
<1>2. ASSUME NEW g \in Filter, NEW h1, NEW h2,
             g.op \in Combinator => \A p \in g.parts : h1[p] = h2[p]
      PROVE  MatchedBy(g, h1, doc) = MatchedBy(g, h2, doc)
  <2>1. CASE g.op \in Combinator
    <3>1. (\A p \in g.parts : h1[p]) = (\A p \in g.parts : h2[p])
      BY <1>2, <2>1, Zenon
    <3>2. (\E p \in g.parts : h1[p]) = (\E p \in g.parts : h2[p])
      BY <1>2, <2>1, Zenon
    <3> QED BY <3>1, <3>2, Zenon DEF MatchedBy
  <2>2. CASE g.op \notin Combinator
    BY <2>2, Zenon DEF MatchedBy, Combinator
  <2> QED BY <2>1, <2>2
<1>3. \A g \in Filter, h \in [Filter -> BOOLEAN] : Step[<<g, h>>] = MatchedBy(g, h, doc)
  OBVIOUS
<1> HIDE DEF Step
<1>5. Local(BOOLEAN, Step)
  <2> SUFFICES ASSUME NEW g \in Filter, NEW h1 \in [Filter -> BOOLEAN], NEW h2 \in [Filter -> BOOLEAN],
                      g.op \in Combinator => \A p \in g.parts : h1[p] = h2[p]
               PROVE  Step[<<g, h1>>] = Step[<<g, h2>>]
    BY Zenon DEF Local
  <2>1. MatchedBy(g, h1, doc) = MatchedBy(g, h2, doc)
    BY <1>2
  <2> QED BY <1>3, <2>1, Zenon
<1>6. PICK G \in [Filter -> BOOLEAN] : \A g \in Filter : G[g] = Step[<<g, G>>]
  BY <1>1, <1>5, FilterRecursion
<1>7. G = [g \in Filter |-> MatchedBy(g, G, doc)]
  <2>1. \A g \in Filter : G[g] = MatchedBy(g, G, doc)
    BY <1>3, <1>6, Zenon
  <2> QED BY <2>1
<1> DEFINE m == CHOOSE h : h = [g \in Filter |-> MatchedBy(g, h, doc)]
<1>8. \A g : Matches(g, doc) = m[g]
  BY Zenon DEF Matches, MatchedBy
<1>9. m = [g \in Filter |-> MatchedBy(g, m, doc)]
  BY <1>7, Zenon
<1> HIDE DEF m
<1>10. m[f] = MatchedBy(f, m, doc)
  BY <1>9, Zenon
<1>11. (\A p \in f.parts : m[p]) = (\A p \in f.parts : Matches(p, doc))
  BY <1>8, Zenon
<1>12. (\E p \in f.parts : m[p]) = (\E p \in f.parts : Matches(p, doc))
  BY <1>8, Zenon
<1>13. Matches(f, doc) = MatchedBy(f, m, doc)
  BY <1>8, <1>10, Zenon
<1> QED BY <1>11, <1>12, <1>13, Zenon DEF MatchedBy

LEMMA MatchesAll ==
    ASSUME NEW f \in Filter, NEW doc, f.op = "$and"
    PROVE  Matches(f, doc) <=> \A p \in f.parts : Matches(p, doc)
BY MatchesIs, Zenon

LEMMA MatchesSome ==
    ASSUME NEW f \in Filter, NEW doc, f.op = "$or"
    PROVE  Matches(f, doc) <=> \E p \in f.parts : Matches(p, doc)
<1>1. ~ ("$or" = "$and")
  OBVIOUS
<1> QED BY MatchesIs, <1>1, Zenon

LEMMA MatchesHolds ==
    ASSUME NEW f \in Filter, NEW doc, f.op \notin Combinator
    PROVE  Matches(f, doc) <=> Holds(f, doc)
BY MatchesIs, Zenon DEF Combinator

Found(f, h, inv) ==
    IF f.op \in Combinator THEN Met(f.op, {h[p] : p \in f.parts}) ELSE Compare(inv, f)

(* The equation of eligible_ids. (MetadataStore::eligible_ids) *)
LEMMA EligibleIs ==
    ASSUME NEW f \in Filter, NEW inv
    PROVE  Eligible(inv, f) =
               IF f.op \in Combinator THEN Met(f.op, {Eligible(inv, p) : p \in f.parts})
               ELSE Compare(inv, f)
<1> DEFINE ids == {e[3] : e \in inv.entries}
           V == (SUBSET ids) \cup {None}
           Step == [x \in Filter \X [Filter -> V] |-> Found(x[1], x[2], inv)]
<1>1. Step \in [Filter \X [Filter -> V] -> V]
  <2>1. ASSUME NEW g \in Filter, NEW h \in [Filter -> V] PROVE Found(g, h, inv) \in V
    <3>1. CASE g.op \in Combinator
      <4> DEFINE sets == {h[p] : p \in g.parts}
      <4>1. g.parts \subseteq Filter
        BY <3>1, Parts
      <4>2. sets \subseteq V
        <5> HIDE DEF V
        <5> QED BY <4>1
      <4>3. Found(g, h, inv) = Met(g.op, sets)
        BY <3>1 DEF Found
      <4> HIDE DEF sets, ids
      <4>4. CASE None \in sets \/ (g.op = "$and" /\ sets = {})
        BY <4>3, <4>4, Zenon DEF Met
      <4>5. CASE ~ (None \in sets \/ (g.op = "$and" /\ sets = {}))
        <5>1. \A X \in sets : X \subseteq ids
          BY <4>2, <4>5
        <5>2. UNION sets \subseteq ids
          BY <5>1
        <5>3. Met(g.op, sets) \in {UNION sets, {id \in UNION sets : \A X \in sets : id \in X}}
          BY <4>5, Zenon DEF Met
        <5>4. Met(g.op, sets) \subseteq UNION sets
          BY <5>3
        <5> QED BY <4>3, <5>2, <5>4
      <4> QED BY <4>4, <4>5
    <3>2. CASE g.op \notin Combinator
      <4>1. \A field, values : IdsIn(inv, field, values) \subseteq ids
        BY DEF IdsIn
      <4>2. \A field : IdsField(inv, field) \subseteq ids
        BY DEF IdsField
      <4> HIDE DEF ids
      <4>3. Compare(inv, g) \in V
        <5>1. Compare(inv, g) \in {None, IdsIn(inv, g.field, g.value.items), IdsIn(inv, g.field, {g.value}),
                                  IdsField(inv, g.field) \ IdsIn(inv, g.field, {g.value})}
          BY Zenon DEF Compare
        <5>2. IdsField(inv, g.field) \ IdsIn(inv, g.field, {g.value}) \subseteq ids
          BY <4>2
        <5> QED BY <4>1, <5>1, <5>2
      <4> QED BY <3>2, <4>3, Zenon DEF Found
    <3> QED BY <3>1, <3>2
  <2> HIDE DEF V
  <2> QED BY <2>1
<1>2. ASSUME NEW g \in Filter, NEW h1, NEW h2,
             g.op \in Combinator => \A p \in g.parts : h1[p] = h2[p]
      PROVE  Found(g, h1, inv) = Found(g, h2, inv)
  <2>1. CASE g.op \in Combinator
    <3>1. {h1[p] : p \in g.parts} = {h2[p] : p \in g.parts}
      BY <1>2, <2>1
    <3> QED BY <2>1, <3>1, Zenon DEF Found
  <2>2. CASE g.op \notin Combinator
    BY <2>2, Zenon DEF Found
  <2> QED BY <2>1, <2>2
<1>3. \A g \in Filter, h \in [Filter -> V] : Step[<<g, h>>] = Found(g, h, inv)
  <2> HIDE DEF V
  <2> QED OBVIOUS
<1>4. V # {}
  OBVIOUS
<1> HIDE DEF V, Step
<1>5. Local(V, Step)
  BY <1>2, <1>3 DEF Local
<1>6. PICK G \in [Filter -> V] : \A g \in Filter : G[g] = Step[<<g, G>>]
  BY <1>1, <1>4, <1>5, FilterRecursion
<1>7. G = [g \in Filter |-> Found(g, G, inv)]
  <2>1. \A g \in Filter : G[g] = Found(g, G, inv)
    BY <1>3, <1>6
  <2> QED BY <2>1
<1> DEFINE e == CHOOSE h : h = [g \in Filter |-> Found(g, h, inv)]
<1>8. \A g : Eligible(inv, g) = e[g]
  BY Zenon DEF Eligible, Found
<1>9. e = [g \in Filter |-> Found(g, e, inv)]
  BY <1>7, Zenon
<1> HIDE DEF e
<1>10. e[f] = Found(f, e, inv)
  BY <1>9, Zenon
<1>11. {e[p] : p \in f.parts} = {Eligible(inv, p) : p \in f.parts}
  BY <1>8
<1> QED BY <1>8, <1>10, <1>11, Zenon DEF Found

(* Induction from 0 to L. *)
LEMMA Upwards ==
    ASSUME NEW L \in Nat, NEW T, 0 \in T, \A n \in 1 .. L : n - 1 \in T => n \in T
    PROVE  \A n \in 0 .. L : n \in T
<1> DEFINE left == (0 .. L) \ T
<1> SUFFICES ASSUME left # {} PROVE FALSE
  OBVIOUS
<1>1. left \subseteq Nat
  OBVIOUS
<1>2. PICK n \in left : \A m \in left : ~ (<<m, n>> \in OpToRel(<, Nat))
  <2> HIDE DEF left
  <2> QED BY <1>1, NatLessThanWellFounded, WFMin
<1>3. \A m \in left : ~ (m < n)
  BY <1>1, <1>2 DEF OpToRel
<1>4. n # 0 /\ n \in 1 .. L /\ n - 1 \in 0 .. L /\ n - 1 < n
  OBVIOUS
<1>5. n - 1 \in T
  BY <1>3, <1>4
<1> QED BY <1>4, <1>5

(* s goes from v in L steps. *)
Goes(L, v, Step, s) == s[0] = v /\ \A n \in 1 .. L : s[n] = Step[<<n, s[n - 1]>>]

(* A recursion over numbers has a solution. *)
LEMMA NumberRecursion ==
    ASSUME NEW L \in Nat, NEW V, NEW v \in V, NEW Step \in [(1 .. L) \X V -> V]
    PROVE  \E s \in [0 .. L -> V] : Goes(L, v, Step, s)
<1> DEFINE T == {n \in 0 .. L : \E s \in [0 .. n -> V] : Goes(n, v, Step, s)}
<1>1. 0 \in T
  <2> DEFINE s == [n \in 0 .. 0 |-> v]
  <2>1. s \in [0 .. 0 -> V] /\ Goes(0, v, Step, s)
    BY DEF Goes
  <2> HIDE DEF s
  <2> QED BY <2>1
<1>2. ASSUME NEW n \in 1 .. L, n - 1 \in T PROVE n \in T
  <2>1. PICK s \in [0 .. n - 1 -> V] : Goes(n - 1, v, Step, s)
    BY <1>2
  <2>2. n - 1 \in 0 .. n - 1 /\ <<n, s[n - 1]>> \in (1 .. L) \X V
    OBVIOUS
  <2>3. Step[<<n, s[n - 1]>>] \in V
    BY <2>2
  <2> DEFINE t == [m \in 0 .. n |-> IF m = n THEN Step[<<n, s[n - 1]>>] ELSE s[m]]
  <2>4. t \in [0 .. n -> V]
    BY <2>3
  <2>5. t[n] = Step[<<n, s[n - 1]>>] /\ \A m \in 0 .. n - 1 : t[m] = s[m]
    OBVIOUS
  <2> HIDE DEF t
  <2>6. t[0] = v
    BY <2>1, <2>5 DEF Goes
  <2>7. ASSUME NEW m \in 1 .. n PROVE t[m] = Step[<<m, t[m - 1]>>]
    <3>1. m - 1 \in 0 .. n - 1 /\ (m = n \/ (m \in 1 .. n - 1 /\ m \in 0 .. n - 1))
      OBVIOUS
    <3> QED BY <2>1, <2>5, <3>1 DEF Goes
  <2> QED BY <2>4, <2>6, <2>7 DEF Goes
<1>3. L \in T
  <2>1. \A n \in 1 .. L : n - 1 \in T => n \in T
    BY <1>2
  <2>2. \A n \in 0 .. L : n \in T
    <3> HIDE DEF T
    <3> QED BY <1>1, <2>1, Upwards
  <2> QED BY <2>2
<1> QED BY <1>3

(* What goes on like that where it is in V is in V throughout. *)
LEMMA Follows ==
    ASSUME NEW L \in Nat, NEW V, NEW Step \in [(1 .. L) \X V -> V],
           NEW f, f[0] \in V, \A n \in 1 .. L : f[n - 1] \in V => f[n] = Step[<<n, f[n - 1]>>]
    PROVE  \A n \in 0 .. L : f[n] \in V
<1> DEFINE T == {n \in 0 .. L : f[n] \in V}
<1>1. 0 \in T
  OBVIOUS
<1>2. ASSUME NEW n \in 1 .. L, n - 1 \in T PROVE n \in T
  <2>1. f[n - 1] \in V /\ n \in 0 .. L
    BY <1>2
  <2>2. <<n, f[n - 1]>> \in (1 .. L) \X V
    BY <2>1
  <2>3. Step[<<n, f[n - 1]>>] \in V
    BY <2>2
  <2> QED BY <2>1, <2>3
<1>3. \A n \in 0 .. L : n \in T
  <2> HIDE DEF T
  <2> QED BY <1>1, <1>2, Upwards
<1> QED BY <1>3

-----------------------------------------------------------------------------
(* The lengths of texts *)

Weight(t) == IF t = None THEN 0 ELSE Len(t)

(* The lengths of ts added up, as Lengths does. *)
SumOf(ts) ==
    LET sum[n \in 0 .. MaxId] ==
            IF n = 0 THEN 0
            ELSE sum[n - 1] + IF ts[n - 1] = None THEN 0 ELSE Len(ts[n - 1])
    IN  sum[MaxId]

(* The lengths of the texts there are, as a function of the texts. *)
LEMMA LengthsIsSum == Lengths = SumOf(texts)
BY Zenon DEF Lengths, SumOf

LEMMA Numbers ==
    /\ MaxId \in Nat /\ IdWidth \in Nat /\ RrfK \in Nat
    /\ Overfetch \in Nat /\ Prefetch \in Nat /\ MaxK \in Nat
BY QueryAssumption

(* The sum exists, place by place. *)
LEMMA SumIs ==
    ASSUME NEW ts, \A i \in Id : Weight(ts[i]) \in Nat
    PROVE  \E s \in [0 .. MaxId -> Nat] :
              /\ s[0] = 0
              /\ \A n \in 1 .. MaxId : s[n] = s[n - 1] + Weight(ts[n - 1])
              /\ SumOf(ts) = s[MaxId]
<1> DEFINE Step == [x \in (1 .. MaxId) \X Nat |-> x[2] + Weight(ts[x[1] - 1])]
           Eq(g) == g = [n \in 0 .. MaxId |-> IF n = 0 THEN 0 ELSE g[n - 1] + Weight(ts[n - 1])]
<1>0. MaxId \in Nat /\ 0 \in Nat
  BY Numbers
<1>1. \A n \in 1 .. MaxId : n - 1 \in Id /\ n - 1 \in 0 .. MaxId /\ n \in 0 .. MaxId /\ n # 0
  BY <1>0 DEF Id
<1>2. Step \in [(1 .. MaxId) \X Nat -> Nat]
  BY <1>1
<1>3. \A n \in 1 .. MaxId, x \in Nat : Step[<<n, x>>] = x + Weight(ts[n - 1])
  OBVIOUS
<1> HIDE DEF Step
<1>4. PICK s \in [0 .. MaxId -> Nat] : Goes(MaxId, 0, Step, s)
  BY <1>0, <1>2, NumberRecursion
<1>5. s[0] = 0 /\ \A n \in 1 .. MaxId : s[n] = s[n - 1] + Weight(ts[n - 1])
  <2>1. \A n \in 1 .. MaxId : s[n - 1] \in Nat /\ s[n] = Step[<<n, s[n - 1]>>]
    BY <1>1, <1>4 DEF Goes
  <2> QED BY <1>3, <1>4, <2>1 DEF Goes
<1>6. Eq(s)
  <2>1. ASSUME NEW n \in 0 .. MaxId PROVE s[n] = IF n = 0 THEN 0 ELSE s[n - 1] + Weight(ts[n - 1])
    BY <1>0, <1>5
  <2> QED BY <2>1
<1> DEFINE f == CHOOSE g : Eq(g)
<1>7. Eq(f)
  <2> HIDE DEF Eq
  <2> QED BY <1>6, Zenon
<1>8. SumOf(ts) = f[MaxId]
  BY Zenon DEF SumOf, Weight
<1> HIDE DEF f
<1>9. f[0] = 0 /\ \A n \in 1 .. MaxId : f[n] = f[n - 1] + Weight(ts[n - 1])
  <2>1. \A n \in 0 .. MaxId : f[n] = IF n = 0 THEN 0 ELSE f[n - 1] + Weight(ts[n - 1])
    BY <1>7, Zenon
  <2>2. 0 \in 0 .. MaxId
    BY <1>0
  <2> HIDE DEF Eq
  <2> QED BY <1>1, <2>1, <2>2, Zenon
<1>10. f = [n \in 0 .. MaxId |-> f[n]]
  BY <1>7, Zenon
<1> HIDE DEF Eq
<1>11. \A n \in 0 .. MaxId : f[n] \in Nat
  <2>1. \A n \in 1 .. MaxId : f[n - 1] \in Nat => f[n] = Step[<<n, f[n - 1]>>]
    BY <1>3, <1>9
  <2> QED BY <1>0, <1>2, <1>9, <2>1, Follows
<1> QED BY <1>8, <1>9, <1>10, <1>11

(* No text is longer than all together, and one text more or less changes   *)
(* the sum by its length.                                                   *)
LEMMA SumChanged ==
    ASSUME NEW ts, NEW us, NEW i \in Id,
           \A j \in Id : Weight(ts[j]) \in Nat /\ Weight(us[j]) \in Nat,
           \A j \in Id \ {i} : us[j] = ts[j]
    PROVE  /\ SumOf(ts) \in Nat /\ SumOf(us) \in Nat
           /\ Weight(ts[i]) <= SumOf(ts)
           /\ SumOf(us) = SumOf(ts) - Weight(ts[i]) + Weight(us[i])
<1>0. MaxId \in Nat /\ Id = 0 .. MaxId - 1
  BY Numbers DEF Id
<1>1. PICK s \in [0 .. MaxId -> Nat] :
              /\ s[0] = 0
              /\ \A n \in 1 .. MaxId : s[n] = s[n - 1] + Weight(ts[n - 1])
              /\ SumOf(ts) = s[MaxId]
  BY SumIs
<1>2. PICK u \in [0 .. MaxId -> Nat] :
              /\ u[0] = 0
              /\ \A n \in 1 .. MaxId : u[n] = u[n - 1] + Weight(us[n - 1])
              /\ SumOf(us) = u[MaxId]
  BY SumIs
<1>3. PICK a \in Nat : a = Weight(ts[i])
  OBVIOUS
<1>4. PICK b \in Nat : b = Weight(us[i])
  OBVIOUS
<1> DEFINE T == {n \in 0 .. MaxId : IF n <= i THEN u[n] = s[n] ELSE a <= s[n] /\ u[n] = s[n] - a + b}
<1>5. 0 \in T
  BY <1>0, <1>1, <1>2
<1>6. ASSUME NEW n \in 1 .. MaxId, n - 1 \in T PROVE n \in T
  <2>1. n \in 0 .. MaxId /\ n - 1 \in 0 .. MaxId /\ n - 1 \in Id /\ s[n - 1] \in Nat /\ u[n - 1] \in Nat
    BY <1>0
  <2>2. PICK x \in Nat : x = Weight(ts[n - 1])
    BY <2>1
  <2>3. PICK y \in Nat : y = Weight(us[n - 1])
    BY <2>1
  <2>4. s[n] = s[n - 1] + x /\ u[n] = u[n - 1] + y
    BY <1>1, <1>2, <2>2, <2>3
  <2>5. IF n - 1 = i THEN x = a /\ y = b ELSE x = y
    BY <1>3, <1>4, <2>1, <2>2, <2>3
  <2>6. CASE n - 1 < i
    <3>1. u[n - 1] = s[n - 1] /\ n <= i
      BY <1>0, <1>6, <2>6
    <3> QED BY <2>1, <2>4, <2>5, <2>6, <3>1
  <2>7. CASE n - 1 = i
    <3>1. u[n - 1] = s[n - 1] /\ ~ (n <= i)
      BY <1>0, <1>6, <2>7
    <3> QED BY <2>1, <2>4, <2>5, <2>7, <3>1
  <2>8. CASE n - 1 > i
    <3>1. a <= s[n - 1] /\ u[n - 1] = s[n - 1] - a + b /\ ~ (n <= i)
      BY <1>0, <1>6, <2>8
    <3> QED BY <2>1, <2>4, <2>5, <2>8, <3>1
  <2>9. n - 1 < i \/ n - 1 = i \/ n - 1 > i
    BY <1>0
  <2> QED BY <2>6, <2>7, <2>8, <2>9, Zenon
<1>7. \A n \in 0 .. MaxId : n \in T
  <2> HIDE DEF T
  <2> QED BY <1>0, <1>5, <1>6, Upwards
<1>8. MaxId \in T /\ ~ (MaxId <= i)
  BY <1>0, <1>7
<1> QED BY <1>0, <1>1, <1>2, <1>3, <1>4, <1>8

(* No texts have no length. *)
LEMMA SumOfNone ==
    ASSUME NEW ts, \A i \in Id : ts[i] = None
    PROVE  SumOf(ts) = 0
<1>0. MaxId \in Nat /\ Id = 0 .. MaxId - 1
  BY Numbers DEF Id
<1>1. \A i \in Id : Weight(ts[i]) = 0
  BY DEF Weight
<1>2. PICK s \in [0 .. MaxId -> Nat] :
              /\ s[0] = 0
              /\ \A n \in 1 .. MaxId : s[n] = s[n - 1] + Weight(ts[n - 1])
              /\ SumOf(ts) = s[MaxId]
  BY <1>1, SumIs
<1> DEFINE T == {n \in 0 .. MaxId : s[n] = 0}
<1>3. 0 \in T
  BY <1>0, <1>2
<1>4. ASSUME NEW n \in 1 .. MaxId, n - 1 \in T PROVE n \in T
  BY <1>0, <1>1, <1>2, <1>4
<1>5. \A n \in 0 .. MaxId : n \in T
  <2> HIDE DEF T
  <2> QED BY <1>0, <1>3, <1>4, Upwards
<1> QED BY <1>0, <1>2, <1>5

(* Each denominator divides the common multiple. *)
LEMMA MultipleIs ==
    /\ Multiple \in Nat \ {0}
    /\ \A r \in 1 .. MaxId : \E q \in Nat \ {0} : Multiple = q * (RrfK + r)
<1> DEFINE Step == [x \in (1 .. MaxId) \X (Nat \ {0}) |-> x[2] * (RrfK + x[1])]
           Eq(g) == g = [n \in 0 .. MaxId |-> IF n = 0 THEN 1 ELSE g[n - 1] * (RrfK + n)]
<1>0. MaxId \in Nat /\ RrfK \in Nat /\ 1 \in Nat \ {0}
  BY Numbers
<1>a. ASSUME NEW x \in Nat \ {0}, NEW y \in Nat \ {0} PROVE x * y \in Nat \ {0}
  OBVIOUS
<1>b. \A n \in 1 .. MaxId : n \in Nat \ {0} /\ RrfK + n \in Nat \ {0} /\ n \in 0 .. MaxId /\ n # 0 /\ n - 1 \in 0 .. MaxId
  BY <1>0
<1>1. \A n \in 1 .. MaxId, x \in Nat \ {0} : Step[<<n, x>>] = x * (RrfK + n) /\ x * (RrfK + n) \in Nat \ {0}
  BY <1>a, <1>b
<1>2. Step \in [(1 .. MaxId) \X (Nat \ {0}) -> Nat \ {0}]
  BY <1>a, <1>b
<1> HIDE DEF Step
<1>4. PICK s \in [0 .. MaxId -> Nat \ {0}] : Goes(MaxId, 1, Step, s)
  BY <1>0, <1>2, NumberRecursion
<1>5. s[0] = 1 /\ \A n \in 1 .. MaxId : s[n] = s[n - 1] * (RrfK + n)
  <2>1. \A n \in 1 .. MaxId : s[n - 1] \in Nat \ {0} /\ s[n] = Step[<<n, s[n - 1]>>]
    BY <1>b, <1>4 DEF Goes
  <2> QED BY <1>1, <1>4, <2>1 DEF Goes
<1>6. Eq(s)
  <2>1. ASSUME NEW n \in 0 .. MaxId PROVE s[n] = IF n = 0 THEN 1 ELSE s[n - 1] * (RrfK + n)
    <3>1. n = 0 \/ n \in 1 .. MaxId
      BY <1>0
    <3> QED BY <1>b, <1>5, <3>1, Zenon
  <2> QED BY <2>1
<1>7. Eq(Product)
  <2>1. Product = CHOOSE g : Eq(g)
    BY Zenon DEF Product
  <2> HIDE DEF Eq
  <2> QED BY <1>6, <2>1, Zenon
<1>9. Product[0] = 1 /\ \A n \in 1 .. MaxId : Product[n] = Product[n - 1] * (RrfK + n)
  <2>1. \A n \in 0 .. MaxId : Product[n] = IF n = 0 THEN 1 ELSE Product[n - 1] * (RrfK + n)
    BY <1>7, Zenon
  <2>2. 0 \in 0 .. MaxId
    BY <1>0
  <2> HIDE DEF Eq
  <2> QED BY <1>b, <2>1, <2>2, Zenon
<1> HIDE DEF Eq
<1>11. \A n \in 0 .. MaxId : Product[n] \in Nat \ {0}
  <2>1. \A n \in 1 .. MaxId : Product[n - 1] \in Nat \ {0} => Product[n] = Step[<<n, Product[n - 1]>>]
    BY <1>1, <1>9
  <2> QED BY <1>0, <1>2, <1>9, <2>1, Follows
<1>12. Multiple \in Nat \ {0}
  BY <1>0, <1>11 DEF Multiple
<1>13. ASSUME NEW r \in 1 .. MaxId PROVE \E q \in Nat \ {0} : Multiple = q * (RrfK + r)
  <2> DEFINE Divides(n) == \E q \in Nat \ {0} : Product[n] = q * (RrfK + r)
             T == {n \in 0 .. MaxId : n < r \/ Divides(n)}
  <2>1. 0 \in T
    BY <1>0
  <2>2. ASSUME NEW n \in 1 .. MaxId, n - 1 \in T PROVE n \in T
    <3>0. n \in 0 .. MaxId /\ n - 1 \in 0 .. MaxId
      BY <1>b
    <3>1. CASE n < r
      BY <3>0, <3>1
    <3>2. CASE n = r
      <4>1. Product[n - 1] \in Nat \ {0} /\ Product[n] = Product[n - 1] * (RrfK + r)
        BY <1>9, <1>11, <3>0, <3>2
      <4>2. Divides(n)
        BY <4>1, Zenon
      <4> HIDE DEF Divides
      <4> QED BY <3>0, <4>2
    <3>3. CASE n > r
      <4>1. Divides(n - 1)
        <5> HIDE DEF Divides
        <5> QED BY <1>0, <2>2, <3>3
      <4>2. PICK q \in Nat \ {0} : Product[n - 1] = q * (RrfK + r)
        BY <4>1
      <4>3. PICK d \in Nat \ {0}, e \in Nat \ {0} : d = RrfK + r /\ e = RrfK + n
        BY <1>b
      <4>4. Product[n] = (q * d) * e
        BY <1>9, <4>2, <4>3
      <4>5. (q * d) * e = (q * e) * d
        OBVIOUS
      <4>6. q * e \in Nat \ {0}
        BY <1>a
      <4>7. Divides(n)
        BY <4>3, <4>4, <4>5, <4>6, Zenon
      <4> HIDE DEF Divides
      <4> QED BY <3>0, <4>7
    <3> QED BY <3>0, <3>1, <3>2, <3>3, <1>0
  <2>3. \A n \in 0 .. MaxId : n \in T
    <3> HIDE DEF T
    <3> QED BY <1>0, <2>1, <2>2, Upwards
  <2>4. Divides(MaxId)
    <3>1. MaxId \in T /\ ~ (MaxId < r)
      <4>1. MaxId \in 0 .. MaxId /\ ~ (MaxId < r)
        BY <1>0
      <4> HIDE DEF T
      <4> QED BY <2>3, <4>1
    <3> HIDE DEF Divides
    <3> QED BY <3>1
  <2> QED BY <2>4, Zenon DEF Multiple
<1> QED BY <1>12, <1>13

-----------------------------------------------------------------------------
(* Filtered lists *)

OnePlaceEach(s) == \A m, n \in 1 .. Len(s) : s[m] = s[n] => m = n

(* What is left of a list that names no id twice names none twice, and just *)
(* those the list names and that are wanted.                                *)
Sifted(f, list, kept) ==
    /\ kept \in Seq(Id) /\ Len(kept) <= Len(list) /\ OnePlaceEach(kept)
    /\ \A n \in 1 .. Len(kept) : Wanted(f, kept[n]) /\ \E m \in 1 .. Len(list) : kept[n] = list[m]
    /\ \A m \in 1 .. Len(list) : Wanted(f, list[m]) => \E n \in 1 .. Len(kept) : kept[n] = list[m]

LEMMA FilteredIs ==
    ASSUME NEW f, NEW list \in Seq(Id), OnePlaceEach(list), NEW kept, kept = Filtered(list, f)
    PROVE  Sifted(f, list, kept)
<1>1. PICK L \in Nat : L = Len(list)
  BY LenProperties
<1>2. \A n \in 1 .. L : list[n] \in Id /\ n - 1 \in 0 .. L /\ n \in 0 .. L /\ n # 0
  BY <1>1, ElementOfSeq
<1>3. PICK ok \in SUBSET (1 .. L) : \A n \in 1 .. L : n \in ok <=> Wanted(f, list[n])
  <2> DEFINE ok == {n \in 1 .. L : Wanted(f, list[n])}
  <2>1. ok \in SUBSET (1 .. L) /\ \A n \in 1 .. L : n \in ok <=> Wanted(f, list[n])
    OBVIOUS
  <2> HIDE DEF ok
  <2> QED BY <2>1, Zenon
<1>4. PICK V : V = Seq(Id)
  OBVIOUS
<1>5. <<>> \in V /\ \A s \in V, i \in Id : Append(s, i) \in V
  BY <1>4
<1> DEFINE Extended(n, s) == IF n \in ok THEN Append(s, list[n]) ELSE s
           Step == [x \in (1 .. L) \X V |-> Extended(x[1], x[2])]
           Eq(g) == g = [n \in 0 .. L |-> IF n = 0 THEN <<>> ELSE Extended(n, g[n - 1])]
           Asked(g) == g = [n \in 0 .. L |-> IF n = 0 THEN <<>>
                                             ELSE IF Wanted(f, list[n]) THEN Append(g[n - 1], list[n]) ELSE g[n - 1]]
<1>6. \A n \in 1 .. L, s \in V : Extended(n, s) \in V
  BY <1>2, <1>5
<1>7. Step \in [(1 .. L) \X V -> V]
  <2> HIDE DEF Extended
  <2> QED BY <1>6
<1>8. \A n \in 1 .. L, s \in V : Step[<<n, s>>] = Extended(n, s)
  <2> HIDE DEF Extended
  <2> QED OBVIOUS
<1> HIDE DEF Step
<1>9. PICK s \in [0 .. L -> V] : Goes(L, <<>>, Step, s)
  BY <1>5, <1>7, NumberRecursion
<1>10. Eq(s)
  <2>1. ASSUME NEW n \in 0 .. L PROVE s[n] = IF n = 0 THEN <<>> ELSE Extended(n, s[n - 1])
    <3>1. CASE n = 0
      BY <1>9, <3>1 DEF Goes
    <3>2. CASE n # 0
      <4>1. n \in 1 .. L /\ s[n - 1] \in V
        BY <1>1, <3>2
      <4>2. s[n] = Step[<<n, s[n - 1]>>]
        BY <1>9, <4>1 DEF Goes
      <4> HIDE DEF Extended
      <4> QED BY <1>8, <3>2, <4>1, <4>2
    <3> QED BY <3>1, <3>2
  <2> HIDE DEF Extended
  <2> QED BY <2>1
<1>11. ASSUME NEW g PROVE Eq(g) <=> Asked(g)
  <2>1. ASSUME NEW n \in 0 .. L
        PROVE (IF n = 0 THEN <<>> ELSE Extended(n, g[n - 1]))
                = IF n = 0 THEN <<>> ELSE IF Wanted(f, list[n]) THEN Append(g[n - 1], list[n]) ELSE g[n - 1]
    <3>1. n = 0 \/ n \in 1 .. L
      BY <1>1
    <3> QED BY <1>3, <3>1, Zenon
  <2> DEFINE A == [n \in 0 .. L |-> IF n = 0 THEN <<>> ELSE Extended(n, g[n - 1])]
             B == [n \in 0 .. L |-> IF n = 0 THEN <<>>
                                    ELSE IF Wanted(f, list[n]) THEN Append(g[n - 1], list[n]) ELSE g[n - 1]]
  <2>2. A = B
    BY <2>1, Zenon
  <2> QED BY <2>2, Zenon
<1> DEFINE k == CHOOSE g : Asked(g)
<1>12. Eq(k)
  <2>1. Asked(s)
    BY <1>10, <1>11
  <2>2. Asked(k)
    <3> HIDE DEF Asked
    <3> QED BY <2>1, Zenon
  <2> HIDE DEF k, Asked, Eq
  <2> QED BY <1>11, <2>2
<1>13. kept = k[L]
  BY <1>1, Zenon DEF Filtered
<1> HIDE DEF k, Asked
<1>14. k[0] = <<>> /\ \A n \in 1 .. L : k[n] = Extended(n, k[n - 1])
  <2>1. \A n \in 0 .. L : k[n] = IF n = 0 THEN <<>> ELSE Extended(n, k[n - 1])
    <3> HIDE DEF Extended
    <3> QED BY <1>12, Zenon
  <2>2. 0 \in 0 .. L
    BY <1>1
  <2> HIDE DEF Eq, Extended
  <2> QED BY <1>2, <2>1, <2>2, Zenon
<1> HIDE DEF Eq
<1>15. \A n \in 0 .. L : k[n] \in V
  <2>1. \A n \in 1 .. L : k[n - 1] \in V => k[n] = Step[<<n, k[n - 1]>>]
    <3> HIDE DEF Extended
    <3> QED BY <1>8, <1>14
  <2>2. k[0] \in V
    BY <1>5, <1>14
  <2> HIDE DEF Extended
  <2> QED BY <1>1, <1>7, <2>1, <2>2, Follows
<1> DEFINE Good(n, t) == /\ Len(t) <= n
                         /\ OnePlaceEach(t)
                         /\ \A a \in 1 .. Len(t) : \E m \in ok : m <= n /\ t[a] = list[m]
                         /\ \A m \in ok : m <= n => \E a \in 1 .. Len(t) : t[a] = list[m]
           T == {n \in 0 .. L : Good(n, k[n])}
<1>16. 0 \in T
  <2>1. Len(<<>>) = 0 /\ (\A a \in 1 .. 0 : FALSE) /\ \A m \in ok : ~ (m <= 0)
    OBVIOUS
  <2>2. Good(0, <<>>)
    BY <2>1 DEF OnePlaceEach
  <2>3. 0 \in 0 .. L
    BY <1>1
  <2> HIDE DEF Good
  <2> QED BY <1>14, <2>2, <2>3
<1>17. ASSUME NEW n \in 1 .. L, n - 1 \in T PROVE n \in T
  <2>0. n \in 0 .. L /\ n - 1 \in 0 .. L /\ n \in Nat /\ n - 1 <= n
    BY <1>1
  <2>1. PICK t : t = k[n - 1] /\ t \in Seq(Id)
    BY <1>4, <1>15, <2>0
  <2>2. Good(n - 1, t)
    <3> HIDE DEF Good
    <3> QED BY <1>17, <2>1
  <2>3. PICK l \in Nat : l = Len(t)
    BY <2>1, LenProperties
  <2>4. CASE n \in ok
    <3>1. PICK i \in Id : i = list[n]
      BY <1>2
    <3>2. PICK u : u = Append(t, i)
      OBVIOUS
    <3>3. Len(u) = l + 1 /\ u[l + 1] = i /\ \A a \in 1 .. l : u[a] = t[a]
      BY <2>1, <2>3, <3>2
    <3>4. \A a \in 1 .. l : t[a] # i
      <4>1. SUFFICES ASSUME NEW a \in 1 .. l PROVE t[a] # i
        OBVIOUS
      <4>2. PICK m \in ok : m <= n - 1 /\ t[a] = list[m]
        BY <2>2, <2>3
      <4>3. m \in 1 .. L /\ m # n
        BY <1>1, <4>2, <2>0
      <4> QED BY <1>1, <3>1, <4>2, <4>3 DEF OnePlaceEach
    <3>5. \A a \in 1 .. l + 1 : a = l + 1 \/ a \in 1 .. l
      OBVIOUS
    <3>6. OnePlaceEach(u)
      <4>1. SUFFICES ASSUME NEW a \in 1 .. l + 1, NEW b \in 1 .. l + 1, u[a] = u[b] PROVE a = b
        BY <3>3 DEF OnePlaceEach
      <4> QED BY <2>2, <2>3, <3>3, <3>4, <3>5, <4>1 DEF OnePlaceEach
    <3>7. Len(u) <= n
      BY <2>0, <2>2, <2>3, <3>3
    <3>8. ASSUME NEW a \in 1 .. Len(u) PROVE \E m \in ok : m <= n /\ u[a] = list[m]
      <4>1. a = l + 1 \/ a \in 1 .. l
        BY <3>3, <3>5
      <4>2. CASE a = l + 1
        BY <2>0, <2>4, <3>1, <3>3, <4>2
      <4>3. CASE a \in 1 .. l
        <5>1. PICK m \in ok : m <= n - 1 /\ t[a] = list[m]
          BY <2>2, <2>3, <4>3
        <5>2. m \in 1 .. L /\ m <= n
          BY <1>1, <2>0, <5>1
        <5> QED BY <3>3, <4>3, <5>1, <5>2
      <4> QED BY <4>1, <4>2, <4>3
    <3>9. k[n] = u
      BY <1>14, <2>1, <2>4, <3>1, <3>2
    <3>11. ASSUME NEW m \in ok, m <= n PROVE \E a \in 1 .. Len(u) : u[a] = list[m]
      <4>1. m \in 1 .. L /\ Len(u) = l + 1 /\ l + 1 \in 1 .. l + 1
        BY <3>3
      <4>2. CASE m = n
        BY <3>1, <3>3, <4>1, <4>2
      <4>3. CASE m # n
        <5>1. m <= n - 1
          BY <1>1, <3>11, <4>1, <4>3
        <5>2. PICK a \in 1 .. l : t[a] = list[m]
          BY <2>2, <2>3, <5>1
        <5>3. a \in 1 .. l + 1 /\ u[a] = t[a]
          BY <3>3, <5>2
        <5> QED BY <4>1, <5>2, <5>3
      <4> QED BY <4>2, <4>3
    <3>10. Good(n, u)
      BY <3>6, <3>7, <3>8, <3>11
    <3> HIDE DEF Good
    <3> QED BY <2>0, <3>9, <3>10
  <2>5. CASE n \notin ok
    <3>1. k[n] = t
      BY <1>14, <2>1, <2>5
    <3>2. Len(t) <= n
      BY <2>0, <2>2, <2>3
    <3>3. ASSUME NEW a \in 1 .. Len(t) PROVE \E m \in ok : m <= n /\ t[a] = list[m]
      <4>1. PICK m \in ok : m <= n - 1 /\ t[a] = list[m]
        BY <2>2
      <4>2. m \in 1 .. L
        OBVIOUS
      <4>3. m <= n
        BY <1>1, <2>0, <4>1, <4>2
      <4> QED BY <4>1, <4>3
    <3>5. ASSUME NEW m \in ok, m <= n PROVE \E a \in 1 .. Len(t) : t[a] = list[m]
      <4>1. m \in 1 .. L /\ m # n
        BY <2>5
      <4>2. m <= n - 1
        BY <1>1, <3>5, <4>1
      <4> QED BY <2>2, <4>2
    <3>4. Good(n, t)
      BY <2>2, <3>2, <3>3, <3>5
    <3> HIDE DEF Good
    <3> QED BY <2>0, <3>1, <3>4
  <2> QED BY <2>4, <2>5
<1>18. \A n \in 0 .. L : n \in T
  <2>1. \A n \in 1 .. L : n - 1 \in T => n \in T
    BY <1>17
  <2> HIDE DEF T
  <2> QED BY <1>1, <1>16, <2>1, Upwards
<1>19. L \in 0 .. L
  BY <1>1
<1>20. Good(L, kept) /\ kept \in Seq(Id)
  <2> HIDE DEF Good
  <2> QED BY <1>4, <1>13, <1>15, <1>18, <1>19
<1>21. ASSUME NEW n \in 1 .. Len(kept)
       PROVE  Wanted(f, kept[n]) /\ \E m \in 1 .. Len(list) : kept[n] = list[m]
  <2>1. PICK m \in ok : kept[n] = list[m]
    BY <1>20
  <2>2. m \in 1 .. L
    OBVIOUS
  <2> QED BY <1>1, <1>3, <2>1, <2>2, Zenon
<1>22. ASSUME NEW m \in 1 .. Len(list), Wanted(f, list[m])
       PROVE  \E n \in 1 .. Len(kept) : kept[n] = list[m]
  <2>1. m \in ok /\ m <= L
    BY <1>1, <1>3, <1>22
  <2> QED BY <1>20, <2>1
<1> QED BY <1>1, <1>20, <1>21, <1>22 DEF Sifted

-----------------------------------------------------------------------------
(* The inductive invariant: what is stored *)

Doc == {p.doc : p \in Point}

(* The variables keep their types. *)
Types ==
    /\ by_external \in [Ext -> Doc \cup {None}]
    /\ id_map \in [Id -> Ext \cup {None}]
    /\ ext_to_id \in [Ext -> Id \cup {None}]
    /\ inverted = [known |-> inverted.known, entries |-> inverted.entries]
    /\ vectors \in [Id -> Nat \cup {None}]
    /\ next_id \in 0 .. MaxId

(* The two maps are inverse to each other, over the points there are, and   *)
(* ids not given out yet are nobody's.                                      *)
Maps ==
    /\ \A e \in Ext, i \in Id : ext_to_id[e] = i <=> id_map[i] = e
    /\ \A e \in Ext : ext_to_id[e] = None <=> by_external[e] = None
    /\ \A i \in Id : vectors[i] = None <=> id_map[i] = None
    /\ \A i \in Id : i >= next_id => id_map[i] = None

EntriesOf(docs, ids) ==
    UNION {{<<f, docs[e][f], ids[e]>> : f \in DOMAIN docs[e]} : e \in {x \in Ext : ids[x] # None}}

(* The inverted index is that of the documents there are. *)
IndexFollows == LiveFields \subseteq inverted.known /\ inverted.entries = EntriesOf(by_external, ext_to_id)

Store == Types /\ Maps /\ IndexFollows

(* None is none of the ids, numbers and documents. *)
LEMMA Nones ==
    /\ \A i \in Id : i # None
    /\ \A e \in Ext : e # None
    /\ \A n \in Nat : n # None
    /\ \A p \in Point : p.vector \in Nat /\ p.doc # None /\ p.doc \in Doc
BY QueryAssumption DEF Id, Doc

(* Ids fit the bitmaps. (id_as_u32) *)
LEMMA UidIs ==
    ASSUME NEW i \in Id
    PROVE  Uid(i) = i
BY QueryAssumption DEF Uid, Id

(* The members of the entries of documents. *)
LEMMA EntriesAre ==
    ASSUME NEW docs, NEW ids, NEW x
    PROVE  x \in EntriesOf(docs, ids) <=>
              \E e \in Ext : ids[e] # None /\ \E f \in DOMAIN docs[e] : x = <<f, docs[e][f], ids[e]>>
BY DEF EntriesOf

(* What an upsert does to the maps: an external id keeps the internal id it *)
(* has, or is given a new one; nobody loses theirs.                         *)
LEMMA UpsertDoes ==
    ASSUME Store, NEW e \in Ext, NEW p \in Point, Upsert(e, p)
    PROVE  \E i \in Id :
              /\ \/ ext_to_id[e] = i /\ id_map[i] = e /\ next_id' = next_id
                 \/ ext_to_id[e] = None /\ id_map[i] = None /\ i = next_id /\ next_id' = next_id + 1
              /\ by_external' = [by_external EXCEPT ![e] = p.doc]
              /\ id_map' = [id_map EXCEPT ![i] = e]
              /\ ext_to_id' = [ext_to_id EXCEPT ![e] = i]
              /\ inverted' = Indexed(inverted, i, p.doc)
              /\ vectors' = [vectors EXCEPT ![i] = p.vector]
              /\ IF p.text = None THEN UNCHANGED sparse ELSE SparseUpsert(i, p.text)
<1>1. PICK i : i = IF ext_to_id[e] # None THEN ext_to_id[e] ELSE next_id
  OBVIOUS
<1>2. /\ i \in Id
      /\ next_id' = IF i = next_id THEN next_id + 1 ELSE next_id
      /\ vectors' = [vectors EXCEPT ![i] = p.vector]
      /\ MetadataUpsert(e, i, p.doc)
      /\ IF p.text = None THEN UNCHANGED sparse ELSE SparseUpsert(i, p.text)
  BY <1>1, Zenon DEF Upsert
<1>3. \/ ext_to_id[e] = i /\ id_map[i] = e /\ i # next_id
      \/ ext_to_id[e] = None /\ id_map[i] = None /\ i = next_id
  BY <1>1, <1>2, Nones DEF Store, Types, Maps, Id
<1>4. ~ (ext_to_id[e] \notin {None, i})
  BY <1>3
<1>5. /\ by_external' = [by_external EXCEPT ![e] = p.doc]
      /\ id_map' = [j \in Id |-> IF j = i THEN e ELSE id_map[j]]
      /\ ext_to_id' = [x \in Ext |-> IF x = e THEN i ELSE IF x = id_map[i] THEN None ELSE ext_to_id[x]]
      /\ inverted' = Indexed(inverted, Uid(i), p.doc)
  BY <1>2, <1>4, Zenon DEF MetadataUpsert
<1>6. id_map' = [id_map EXCEPT ![i] = e]
  BY <1>2, <1>5 DEF Store, Types
<1>7. ext_to_id' = [ext_to_id EXCEPT ![e] = i]
  BY <1>2, <1>3, <1>5, Nones DEF Store, Types
<1> QED BY <1>2, <1>3, <1>5, <1>6, <1>7, UidIs

(* What a delete does to the maps: one external id and its internal id go. *)
LEMMA DeleteDoes ==
    ASSUME Store, NEW e \in Ext, Delete(e)
    PROVE  \E i \in Id :
              /\ ext_to_id[e] = i /\ id_map[i] = e
              /\ by_external' = [by_external EXCEPT ![e] = None]
              /\ id_map' = [id_map EXCEPT ![i] = None]
              /\ ext_to_id' = [ext_to_id EXCEPT ![e] = None]
              /\ inverted' = Unindexed(inverted, i)
              /\ vectors' = [vectors EXCEPT ![i] = None]
              /\ next_id' = next_id
              /\ SparseRemove(i)
<1>1. PICK i : i = ext_to_id[e]
  OBVIOUS
<1>2. i \in Id /\ i # None /\ id_map[i] = e
  BY <1>1 DEF Delete, Store, Types, Maps
<1>3. /\ by_external' = [by_external EXCEPT ![e] = None]
      /\ id_map' = [id_map EXCEPT ![i] = None]
      /\ ext_to_id' = [ext_to_id EXCEPT ![e] = None]
      /\ inverted' = Unindexed(inverted, Uid(i))
  BY <1>1, <1>2, Zenon DEF Delete, MetadataRemove
<1>4. vectors' = [vectors EXCEPT ![i] = None] /\ next_id' = next_id /\ SparseRemove(i)
  BY <1>1, Zenon DEF Delete
<1> QED BY <1>1, <1>2, <1>3, <1>4, UidIs

(* The maps and the inverted index agree at first, after every change and   *)
(* after a reopen. (Collection::upsert, delete; MetadataStore::upsert,      *)
(* delete)                                                                  *)
LEMMA StoreInit == Init => Store
<1> SUFFICES ASSUME Init PROVE Store
  OBVIOUS
<1>1. Types
  BY Numbers DEF Init, Types, NoEntries
<1>2. Maps
  BY Nones DEF Init, Maps
<1>3. LiveFields = {}
  BY DEF Init, LiveFields
<1>4. EntriesOf(by_external, ext_to_id) = {}
  BY DEF Init, EntriesOf
<1> QED BY <1>1, <1>2, <1>3, <1>4 DEF Init, Store, IndexFollows, NoEntries

LEMMA StoreUpsert ==
    ASSUME Store, NEW e \in Ext, NEW p \in Point, Upsert(e, p)
    PROVE  Store'
<1>1. PICK i \in Id :
              /\ \/ ext_to_id[e] = i /\ id_map[i] = e /\ next_id' = next_id
                 \/ ext_to_id[e] = None /\ id_map[i] = None /\ i = next_id /\ next_id' = next_id + 1
              /\ by_external' = [by_external EXCEPT ![e] = p.doc]
              /\ id_map' = [id_map EXCEPT ![i] = e]
              /\ ext_to_id' = [ext_to_id EXCEPT ![e] = i]
              /\ inverted' = Indexed(inverted, i, p.doc)
              /\ vectors' = [vectors EXCEPT ![i] = p.vector]
              /\ IF p.text = None THEN UNCHANGED sparse ELSE SparseUpsert(i, p.text)
  BY UpsertDoes, Zenon
<1>2. Types'
  <2>1. next_id' \in 0 .. MaxId
    BY <1>1, Numbers DEF Store, Types, Id
  <2>2. inverted' = [known |-> inverted'.known, entries |-> inverted'.entries]
    BY <1>1 DEF Indexed
  <2> QED BY <1>1, <2>1, <2>2, Nones DEF Store, Types
<1>3. Maps'
  <2>1. ASSUME NEW x \in Ext, NEW j \in Id PROVE ext_to_id'[x] = j <=> id_map'[j] = x
    BY <1>1, Nones DEF Store, Types, Maps
  <2>2. ASSUME NEW x \in Ext PROVE ext_to_id'[x] = None <=> by_external'[x] = None
    BY <1>1, Nones DEF Store, Types, Maps
  <2>3. ASSUME NEW j \in Id PROVE vectors'[j] = None <=> id_map'[j] = None
    BY <1>1, Nones DEF Store, Types, Maps
  <2>4. ASSUME NEW j \in Id, j >= next_id' PROVE id_map'[j] = None
    <3>1. j \in Nat /\ next_id \in Nat
      BY Numbers DEF Id, Store, Types
    <3>2. i < next_id'
      BY <1>1, <3>1, Nones DEF Store, Types, Maps, Id
    <3>3. j # i /\ j >= next_id
      BY <1>1, <2>4, <3>1, <3>2 DEF Id
    <3> QED BY <1>1, <3>3 DEF Store, Types, Maps
  <2> QED BY <2>1, <2>2, <2>3, <2>4 DEF Maps
<1>4. \A x \in Ext : x # e => by_external'[x] = by_external[x] /\ ext_to_id'[x] = ext_to_id[x]
  BY <1>1 DEF Store, Types
<1>5. by_external'[e] = p.doc /\ ext_to_id'[e] = i
  BY <1>1 DEF Store, Types
<1>6. \A x \in Ext : x # e => ext_to_id[x] # i
  BY <1>1, Nones DEF Store, Types, Maps
<1>7. inverted'.known = inverted.known \cup DOMAIN p.doc
  BY <1>1 DEF Indexed
<1>8. LiveFields' \subseteq inverted'.known
  <2>1. ASSUME NEW x \in Ext, by_external'[x] # None PROVE DOMAIN by_external'[x] \subseteq inverted'.known
    <3>1. CASE x = e
      BY <1>5, <1>7, <3>1
    <3>2. CASE x # e
      BY <1>4, <1>7, <2>1, <3>2 DEF Store, IndexFollows, LiveFields
    <3> QED BY <3>1, <3>2
  <2> QED BY <2>1 DEF LiveFields
<1>9. inverted'.entries = EntriesOf(by_external', ext_to_id')
  <2> DEFINE new == {<<f, p.doc[f], i>> : f \in DOMAIN p.doc}
  <2>1. inverted'.entries = {x \in inverted.entries : x[3] # i} \cup new
    BY <1>1 DEF Indexed, Unindexed, Store, Types
  <2>2. inverted.entries = EntriesOf(by_external, ext_to_id)
    BY DEF Store, IndexFollows
  <2>3. ASSUME NEW x \in inverted'.entries PROVE x \in EntriesOf(by_external', ext_to_id')
    <3>1. CASE x \in new
      <4>1. PICK f \in DOMAIN p.doc : x = <<f, p.doc[f], i>>
        BY <3>1
      <4>2. ext_to_id'[e] # None /\ x = <<f, by_external'[e][f], ext_to_id'[e]>> /\ f \in DOMAIN by_external'[e]
        BY <1>5, <4>1, Nones
      <4> QED BY <4>2, EntriesAre, Zenon
    <3>2. CASE x \in inverted.entries /\ x[3] # i
      <4>1. PICK y \in Ext : ext_to_id[y] # None /\ \E f \in DOMAIN by_external[y] :
                                x = <<f, by_external[y][f], ext_to_id[y]>>
        BY <2>2, <3>2, EntriesAre
      <4>2. y # e
        <5>1. ext_to_id[y] # i
          BY <3>2, <4>1
        <5> QED BY <1>1, <4>1, <5>1
      <4>3. by_external'[y] = by_external[y] /\ ext_to_id'[y] = ext_to_id[y]
        BY <1>4, <4>2
      <4>4. ext_to_id'[y] # None /\ \E f \in DOMAIN by_external'[y] :
                                x = <<f, by_external'[y][f], ext_to_id'[y]>>
        BY <4>1, <4>3, Zenon
      <4> QED BY <4>4, EntriesAre, Zenon
    <3> HIDE DEF new
    <3> QED BY <2>1, <3>1, <3>2
  <2>4. ASSUME NEW x \in EntriesOf(by_external', ext_to_id') PROVE x \in inverted'.entries
    <3>1. PICK y \in Ext : ext_to_id'[y] # None /\ \E f \in DOMAIN by_external'[y] :
                                x = <<f, by_external'[y][f], ext_to_id'[y]>>
      BY EntriesAre
    <3>2. CASE y = e
      <4>1. x \in new
        BY <1>5, <3>1, <3>2
      <4> HIDE DEF new
      <4> QED BY <2>1, <4>1
    <3>3. CASE y # e
      <4>1. by_external'[y] = by_external[y] /\ ext_to_id'[y] = ext_to_id[y] /\ ext_to_id[y] # i
        BY <1>4, <1>6, <3>3
      <4>2. ext_to_id[y] # None /\ \E f \in DOMAIN by_external[y] :
                                x = <<f, by_external[y][f], ext_to_id[y]>>
        BY <3>1, <4>1, Zenon
      <4>3. x \in inverted.entries
        BY <2>2, <4>2, EntriesAre, Zenon
      <4>4. x[3] # i
        BY <4>1, <4>2
      <4> HIDE DEF new
      <4> QED BY <2>1, <4>3, <4>4
    <3> QED BY <3>2, <3>3
  <2> QED BY <2>3, <2>4
<1>10. EntriesOf(by_external, ext_to_id)' = EntriesOf(by_external', ext_to_id')
  BY Zenon DEF EntriesOf
<1> QED BY <1>2, <1>3, <1>8, <1>9, <1>10, Zenon DEF Store, IndexFollows

LEMMA StoreDelete ==
    ASSUME Store, NEW e \in Ext, Delete(e)
    PROVE  Store'
<1>1. PICK i \in Id :
              /\ ext_to_id[e] = i /\ id_map[i] = e
              /\ by_external' = [by_external EXCEPT ![e] = None]
              /\ id_map' = [id_map EXCEPT ![i] = None]
              /\ ext_to_id' = [ext_to_id EXCEPT ![e] = None]
              /\ inverted' = Unindexed(inverted, i)
              /\ vectors' = [vectors EXCEPT ![i] = None]
              /\ next_id' = next_id
  BY DeleteDoes, Zenon
<1>2. Types'
  <2>1. inverted' = [known |-> inverted'.known, entries |-> inverted'.entries]
    BY <1>1 DEF Unindexed, Store, Types
  <2> QED BY <1>1, <2>1 DEF Store, Types
<1>3. Maps'
  <2>1. ASSUME NEW x \in Ext, NEW j \in Id PROVE ext_to_id'[x] = j <=> id_map'[j] = x
    BY <1>1, Nones DEF Store, Types, Maps
  <2>2. ASSUME NEW x \in Ext PROVE ext_to_id'[x] = None <=> by_external'[x] = None
    BY <1>1 DEF Store, Types, Maps
  <2>3. ASSUME NEW j \in Id PROVE vectors'[j] = None <=> id_map'[j] = None
    BY <1>1 DEF Store, Types, Maps
  <2>4. ASSUME NEW j \in Id, j >= next_id' PROVE id_map'[j] = None
    BY <1>1, <2>4 DEF Store, Types, Maps
  <2> QED BY <2>1, <2>2, <2>3, <2>4 DEF Maps
<1>4. \A x \in Ext : x # e => by_external'[x] = by_external[x] /\ ext_to_id'[x] = ext_to_id[x]
  BY <1>1 DEF Store, Types
<1>5. by_external'[e] = None /\ ext_to_id'[e] = None
  BY <1>1 DEF Store, Types
<1>6. \A x \in Ext : x # e => ext_to_id[x] # i
  BY <1>1, Nones DEF Store, Types, Maps
<1>7. inverted'.known = inverted.known /\ inverted'.entries = {x \in inverted.entries : x[3] # i}
  BY <1>1 DEF Unindexed, Store, Types
<1>8. LiveFields' \subseteq inverted'.known
  <2>1. ASSUME NEW x \in Ext, by_external'[x] # None PROVE DOMAIN by_external'[x] \subseteq inverted'.known
    <3>1. x # e
      BY <1>5, <2>1
    <3> QED BY <1>4, <1>7, <2>1, <3>1 DEF Store, IndexFollows, LiveFields
  <2> QED BY <2>1 DEF LiveFields
<1>9. inverted'.entries = EntriesOf(by_external', ext_to_id')
  <2>2. inverted.entries = EntriesOf(by_external, ext_to_id)
    BY DEF Store, IndexFollows
  <2>3. ASSUME NEW x \in inverted'.entries PROVE x \in EntriesOf(by_external', ext_to_id')
    <3>2. x \in inverted.entries /\ x[3] # i
      BY <1>7
    <3>3. PICK y \in Ext : ext_to_id[y] # None /\ \E f \in DOMAIN by_external[y] :
                              x = <<f, by_external[y][f], ext_to_id[y]>>
      BY <2>2, <3>2, EntriesAre
    <3>4. y # e
      <4>1. ext_to_id[y] # i
        BY <3>2, <3>3
      <4> QED BY <1>1, <4>1
    <3>5. by_external'[y] = by_external[y] /\ ext_to_id'[y] = ext_to_id[y]
      BY <1>4, <3>4
    <3>6. ext_to_id'[y] # None /\ \E f \in DOMAIN by_external'[y] :
                              x = <<f, by_external'[y][f], ext_to_id'[y]>>
      BY <3>3, <3>5, Zenon
    <3> QED BY <3>6, EntriesAre, Zenon
  <2>4. ASSUME NEW x \in EntriesOf(by_external', ext_to_id') PROVE x \in inverted'.entries
    <3>1. PICK y \in Ext : ext_to_id'[y] # None /\ \E f \in DOMAIN by_external'[y] :
                                x = <<f, by_external'[y][f], ext_to_id'[y]>>
      BY EntriesAre
    <3>2. y # e
      BY <1>5, <3>1
    <3>3. by_external'[y] = by_external[y] /\ ext_to_id'[y] = ext_to_id[y] /\ ext_to_id[y] # i
      BY <1>4, <1>6, <3>2
    <3>4. ext_to_id[y] # None /\ \E f \in DOMAIN by_external[y] :
                              x = <<f, by_external[y][f], ext_to_id[y]>>
      BY <3>1, <3>3, Zenon
    <3>5. x \in inverted.entries
      BY <2>2, <3>4, EntriesAre, Zenon
    <3>6. x[3] # i
      BY <3>3, <3>4
    <3> QED BY <1>7, <3>5, <3>6
  <2> QED BY <2>3, <2>4
<1>10. EntriesOf(by_external, ext_to_id)' = EntriesOf(by_external', ext_to_id')
  BY Zenon DEF EntriesOf
<1> QED BY <1>2, <1>3, <1>8, <1>9, <1>10, Zenon DEF Store, IndexFollows

LEMMA StoreReopen ==
    ASSUME Store, Reopen
    PROVE  Store'
<1> DEFINE built == UNION {{<<f, by_external[e][f], Uid(ext_to_id[e])>> : f \in DOMAIN by_external[e]} :
                              e \in {x \in Ext : ext_to_id[x] # None}}
<1>1. PICK known \in SUBSET inverted.known :
         LiveFields \subseteq known /\ inverted' = [known |-> known, entries |-> built]
  BY Zenon DEF Reopen
<1>2. UNCHANGED <<by_external, id_map, ext_to_id, vectors, next_id>>
  BY DEF Reopen
<1>3. built = EntriesOf(by_external, ext_to_id)
  <2>1. \A e \in Ext : ext_to_id[e] # None => Uid(ext_to_id[e]) = ext_to_id[e]
    BY UidIs DEF Store, Types
  <2> QED BY <2>1 DEF EntriesOf
<1> HIDE DEF built
<1>4. inverted' = [known |-> inverted'.known, entries |-> inverted'.entries]
      /\ inverted'.known = known /\ inverted'.entries = built
  BY <1>1
<1>5. Types'
  BY <1>2, <1>4 DEF Store, Types
<1>6. Maps'
  BY <1>2 DEF Store, Maps
<1>7. LiveFields' = LiveFields
  BY <1>2 DEF LiveFields
<1>8. EntriesOf(by_external, ext_to_id)' = EntriesOf(by_external, ext_to_id)
  <2>1. EntriesOf(by_external, ext_to_id)' = EntriesOf(by_external', ext_to_id')
    BY Zenon DEF EntriesOf
  <2> QED BY <1>2, <2>1
<1> QED BY <1>1, <1>3, <1>4, <1>5, <1>6, <1>7, <1>8 DEF Store, IndexFollows

LEMMA StoreSame ==
    ASSUME Store, UNCHANGED <<metadata, vectors, next_id>>
    PROVE  Store'
<1>1. UNCHANGED <<by_external, id_map, ext_to_id, inverted, vectors, next_id>>
  BY DEF metadata
<1>2. Types' /\ Maps'
  BY <1>1 DEF Store, Types, Maps
<1>3. LiveFields' = LiveFields
  BY <1>1 DEF LiveFields
<1>4. EntriesOf(by_external, ext_to_id)' = EntriesOf(by_external, ext_to_id)
  <2>1. EntriesOf(by_external, ext_to_id)' = EntriesOf(by_external', ext_to_id')
    BY Zenon DEF EntriesOf
  <2> QED BY <1>1, <2>1
<1> QED BY <1>1, <1>2, <1>3, <1>4 DEF Store, IndexFollows

-----------------------------------------------------------------------------
(* The inductive invariant: the text index *)

Text == Seq(STRING)

PostingsOf(ts) == UNION {{<<t, i>> : t \in ToSet(ts[i])} : i \in {j \in Id : ts[j] # None}}

(* The text index is that of the texts there are, which are those of points *)
(* there are.                                                               *)
TextIndex ==
    /\ texts \in [Id -> Text \cup {None}]
    /\ \A i \in Id : texts[i] # None => vectors[i] # None
    /\ doc_len = [i \in Id |-> IF texts[i] # None THEN Len(texts[i]) ELSE None]
    /\ postings = PostingsOf(texts)
    /\ total_len = SumOf(texts)

(* What a text adds to the sum. *)
LEMMA TextLength ==
    ASSUME NEW t \in Text \cup {None}
    PROVE  Weight(t) \in Nat /\ (t # None => Weight(t) = Len(t) /\ Len(t) \in Nat)
BY LenProperties DEF Text, Weight

(* The members of the postings of texts. *)
LEMMA PostingsAre ==
    ASSUME NEW ts, NEW x
    PROVE  x \in PostingsOf(ts) <=>
              \E j \in Id : ts[j] # None /\ \E t \in ToSet(ts[j]) : x = <<t, j>>
BY DEF PostingsOf

(* What a text put in the place of another does to its index. *)
Replaces(ts, us, i, text) ==
    /\ us \in [Id -> Text \cup {None}]
    /\ PostingsOf(us) = {x \in PostingsOf(ts) : x[2] # i}
                           \cup (IF text = None THEN {} ELSE {<<t, i>> : t \in ToSet(text)})
    /\ SumOf(us) = Less(SumOf(ts), IF ts[i] # None THEN Len(ts[i]) ELSE None) + Weight(text)
    /\ SumOf(us) \in Nat

LEMMA Replaced ==
    ASSUME NEW ts \in [Id -> Text \cup {None}], NEW i \in Id, NEW text \in Text \cup {None},
           NEW us, us = [ts EXCEPT ![i] = text]
    PROVE  Replaces(ts, us, i, text)
<1>1. us \in [Id -> Text \cup {None}] /\ us[i] = text /\ \A j \in Id \ {i} : us[j] = ts[j]
  OBVIOUS
<1>2. PostingsOf(us) = {x \in PostingsOf(ts) : x[2] # i}
                                  \cup (IF text = None THEN {} ELSE {<<t, i>> : t \in ToSet(text)})
  <2> DEFINE new == IF text = None THEN {} ELSE {<<t, i>> : t \in ToSet(text)}
  <2>1. \A x : x \in new <=> text # None /\ \E t \in ToSet(text) : x = <<t, i>>
    BY DEF ToSet
  <2> HIDE DEF new
  <2>2. ASSUME NEW x \in PostingsOf(us) PROVE x \in {y \in PostingsOf(ts) : y[2] # i} \cup new
    <3>1. PICK j \in Id : us[j] # None /\ \E t \in ToSet(us[j]) : x = <<t, j>>
      BY PostingsAre
    <3>2. CASE j = i
      BY <1>1, <2>1, <3>1, <3>2
    <3>3. CASE j # i
      <4>1. ts[j] # None /\ \E t \in ToSet(ts[j]) : x = <<t, j>>
        BY <1>1, <3>1, <3>3
      <4>2. x \in PostingsOf(ts)
        BY <4>1, PostingsAre
      <4>3. x[2] # i
        BY <3>3, <4>1
      <4> QED BY <4>2, <4>3
    <3> QED BY <3>2, <3>3
  <2>3. ASSUME NEW x \in PostingsOf(ts), x[2] # i PROVE x \in PostingsOf(us)
    <3>1. PICK j \in Id : ts[j] # None /\ \E t \in ToSet(ts[j]) : x = <<t, j>>
      BY PostingsAre
    <3>2. j # i
      BY <2>3, <3>1
    <3>3. us[j] # None /\ \E t \in ToSet(us[j]) : x = <<t, j>>
      BY <1>1, <3>1, <3>2
    <3> QED BY <3>3, PostingsAre
  <2>4. ASSUME NEW x \in new PROVE x \in PostingsOf(us)
    <3>1. us[i] # None /\ \E t \in ToSet(us[i]) : x = <<t, i>>
      BY <1>1, <2>1
    <3> QED BY <3>1, PostingsAre
  <2>5. PostingsOf(us) = {y \in PostingsOf(ts) : y[2] # i} \cup new
    BY <2>2, <2>3, <2>4
  <2> QED BY <2>5 DEF new
<1>3. /\ SumOf(ts) \in Nat /\ SumOf(us) \in Nat
      /\ Weight(ts[i]) <= SumOf(ts)
      /\ SumOf(us) = SumOf(ts) - Weight(ts[i]) + Weight(text)
  <2>1. \A j \in Id : Weight(ts[j]) \in Nat /\ Weight(us[j]) \in Nat
    BY <1>1, TextLength
  <2>2. /\ SumOf(ts) \in Nat /\ SumOf(us) \in Nat
        /\ Weight(ts[i]) <= SumOf(ts)
        /\ SumOf(us) = SumOf(ts) - Weight(ts[i]) + Weight(us[i])
    BY <1>1, <2>1, SumChanged
  <2> QED BY <1>1, <2>2
<1>4. Less(SumOf(ts), IF ts[i] # None THEN Len(ts[i]) ELSE None) = SumOf(ts) - Weight(ts[i])
  <2>0. ts[i] \in Text \cup {None}
    OBVIOUS
  <2>1. CASE ts[i] = None
    BY <1>3, <2>1 DEF Less, Weight
  <2>2. CASE ts[i] # None
    <3>1. PICK l \in Nat : l = Len(ts[i]) /\ Weight(ts[i]) = l
      BY <2>0, <2>2, TextLength
    <3>2. l # None /\ ~ (SumOf(ts) < l)
      BY <1>3, <3>1, Nones
    <3>3. Less(SumOf(ts), l) = SumOf(ts) - l
      BY <3>2 DEF Less
    <3> QED BY <2>2, <3>1, <3>3
  <2> QED BY <2>1, <2>2
<1> QED BY <1>1, <1>2, <1>3, <1>4, Zenon DEF Replaces

(* The text index is kept by an upsert, with a text or without, by a        *)
(* delete, and by what leaves it alone. (Bm25Index::upsert, remove)         *)
LEMMA TextUpsert ==
    ASSUME Store, TextIndex, NEW e \in Ext, NEW p \in Point, Upsert(e, p)
    PROVE  TextIndex'
<1>1. PICK i \in Id :
              /\ \/ ext_to_id[e] = i /\ id_map[i] = e /\ next_id' = next_id
                 \/ ext_to_id[e] = None /\ id_map[i] = None /\ i = next_id /\ next_id' = next_id + 1
              /\ by_external' = [by_external EXCEPT ![e] = p.doc]
              /\ id_map' = [id_map EXCEPT ![i] = e]
              /\ ext_to_id' = [ext_to_id EXCEPT ![e] = i]
              /\ inverted' = Indexed(inverted, i, p.doc)
              /\ vectors' = [vectors EXCEPT ![i] = p.vector]
              /\ IF p.text = None THEN UNCHANGED sparse ELSE SparseUpsert(i, p.text)
  BY UpsertDoes, Zenon
<1>2. vectors'[i] # None /\ \A j \in Id \ {i} : vectors'[j] = vectors[j]
  BY <1>1, Nones DEF Store, Types
<1>3. CASE p.text = None
  <2>1. UNCHANGED <<texts, postings, doc_len, total_len>>
    BY <1>1, <1>3 DEF sparse
  <2>2. \A j \in Id : texts'[j] # None => vectors'[j] # None
    BY <1>2, <2>1 DEF TextIndex
  <2>3. PostingsOf(texts)' = PostingsOf(texts) /\ SumOf(texts)' = SumOf(texts)
    <3>1. PostingsOf(texts)' = PostingsOf(texts') /\ SumOf(texts)' = SumOf(texts')
      BY Zenon DEF PostingsOf, SumOf
    <3> QED BY <2>1, <3>1
  <2>4. texts' = texts /\ postings' = postings /\ doc_len' = doc_len /\ total_len' = total_len
    BY <2>1
  <2>5. texts' \in [Id -> Text \cup {None}]
    BY <2>4 DEF TextIndex
  <2>6. doc_len' = [j \in Id |-> IF texts'[j] # None THEN Len(texts'[j]) ELSE None]
    BY <2>4, Zenon DEF TextIndex
  <2> QED BY <2>2, <2>3, <2>4, <2>5, <2>6 DEF TextIndex
<1>4. CASE p.text # None
  <2>1. p.text \in Text
    BY <1>4, QueryAssumption DEF Text
  <2>2. SparseUpsert(i, p.text)
    BY <1>1, <1>4
  <2>3. texts' = [texts EXCEPT ![i] = p.text]
    BY <2>2 DEF SparseUpsert
  <2>4. /\ texts' \in [Id -> Text \cup {None}]
        /\ PostingsOf(texts') = {x \in PostingsOf(texts) : x[2] # i} \cup {<<t, i>> : t \in ToSet(p.text)}
        /\ SumOf(texts') = Less(SumOf(texts), IF texts[i] # None THEN Len(texts[i]) ELSE None) + Weight(p.text)
    <3>1. texts \in [Id -> Text \cup {None}] /\ p.text \in Text \cup {None}
      BY <2>1 DEF TextIndex
    <3>2. PICK ts, us, text : ts = texts /\ us = texts' /\ text = p.text
      OBVIOUS
    <3>3. ts \in [Id -> Text \cup {None}] /\ text \in Text \cup {None} /\ us = [ts EXCEPT ![i] = text]
      BY <2>3, <3>1, <3>2
    <3>4. Replaces(ts, us, i, text)
      BY <3>3, Replaced
    <3>5. Replaces(texts, texts', i, p.text)
      BY <3>2, <3>4
    <3> QED BY <1>4, <3>5, Zenon DEF Replaces
  <2>5. doc_len[i] = IF texts[i] # None THEN Len(texts[i]) ELSE None
    BY DEF TextIndex
  <2>6. postings' = PostingsOf(texts')
    BY <2>2, <2>4, Zenon DEF SparseUpsert, TextIndex
  <2>7. total_len' = SumOf(texts')
    <3>1. total_len' = Less(total_len, doc_len[i]) + Len(p.text)
      BY <2>2, Zenon DEF SparseUpsert
    <3>2. Len(p.text) = Weight(p.text)
      BY <1>4 DEF Weight
    <3> QED BY <2>4, <2>5, <3>1, <3>2, Zenon DEF TextIndex
  <2>8. doc_len' = [j \in Id |-> IF texts'[j] # None THEN Len(texts'[j]) ELSE None]
    <3>1. doc_len' = [doc_len EXCEPT ![i] = Len(p.text)]
      BY <2>2 DEF SparseUpsert
    <3>2. texts'[i] = p.text /\ \A j \in Id \ {i} : texts'[j] = texts[j]
      BY <2>3 DEF TextIndex
    <3>3. PICK l : l = Len(p.text)
      OBVIOUS
    <3>4. DOMAIN doc_len = Id /\ \A j \in Id : doc_len[j] = IF texts[j] # None THEN Len(texts[j]) ELSE None
      BY DEF TextIndex
    <3>5. doc_len' = [j \in Id |-> IF j = i THEN l ELSE doc_len[j]]
      <4>1. doc_len = [j \in Id |-> doc_len[j]]
        BY Zenon DEF TextIndex
      <4> QED BY <3>1, <3>3, <4>1
    <3>6. ASSUME NEW j \in Id
          PROVE (IF j = i THEN l ELSE doc_len[j]) = IF texts'[j] # None THEN Len(texts'[j]) ELSE None
      <4>1. CASE j = i
        BY <1>4, <3>2, <3>3, <4>1, Zenon
      <4>2. CASE j # i
        <5>1. texts'[j] = texts[j]
          BY <3>2, <4>2
        <5> QED BY <3>4, <4>2, <5>1, Zenon
      <4> QED BY <4>1, <4>2
    <3> QED BY <3>5, <3>6, Zenon
  <2>9. \A j \in Id : texts'[j] # None => vectors'[j] # None
    BY <1>2, <2>3 DEF TextIndex
  <2>10. PostingsOf(texts)' = PostingsOf(texts') /\ SumOf(texts)' = SumOf(texts')
    BY Zenon DEF PostingsOf, SumOf
  <2> QED BY <2>4, <2>6, <2>7, <2>8, <2>9, <2>10 DEF TextIndex
<1> QED BY <1>3, <1>4

LEMMA TextDelete ==
    ASSUME Store, TextIndex, NEW e \in Ext, Delete(e)
    PROVE  TextIndex'
<1>1. PICK i \in Id :
              /\ ext_to_id[e] = i /\ id_map[i] = e
              /\ by_external' = [by_external EXCEPT ![e] = None]
              /\ id_map' = [id_map EXCEPT ![i] = None]
              /\ ext_to_id' = [ext_to_id EXCEPT ![e] = None]
              /\ inverted' = Unindexed(inverted, i)
              /\ vectors' = [vectors EXCEPT ![i] = None]
              /\ next_id' = next_id
              /\ SparseRemove(i)
  BY DeleteDoes, Zenon
<1>2. \A j \in Id \ {i} : vectors'[j] = vectors[j]
  BY <1>1 DEF Store, Types
<1>3. texts' = [texts EXCEPT ![i] = None]
  BY <1>1 DEF SparseRemove
<1>4. /\ texts' \in [Id -> Text \cup {None}]
      /\ PostingsOf(texts') = {x \in PostingsOf(texts) : x[2] # i}
      /\ SumOf(texts') = Less(SumOf(texts), IF texts[i] # None THEN Len(texts[i]) ELSE None)
  <2>1. texts \in [Id -> Text \cup {None}] /\ None \in Text \cup {None}
    BY DEF TextIndex
  <2>2. /\ texts' \in [Id -> Text \cup {None}]
        /\ PostingsOf(texts') = {x \in PostingsOf(texts) : x[2] # i}
                                \cup (IF None = None THEN {} ELSE {<<t, i>> : t \in ToSet(None)})
        /\ SumOf(texts') = Less(SumOf(texts), IF texts[i] # None THEN Len(texts[i]) ELSE None) + Weight(None)
        /\ SumOf(texts') \in Nat
    <3>1. PICK ts, us, text : ts = texts /\ us = texts' /\ text = None
      OBVIOUS
    <3>2. ts \in [Id -> Text \cup {None}] /\ text \in Text \cup {None} /\ us = [ts EXCEPT ![i] = text]
      BY <1>3, <2>1, <3>1
    <3>3. Replaces(ts, us, i, text)
      BY <3>2, Replaced
    <3>4. Replaces(texts, texts', i, None)
      BY <3>1, <3>3
    <3> QED BY <3>4, Zenon DEF Replaces
  <2>3. Weight(None) = 0
    BY DEF Weight
  <2>4. Less(SumOf(texts), IF texts[i] # None THEN Len(texts[i]) ELSE None) \in Int
    <3>1. \A j \in Id : Weight(texts[j]) \in Nat
      BY <2>1, TextLength
    <3>2. SumOf(texts) \in Nat
      BY <3>1, SumChanged
    <3>3. texts[i] # None => Len(texts[i]) \in Nat
      BY <2>1, TextLength
    <3>4. ASSUME NEW l, l = None \/ l \in Nat PROVE Less(SumOf(texts), l) \in Int
      BY <3>2, <3>4 DEF Less
    <3> QED BY <3>3, <3>4
  <2>5. {x \in PostingsOf(texts) : x[2] # i} \cup (IF None = None THEN {} ELSE {<<t, i>> : t \in ToSet(None)})
           = {x \in PostingsOf(texts) : x[2] # i}
    OBVIOUS
  <2>6. PostingsOf(texts') = {x \in PostingsOf(texts) : x[2] # i}
    BY <2>2, <2>5, Zenon
  <2>7. SumOf(texts') = Less(SumOf(texts), IF texts[i] # None THEN Len(texts[i]) ELSE None) + 0
    BY <2>2, <2>3, Zenon
  <2> QED BY <2>2, <2>4, <2>6, <2>7
<1>5. doc_len[i] = IF texts[i] # None THEN Len(texts[i]) ELSE None
  BY DEF TextIndex
<1>6. postings' = PostingsOf(texts')
  BY <1>1, <1>4, Zenon DEF SparseRemove, TextIndex
<1>7. total_len' = SumOf(texts')
  <2>1. total_len' = Less(total_len, doc_len[i])
    BY <1>1, Zenon DEF SparseRemove
  <2> QED BY <1>4, <1>5, <2>1, Zenon DEF TextIndex
<1>8. doc_len' = [j \in Id |-> IF texts'[j] # None THEN Len(texts'[j]) ELSE None]
  <2>1. doc_len' = [doc_len EXCEPT ![i] = None]
    BY <1>1 DEF SparseRemove
  <2>2. texts'[i] = None /\ \A j \in Id \ {i} : texts'[j] = texts[j]
    BY <1>3 DEF TextIndex
  <2>4. \A j \in Id : doc_len[j] = IF texts[j] # None THEN Len(texts[j]) ELSE None
    BY DEF TextIndex
  <2>5. doc_len' = [j \in Id |-> IF j = i THEN None ELSE doc_len[j]]
    <3>1. doc_len = [j \in Id |-> doc_len[j]]
      BY Zenon DEF TextIndex
    <3> QED BY <2>1, <3>1
  <2>6. ASSUME NEW j \in Id
        PROVE (IF j = i THEN None ELSE doc_len[j]) = IF texts'[j] # None THEN Len(texts'[j]) ELSE None
    <3>1. CASE j = i
      BY <2>2, <3>1, Zenon
    <3>2. CASE j # i
      <4>1. texts'[j] = texts[j]
        BY <2>2, <3>2
      <4> QED BY <2>4, <3>2, <4>1, Zenon
    <3> QED BY <3>1, <3>2
  <2> QED BY <2>5, <2>6, Zenon
<1>9. \A j \in Id : texts'[j] # None => vectors'[j] # None
  BY <1>2, <1>3 DEF TextIndex
<1>10. PostingsOf(texts)' = PostingsOf(texts') /\ SumOf(texts)' = SumOf(texts')
  BY Zenon DEF PostingsOf, SumOf
<1> QED BY <1>4, <1>6, <1>7, <1>8, <1>9, <1>10 DEF TextIndex

LEMMA TextSame ==
    ASSUME TextIndex, UNCHANGED <<vectors, sparse>>
    PROVE  TextIndex'
<1>1. UNCHANGED <<vectors, texts, postings, doc_len, total_len>>
  BY DEF sparse
<1>2. PostingsOf(texts)' = PostingsOf(texts') /\ SumOf(texts)' = SumOf(texts')
  BY Zenon DEF PostingsOf, SumOf
<1>3. PostingsOf(texts') = PostingsOf(texts) /\ SumOf(texts') = SumOf(texts)
  BY <1>1
<1>4. doc_len' = [j \in Id |-> IF texts'[j] # None THEN Len(texts'[j]) ELSE None]
  BY <1>1, Zenon DEF TextIndex
<1> QED BY <1>1, <1>2, <1>3, <1>4 DEF TextIndex

LEMMA TextInit == Init => TextIndex
<1> SUFFICES ASSUME Init PROVE TextIndex
  OBVIOUS
<1>1. \A i \in Id : texts[i] = None
  BY DEF Init
<1>2. PostingsOf(texts) = {}
  BY <1>1 DEF PostingsOf
<1>3. SumOf(texts) = 0
  BY <1>1, SumOfNone
<1>4. doc_len = [i \in Id |-> IF texts[i] # None THEN Len(texts[i]) ELSE None]
  BY <1>1 DEF Init
<1> QED BY <1>1, <1>2, <1>3, <1>4 DEF Init, TextIndex

Content == Store /\ TextIndex

LEMMA AnsweredSame ==
    ASSUME NEW op, NEW f, NEW term, NEW k, NEW ids, NEW lists, Answers(op, f, term, k, ids, lists)
    PROVE  UNCHANGED <<metadata, vectors, sparse, next_id>>
BY DEF Answers

(* A step of a query or a return leaves everything but the answer.         *)
LEMMA QueriesChangeNothing ==
    ASSUME NEW f, NEW k, QueryDense(f, k) \/ \E term \in Term : QuerySparse(term, f, k) \/ QueryHybrid(term, f, k)
    PROVE  UNCHANGED <<metadata, vectors, sparse, next_id>>
<1>1. CASE QueryDense(f, k)
  BY <1>1, AnsweredSame, Zenon DEF QueryDense
<1>2. ASSUME NEW term, QuerySparse(term, f, k) PROVE UNCHANGED <<metadata, vectors, sparse, next_id>>
  BY <1>2, AnsweredSame, Zenon DEF QuerySparse
<1>3. ASSUME NEW term, QueryHybrid(term, f, k) PROVE UNCHANGED <<metadata, vectors, sparse, next_id>>
  BY <1>3, AnsweredSame, Zenon DEF QueryHybrid
<1> QED BY <1>1, <1>2, <1>3, Zenon

(* Every step keeps the maps and both indexes. *)
LEMMA ContentStep ==
    ASSUME Content, [Next]_vars
    PROVE  Content'
<1>1. ASSUME NEW e \in Ext, NEW p \in Point, Upsert(e, p) PROVE Content'
  BY <1>1, StoreUpsert, TextUpsert DEF Content
<1>2. ASSUME NEW e \in Ext, Delete(e) PROVE Content'
  BY <1>2, StoreDelete, TextDelete DEF Content
<1>3. CASE Reopen
  BY <1>3, StoreReopen, TextSame DEF Content, Reopen
<1>4. CASE UNCHANGED <<metadata, vectors, sparse, next_id>>
  BY <1>4, StoreSame, TextSame DEF Content
<1>5. CASE Return \/ UNCHANGED vars
  BY <1>4, <1>5 DEF Return, vars
<1>6. ASSUME NEW f, NEW k, QueryDense(f, k) \/ \E term \in Term : QuerySparse(term, f, k) \/ QueryHybrid(term, f, k)
      PROVE  Content'
  BY <1>4, <1>6, QueriesChangeNothing
<1> QED BY <1>1, <1>2, <1>3, <1>5, <1>6, Zenon DEF Next

(* The inductive invariant: in every reachable state the two maps are       *)
(* inverse to each other, no two points share an id, the inverted index has *)
(* the entries of the documents there are and no others, and the text index *)
(* those of the texts. (Collection::upsert_with_text, delete, open)         *)
THEOREM ContentKept == Spec => []Content
<1>1. Init => Content
  BY StoreInit, TextInit DEF Content
<1>2. Content /\ [Next]_vars => Content'
  BY ContentStep
<1> QED BY <1>1, <1>2, PTL DEF Spec

(* The postings, the lengths and their total are in every reachable state   *)
(* those of the texts of points that are there. (Bm25Index::upsert, remove) *)
THEOREM TextsAlwaysCounted == Spec => []TextsCounted
<1>1. Content => TextsCounted
  <2> SUFFICES ASSUME Content PROVE TextsCounted
    OBVIOUS
  <2>1. {i \in Id : texts[i] # None} \subseteq Live
    BY DEF Content, TextIndex, Live
  <2>2. postings = UNION {{<<t, i>> : t \in ToSet(texts[i])} : i \in {i \in Id : texts[i] # None}}
    BY Zenon DEF Content, TextIndex, PostingsOf
  <2>3. \A i \in Id : doc_len[i] = IF i \in {j \in Id : texts[j] # None} THEN Len(texts[i]) ELSE None
    BY DEF Content, TextIndex
  <2>4. total_len = Lengths
    BY LengthsIsSum DEF Content, TextIndex
  <2> QED BY <2>1, <2>2, <2>3, <2>4, Zenon DEF TextsCounted
<1> QED BY <1>1, ContentKept, PTL

-----------------------------------------------------------------------------
(* What the inverted index can tell *)

(* The document of a point. *)
DocOf(i) == by_external[id_map[i]]

(* A point that is there has an external id, which leads back to it. *)
LEMMA LiveIs ==
    ASSUME Store, NEW i \in Live
    PROVE  /\ i \in Id /\ id_map[i] \in Ext /\ ext_to_id[id_map[i]] = i
           /\ id_map[i] # None /\ vectors[i] \in Nat
BY DEF Live, Store, Types, Maps

(* The entries of the inverted index, by the points that are there. *)
LEMMA EntriesLive ==
    ASSUME Store, NEW x
    PROVE  x \in inverted.entries <=>
              \E i \in Live : \E h \in DOMAIN DocOf(i) : x = <<h, DocOf(i)[h], i>>
<1>0. inverted.entries = EntriesOf(by_external, ext_to_id)
  BY DEF Store, IndexFollows
<1>1. ASSUME x \in inverted.entries
      PROVE  \E i \in Live : \E h \in DOMAIN DocOf(i) : x = <<h, DocOf(i)[h], i>>
  <2>1. PICK e \in Ext : ext_to_id[e] # None /\ \E h \in DOMAIN by_external[e] :
                            x = <<h, by_external[e][h], ext_to_id[e]>>
    BY <1>0, <1>1, EntriesAre
  <2>2. PICK i \in Id : i = ext_to_id[e]
    BY <2>1 DEF Store, Types
  <2>3. id_map[i] = e /\ i \in Live
    BY <2>2, Nones DEF Store, Maps, Live
  <2>4. DocOf(i) = by_external[e]
    BY <2>3 DEF DocOf
  <2> QED BY <2>1, <2>2, <2>3, <2>4, Zenon
<1>2. ASSUME NEW i \in Live, \E h \in DOMAIN DocOf(i) : x = <<h, DocOf(i)[h], i>>
      PROVE  x \in inverted.entries
  <2>1. PICK e \in Ext : e = id_map[i] /\ ext_to_id[e] = i
    BY LiveIs
  <2>2. i # None
    BY LiveIs, Nones
  <2>3. ext_to_id[e] # None /\ \E h \in DOMAIN by_external[e] : x = <<h, by_external[e][h], ext_to_id[e]>>
    BY <1>2, <2>1, <2>2, Zenon DEF DocOf
  <2> QED BY <1>0, <2>3, EntriesAre, Zenon
<1> QED BY <1>1, <1>2

(* What ids_in and the ids of a field are. (InvertedIndex::ids_in,          *)
(* ids_with_field)                                                          *)
LEMMA IdsAre ==
    ASSUME Store, NEW field, NEW values, NEW i
    PROVE  /\ i \in IdsIn(inverted, field, values) <=>
                 i \in Live /\ field \in DOMAIN DocOf(i) /\ DocOf(i)[field] \in values
           /\ i \in IdsField(inverted, field) <=> i \in Live /\ field \in DOMAIN DocOf(i)
<1>1. i \in IdsIn(inverted, field, values) <=>
         \E x \in inverted.entries : x[1] = field /\ x[2] \in values /\ x[3] = i
  BY DEF IdsIn
<1>2. i \in IdsField(inverted, field) <=> \E x \in inverted.entries : x[1] = field /\ x[3] = i
  BY DEF IdsField
<1>3. ASSUME NEW x \in inverted.entries, x[3] = i
      PROVE  /\ i \in Live /\ x[1] \in DOMAIN DocOf(i) /\ x[2] = DocOf(i)[x[1]]
  <2>0. PICK j \in Live : \E h \in DOMAIN DocOf(j) : x = <<h, DocOf(j)[h], j>>
    BY EntriesLive, Zenon
  <2>1. PICK h \in DOMAIN DocOf(j) : x = <<h, DocOf(j)[h], j>>
    BY <2>0
  <2>2. x[1] = h /\ x[2] = DocOf(j)[h] /\ x[3] = j
    BY <2>1
  <2>3. j = i
    BY <1>3, <2>2
  <2> QED BY <2>2, <2>3, Zenon
<1>4. ASSUME i \in Live, field \in DOMAIN DocOf(i)
      PROVE  \E x \in inverted.entries : x[1] = field /\ x[2] = DocOf(i)[field] /\ x[3] = i
  <2>1. PICK x : x = <<field, DocOf(i)[field], i>>
    OBVIOUS
  <2>2. x \in inverted.entries
    BY <1>4, <2>1, EntriesLive, Zenon
  <2>3. x[1] = field /\ x[2] = DocOf(i)[field] /\ x[3] = i
    BY <2>1
  <2> QED BY <2>2, <2>3
<1>5. i \in IdsIn(inverted, field, values) <=>
                 i \in Live /\ field \in DOMAIN DocOf(i) /\ DocOf(i)[field] \in values
  BY <1>1, <1>3, <1>4, Zenon
<1>6. i \in IdsField(inverted, field) <=> i \in Live /\ field \in DOMAIN DocOf(i)
  BY <1>2, <1>3, <1>4, Zenon
<1> QED BY <1>5, <1>6

(* What a comparison finds by the index: the points that have the field and *)
(* match.                                                                   *)
LEMMA CompareIs ==
    ASSUME Store, NEW f \in Filter, f.op \notin Combinator,
           NEW E, E = Compare(inverted, f), E # None, NEW i
    PROVE  i \in E <=> i \in Live /\ f.field \in DOMAIN DocOf(i) /\ Holds(f, DocOf(i))
<1>1. f.op \notin Ordering /\ f.op \in Comparison
  <2>1. f.op \notin Ordering
    BY Zenon DEF Compare
  <2> QED BY <2>1, Compares
<1>2. f.op \in {"$eq", "$ne", "$in"}
  BY <1>1 DEF Comparison
<1>3. E = IF f.op = "$in" THEN IdsIn(inverted, f.field, f.value.items)
          ELSE IF f.op = "$eq" THEN IdsIn(inverted, f.field, {f.value})
          ELSE IdsField(inverted, f.field) \ IdsIn(inverted, f.field, {f.value})
  BY Zenon DEF Compare
<1>4. ASSUME f.field \in DOMAIN DocOf(i) PROVE Get(DocOf(i), f.field) = DocOf(i)[f.field]
  BY <1>4, Zenon DEF Get
<1>5. CASE f.op = "$in"
  <2>1. E = IdsIn(inverted, f.field, f.value.items)
    BY <1>3, <1>5, Zenon
  <2>2. Holds(f, DocOf(i)) <=> Get(DocOf(i), f.field) \in f.value.items
    BY <1>1, <1>5 DEF Holds
  <2> QED BY <1>4, <2>1, <2>2, IdsAre, Zenon
<1>6. CASE f.op = "$eq"
  <2>1. E = IdsIn(inverted, f.field, {f.value})
    BY <1>3, <1>6
  <2>2. Holds(f, DocOf(i)) <=> Get(DocOf(i), f.field) = f.value
    BY <1>1, <1>6 DEF Holds
  <2>3. \A v : v \in {f.value} <=> v = f.value
    OBVIOUS
  <2> QED BY <1>4, <2>1, <2>2, <2>3, IdsAre, Zenon
<1>7. CASE f.op = "$ne"
  <2>1. E = IdsField(inverted, f.field) \ IdsIn(inverted, f.field, {f.value})
    BY <1>3, <1>7
  <2>2. Holds(f, DocOf(i)) <=> Get(DocOf(i), f.field) # f.value
    BY <1>1, <1>7 DEF Holds
  <2>3. i \in E <=> i \in IdsField(inverted, f.field) /\ ~ (i \in IdsIn(inverted, f.field, {f.value}))
    BY <2>1
  <2>4. \A v : v \in {f.value} <=> v = f.value
    OBVIOUS
  <2> QED BY <1>4, <2>2, <2>3, <2>4, IdsAre, Zenon
<1> QED BY <1>2, <1>5, <1>6, <1>7

(* What matches a comparison other than "$ne", or by an order, has the      *)
(* field. (Filter::matches)                                                 *)
LEMMA HasField ==
    ASSUME NEW f \in Filter, f.op \notin Combinator, f.op \notin Ordering, NEW doc, Holds(f, doc),
           f.op = "$ne" => f.field \in DOMAIN doc
    PROVE  f.field \in DOMAIN doc
<1>1. f.op \in Comparison /\ f.value # None /\ (f.op = "$in" => None \notin f.value.items)
  BY Compares
<1>2. f.op \in {"$eq", "$ne", "$in"}
  BY <1>1 DEF Comparison
<1>3. f.op # "$ne" => Get(doc, f.field) # None
  <2>1. CASE f.op = "$eq"
    BY <1>1, <2>1 DEF Holds, Ordering
  <2>2. CASE f.op = "$in"
    BY <1>1, <2>2 DEF Holds, Ordering
  <2> QED BY <1>2, <2>1, <2>2
<1> QED BY <1>3, Zenon DEF Get

(* E is an answer to f by the index: only points that match, and all that   *)
(* match and have the fields f compares by "$ne".                           *)
Tells(f, E) ==
    /\ E \subseteq Live
    /\ \A i \in E : Matches(f, DocOf(i))
    /\ \A i \in Live : Matches(f, DocOf(i)) /\ Denied[f] \subseteq DOMAIN DocOf(i) => i \in E

(* The index answers for a combinator when it does for each part. *)
LEMMA PartsTell ==
    ASSUME Store, NEW f \in Filter, f.op \in Combinator, NEW E, E = Eligible(inverted, f), E # None,
           \A p \in f.parts : Eligible(inverted, p) # None => Tells(p, Eligible(inverted, p))
    PROVE  Tells(f, E)
<1> DEFINE sets == {Eligible(inverted, p) : p \in f.parts}
<1>1. E = Met(f.op, sets)
  BY EligibleIs, Zenon
<1>2. ~ (None \in sets) /\ ~ (f.op = "$and" /\ sets = {})
  <2> HIDE DEF sets
  <2> QED BY <1>1, Zenon DEF Met
<1>3. E = IF f.op = "$or" THEN UNION sets ELSE {id \in UNION sets : \A S \in sets : id \in S}
  <2> HIDE DEF sets
  <2> QED BY <1>1, <1>2, Zenon DEF Met
<1>4. \A p \in f.parts : Tells(p, Eligible(inverted, p))
  BY <1>2, Zenon
<1>5. f.parts \subseteq Filter
  BY Parts
<1>6. \A p \in f.parts : Denied[p] \subseteq Denied[f]
  <2>1. Denied[f] = UNION {Denied[p] : p \in f.parts}
    BY DeniedIs
  <2> QED BY <2>1
<1>7. CASE f.op = "$or"
  <2>1. \A i : i \in E <=> \E p \in f.parts : i \in Eligible(inverted, p)
    BY <1>3, <1>7
  <2>2. E \subseteq Live
    BY <1>4, <2>1 DEF Tells
  <2>3. ASSUME NEW i \in E PROVE Matches(f, DocOf(i))
    <3>1. PICK p \in f.parts : i \in Eligible(inverted, p)
      BY <2>1
    <3>2. Matches(p, DocOf(i))
      BY <1>4, <3>1, Zenon DEF Tells
    <3> QED BY <1>7, <3>2, MatchesSome
  <2>4. ASSUME NEW i \in Live, Matches(f, DocOf(i)), Denied[f] \subseteq DOMAIN DocOf(i) PROVE i \in E
    <3>1. PICK p \in f.parts : Matches(p, DocOf(i))
      BY <1>7, <2>4, MatchesSome
    <3>2. Denied[p] \subseteq DOMAIN DocOf(i)
      BY <1>6, <2>4
    <3>3. i \in Eligible(inverted, p)
      BY <1>4, <3>1, <3>2, Zenon DEF Tells
    <3> QED BY <2>1, <3>3
  <2> QED BY <2>2, <2>3, <2>4, Zenon DEF Tells
<1>8. CASE f.op # "$or"
  <2>0. f.op = "$and"
    BY <1>8 DEF Combinator
  <2>1. E = {id \in UNION sets : \A S \in sets : id \in S}
    BY <1>3, <1>8, Zenon
  <2>2. PICK q \in f.parts : TRUE
    BY <1>2, <2>0
  <2>3. \A i : i \in E <=> \A p \in f.parts : i \in Eligible(inverted, p)
    <3>1. \A i : i \in E <=> i \in UNION sets /\ \A p \in f.parts : i \in Eligible(inverted, p)
      BY <2>1
    <3>2. \A i : i \in Eligible(inverted, q) => i \in UNION sets
      BY <2>2
    <3> QED BY <2>2, <3>1, <3>2, Zenon
  <2>4. E \subseteq Live
    BY <1>4, <2>2, <2>3 DEF Tells
  <2>5. ASSUME NEW i \in E PROVE Matches(f, DocOf(i))
    <3>1. \A p \in f.parts : Matches(p, DocOf(i))
      BY <1>4, <2>3, Zenon DEF Tells
    <3> QED BY <2>0, <3>1, MatchesAll
  <2>6. ASSUME NEW i \in Live, Matches(f, DocOf(i)), Denied[f] \subseteq DOMAIN DocOf(i) PROVE i \in E
    <3>1. \A p \in f.parts : Matches(p, DocOf(i))
      BY <2>0, <2>6, MatchesAll
    <3>2. \A p \in f.parts : Denied[p] \subseteq DOMAIN DocOf(i)
      BY <1>6, <2>6
    <3>3. \A p \in f.parts : i \in Eligible(inverted, p)
      BY <1>4, <3>1, <3>2, Zenon DEF Tells
    <3> QED BY <2>3, <3>3
  <2> QED BY <2>4, <2>5, <2>6, Zenon DEF Tells
<1> QED BY <1>7, <1>8

(* What the inverted index makes of a filter, when it can tell: only points *)
(* that match by the documents they have now, and all of those that have    *)
(* the fields it compares by "$ne". (MetadataStore::eligible_ids)           *)
LEMMA EligibleTells ==
    ASSUME Store, NEW f \in Filter, Eligible(inverted, f) # None
    PROVE  Tells(f, Eligible(inverted, f))
<1> DEFINE Told(g) == Eligible(inverted, g) # None => Tells(g, Eligible(inverted, g))
           S == {g \in Filter : ~ Told(g)}
<1>1. S = {}
  <2> SUFFICES ASSUME S # {} PROVE FALSE
    OBVIOUS
  <2>1. PICK g \in S : g.op \in Combinator => g.parts \cap S = {}
    <3>1. S \in SUBSET Filter
      OBVIOUS
    <3> HIDE DEF S
    <3> QED BY <3>1, LeastFilter
  <2>2. g \in Filter /\ Eligible(inverted, g) # None
    BY Zenon
  <2>3. CASE g.op \in Combinator
    <3>1. g.parts \subseteq Filter
      BY <2>2, <2>3, Parts
    <3>2. \A p \in g.parts : Told(p)
      <4>1. \A p \in g.parts : p \in Filter /\ p \notin S
        BY <2>1, <2>3, <3>1
      <4> HIDE DEF Told
      <4> QED BY <4>1
    <3>3. Tells(g, Eligible(inverted, g))
      BY <2>2, <2>3, <3>2, PartsTell, Zenon
    <3> QED BY <3>3, Zenon
  <2>4. CASE g.op \notin Combinator
    <3>1. PICK E : E = Eligible(inverted, g)
      OBVIOUS
    <3>2. E = Compare(inverted, g) /\ E # None
      BY <2>2, <2>4, <3>1, EligibleIs, Zenon
    <3>3. \A i : i \in E <=> i \in Live /\ g.field \in DOMAIN DocOf(i) /\ Holds(g, DocOf(i))
      BY <2>2, <2>4, <3>2, CompareIs
    <3>4. g.op = "$ne" => Denied[g] = {g.field}
      BY <2>2, <2>4, DeniedIs
    <3>5. \A i : Matches(g, DocOf(i)) <=> Holds(g, DocOf(i))
      BY <2>2, <2>4, MatchesHolds
    <3>6. E \subseteq Live
      BY <3>3
    <3>7. \A i : Holds(g, DocOf(i)) /\ Denied[g] \subseteq DOMAIN DocOf(i) => g.field \in DOMAIN DocOf(i)
      <4>1. g.op \notin Ordering
        BY <3>2, Zenon DEF Compare
      <4>2. \A i : Denied[g] \subseteq DOMAIN DocOf(i) => (g.op = "$ne" => g.field \in DOMAIN DocOf(i))
        BY <3>4
      <4> QED BY <2>2, <2>4, <4>1, <4>2, HasField, Zenon
    <3>8. Tells(g, E)
      BY <3>3, <3>5, <3>6, <3>7, Zenon DEF Tells
    <3> QED BY <3>1, <3>8, Zenon
  <2> QED BY <2>3, <2>4
<1> HIDE DEF Told
<1>2. Told(f)
  BY <1>1
<1> QED BY <1>2 DEF Told

-----------------------------------------------------------------------------
(* Dense answers *)

Cand(i) == [id |-> i, distance |-> vectors[i]]

(* Candidates, and what they are of. *)
LEMMA CandIs ==
    ASSUME NEW i
    PROVE  Cand(i).id = i /\ Cand(i).distance = vectors[i]
BY DEF Cand

LEMMA CandidatesAre ==
    ASSUME NEW S
    PROVE  /\ \A c : c \in Candidates(S) <=> c.id \in S /\ c = Cand(c.id)
           /\ \A i \in S : Cand(i) \in Candidates(S)
BY CandIs DEF Candidates, Cand

(* There are finitely many ids. *)
LEMMA IdFinite == IsFiniteSet(Id) /\ Cardinality(Id) = MaxId
<1>1. 0 \in Int /\ MaxId - 1 \in Int /\ MaxId \in Nat
  BY Numbers
<1>2. IsFiniteSet(0 .. MaxId - 1) /\ Cardinality(0 .. MaxId - 1) = IF 0 > MaxId - 1 THEN 0 ELSE (MaxId - 1) - 0 + 1
  BY <1>1, FS_Interval
<1> QED BY <1>1, <1>2 DEF Id

LEMMA LiveFinite ==
    ASSUME NEW S \in SUBSET Id
    PROVE  IsFiniteSet(S) /\ Cardinality(S) \in Nat /\ Cardinality(S) <= MaxId
BY IdFinite, FS_Subset, FS_CardinalityType

IdsOf(R) == {c.id : c \in R}

(* Candidates are as many as their ids. *)
LEMMA IdsCounted ==
    ASSUME NEW S \in SUBSET Id, NEW R \in SUBSET Candidates(S), NEW ids, ids = IdsOf(R)
    PROVE  /\ IsFiniteSet(R) /\ Cardinality(R) = Cardinality(ids) /\ Cardinality(R) \in Nat
           /\ ids \subseteq S
           /\ \A i : i \in ids <=> Cand(i) \in R
<1>1. \A i : i \in ids <=> Cand(i) \in R
  BY CandidatesAre, CandIs DEF IdsOf
<1>2. \A c \in R : c.id \in S /\ c = Cand(c.id)
  BY CandidatesAre
<1>3. ids \subseteq S /\ ids \in SUBSET Id
  BY <1>2 DEF IdsOf
<1>4. IsFiniteSet(ids) /\ Cardinality(ids) \in Nat
  BY <1>3, LiveFinite
<1>5. ExistsBijection(ids, R)
  <2> DEFINE b == [i \in ids |-> Cand(i)]
  <2>1. b \in [ids -> R]
    BY <1>1
  <2>2. \A i, j \in ids : b[i] = b[j] => i = j
    BY CandIs
  <2>3. \A c \in R : \E i \in ids : b[i] = c
    <3>1. \A c \in R : c.id \in ids /\ b[c.id] = Cand(c.id)
      BY DEF IdsOf
    <3> HIDE DEF b
    <3> QED BY <1>2, <3>1
  <2> HIDE DEF b
  <2>4. b \in Bijection(ids, R)
    BY <2>1, <2>2, <2>3 DEF Bijection, Injection, Surjection, IsInjective
  <2> QED BY <2>4 DEF ExistsBijection
<1>6. IsFiniteSet(R) /\ Cardinality(R) = Cardinality(ids)
  BY <1>4, <1>5, FS_Bijection
<1> QED BY <1>1, <1>3, <1>4, <1>6

(* There are as many candidates as ids. *)
LEMMA AllFinite ==
    ASSUME NEW S \in SUBSET Id
    PROVE  IsFiniteSet(Candidates(S)) /\ Cardinality(Candidates(S)) = Cardinality(S)
<1>1. PICK R : R = Candidates(S)
  OBVIOUS
<1>2. PICK ids : ids = IdsOf(R)
  OBVIOUS
<1>3. R \in SUBSET Candidates(S)
  BY <1>1
<1>4. /\ IsFiniteSet(R) /\ Cardinality(R) = Cardinality(ids)
      /\ ids \subseteq S /\ \A i : i \in ids <=> Cand(i) \in R
  BY <1>2, <1>3, IdsCounted
<1>5. ids = S
  BY <1>1, <1>4, CandidatesAre
<1> QED BY <1>1, <1>4, <1>5

(* Where a query looks: what the index of documents gives, or everything.   *)
Asked(f) == IF EligibleIds(f) = None THEN Live ELSE EligibleIds(f) \cap Live

(* Where a query looks are points that are there, among them all it must    *)
(* find; with the index of documents, or without a filter, all of them      *)
(* pass.                                                                    *)
LEMMA AskedIs ==
    ASSUME Store, NEW f \in Filter \cup {None}
    PROVE  /\ Asked(f) \subseteq Live /\ Asked(f) \in SUBSET Id
           /\ Certain(f) \subseteq Asked(f)
           /\ f = None \/ EligibleIds(f) # None => \A i \in Asked(f) : Passes(f, i)
<1>0. Live \subseteq Id /\ Certain(f) \subseteq Live
  BY DEF Live, Certain, Matching
<1>1. CASE f = None
  BY <1>0, <1>1, Zenon DEF Asked, EligibleIds, Passes
<1>2. CASE f # None /\ EligibleIds(f) = None
  BY <1>0, <1>2, Zenon DEF Asked
<1>3. CASE f # None /\ EligibleIds(f) # None
  <2>1. EligibleIds(f) = Eligible(inverted, f) /\ f \in Filter
    BY <1>3 DEF EligibleIds
  <2>2. Tells(f, EligibleIds(f))
    BY <1>3, <2>1, EligibleTells
  <2>3. Asked(f) = EligibleIds(f) /\ Asked(f) \subseteq Live
    BY <1>3, <2>2 DEF Asked, Tells
  <2>4. ASSUME NEW i \in Certain(f) PROVE i \in Asked(f)
    <3>1. i \in Live /\ Matches(f, DocOf(i)) /\ Denied[f] \subseteq DOMAIN DocOf(i)
      BY <1>3 DEF Certain, Matching, DocOf
    <3> QED BY <2>2, <2>3, <3>1, Zenon DEF Tells
  <2>5. \A i \in Asked(f) : Passes(f, i)
    BY <2>2, <2>3, Zenon DEF Tells, Passes, DocOf
  <2> QED BY <1>0, <2>3, <2>4, <2>5
<1> QED BY <1>1, <1>2, <1>3

(* What the vector index, or the scan of the eligible, gives.               *)
(* (Collection::query, query_exact_eligible)                                *)
LEMMA HitsAre ==
    ASSUME Store, NEW f \in Filter \cup {None}, NEW k \in Nat, NEW H \in Hits(f, k)
    PROVE  /\ H \subseteq Candidates(Asked(f))
           /\ Exact /\ k > 0 =>
                 \/ FetchK(f, k) = k /\ Keeps(H, Candidates(Asked(f)), k)
                 \/ EligibleIds(f) = None /\ Keeps(H, Candidates(Asked(f)), FetchK(f, k))
<1>1. PICK E : E = EligibleIds(f)
  OBVIOUS
<1>2. PICK T : T = Asked(f) /\ T \subseteq Live /\ T \subseteq Id
  BY AskedIs
<1>3. E # None => {i \in Live : Uid(i) \in E} = T /\ E \cap Live = T
  <2>1. \A i \in Live : Uid(i) = i
    BY UidIs DEF Live
  <2> QED BY <1>1, <1>2, <2>1 DEF Asked
<1>4. (IF E = None THEN Live ELSE {i \in Live : Uid(i) \in E}) = T
  BY <1>1, <1>2, <1>3 DEF Asked
<1>5. \/ E # None /\ H \in Kept(Candidates(T), AtLeastOne(k))
      \/ Exact /\ H \in Kept(Candidates(T), FetchK(f, k))
      \/ ~ Exact /\ H \in SUBSET Candidates(T)
  <2>1. H \in IF E # None /\ Cardinality(E) <= ExactLimit[k]
              THEN Kept(Candidates(E \cap Live), AtLeastOne(k))
              ELSE IF Exact THEN Kept(Candidates(T), FetchK(f, k))
              ELSE {G \in SUBSET Candidates(T) : Cardinality(G) <= FetchK(f, k)}
    BY <1>1, <1>4, Zenon DEF Hits
  <2>2. CASE E # None /\ Cardinality(E) <= ExactLimit[k]
    BY <1>3, <2>1, <2>2, Zenon
  <2>3. CASE ~ (E # None /\ Cardinality(E) <= ExactLimit[k]) /\ Exact
    BY <2>1, <2>3, Zenon
  <2>4. CASE ~ (E # None /\ Cardinality(E) <= ExactLimit[k]) /\ ~ Exact
    <3>1. H \in {G \in SUBSET Candidates(T) : Cardinality(G) <= FetchK(f, k)}
      BY <2>1, <2>4, Zenon
    <3> QED BY <2>4, <3>1
  <2> QED BY <2>2, <2>3, <2>4
<1>6. \A n : \A G \in Kept(Candidates(T), n) : G \subseteq Candidates(T) /\ Keeps(G, Candidates(T), n)
  BY DEF Kept
<1>7. H \subseteq Candidates(T)
  BY <1>5, <1>6
<1>8. ASSUME Exact, k > 0
      PROVE  \/ FetchK(f, k) = k /\ Keeps(H, Candidates(T), k)
             \/ EligibleIds(f) = None /\ Keeps(H, Candidates(T), FetchK(f, k))
  <2>1. AtLeastOne(k) = k
    BY <1>8 DEF AtLeastOne
  <2>2. E # None => FetchK(f, k) = k
    BY <1>1, Zenon DEF FetchK
  <2>3. (E # None /\ Keeps(H, Candidates(T), k)) \/ Keeps(H, Candidates(T), FetchK(f, k))
    BY <1>5, <1>6, <1>8, <2>1
  <2> QED BY <1>1, <2>2, <2>3
<1> QED BY <1>2, <1>7, <1>8

(* A subset that keeps as many as there are is everything. *)
LEMMA KeepsAll ==
    ASSUME NEW S, IsFiniteSet(S), NEW k \in Nat, NEW R, Keeps(R, S, k), Cardinality(S) <= k
    PROVE  R = S
<1>1. R \in SUBSET S /\ Cardinality(R) <= k /\ (Cardinality(R) < k => R = S)
  BY DEF Keeps
<1>2. Cardinality(R) \in Nat /\ Cardinality(S) \in Nat /\ Cardinality(R) <= Cardinality(S)
      /\ (Cardinality(S) = Cardinality(R) => R = S)
  BY <1>1, FS_Subset, FS_CardinalityType
<1> QED BY <1>1, <1>2

(* The answer of a dense query: only what matches, at most k, and with an   *)
(* exact index and room for all that passes the nearest.                    *)
RightDense(f, k, ids) ==
    /\ ids \subseteq Matching(f)
    /\ k > 0 => /\ Cardinality(ids) <= k
                /\ Exact /\ Whole(f, k) =>
                      \A out \in Certain(f) \ ids :
                          /\ Cardinality(ids) = k
                          /\ \A in \in ids : vectors[in] <= vectors[out]

(* Every answer of a dense query is right. (Collection::query,              *)
(* finish_query)                                                            *)
LEMMA DenseIs ==
    ASSUME Store, NEW f \in Filter \cup {None}, NEW k \in Nat, NEW ids \in Dense(f, k)
    PROVE  RightDense(f, k, ids)
<1>1. PICK H \in Hits(f, k) : \E R \in Finished(H, f, k) : ids = IdsOf(R)
  BY DEF Dense, IdsOf
<1>2. PICK R \in Finished(H, f, k) : ids = IdsOf(R)
  BY <1>1
<1>3. PICK T \in SUBSET Id : T = Asked(f)
  BY AskedIs
<1>4. PICK A : A = {c \in H : Passes(f, c.id)}
  OBVIOUS
<1>5. H \subseteq Candidates(T) /\ A \subseteq H /\ R \subseteq A /\ Keeps(R, A, AtLeastOne(k))
  BY <1>2, <1>3, <1>4, HitsAre DEF Finished, Kept
<1>6. R \in SUBSET Candidates(T)
  BY <1>5
<1>7. /\ IsFiniteSet(R) /\ Cardinality(R) = Cardinality(ids) /\ Cardinality(R) \in Nat
      /\ ids \subseteq T
      /\ \A i : i \in ids <=> Cand(i) \in R
  BY <1>2, <1>6, IdsCounted
<1>8. IsFiniteSet(Candidates(T)) /\ Cardinality(Candidates(T)) = Cardinality(T)
  BY AllFinite
<1>9. IsFiniteSet(H) /\ IsFiniteSet(A)
  BY <1>5, <1>8, FS_Subset
<1>10. ids \subseteq Matching(f)
  <2>1. SUFFICES ASSUME NEW i \in ids PROVE i \in Matching(f)
    OBVIOUS
  <2>2. Cand(i) \in A /\ Cand(i).id = i
    BY <1>5, <1>7, CandIs
  <2>3. Passes(f, i)
    BY <1>4, <2>2
  <2>4. i \in Live /\ id_map[i] # None
    BY <1>3, <1>7, AskedIs, LiveIs
  <2>5. f = None \/ Matches(f, by_external[id_map[i]])
    BY <2>3, <2>4, Zenon DEF Passes
  <2> QED BY <2>4, <2>5 DEF Matching
<1>11. ASSUME k > 0 PROVE Cardinality(ids) <= k /\ Keeps(R, A, k)
  BY <1>5, <1>7, <1>11 DEF AtLeastOne, Keeps
<1>12. ASSUME k > 0 /\ Exact /\ Whole(f, k)
       PROVE  \A out \in Certain(f) \ ids :
                 Cardinality(ids) = k /\ \A in \in ids : vectors[in] <= vectors[out]
  <2>0. Certain(f) \subseteq T /\ T \subseteq Live
    BY <1>3, AskedIs
  <2>1. PICK B : Keeps(R, B, k) /\ \A out \in Certain(f) : Cand(out) \in B
    <3>1. \A out \in Certain(f) : Cand(out) \in Candidates(T) /\ Cand(out).id = out
      BY <2>0, CandidatesAre, CandIs
    <3>2. CASE f = None \/ EligibleIds(f) # None
      <4>1. FetchK(f, k) = k
        BY <3>2, Zenon DEF FetchK
      <4>2. Keeps(H, Candidates(T), k)
        BY <1>3, <1>12, <4>1, HitsAre
      <4>3. A = H
        <5>1. \A c \in H : c.id \in T
          BY <1>5, CandidatesAre
        <5>2. \A i \in T : Passes(f, i)
          BY <1>3, <3>2, AskedIs
        <5> QED BY <1>4, <5>1, <5>2
      <4>4. Cardinality(A) <= k
        BY <4>2, <4>3 DEF Keeps
      <4>5. R = A
        BY <1>9, <1>11, <1>12, <4>4, KeepsAll
      <4>6. Keeps(R, Candidates(T), k)
        BY <4>2, <4>3, <4>5
      <4> QED BY <3>1, <4>6
    <3>3. CASE f # None /\ EligibleIds(f) = None
      <4>1. PICK n \in Nat : n = FetchK(f, k) /\ n > k
        <5>1. FetchK(f, k) = Overfetch * k
          BY <3>3, Zenon DEF FetchK
        <5>2. Overfetch \in Nat /\ Overfetch > 1
          BY QueryAssumption
        <5>3. Overfetch * k \in Nat /\ Overfetch * k = (Overfetch - 2) * k + 2 * k /\ (Overfetch - 2) * k \in Nat
          BY <5>2
        <5> QED BY <1>12, <5>1, <5>3
      <4>2. Keeps(H, Candidates(T), n)
        BY <1>3, <1>12, <4>1, HitsAre
      <4>3. T = Live /\ Cardinality(T) <= n
        BY <1>3, <1>12, <3>3, <4>1 DEF Asked, Whole
      <4>4. H = Candidates(T)
        BY <1>8, <4>1, <4>2, <4>3, KeepsAll
      <4>5. \A out \in Certain(f) : Passes(f, out)
        BY DEF Certain, Matching, Passes
      <4>6. \A out \in Certain(f) : Cand(out) \in A
        BY <1>4, <3>1, <4>4, <4>5
      <4> QED BY <1>11, <1>12, <4>6
    <3> QED BY <3>2, <3>3
  <2>2. ASSUME NEW out \in Certain(f) \ ids
        PROVE  Cardinality(ids) = k /\ \A in \in ids : vectors[in] <= vectors[out]
    <3>1. Cand(out) \in B /\ Cand(out) \notin R
      BY <1>7, <2>1
    <3>2. /\ Cardinality(R) <= k /\ (Cardinality(R) < k => R = B)
          /\ \A in \in R : in.distance <= Cand(out).distance
      BY <2>1, <3>1 DEF Keeps
    <3>3. Cardinality(ids) = k
      BY <1>7, <3>1, <3>2
    <3>4. ASSUME NEW in \in ids PROVE vectors[in] <= vectors[out]
      <4>1. Cand(in) \in R
        BY <1>7
      <4>2. Cand(in).distance <= Cand(out).distance
        BY <3>2, <4>1
      <4> QED BY <4>2, CandIs
    <3> QED BY <3>3, <3>4
  <2> QED BY <2>2, Zenon
<1> QED BY <1>10, <1>11, <1>12, Zenon DEF RightDense

-----------------------------------------------------------------------------
(* Fused answers *)

(* A ranked list: ids, none twice. *)
Ranking(list) == list \in Seq(Id) /\ Len(list) <= MaxId /\ OnePlaceEach(list)

(* A ranking, place by place. *)
LEMMA RankingIs ==
    ASSUME NEW list, Ranking(list)
    PROVE  /\ Len(list) \in Nat /\ Len(list) \in 0 .. MaxId /\ DOMAIN list = 1 .. Len(list)
           /\ \A n \in 1 .. Len(list) : list[n] \in Id /\ n \in 1 .. MaxId
<1>1. list \in Seq(Id) /\ Len(list) <= MaxId /\ MaxId \in Nat
  BY Numbers DEF Ranking
<1>2. Len(list) \in Nat /\ DOMAIN list = 1 .. Len(list)
  BY <1>1, LenProperties
<1>3. \A n \in 1 .. Len(list) : list[n] \in Id
  BY <1>1, ElementOfSeq
<1> QED BY <1>1, <1>2, <1>3

(* The ways to put ids in order, and the first n of one, are rankings. *)
LEMMA SeqsAre ==
    ASSUME NEW S \in SUBSET Id, NEW s \in SetToSeqs(S)
    PROVE  Ranking(s) /\ \A n \in 1 .. Len(s) : s[n] \in S
<1>1. PICK c \in Nat : c = Cardinality(S) /\ c <= MaxId
  BY LiveFinite
<1>2. s \in [1 .. c -> S] /\ \A m, n \in 1 .. c : m # n => s[m] # s[n]
  BY <1>1 DEF SetToSeqs
<1>3. s \in Seq(Id) /\ Len(s) = c
  <2>1. s \in [1 .. c -> Id]
    BY <1>2
  <2> QED BY <2>1, LenProperties
<1> QED BY <1>1, <1>2, <1>3 DEF Ranking, OnePlaceEach

LEMMA TruncatedIs ==
    ASSUME NEW s, Ranking(s), NEW n \in Nat
    PROVE  Ranking(Truncated(s, n)) /\ \A m \in 1 .. Len(Truncated(s, n)) : \E r \in 1 .. Len(s) : Truncated(s, n)[m] = s[r]
<1>0. PICK t : t = Truncated(s, n)
  OBVIOUS
<1>1. CASE Len(s) <= n
  BY <1>1, Zenon DEF Truncated
<1>2. CASE ~ (Len(s) <= n)
  <2>1. t = SubSeq(s, 1, n)
    BY <1>0, <1>2, Zenon DEF Truncated
  <2>2. PICK l \in Nat : l = Len(s) /\ n < l /\ l <= MaxId /\ MaxId \in Nat
    BY <1>2, RankingIs, Numbers
  <2>3. s \in Seq(Id) /\ \A m \in 1 .. l : s[m] \in Id
    BY <2>2, RankingIs DEF Ranking
  <2>4. Len(t) = n /\ t \in Seq(Id) /\ \A m \in 1 .. n : t[m] = s[m]
    BY <2>1, <2>2, <2>3
  <2>5. \A a, b \in 1 .. n : t[a] = t[b] => a = b
    BY <2>2, <2>4 DEF Ranking, OnePlaceEach
  <2>6. Ranking(t)
    BY <2>2, <2>4, <2>5 DEF Ranking, OnePlaceEach
  <2>7. \A m \in 1 .. Len(t) : m \in 1 .. l /\ t[m] = s[m]
    BY <2>2, <2>4
  <2> QED BY <1>0, <2>2, <2>6, <2>7
<1> QED BY <1>1, <1>2

(* What has a term of the query is there. *)
LEMMA RelevantLive ==
    ASSUME TextIndex, NEW term
    PROVE  Relevant(term) \subseteq Live
<1>1. ASSUME NEW p \in postings PROVE p[2] \in Live
  <2>1. PICK j \in Id : texts[j] # None /\ \E t \in ToSet(texts[j]) : p = <<t, j>>
    BY PostingsAre DEF TextIndex
  <2>2. p[2] = j
    BY <2>1
  <2> QED BY <2>1, <2>2 DEF TextIndex, Live
<1> QED BY <1>1 DEF Relevant

(* The text side of a hybrid query: points that match. *)
LEMMA TextSide ==
    ASSUME Content, NEW f \in Filter \cup {None}, NEW term, NEW n \in Nat,
           NEW ranked \in Ranked(Relevant(term), n), NEW kept, kept = Filtered(ranked, f)
    PROVE  Ranking(kept) /\ \A m \in 1 .. Len(kept) : kept[m] \in Matching(f)
<1>1. PICK S : S = Relevant(term) /\ S \subseteq Live /\ S \in SUBSET Id
  BY RelevantLive DEF Content, Live
<1>2. PICK s \in SetToSeqs(S) : ranked = Truncated(s, n)
  BY <1>1 DEF Ranked
<1>3. Ranking(s) /\ \A m \in 1 .. Len(s) : s[m] \in S
  BY <1>1, SeqsAre
<1>4. Ranking(ranked) /\ \A m \in 1 .. Len(ranked) : \E r \in 1 .. Len(s) : ranked[m] = s[r]
  BY <1>2, <1>3, TruncatedIs
<1>5. ranked \in Seq(Id) /\ OnePlaceEach(ranked)
  BY <1>4 DEF Ranking
<1>6. /\ kept \in Seq(Id) /\ Len(kept) <= Len(ranked) /\ OnePlaceEach(kept)
      /\ \A m \in 1 .. Len(kept) : Wanted(f, kept[m]) /\ \E r \in 1 .. Len(ranked) : kept[m] = ranked[r]
  <2>1. kept = Filtered(ranked, f)
    OBVIOUS
  <2>2. Sifted(f, ranked, kept)
    BY <1>5, <2>1, FilteredIs
  <2> QED BY <2>2, Zenon DEF Sifted
<1>7. Ranking(kept)
  <2>1. Len(kept) \in Nat /\ Len(ranked) \in Nat /\ Len(ranked) <= MaxId /\ MaxId \in Nat
    BY <1>4, <1>6, RankingIs, Numbers, LenProperties DEF Ranking
  <2> QED BY <1>6, <2>1 DEF Ranking
<1>8. ASSUME NEW m \in 1 .. Len(kept) PROVE kept[m] \in Matching(f)
  <2>1. PICK i : i = kept[m]
    OBVIOUS
  <2>2. i \in Live /\ Wanted(f, i)
    BY <1>1, <1>3, <1>4, <1>6, <2>1
  <2>3. f = None \/ Matches(f, by_external[id_map[i]])
    BY <2>2, Zenon DEF Wanted, Passes
  <2> QED BY <2>1, <2>2, <2>3 DEF Matching
<1> QED BY <1>7, <1>8

(* A ranking has as many ids as places. *)
LEMMA RankingCount ==
    ASSUME NEW s, Ranking(s)
    PROVE  IsFiniteSet(ToSet(s)) /\ Cardinality(ToSet(s)) = Len(s)
<1>1. PICK l \in Nat : l = Len(s) /\ DOMAIN s = 1 .. l
  BY RankingIs
<1>2. IsFiniteSet(1 .. l) /\ Cardinality(1 .. l) = l
  <2>1. 1 \in Int /\ l \in Int
    OBVIOUS
  <2>2. IsFiniteSet(1 .. l) /\ Cardinality(1 .. l) = IF 1 > l THEN 0 ELSE l - 1 + 1
    BY <2>1, FS_Interval
  <2> QED BY <2>2
<1>3. ExistsBijection(1 .. l, ToSet(s))
  <2> DEFINE b == [n \in 1 .. l |-> s[n]]
  <2>1. b \in [1 .. l -> ToSet(s)] /\ \A x \in ToSet(s) : \E n \in 1 .. l : b[n] = x
    BY <1>1 DEF ToSet
  <2>2. \A m, n \in 1 .. l : b[m] = b[n] => m = n
    BY <1>1 DEF Ranking, OnePlaceEach
  <2> HIDE DEF b
  <2>3. b \in Bijection(1 .. l, ToSet(s))
    BY <2>1, <2>2 DEF Bijection, Injection, Surjection, IsInjective
  <2> QED BY <2>3 DEF ExistsBijection
<1> QED BY <1>1, <1>2, <1>3, FS_Bijection

(* Ids put in order are all there. *)
LEMMA SeqsCover ==
    ASSUME NEW S \in SUBSET Id, NEW s \in SetToSeqs(S)
    PROVE  ToSet(s) = S /\ Len(s) = Cardinality(S)
<1>1. PICK c \in Nat : c = Cardinality(S) /\ IsFiniteSet(S)
  BY LiveFinite
<1>2. Ranking(s) /\ \A n \in 1 .. Len(s) : s[n] \in S
  BY SeqsAre
<1>3. s \in [1 .. c -> S]
  BY <1>1 DEF SetToSeqs
<1>4. DOMAIN s = 1 .. Len(s) /\ Len(s) \in Nat
  BY <1>2, RankingIs
<1>5. Len(s) = c
  <2>1. PICK l \in Nat : l = Len(s)
    BY <1>4
  <2>2. 1 .. l = 1 .. c
    BY <1>3, <1>4, <2>1
  <2>3. \A n \in Nat : n \in 1 .. l <=> n \in 1 .. c
    BY <2>2
  <2>4. ~ (l < c)
    <3>1. c \in 1 .. c <=> c \in 1 .. l
      BY <2>3
    <3> QED BY <3>1
  <2>5. ~ (c < l)
    <3>1. l \in 1 .. c <=> l \in 1 .. l
      BY <2>3
    <3> QED BY <3>1
  <2> QED BY <2>1, <2>4, <2>5
<1>6. ToSet(s) \subseteq S
  BY <1>2, <1>4 DEF ToSet
<1>7. Cardinality(ToSet(s)) = c
  BY <1>2, <1>5, RankingCount
<1>8. ToSet(s) = S
  BY <1>1, <1>6, <1>7, FS_Subset
<1> QED BY <1>1, <1>5, <1>8

(* A list cut after n is itself or has n places. *)
LEMMA TruncatedLength ==
    ASSUME NEW s, Ranking(s), NEW n \in Nat
    PROVE  (Len(s) <= n /\ Truncated(s, n) = s) \/ Len(Truncated(s, n)) = n
<1>1. CASE Len(s) <= n
  BY <1>1, Zenon DEF Truncated
<1>2. CASE ~ (Len(s) <= n)
  <2>1. Truncated(s, n) = SubSeq(s, 1, n)
    BY <1>2, Zenon DEF Truncated
  <2>2. PICK l \in Nat : l = Len(s) /\ n < l
    BY <1>2, RankingIs
  <2>3. s \in Seq(Id)
    BY DEF Ranking
  <2> QED BY <2>1, <2>2, <2>3
<1> QED BY <1>1, <1>2

(* The postings of a term are those of the points whose text has it.        *)
(* (Bm25Index::search)                                                      *)
LEMMA RelevantIs ==
    ASSUME TextIndex, NEW term
    PROVE  Relevant(term) = Having(term)
<1>1. ASSUME NEW i \in Relevant(term) PROVE i \in Having(term)
  <2>1. PICK p \in postings : p[1] = term /\ p[2] = i
    BY <1>1 DEF Relevant
  <2>2. PICK j \in Id : texts[j] # None /\ \E t \in ToSet(texts[j]) : p = <<t, j>>
    BY <2>1, PostingsAre DEF TextIndex
  <2>3. j = i /\ term \in ToSet(texts[i])
    BY <2>1, <2>2
  <2>4. i \in Live
    BY <1>1, RelevantLive
  <2> QED BY <2>2, <2>3, <2>4 DEF Having
<1>2. ASSUME NEW i \in Having(term) PROVE i \in Relevant(term)
  <2>1. i \in Id /\ texts[i] # None /\ term \in ToSet(texts[i])
    BY <1>2 DEF Having, Live
  <2>2. PICK p : p = <<term, i>>
    OBVIOUS
  <2>3. p \in postings
    BY <2>1, <2>2, PostingsAre, Zenon DEF TextIndex
  <2>4. p[1] = term /\ p[2] = i
    BY <2>2
  <2> QED BY <2>3, <2>4 DEF Relevant
<1> QED BY <1>1, <1>2

(* The answer of a query by text: at most k of those that have the term and *)
(* match, all of them when they are fewer and what was fetched is all.      *)
RightText(f, term, k, ids) ==
    LET right == Having(term) \cap Matching(f)
    IN  /\ ids \subseteq right
        /\ Cardinality(ids) <= k
        /\ Cardinality(Having(term)) <= Prefetch * k => ids = right \/ Cardinality(ids) = k

(* Every answer by text is right. (Collection::query_sparse)                *)
LEMMA TextIs ==
    ASSUME Content, NEW f \in Filter \cup {None}, NEW term, NEW k \in Nat,
           NEW list \in Ranked(Relevant(term), Prefetch * k),
           NEW ids, ids = ToSet(Truncated(Filtered(list, f), k))
    PROVE  RightText(f, term, k, ids)
<1>0. PICK n \in Nat : n = Prefetch * k
  BY Numbers
<1>1. PICK S : S = Having(term) /\ S = Relevant(term) /\ S \subseteq Live /\ S \in SUBSET Id
  BY RelevantIs DEF Content, Having, Live
<1>2. PICK s \in SetToSeqs(S) : list = Truncated(s, n)
  BY <1>0, <1>1 DEF Ranked
<1>3. Ranking(s) /\ ToSet(s) = S /\ Len(s) = Cardinality(S) /\ \A m \in 1 .. Len(s) : s[m] \in S
  BY <1>1, SeqsAre, SeqsCover
<1>4. Ranking(list) /\ \A m \in 1 .. Len(list) : \E r \in 1 .. Len(s) : list[m] = s[r]
  BY <1>2, <1>3, TruncatedIs
<1>5. PICK kept : kept = Filtered(list, f)
  OBVIOUS
<1>6. Ranking(kept) /\ \A m \in 1 .. Len(kept) : kept[m] \in Matching(f)
  BY <1>0, <1>5, TextSide
<1>7. /\ \A m \in 1 .. Len(kept) : \E r \in 1 .. Len(list) : kept[m] = list[r]
      /\ \A r \in 1 .. Len(list) : Wanted(f, list[r]) => \E m \in 1 .. Len(kept) : kept[m] = list[r]
  <2>1. list \in Seq(Id) /\ OnePlaceEach(list)
    BY <1>4 DEF Ranking
  <2>2. Sifted(f, list, kept)
    BY <1>5, <2>1, FilteredIs
  <2> QED BY <2>2, Zenon DEF Sifted
<1>8. PICK t : t = Truncated(kept, k)
  OBVIOUS
<1>9. Ranking(t) /\ \A m \in 1 .. Len(t) : \E r \in 1 .. Len(kept) : t[m] = kept[r]
  BY <1>6, <1>8, TruncatedIs
<1>10. ids = ToSet(t)
  BY <1>5, <1>8
<1>11. Cardinality(ids) = Len(t) /\ Len(t) \in Nat
  BY <1>9, <1>10, RankingCount, RankingIs
<1>12. (Len(kept) <= k /\ t = kept) \/ Len(t) = k
  BY <1>6, <1>8, TruncatedLength
<1>13. Len(t) <= k
  BY <1>11, <1>12
<1>14. \A i : i \in ids <=> \E m \in 1 .. Len(t) : i = t[m]
  BY <1>9, <1>10, RankingIs DEF ToSet
<1>15. ids \subseteq S \cap Matching(f)
  <2>1. SUFFICES ASSUME NEW i \in ids PROVE i \in S \cap Matching(f)
    OBVIOUS
  <2>2. PICK r \in 1 .. Len(kept) : i = kept[r]
    BY <1>9, <1>14
  <2>3. PICK q \in 1 .. Len(list) : i = list[q]
    BY <1>7, <2>2
  <2>4. PICK p \in 1 .. Len(s) : i = s[p]
    BY <1>4, <2>3
  <2> QED BY <1>3, <1>6, <2>2, <2>4
<1>16. ASSUME Cardinality(S) <= n, Len(t) # k PROVE S \cap Matching(f) \subseteq ids
  <2>1. t = kept
    BY <1>12, <1>16
  <2>2. list = s
    BY <1>2, <1>3, <1>16, Zenon DEF Truncated
  <2>3. ASSUME NEW i \in S \cap Matching(f) PROVE i \in ids
    <3>1. PICK r \in 1 .. Len(list) : i = list[r]
      BY <1>3, <2>2, RankingIs DEF ToSet
    <3>2. Wanted(f, i)
      <4>1. i \in Id /\ vectors[i] # None /\ (f = None \/ Matches(f, by_external[id_map[i]]))
        BY <2>3 DEF Matching, Live
      <4>2. id_map[i] # None
        BY <4>1 DEF Content, Store, Maps
      <4> QED BY <4>1, <4>2, Zenon DEF Wanted, Passes
    <3>3. PICK m \in 1 .. Len(kept) : kept[m] = i
      BY <1>7, <3>1, <3>2
    <3> QED BY <1>14, <2>1, <3>3
  <2> QED BY <2>3
<1>17. Cardinality(S) <= n => ids = S \cap Matching(f) \/ Cardinality(ids) = k
  BY <1>11, <1>15, <1>16
<1>18. Cardinality(ids) <= k
  BY <1>11, <1>13
<1> QED BY <1>0, <1>1, <1>15, <1>17, <1>18, Zenon DEF RightText

(* The vector side of a hybrid query. *)
LEMMA DenseSide ==
    ASSUME NEW ids \in SUBSET Id, NEW list \in ByDistance(ids)
    PROVE  Ranking(list) /\ \A n \in 1 .. Len(list) : list[n] \in ids
BY SeqsAre DEF ByDistance

(* What a place in a list is worth: more, the earlier. *)
LEMMA ContributionIs ==
    ASSUME NEW list, Ranking(list), NEW i
    PROVE  \/ /\ \A r \in 1 .. Len(list) : list[r] # i
              /\ Contribution(list, i) = 0
           \/ \E r \in 1 .. MaxId, q \in Nat \ {0} :
                 /\ r \in 1 .. Len(list) /\ list[r] = i
                 /\ Contribution(list, i) = q /\ Multiple = q * (RrfK + r)
<1> DEFINE places == {r \in DOMAIN list : list[r] = i}
<1>1. DOMAIN list = 1 .. Len(list) /\ \A n \in 1 .. Len(list) : n \in 1 .. MaxId
  BY RankingIs
<1>2. Contribution(list, i) = IF places = {} THEN 0 ELSE Multiple \div (RrfK + CHOOSE r \in places : TRUE)
  BY Zenon DEF Contribution
<1>3. CASE places = {}
  BY <1>1, <1>2, <1>3
<1>4. CASE places # {}
  <2>1. PICK r : r = CHOOSE x \in places : TRUE
    OBVIOUS
  <2>2. r \in places
    <3> HIDE DEF places
    <3> QED BY <1>4, <2>1
  <2>3. r \in 1 .. Len(list) /\ r \in 1 .. MaxId /\ list[r] = i
    BY <1>1, <2>2
  <2>4. PICK q \in Nat \ {0} : Multiple = q * (RrfK + r)
    BY <2>3, MultipleIs
  <2>5. PICK d \in Nat \ {0} : d = RrfK + r
    BY <2>3, Numbers
  <2>6. (q * d) \div d = q
    OBVIOUS
  <2>7. Contribution(list, i) = Multiple \div (RrfK + r)
    BY <1>2, <1>4, <2>1, Zenon
  <2>8. Contribution(list, i) = q
    BY <2>4, <2>5, <2>6, <2>7
  <2> QED BY <2>3, <2>4, <2>8
<1> QED BY <1>3, <1>4

(* An earlier place in a list is worth strictly more than a later one or    *)
(* none: reciprocals of different ranks differ. (reciprocal_rank_fusion)    *)
LEMMA EarlierIsMore ==
    ASSUME NEW list, Ranking(list), NEW a, NEW b, Before(list, a, b)
    PROVE  Contribution(list, a) \in Nat /\ Contribution(list, b) \in Nat /\ Contribution(list, b) < Contribution(list, a)
<1>1. PICK m \in 1 .. Len(list) : list[m] = a /\ \A n \in 1 .. Len(list) : list[n] = b => m < n
  BY RankingIs DEF Before
<1>2. PICK r \in 1 .. MaxId, q \in Nat \ {0} :
         /\ r \in 1 .. Len(list) /\ list[r] = a
         /\ Contribution(list, a) = q /\ Multiple = q * (RrfK + r)
  BY <1>1, ContributionIs
<1>3. r = m
  BY <1>1, <1>2 DEF Ranking, OnePlaceEach
<1>4. CASE Contribution(list, b) = 0
  BY <1>2, <1>4
<1>5. ASSUME NEW n \in 1 .. MaxId, NEW p \in Nat \ {0}, n \in 1 .. Len(list), list[n] = b,
             Contribution(list, b) = p, Multiple = p * (RrfK + n)
      PROVE  p < q
  <2>1. r < n
    BY <1>1, <1>3, <1>5
  <2>2. PICK c \in Nat \ {0}, d \in Nat \ {0} : c = RrfK + r /\ d = RrfK + n /\ c < d
    BY <2>1, Numbers
  <2>3. q * c = p * d
    BY <1>2, <1>5, <2>2
  <2>4. p * c < p * d
    BY <2>2
  <2>5. p * c < q * c
    BY <2>3, <2>4
  <2> QED BY <2>5
<1> QED BY <1>2, <1>4, <1>5, ContributionIs

(* A fused answer. *)
RightFused(k, T, l1, l2) ==
    /\ T \subseteq ToSet(l1) \cup ToSet(l2)
    /\ Cardinality(T) <= k
    /\ \A out \in (ToSet(l1) \cup ToSet(l2)) \ T, in \in T :
          ~ (Before(l1, out, in) /\ Before(l2, out, in))

(* The k of highest score leave none out for one that comes after it in     *)
(* both lists. (reciprocal_rank_fusion)                                     *)
LEMMA FusedIs ==
    ASSUME NEW l1, NEW l2, Ranking(l1), Ranking(l2), NEW k, NEW T \in Fused(<<l1, l2>>, k)
    PROVE  RightFused(k, T, l1, l2)
<1> DEFINE all == ToSet(l1) \cup ToSet(l2)
<1>0. \A i : Score(<<l1, l2>>, i) = Contribution(l1, i) + Contribution(l2, i)
  BY DEF Score
<1>1. /\ T \subseteq all /\ Cardinality(T) <= k
      /\ \A in \in T, out \in all \ T : Score(<<l1, l2>>, out) <= Score(<<l1, l2>>, in)
  BY DEF Fused
<1>2. ASSUME NEW out \in all \ T, NEW in \in T, Before(l1, out, in), Before(l2, out, in)
      PROVE  FALSE
  <2>1. Contribution(l1, in) \in Nat /\ Contribution(l1, out) \in Nat /\ Contribution(l1, in) < Contribution(l1, out)
    BY <1>2, EarlierIsMore
  <2>2. Contribution(l2, in) \in Nat /\ Contribution(l2, out) \in Nat /\ Contribution(l2, in) < Contribution(l2, out)
    BY <1>2, EarlierIsMore
  <2>3. Contribution(l1, out) + Contribution(l2, out) <= Contribution(l1, in) + Contribution(l2, in)
    BY <1>0, <1>1, <1>2
  <2> QED BY <2>1, <2>2, <2>3
<1> QED BY <1>1, <1>2 DEF RightFused

-----------------------------------------------------------------------------
(* Every answer is right *)

(* The properties of answers, of a state given part by part. *)
MatchingIn(docs, map, live, f) == {i \in live : f = None \/ Matches(f, docs[map[i]])}

CertainIn(docs, map, live, f) ==
    {i \in MatchingIn(docs, map, live, f) : f = None \/ Denied[f] \subseteq DOMAIN docs[map[i]]}

FetchIn(inv, f, k) ==
    IF f # None /\ (IF f = None THEN None ELSE Eligible(inv, f)) = None THEN Overfetch * k ELSE k

LiveIn(vs) == {i \in Id : vs[i] # None}

WholeIn(inv, vs, f, k) == FetchIn(inv, f, k) = k \/ Cardinality(LiveIn(vs)) <= FetchIn(inv, f, k)

DenseIn(docs, map, inv, vs, f, k, ids) ==
    /\ ids \subseteq MatchingIn(docs, map, LiveIn(vs), f)
    /\ Cardinality(ids) <= k
    /\ Exact /\ WholeIn(inv, vs, f, k) =>
          \A out \in CertainIn(docs, map, LiveIn(vs), f) \ ids :
              /\ Cardinality(ids) = k
              /\ \A in \in ids : vs[in] <= vs[out]

TextIn(docs, map, vs, ts, f, term, k, ids) ==
    LET having == {i \in LiveIn(vs) : ts[i] # None /\ term \in ToSet(ts[i])}
        right == having \cap MatchingIn(docs, map, LiveIn(vs), f)
    IN  /\ ids \subseteq right
        /\ Cardinality(ids) <= k
        /\ Cardinality(having) <= Prefetch * k => ids = right \/ Cardinality(ids) = k

FusionIn(docs, map, vs, f, k, ids, lists) ==
    LET all == ToSet(lists[1]) \cup ToSet(lists[2])
    IN  /\ ids \subseteq MatchingIn(docs, map, LiveIn(vs), f) \cap all
        /\ Cardinality(ids) <= k
        /\ \A out \in all \ ids, in \in ids :
              ~ \A s \in 1 .. 2 : Before(lists[s], out, in)

ExactNow ==
    answer # None /\ answer.op = "dense" /\ answer.k > 0 =>
        DenseIn(by_external, id_map, inverted, vectors, answer.filter, answer.k, answer.ids)

TextNow ==
    answer # None /\ answer.op = "sparse" =>
        TextIn(by_external, id_map, vectors, texts, answer.filter, answer.term, answer.k, answer.ids)

FusedNow ==
    answer # None /\ answer.op = "hybrid" =>
        FusionIn(by_external, id_map, vectors, answer.filter, answer.k, answer.ids, answer.lists)

(* The properties of answers say what they say of the parts of a state, of  *)
(* this one and of the next.                                                *)
LEMMA PartsNow ==
    /\ DenseExact <=> ExactNow
    /\ TextExact <=> TextNow
    /\ FusionKeepsConsensus <=> FusedNow
<1>1. Live = LiveIn(vectors)
  BY Zenon DEF Live, LiveIn
<1>2. \A f : Matching(f) = MatchingIn(by_external, id_map, LiveIn(vectors), f)
  BY <1>1, Zenon DEF Matching, MatchingIn
<1>3. \A f : Certain(f) = CertainIn(by_external, id_map, LiveIn(vectors), f)
  BY <1>2, Zenon DEF Certain, CertainIn
<1>4. \A f, k : FetchK(f, k) = FetchIn(inverted, f, k)
  BY Zenon DEF FetchK, FetchIn, EligibleIds
<1>5. \A f, k : Whole(f, k) <=> WholeIn(inverted, vectors, f, k)
  BY <1>1, <1>4, Zenon DEF Whole, WholeIn
<1>6. DenseExact <=> ExactNow
  BY <1>2, <1>3, <1>5, Zenon DEF DenseExact, ExactNow, DenseIn
<1>8. TextExact <=> TextNow
  BY <1>1, <1>2, Zenon DEF TextExact, TextNow, TextIn, Having
<1>7. FusionKeepsConsensus <=> FusedNow
  BY <1>2, Zenon DEF FusionKeepsConsensus, FusedNow, FusionIn
<1> QED BY <1>6, <1>7, <1>8

LEMMA PartsNext ==
    /\ DenseExact' <=>
          (answer' # None /\ answer'.op = "dense" /\ answer'.k > 0 =>
              DenseIn(by_external', id_map', inverted', vectors', answer'.filter, answer'.k, answer'.ids))
    /\ TextExact' <=>
          (answer' # None /\ answer'.op = "sparse" =>
              TextIn(by_external', id_map', vectors', texts',
                     answer'.filter, answer'.term, answer'.k, answer'.ids))
    /\ FusionKeepsConsensus' <=>
          (answer' # None /\ answer'.op = "hybrid" =>
              FusionIn(by_external', id_map', vectors', answer'.filter, answer'.k, answer'.ids, answer'.lists))
<1>1. (DenseExact' <=> ExactNow') /\ (TextExact' <=> TextNow') /\ (FusionKeepsConsensus' <=> FusedNow')
  BY PartsNow, PTL
<1>2. ExactNow' <=> (answer' # None /\ answer'.op = "dense" /\ answer'.k > 0 =>
              DenseIn(by_external', id_map', inverted', vectors', answer'.filter, answer'.k, answer'.ids))
  BY Zenon DEF ExactNow, DenseIn, MatchingIn, CertainIn, LiveIn, WholeIn, FetchIn, Matches, Eligible, Denied
<1>4. TextNow' <=> (answer' # None /\ answer'.op = "sparse" =>
              TextIn(by_external', id_map', vectors', texts',
                     answer'.filter, answer'.term, answer'.k, answer'.ids))
  BY Zenon DEF TextNow, TextIn, MatchingIn, LiveIn, Matches, ToSet
<1>3. FusedNow' <=> (answer' # None /\ answer'.op = "hybrid" =>
              FusionIn(by_external', id_map', vectors', answer'.filter, answer'.k, answer'.ids, answer'.lists))
  BY Zenon DEF FusedNow, FusionIn, MatchingIn, LiveIn, Matches, Before, ToSet
<1> QED BY <1>1, <1>2, <1>3, <1>4, Zenon

LEMMA MatchingIs ==
    ASSUME NEW f
    PROVE  Matching(f) = MatchingIn(by_external, id_map, LiveIn(vectors), f)
BY Zenon DEF Matching, MatchingIn, Live, LiveIn

(* What was shown of dense and of hybrid answers is what the properties     *)
(* ask.                                                                     *)
LEMMA DenseGood ==
    ASSUME NEW f, NEW k, NEW ids, k > 0, RightDense(f, k, ids)
    PROVE  DenseIn(by_external, id_map, inverted, vectors, f, k, ids)
<1>1. Live = LiveIn(vectors)
  BY Zenon DEF Live, LiveIn
<1>2. Matching(f) = MatchingIn(by_external, id_map, LiveIn(vectors), f)
  BY MatchingIs
<1>3. Certain(f) = CertainIn(by_external, id_map, LiveIn(vectors), f)
  BY <1>2, Zenon DEF Certain, CertainIn
<1>4. FetchK(f, k) = FetchIn(inverted, f, k)
  BY Zenon DEF FetchK, FetchIn, EligibleIds
<1>5. Whole(f, k) <=> WholeIn(inverted, vectors, f, k)
  BY <1>1, <1>4, Zenon DEF Whole, WholeIn
<1> QED BY <1>2, <1>3, <1>5, Zenon DEF RightDense, DenseIn

LEMMA TextGood ==
    ASSUME NEW f, NEW term, NEW k, NEW ids, RightText(f, term, k, ids)
    PROVE  TextIn(by_external, id_map, vectors, texts, f, term, k, ids)
BY MatchingIs, Zenon DEF RightText, TextIn, Having, Live, LiveIn

LEMMA FusionGood ==
    ASSUME NEW f, NEW k, NEW T, NEW l1, NEW l2, T \subseteq Matching(f), RightFused(k, T, l1, l2)
    PROVE  FusionIn(by_external, id_map, vectors, f, k, T, <<l1, l2>>)
<1>0. PICK lists : lists = <<l1, l2>>
  OBVIOUS
<1>1. lists = <<l1, l2>> /\ lists[1] = l1 /\ lists[2] = l2
  BY <1>0
<1>2. \A out, in : (\A s \in 1 .. 2 : Before(lists[s], out, in)) => Before(l1, out, in) /\ Before(l2, out, in)
  <2>1. 1 \in 1 .. 2 /\ 2 \in 1 .. 2
    OBVIOUS
  <2> QED BY <1>1, <2>1, Zenon
<1>3. /\ T \subseteq ToSet(lists[1]) \cup ToSet(lists[2])
      /\ Cardinality(T) <= k
      /\ \A out \in (ToSet(lists[1]) \cup ToSet(lists[2])) \ T, in \in T :
            ~ \A s \in 1 .. 2 : Before(lists[s], out, in)
  BY <1>1, <1>2, Zenon DEF RightFused
<1>4. PICK M : M = MatchingIn(by_external, id_map, LiveIn(vectors), f) /\ T \subseteq M
  BY MatchingIs
<1>5. T \subseteq M \cap (ToSet(lists[1]) \cup ToSet(lists[2]))
  BY <1>3, <1>4
<1>6. FusionIn(by_external, id_map, vectors, f, k, T, lists)
  BY <1>3, <1>4, <1>5, Zenon DEF FusionIn
<1> QED BY <1>1, <1>6

(* Every answer of a hybrid query is right. (Collection::query_hybrid_opts) *)
LEMMA HybridGood ==
    ASSUME Content, NEW f \in Filter \cup {None}, NEW k \in Nat, NEW term,
           NEW ids \in Dense(f, Prefetch * k), NEW list1 \in ByDistance(ids),
           NEW ranked \in Ranked(Relevant(term), Prefetch * k),
           NEW T \in Fused(<<list1, Filtered(ranked, f)>>, k)
    PROVE  FusionIn(by_external, id_map, vectors, f, k, T, <<list1, Filtered(ranked, f)>>)
<1>1. PICK n \in Nat : n = Prefetch * k
  BY Numbers
<1>2. RightDense(f, n, ids)
  BY <1>1, DenseIs DEF Content
<1>3. ids \subseteq Matching(f) /\ ids \in SUBSET Id
  BY <1>2 DEF RightDense, Matching, Live
<1>4. Ranking(list1) /\ \A m \in 1 .. Len(list1) : list1[m] \in ids
  BY <1>3, DenseSide
<1>5. PICK kept : kept = Filtered(ranked, f)
  OBVIOUS
<1>6. Ranking(kept) /\ \A m \in 1 .. Len(kept) : kept[m] \in Matching(f)
  BY <1>1, <1>5, TextSide
<1>7. RightFused(k, T, list1, kept)
  <2>1. T \in Fused(<<list1, kept>>, k)
    BY <1>5
  <2> QED BY <1>4, <1>6, <2>1, FusedIs
<1>8. T \subseteq Matching(f)
  <2>1. ToSet(list1) \subseteq Matching(f)
    <3>1. \A i \in ToSet(list1) : \E m \in 1 .. Len(list1) : i = list1[m]
      BY <1>4, RankingIs DEF ToSet
    <3> QED BY <1>3, <1>4, <3>1
  <2>2. ToSet(kept) \subseteq Matching(f)
    <3>1. \A i \in ToSet(kept) : \E m \in 1 .. Len(kept) : i = kept[m]
      BY <1>6, RankingIs DEF ToSet
    <3> QED BY <1>6, <3>1
  <2> QED BY <1>7, <2>1, <2>2 DEF RightFused
<1>9. FusionIn(by_external, id_map, vectors, f, k, T, <<list1, kept>>)
  BY <1>7, <1>8, FusionGood
<1> QED BY <1>5, <1>9

Right == DenseExact /\ TextExact /\ FusionKeepsConsensus

(* Steps without an answer, and one case per query. *)
LEMMA NoAnswer == ASSUME answer' = None PROVE Right'
BY PartsNext, Zenon DEF Right

LEMMA SameAnswer == ASSUME Right, UNCHANGED vars PROVE Right'
<1>1. /\ by_external' = by_external /\ id_map' = id_map /\ inverted' = inverted /\ vectors' = vectors
      /\ texts' = texts /\ answer' = answer
  BY DEF vars, metadata, sparse
<1>2. ExactNow /\ TextNow /\ FusedNow
  BY PartsNow, Zenon DEF Right
<1> QED BY <1>1, <1>2, PartsNext, Zenon DEF Right, ExactNow, TextNow, FusedNow

LEMMA AnswerIs ==
    ASSUME NEW op, NEW f, NEW term, NEW k, NEW ids, NEW lists, Answers(op, f, term, k, ids, lists)
    PROVE  /\ answer'.op = op /\ answer'.filter = f /\ answer'.term = term /\ answer'.k = k
           /\ answer'.ids = ids /\ answer'.lists = lists
           /\ by_external' = by_external /\ id_map' = id_map /\ inverted' = inverted /\ vectors' = vectors
           /\ texts' = texts
BY DEF Answers, metadata, sparse

LEMMA DenseStep ==
    ASSUME Content, NEW f \in Filter \cup {None}, NEW k \in Nat, QueryDense(f, k)
    PROVE  Right'
<1>1. Shipped(f) = f
  BY RoundTrip DEF Shipped
<1>2. PICK g \in {f, Shipped(f)} : \E ids \in Dense(g, k) : Answers("dense", f, None, k, ids, <<>>)
  BY Zenon DEF QueryDense
<1>3. PICK ids \in Dense(f, k) : Answers("dense", f, None, k, ids, <<>>)
  BY <1>1, <1>2
<1>4. /\ answer'.op = "dense" /\ answer'.filter = f /\ answer'.k = k /\ answer'.ids = ids
      /\ by_external' = by_external /\ id_map' = id_map /\ inverted' = inverted /\ vectors' = vectors
  BY <1>3, AnswerIs
<1>5. k > 0 => DenseIn(by_external, id_map, inverted, vectors, f, k, ids)
  BY DenseIs, DenseGood DEF Content
<1>6. DenseExact'
  BY <1>4, <1>5, PartsNext
<1>7. answer'.op # "hybrid" /\ answer'.op # "sparse"
  BY <1>4
<1> QED BY <1>6, <1>7, PartsNext, Zenon DEF Right

LEMMA SparseStep ==
    ASSUME Content, NEW term, NEW f \in Filter \cup {None}, NEW k \in Nat, QuerySparse(term, f, k)
    PROVE  Right'
<1>1. PICK list \in Ranked(Relevant(term), Prefetch * k) :
         Answers("sparse", f, term, k, ToSet(Truncated(Filtered(list, f), k)), <<>>)
  BY Zenon DEF QuerySparse
<1>2. PICK ids : ids = ToSet(Truncated(Filtered(list, f), k))
  OBVIOUS
<1>3. TextIn(by_external, id_map, vectors, texts, f, term, k, ids)
  BY <1>2, TextIs, TextGood
<1>4. Answers("sparse", f, term, k, ids, <<>>)
  BY <1>1, <1>2
<1>5. /\ answer'.op = "sparse" /\ answer'.filter = f /\ answer'.term = term /\ answer'.k = k /\ answer'.ids = ids
      /\ by_external' = by_external /\ id_map' = id_map /\ vectors' = vectors /\ texts' = texts
  BY <1>4, AnswerIs
<1>6. TextExact'
  BY <1>3, <1>5, PartsNext, Zenon
<1>7. answer'.op # "dense" /\ answer'.op # "hybrid"
  BY <1>5
<1> QED BY <1>6, <1>7, PartsNext, Zenon DEF Right

LEMMA HybridStep ==
    ASSUME Content, NEW term, NEW f \in Filter \cup {None}, NEW k \in Nat, QueryHybrid(term, f, k)
    PROVE  Right'
<1>1. PICK ids \in Dense(f, Prefetch * k) :
        \E list1 \in ByDistance(ids), ranked \in Ranked(Relevant(term), Prefetch * k) :
            \E T \in Fused(<<list1, Filtered(ranked, f)>>, k) :
               Answers("hybrid", f, term, k, T, <<list1, Filtered(ranked, f)>>)
  BY Zenon DEF QueryHybrid
<1>2. PICK list1 \in ByDistance(ids), ranked \in Ranked(Relevant(term), Prefetch * k) :
            \E T \in Fused(<<list1, Filtered(ranked, f)>>, k) :
               Answers("hybrid", f, term, k, T, <<list1, Filtered(ranked, f)>>)
  BY <1>1, Zenon
<1>3. PICK T \in Fused(<<list1, Filtered(ranked, f)>>, k) :
               Answers("hybrid", f, term, k, T, <<list1, Filtered(ranked, f)>>)
  BY <1>2, Zenon
<1>4. PICK lists : lists = <<list1, Filtered(ranked, f)>>
  OBVIOUS
<1>5. FusionIn(by_external, id_map, vectors, f, k, T, lists)
  BY <1>4, HybridGood
<1>6. Answers("hybrid", f, term, k, T, lists)
  BY <1>3, <1>4
<1>7. /\ answer'.op = "hybrid" /\ answer'.filter = f /\ answer'.k = k /\ answer'.ids = T /\ answer'.lists = lists
      /\ by_external' = by_external /\ id_map' = id_map /\ vectors' = vectors
  BY <1>6, AnswerIs
<1>8. FusionKeepsConsensus'
  BY <1>5, <1>7, PartsNext, Zenon
<1>9. answer'.op # "dense" /\ answer'.op # "sparse"
  BY <1>7
<1> QED BY <1>8, <1>9, PartsNext, Zenon DEF Right

(* Every step keeps the properties of answers. *)
LEMMA AnswerStep ==
    ASSUME Content, Right, [Next]_vars
    PROVE  Right'
<1>1. ASSUME NEW e \in Ext, Delete(e) \/ \E p \in Point : Upsert(e, p) PROVE Right'
  <2>1. answer' = None
    BY <1>1 DEF Delete, Upsert
  <2> QED BY <2>1, NoAnswer
<1>2. CASE Reopen \/ Return
  BY <1>2, NoAnswer DEF Reopen, Return
<1>3. ASSUME NEW f \in Filter \cup {None}, NEW k \in 0 .. MaxK,
             QueryDense(f, k) \/ \E term \in Term : QuerySparse(term, f, k) \/ QueryHybrid(term, f, k)
      PROVE  Right'
  <2>1. k \in Nat
    BY Numbers
  <2> QED BY <1>3, <2>1, DenseStep, SparseStep, HybridStep
<1>4. CASE UNCHANGED vars
  BY <1>4, SameAnswer
<1> QED BY <1>1, <1>2, <1>3, <1>4, Zenon DEF Next

LEMMA AnswersRight == Spec => [](AnswersExact /\ FusionKeepsConsensus)
<1>1. Init => Right
  <2> SUFFICES ASSUME Init PROVE Right
    OBVIOUS
  <2>1. answer = None
    BY DEF Init
  <2> QED BY <2>1, Zenon DEF Right, DenseExact, TextExact, FusionKeepsConsensus
<1>2. Content /\ Right /\ [Next]_vars => Right'
  BY AnswerStep
<1>3. Right => AnswersExact /\ FusionKeepsConsensus
  BY DEF Right, AnswersExact
<1> QED BY <1>1, <1>2, <1>3, ContentKept, PTL DEF Spec

(* Every dense answer is right in every reachable state: only points that   *)
(* match by the documents they have now, at most k, and with an exact index *)
(* and room for all that passes the nearest; and every answer by text: only *)
(* points that match and have the term now, and all of them when they are   *)
(* fewer than k and fewer than are fetched; for any filters, points, texts  *)
(* and limits, over any history of updates, deletes and reopens.            *)
(* (Collection::query, query_sparse, MetadataStore::eligible_ids)           *)
THEOREM AnswersAlwaysExact == Spec => []AnswersExact
BY AnswersRight, PTL

(* A fused answer keeps what both sides rank before one it gives, in every  *)
(* reachable state and for any lengths of lists: the scores are reciprocals *)
(* over a common multiple, whatever RrfK is.  (query_hybrid_opts,           *)
(* reciprocal_rank_fusion)                                                  *)
THEOREM FusionAlwaysKeepsConsensus == Spec => []FusionKeepsConsensus
BY AnswersRight, PTL
=============================================================================
