------------------------------- MODULE Filters -------------------------------
(***************************************************************************)
(* Metadata filters: their JSON dialect, what a document matches, and what *)
(* the inverted index makes of a filter.                                   *)
(*                                                                         *)
(* JSON: [t |-> "scalar", v], [t |-> "array", items], [t |-> "object", at],*)
(* `at` a function from keys; arrays are sets.  A document is a function   *)
(* from its fields.  A filter is [op, field, value], or [op, parts] for    *)
(* "$and" and "$or".  What recurses over filters is a function on those    *)
(* there are, the constant Filter.                                         *)
(***************************************************************************)
EXTENDS Integers, FiniteSets

CONSTANTS
    Filter,  \* filters, with their parts
    None

Scalar(v) == [t |-> "scalar", v |-> v]
Array(S) == [t |-> "array", items |-> S]
Object(f) == [t |-> "object", at |-> f]

Ordering == {"$gt", "$gte", "$lt", "$lte"}
Comparison == Ordering \cup {"$eq", "$ne", "$in"}
Combinator == {"$and", "$or"}

(* Filters are finite trees.  A field is not named like a combinator, nor   *)
(* compared with an object by "$eq": their JSON would be read as something  *)
(* else.  None is no value: JSON's null is one.                             *)
ASSUME FilterAssumption ==
    /\ None \notin Filter
    /\ \A f \in Filter :
          IF f.op \in Combinator
          THEN f = [op |-> f.op, parts |-> f.parts] /\ f.parts \subseteq Filter
          ELSE /\ f = [op |-> f.op, field |-> f.field, value |-> f.value]
               /\ f.op \in Comparison /\ f.field \notin Combinator
               /\ f.value # None
               /\ f.op = "$in" => f.value.t = "array" /\ None \notin f.value.items
               /\ f.op = "$eq" => f.value.t # "object"
    /\ \A S \in SUBSET Filter : S # {} =>
          \E f \in S : f.op \in Combinator => f.parts \cap S = {}

Single(key, value) == [k \in {key} |-> value]

-----------------------------------------------------------------------------
(* from_json *)

Bad == None

Combined(op, parts) == IF Bad \in parts THEN Bad ELSE [op |-> op, parts |-> parts]

Compared(field, op, value) ==
    IF op \notin Comparison \/ (op = "$in" /\ value.t # "array") THEN Bad
    ELSE [op |-> op, field |-> field, value |-> value]

(* parse_field_ops: several operators on a field are a conjunction.         *)
FieldOps(field, ops) ==
    LET parts == {Compared(field, op, ops[op]) : op \in DOMAIN ops}
    IN  IF Cardinality(DOMAIN ops) = 1 THEN CHOOSE p \in parts : TRUE ELSE Combined("$and", parts)

Clause(field, value) ==
    IF value.t = "object" THEN FieldOps(field, value.at) ELSE Compared(field, "$eq", value)

ToJson[f \in Filter] ==
    Object(IF f.op \in Combinator THEN Single(f.op, Array({ToJson[p] : p \in f.parts}))
           ELSE Single(f.field, IF f.op = "$eq" THEN f.value ELSE Object(Single(f.op, f.value))))

Json == {ToJson[f] : f \in Filter}

Parsed[j \in Json] ==
    IF j.t # "object" \/ DOMAIN j.at = {} THEN Bad
    ELSE LET keys == DOMAIN j.at
             key == CHOOSE k \in keys : TRUE
         IN  IF Cardinality(keys) > 1
             THEN IF keys \cap (Combinator \cup Comparison) # {} THEN Bad
                  ELSE Combined("$and", {Clause(k, j.at[k]) : k \in keys})
             ELSE IF key \notin Combinator THEN Clause(key, j.at[key])
             ELSE IF j.at[key].t # "array" THEN Bad
             ELSE Combined(key, {Parsed[p] : p \in j.at[key].items})

-----------------------------------------------------------------------------
(* matches *)

Get(doc, field) == IF field \in DOMAIN doc THEN doc[field] ELSE None

(* compare_ordered; what cannot be compared does not match.                 *)
Ordered(op, a, b) ==
    /\ a # None /\ a.t = "scalar" /\ b.t = "scalar"
    /\ \/ op = "$gt" /\ a.v > b.v
       \/ op = "$gte" /\ a.v >= b.v
       \/ op = "$lt" /\ a.v < b.v
       \/ op = "$lte" /\ a.v <= b.v

Holds(f, doc) ==
    LET actual == Get(doc, f.field)
    IN  \/ f.op = "$eq" /\ actual = f.value
        \/ f.op = "$ne" /\ actual # f.value
        \/ f.op = "$in" /\ actual \in f.value.items
        \/ f.op \in Ordering /\ Ordered(f.op, actual, f.value)

Matches(f, doc) ==
    LET matches[g \in Filter] ==
            CASE g.op = "$and" -> \A p \in g.parts : matches[p]
              [] g.op = "$or" -> \E p \in g.parts : matches[p]
              [] OTHER -> Holds(g, doc)
    IN  matches[f]

(* The fields a filter compares by "$ne". *)
Denied[f \in Filter] ==
    IF f.op \in Combinator THEN UNION {Denied[p] : p \in f.parts}
    ELSE IF f.op = "$ne" THEN {f.field} ELSE {}

-----------------------------------------------------------------------------
(* The inverted index: [known, entries], the fields ever indexed and        *)
(* <<field, value, id>>.                                                    *)

NoEntries == [known |-> {}, entries |-> {}]

(* A mutant: the entries of the document that was there stay. *)
IndexedAgain(inv, id, doc) ==
    [known |-> inv.known \cup DOMAIN doc,
     entries |-> inv.entries \cup {<<f, doc[f], id>> : f \in DOMAIN doc}]

Unindexed(inv, id) == [inv EXCEPT !.entries = {e \in @ : e[3] # id}]

Indexed(inv, id, doc) ==
    [known |-> inv.known \cup DOMAIN doc,
     entries |-> Unindexed(inv, id).entries \cup {<<f, doc[f], id>> : f \in DOMAIN doc}]

IdsIn(inv, field, values) == {e[3] : e \in {x \in inv.entries : x[1] = field /\ x[2] \in values}}

IdsField(inv, field) == {e[3] : e \in {x \in inv.entries : x[1] = field}}

(* ids_eq, ids_in, and $ne as what the field has without the value; a field *)
(* that was never indexed is not answered for.                              *)
Compare(inv, f) ==
    IF f.field \notin inv.known \/ f.op \in Ordering THEN None
    ELSE IF f.op = "$in" THEN IdsIn(inv, f.field, f.value.items)
    ELSE IF f.op = "$eq" THEN IdsIn(inv, f.field, {f.value})
    ELSE IdsField(inv, f.field) \ IdsIn(inv, f.field, {f.value})

Met(op, sets) ==
    IF None \in sets \/ (op = "$and" /\ sets = {}) THEN None
    ELSE IF op = "$or" THEN UNION sets
    ELSE {id \in UNION sets : \A S \in sets : id \in S}

(* eligible_ids: None when the index alone cannot tell.                     *)
Eligible(inv, f) ==
    LET eligible[g \in Filter] ==
            IF g.op \in Combinator THEN Met(g.op, {eligible[p] : p \in g.parts})
            ELSE Compare(inv, g)
    IN  eligible[f]
=============================================================================
