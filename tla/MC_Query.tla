------------------------------ MODULE MC_Query ------------------------------
(* Query for TLC: a few points and filters of every kind. *)
EXTENDS Query

doc1 == "tag" :> Scalar(1)
doc2 == "tag" :> Scalar(2) @@ "n" :> Scalar(1)
doc3 == "n" :> Scalar(2)

MCPoint == {[vector |-> 1, doc |-> doc1, text |-> <<"a", "b">>],
            [vector |-> 2, doc |-> doc2, text |-> <<"a", "a", "c">>],
            [vector |-> 2, doc |-> doc3, text |-> None],
            [vector |-> 3, doc |-> doc2, text |-> <<>>]}

tag1 == [op |-> "$eq", field |-> "tag", value |-> Scalar(1)]
not1 == [op |-> "$ne", field |-> "tag", value |-> Scalar(1)]
n12 == [op |-> "$in", field |-> "n", value |-> Array({Scalar(1), Scalar(2)})]
n2up == [op |-> "$gte", field |-> "n", value |-> Scalar(2)]

(* A comparison of each sort, combinations the inverted index answers for,  *)
(* and two with a range, which it does not.                                 *)
MCFilter == {tag1, not1, n12, n2up,
             [op |-> "$or", parts |-> {tag1, n12}],
             [op |-> "$and", parts |-> {not1, n12}],
             [op |-> "$or", parts |-> {tag1, n2up}],
             [op |-> "$and", parts |-> {not1, n2up}]}

MCSymmetry == Permutations(Ext)

MCExactLimit == [k \in 0 .. 10 |-> 1]
=============================================================================
