-------------------------------- MODULE Query --------------------------------
(***************************************************************************)
(* The read path of a collection: documents under external ids, the maps   *)
(* between external and internal ids, the inverted index of their fields,  *)
(* the text index, and the queries that put them and the vector index      *)
(* together: dense with a filter, by text, and both fused.                 *)
(*                                                                         *)
(* The vector index is what VectorIndex promises; Exact is the flat index. *)
(* A vector is its distance from the query.  Distances, and the order text *)
(* relevance gives, decide ranks only; ties, and the whole of the latter,  *)
(* are open.  A query that waits for the collection's lock sees it whole.  *)
(***************************************************************************)
EXTENDS Filters, Sequences, SequencesExt, TopKHeap

CONSTANTS
    Ext,         \* external ids
    Point,       \* what is upserted: [vector, doc, text], text None or terms
    Term,        \* terms queries ask for
    Exact,       \* the vector index is exact
    ExactLimit,  \* up to how many eligible ids are scanned: ExactLimit[k]
    Overfetch,   \* 10: how many times top_k a filter applied afterwards fetches
    Prefetch,    \* 5: how many times top_k each side of a hybrid query fetches
    RrfK,        \* 60
    IdWidth,     \* 2^32: bitmaps hold ids modulo it
    MaxId,       \* a bound: internal ids
    MaxK         \* a bound: top_k

ASSUME QueryAssumption ==
    /\ {Overfetch, Prefetch, RrfK, IdWidth, MaxId, MaxK} \subseteq Nat
    /\ MaxId < IdWidth
    /\ Overfetch > 1
    /\ None \notin Ext \cup Nat
    /\ \A p \in Point : p.vector \in Nat /\ p.doc # None /\ (p.text = None \/ p.text \in Seq(STRING))

VARIABLES
    by_external, \* documents
    id_map,      \* id_map[i]: the external id of i
    ext_to_id,   \* ext_to_id[e]: the internal id of e
    inverted,
    vectors,     \* contents of the vector index
    texts,       \* texts[i]: terms of i's text
    postings,    \* <<term, id>>
    doc_len,
    total_len,
    next_id,
    answer       \* what a query has just answered, None otherwise

metadata == <<by_external, id_map, ext_to_id, inverted>>
sparse   == <<texts, postings, doc_len, total_len>>
vars     == <<metadata, vectors, sparse, next_id, answer>>

Id == 0 .. MaxId - 1

Uid(i) == i % IdWidth

Live == {i \in Id : vectors[i] # None}

Init ==
    /\ by_external = [e \in Ext |-> None]
    /\ id_map = [i \in Id |-> None]
    /\ ext_to_id = [e \in Ext |-> None]
    /\ inverted = NoEntries
    /\ vectors = [i \in Id |-> None]
    /\ texts = [i \in Id |-> None]
    /\ postings = {}
    /\ doc_len = [i \in Id |-> None]
    /\ total_len = 0
    /\ next_id = 0
    /\ answer = None

-----------------------------------------------------------------------------
(* Changes *)

(* MetadataStore::upsert.  What the external id or the internal id meant    *)
(* before goes.                                                             *)
MetadataUpsert(e, i, doc) ==
    LET old_id == ext_to_id[e]
        old_ext == id_map[i]
        moved == old_id \notin {None, i}
    IN  /\ by_external' = [by_external EXCEPT ![e] = doc]
        /\ id_map' = [j \in Id |-> IF j = i THEN e ELSE IF moved /\ j = old_id THEN None ELSE id_map[j]]
        /\ ext_to_id' = [x \in Ext |-> IF x = e THEN i
                                       ELSE IF x = old_ext THEN None ELSE ext_to_id[x]]
        /\ inverted' = Indexed(IF moved THEN Unindexed(inverted, Uid(old_id)) ELSE inverted,
                               Uid(i), doc)

MetadataRemove(e) ==
    /\ by_external' = [by_external EXCEPT ![e] = None]
    /\ ext_to_id' = [ext_to_id EXCEPT ![e] = None]
    /\ IF ext_to_id[e] = None THEN UNCHANGED <<id_map, inverted>>
       ELSE /\ id_map' = [id_map EXCEPT ![ext_to_id[e]] = None]
            /\ inverted' = Unindexed(inverted, Uid(ext_to_id[e]))

Less(n, len) == IF len = None THEN n ELSE IF n < len THEN 0 ELSE n - len

(* A mutant: the total keeps what the document had before. *)
SparseUpsertAdds(i, text) ==
    /\ texts' = [texts EXCEPT ![i] = text]
    /\ doc_len' = [doc_len EXCEPT ![i] = Len(text)]
    /\ total_len' = total_len + Len(text)
    /\ postings' = {p \in postings : p[2] # i} \cup {<<t, i>> : t \in ToSet(text)}

(* Bm25Index::upsert, over what remove leaves. *)
SparseUpsert(i, text) ==
    /\ texts' = [texts EXCEPT ![i] = text]
    /\ doc_len' = [doc_len EXCEPT ![i] = Len(text)]
    /\ total_len' = Less(total_len, doc_len[i]) + Len(text)
    /\ postings' = {p \in postings : p[2] # i} \cup {<<t, i>> : t \in ToSet(text)}

SparseRemove(i) ==
    /\ texts' = [texts EXCEPT ![i] = None]
    /\ doc_len' = [doc_len EXCEPT ![i] = None]
    /\ total_len' = Less(total_len, doc_len[i])
    /\ postings' = {p \in postings : p[2] # i}

(* upsert_with_text, apply_upsert_memory: without a text the old one stays. *)
Upsert(e, p) ==
    LET i == IF ext_to_id[e] # None THEN ext_to_id[e] ELSE next_id
    IN  /\ i \in Id
        /\ next_id' = IF i = next_id THEN next_id + 1 ELSE next_id
        /\ vectors' = [vectors EXCEPT ![i] = p.vector]
        /\ MetadataUpsert(e, i, p.doc)
        /\ IF p.text = None THEN UNCHANGED sparse ELSE SparseUpsert(i, p.text)
        /\ answer' = None

(* delete, apply_delete_memory *)
Delete(e) ==
    /\ ext_to_id[e] # None
    /\ vectors' = [vectors EXCEPT ![ext_to_id[e]] = None]
    /\ MetadataRemove(e)
    /\ SparseRemove(ext_to_id[e])
    /\ UNCHANGED next_id
    /\ answer' = None

(* persist and open, or a replay of the log over an older checkpoint: the   *)
(* inverted index is rebuilt, and knows the fields of the documents that    *)
(* are there and perhaps some of those that were replayed and are gone.     *)
LiveFields == UNION {DOMAIN by_external[e] : e \in {x \in Ext : by_external[x] # None}}

Reopen ==
    /\ \E known \in SUBSET inverted.known :
          /\ LiveFields \subseteq known
          /\ inverted' = [known |-> known,
                          entries |-> UNION {{<<f, by_external[e][f], Uid(ext_to_id[e])>> :
                                                 f \in DOMAIN by_external[e]} :
                                             e \in {x \in Ext : ext_to_id[x] # None}}]
    /\ answer' = None
    /\ UNCHANGED <<by_external, id_map, ext_to_id, vectors, sparse, next_id>>

-----------------------------------------------------------------------------
(* Dense queries *)

Candidates(S) == {[id |-> i, distance |-> vectors[i]] : i \in S}

(* An id without an external id passes every filter. *)
Passes(f, i) == f = None \/ id_map[i] = None \/ Matches(f, by_external[id_map[i]])

EligibleIds(f) == IF f = None THEN None ELSE Eligible(inverted, f)

AtLeastOne(k) == IF k = 0 THEN 1 ELSE k

FetchK(f, k) == IF f # None /\ EligibleIds(f) = None THEN Overfetch * k ELSE k

(* query_exact_eligible, or the index: with the eligible ids, or everything *)
(* and a filter afterwards.                                                 *)
Hits(f, k) ==
    LET E == EligibleIds(f)
        S == IF E = None THEN Live ELSE {i \in Live : Uid(i) \in E}
        fetch == FetchK(f, k)
    IN  IF E # None /\ Cardinality(E) <= ExactLimit[k]
        THEN Kept(Candidates(E \cap Live), AtLeastOne(k))
        ELSE IF Exact THEN Kept(Candidates(S), fetch)
        ELSE {H \in SUBSET Candidates(S) : Cardinality(H) <= fetch}

(* finish_query: the first k that pass; the count is looked at after one    *)
(* was added.                                                               *)
Finished(H, f, k) == Kept({c \in H : Passes(f, c.id)}, AtLeastOne(k))

Dense(f, k) == {{c.id : c \in R} : R \in UNION {Finished(H, f, k) : H \in Hits(f, k)}}

(* A filter for a remote shard goes there as JSON.                          *)
Shipped(f) == IF f = None THEN None ELSE Parsed[ToJson[f]]

Answers(op, f, term, k, ids, lists) ==
    /\ answer' = [op |-> op, filter |-> f, term |-> term, k |-> k, ids |-> ids, lists |-> lists]
    /\ UNCHANGED <<metadata, vectors, sparse, next_id>>

QueryDense(f, k) ==
    \E g \in {f, Shipped(f)} : \E ids \in Dense(g, k) : Answers("dense", f, None, k, ids, <<>>)

-----------------------------------------------------------------------------
(* Text *)

Relevant(term) == {p[2] : p \in {q \in postings : q[1] = term}}

Truncated(list, n) == IF Len(list) <= n THEN list ELSE SubSeq(list, 1, n)

(* Bm25Index::search: n of the relevant, in whatever order they score.      *)
Ranked(S, n) == {Truncated(s, n) : s \in SetToSeqs(S)}

Wanted(f, i) == f = None \/ (id_map[i] # None /\ Passes(f, i))

Filtered(list, f) ==
    LET kept[n \in 0 .. Len(list)] ==
            IF n = 0 THEN <<>>
            ELSE IF Wanted(f, list[n]) THEN Append(kept[n - 1], list[n]) ELSE kept[n - 1]
    IN  kept[Len(list)]

QuerySparse(term, f, k) ==
    \E list \in Ranked(Relevant(term), Prefetch * k) :
        Answers("sparse", f, term, k, ToSet(Truncated(Filtered(list, f), k)), <<>>)

(* reciprocal_rank_fusion: 1 / (RrfK + rank + 1), over a common multiple.   *)
Product[n \in 0 .. MaxId] == IF n = 0 THEN 1 ELSE Product[n - 1] * (RrfK + n)

Multiple == Product[MaxId]

Contribution(list, i) ==
    LET places == {r \in DOMAIN list : list[r] = i}
    IN  IF places = {} THEN 0 ELSE Multiple \div (RrfK + CHOOSE r \in places : TRUE)

(* A mutant: the second list overrides the first. *)
ScoreOverrides(lists, i) ==
    LET last == Contribution(lists[2], i) IN IF last = 0 THEN Contribution(lists[1], i) ELSE last

Score(lists, i) == Contribution(lists[1], i) + Contribution(lists[2], i)

(* The k of highest score. *)
Fused(lists, k) ==
    LET all == ToSet(lists[1]) \cup ToSet(lists[2])
    IN  {T \in SUBSET all :
            /\ Cardinality(T) <= k
            /\ T # all => Cardinality(T) = k
            /\ \A i \in T, j \in all \ T : Score(lists, j) <= Score(lists, i)}

ByDistance(S) ==
    {s \in SetToSeqs(S) : \A m, n \in DOMAIN s : m < n => vectors[s[m]] <= vectors[s[n]]}

(* query_hybrid_opts with reciprocal rank fusion *)
QueryHybrid(term, f, k) ==
    \E ids \in Dense(f, Prefetch * k) :
        \E list1 \in ByDistance(ids), ranked \in Ranked(Relevant(term), Prefetch * k) :
            LET lists == <<list1, Filtered(ranked, f)>>
            IN  \E T \in Fused(lists, k) : Answers("hybrid", f, term, k, T, lists)

(* The caller has its answer. *)
Return ==
    /\ answer # None
    /\ answer' = None
    /\ UNCHANGED <<metadata, vectors, sparse, next_id>>

Next ==
    \/ Return
    \/ /\ answer = None
       /\ \/ \E e \in Ext : Delete(e) \/ \E p \in Point : Upsert(e, p)
          \/ Reopen
          \/ \E f \in Filter \cup {None}, k \in 0 .. MaxK :
                QueryDense(f, k) \/ \E term \in Term : QuerySparse(term, f, k) \/ QueryHybrid(term, f, k)

Spec == Init /\ [][Next]_vars

-----------------------------------------------------------------------------
(* Properties *)

Matching(f) == {i \in Live : f = None \/ Matches(f, by_external[id_map[i]])}

(* Those that match and have the fields the filter compares by "$ne": a     *)
(* missing one matches, and is answered for or not.                         *)
Certain(f) ==
    {i \in Matching(f) : f = None \/ Denied[f] \subseteq DOMAIN by_external[id_map[i]]}

(* Room for all that passes: no filter is applied after the index has given *)
(* what it fetches, or what it fetches is everything.                       *)
Whole(f, k) == FetchK(f, k) = k \/ Cardinality(Live) <= FetchK(f, k)

DenseExact ==
    answer # None /\ answer.op = "dense" /\ answer.k > 0 =>
        LET ids == answer.ids
            f == answer.filter
        IN  /\ ids \subseteq Matching(f)
            /\ Cardinality(ids) <= answer.k
            /\ Exact /\ Whole(f, answer.k) =>
                  \A out \in Certain(f) \ ids :
                      /\ Cardinality(ids) = answer.k
                      /\ \A in \in ids : vectors[in] <= vectors[out]

(* The points whose text, as it is now, has a term. *)
Having(term) == {i \in Live : texts[i] # None /\ term \in ToSet(texts[i])}

TextExact ==
    answer # None /\ answer.op = "sparse" =>
        LET ids == answer.ids
            right == Having(answer.term) \cap Matching(answer.filter)
        IN  /\ ids \subseteq right
            /\ Cardinality(ids) <= answer.k
            /\ Cardinality(Having(answer.term)) <= Prefetch * answer.k =>
                  ids = right \/ Cardinality(ids) = answer.k

(* A dense query answers with points that match, by the documents they have *)
(* now, and on an exact index leaves none out that is nearer than one it    *)
(* gives, nor any while it gives fewer than it may: not when the filter was *)
(* answered by the inverted index, also after updates, deletes and reopens, *)
(* nor when it crossed to a shard as JSON.  A filter applied afterwards may *)
(* miss what lies beyond the overfetch.  A query by text answers with points*)
(* that match and whose text, as it is now, has the term, and unless more   *)
(* have it than are fetched, leaves none out while it gives fewer than it   *)
(* may.  (Collection::query, MetadataStore::eligible_ids, Filter::matches,  *)
(* Filter::to_json, Collection::query_sparse, Bm25Index::search)            *)
AnswersExact == DenseExact /\ TextExact

(* The lengths of the texts there are, added up. *)
Lengths ==
    LET sum[n \in 0 .. MaxId] ==
            IF n = 0 THEN 0
            ELSE sum[n - 1] + IF texts[n - 1] = None THEN 0 ELSE Len(texts[n - 1])
    IN  sum[MaxId]

(* The text index is that of the texts there are: its postings, lengths and *)
(* their total, which all scores depend on, belong to points that are there,*)
(* however often a text was replaced, kept or removed.                      *)
(* (Bm25Index::upsert, remove)                                              *)
TextsCounted ==
    LET Texts == {i \in Id : texts[i] # None}
    IN  /\ Texts \subseteq Live
        /\ postings = UNION {{<<t, i>> : t \in ToSet(texts[i])} : i \in Texts}
        /\ \A i \in Id : doc_len[i] = IF i \in Texts THEN Len(texts[i]) ELSE None
        /\ total_len = Lengths

Before(list, a, b) ==
    \E m \in DOMAIN list : list[m] = a /\ \A n \in DOMAIN list : list[n] = b => m < n

(* A fused answer is at most k of what the two sides found, all of it lets  *)
(* the filter pass, and none is left out for one that comes after it on     *)
(* both sides.  (query_hybrid_opts, reciprocal_rank_fusion)                 *)
FusionKeepsConsensus ==
    answer # None /\ answer.op = "hybrid" =>
        LET all == ToSet(answer.lists[1]) \cup ToSet(answer.lists[2])
        IN  /\ answer.ids \subseteq Matching(answer.filter) \cap all
            /\ Cardinality(answer.ids) <= answer.k
            /\ \A out \in all \ answer.ids, in \in answer.ids :
                  ~ \A s \in 1 .. 2 : Before(answer.lists[s], out, in)
=============================================================================
