------------------------------- MODULE Search -------------------------------
(***************************************************************************)
(* One search of a user's memory (SearchManager._search_episodes with      *)
(* methods KEYWORD, VECTOR and HYBRID) while cascade and reflection change *)
(* the index between its awaits.  The filters of a request are compiled    *)
(* once to a where clause of SQL, then each recall, fetch and attachment   *)
(* reads the index anew under that clause; the HYBRID ranking lets atomic  *)
(* facts compete with the episodes they were taken from.                   *)
(*                                                                         *)
(* Rows are numbered, a number being the row's id.  Scores are integers of *)
(* which only the order and the thresholds matter; no two items tie.       *)
(***************************************************************************)
EXTENDS Integers, FiniteSets, FiniteSetsExt, SequencesExt

CONSTANTS
    Episodes, Facts,        \* rows of the two tables
    Mine,                   \* rows of the request's owner, app and project
    ParentOf,               \* the episode a fact was extracted from
    Nodes,                  \* filters a client may send
    Scorings,               \* cosine and BM25 scores a query may give the rows
    TopKs, Radii, MinScores,\* request parameters; NoScore is None
    NoScore,
    Cap,                    \* _DEFAULT_TOP_K_CAP
    Multiplier,             \* _DEFAULT_RECALL_MULTIPLIER
    DefaultRadius,          \* _DEFAULT_UNLIMITED_RADIUS
    FactMultiplier,         \* _MAXSIM_FACT_MULTIPLIER
    FactsPerEpisode, MaxRounds,
    MaxChanges              \* bound: changes of the index during a request

Rows == Episodes \cup Facts

Methods == {"KEYWORD", "VECTOR", "HYBRID"}

ASSUME RowsAssumption ==
    /\ Episodes \subseteq Nat /\ Facts \subseteq Nat /\ Mine \subseteq Rows
    /\ Episodes \cap Facts = {}
    /\ ParentOf \in [Facts -> Episodes]

VARIABLES
    index,      \* what the two tables hold: absent, live or deprecated rows
    scoring,    \* cosine of every row and BM25 of every episode
    changes,
    req         \* the request and what its coroutine remembers

vars == <<index, scoring, changes, req>>

---------------------------------------------------------------------------
(* compile_filters.  A fragment of SQL is a disjunction of conjunctions of *)
(* predicates, AND binding tighter than OR, each predicate the set of rows *)
(* that satisfy it; the empty fragment is <<>>.  A node has predicates of  *)
(* fields and two lists of child nodes.                                    *)

Eval(frag) == {r \in Rows : \E i \in DOMAIN frag : \A S \in frag[i] : r \in S}

Paren(frag) == << {Eval(frag)} >>

AndJoin(f, g) == SubSeq(f, 1, Len(f) - 1) \o << Last(f) \cup Head(g) >> \o Tail(g)

OrJoin(f, g) == f \o g

NonEmpty(frags) == SelectSeq(frags, LAMBDA f : f # <<>>)

RECURSIVE CompileNode(_)

\* _compile_combinator: every child in parentheses, and the whole again.
Combinator(children, op) ==
    LET compiled == NonEmpty([i \in DOMAIN children |-> CompileNode(children[i])])
        frags == [i \in DOMAIN compiled |-> Paren(compiled[i])]
    IN  CASE Len(frags) = 0 -> <<>>
          [] Len(frags) = 1 -> frags[1]
          [] OTHER -> Paren(FoldLeft(LAMBDA f, g : IF op = "AND" THEN AndJoin(f, g) ELSE OrJoin(f, g),
                                     Head(frags), Tail(frags)))

CompileNode(node) ==
    LET parts == NonEmpty(<<Combinator(node.all, "AND"),
                            Combinator(node.any, "OR")>>
                          \o [i \in DOMAIN node.preds |-> << {node.preds[i]} >>])
    IN  IF parts = <<>> THEN <<>> ELSE FoldLeft(AndJoin, Head(parts), Tail(parts))

Live(idx) == {r \in Rows : idx[r] = "live"}

\* The rows of idx that satisfy the clause compile_filters returns.
Where(idx, compiled) ==
    LET base == << {Mine, Live(idx)} >>
    IN  Eval(IF compiled = <<>> THEN base ELSE AndJoin(base, compiled))

---------------------------------------------------------------------------
(* What a client means by a node: its predicates, all of its AND children  *)
(* and one of its OR children; children that say nothing do not count.     *)
RECURSIVE Says(_), Meaning(_)
Says(node) ==
    \/ node.preds # <<>>
    \/ \E i \in DOMAIN node.all : Says(node.all[i])
    \/ \E i \in DOMAIN node.any : Says(node.any[i])

Meaning(node) ==
    {r \in Rows :
        /\ \A i \in DOMAIN node.preds : r \in node.preds[i]
        /\ \A i \in DOMAIN node.all : Says(node.all[i]) => r \in Meaning(node.all[i])
        /\ LET options == {i \in DOMAIN node.any : Says(node.any[i])}
           IN  options = {} \/ \E i \in options : r \in Meaning(node.any[i])}

Allowed(idx, node) == Meaning(node) \cap Mine \cap Live(idx)

---------------------------------------------------------------------------
(* Limits and ranked lists.                                                *)

EffectiveTopK(topK) == IF topK = -1 THEN Cap ELSE topK

RecallLimit(topK) == IF topK = -1 THEN Cap ELSE topK * Multiplier

EffectiveRadius(r) ==
    IF r.radius # NoScore THEN r.radius
    ELSE IF r.topK = -1 THEN DefaultRadius ELSE NoScore

FirstN(s, n) == SubSeq(s, 1, IF n < Len(s) THEN n ELSE Len(s))

\* Candidates of the rows in the domain of score, the best first, at most limit.
Ranked(score, limit) ==
    FirstN(SetToSortSeq({[id |-> r, score |-> score[r]] : r \in DOMAIN score},
                        LAMBDA a, b : a.score > b.score), limit)

Ids(cands) == {cands[i].id : i \in DOMAIN cands}

ScoreIn(cands, id) ==
    IF id \in Ids(cands) THEN (CHOOSE c \in ToSet(cands) : c.id = id).score ELSE 0

AtLeast(cands, floor) ==
    SelectSeq(cands, LAMBDA c : floor = NoScore \/ c.score >= floor)

\* EpisodeRecaller: rows without a matching token have no BM25 score.
SparseRecall(idx, r) ==
    Ranked([e \in {e \in Where(idx, r.where) \cap Episodes : scoring.bm25[e] > 0}
                |-> scoring.bm25[e]], RecallLimit(r.topK))

DenseRecall(idx, r) ==
    AtLeast(Ranked([e \in Where(idx, r.where) \cap Episodes |-> scoring.cos[e]],
                   RecallLimit(r.topK)),
            EffectiveRadius(r))

Plain(cand) == [id |-> cand.id, score |-> cand.score, facts |-> {}]

---------------------------------------------------------------------------
(* HYBRID: reciprocal rank fusion decides which episode is expanded next,  *)
(* the calibrated scores decide what stays among the top_k items.          *)

\* fusion.lr and cosine_to_lr_score: a monotone blend of cosine and BM25.
Lr(cos, bm25) == 6 * cos + bm25

Rank(cands, id) == CHOOSE i \in DOMAIN cands : cands[i].id = id

RrfScore(sparse, dense, id) ==
    LET part(cands) == IF id \in Ids(cands)
                       THEN 1000000 \div (60 + Rank(cands, id)) ELSE 0
    IN  part(sparse) + part(dense)

\* Order of rrf's result: by score, then by first appearance.
RrfOrder(sparse, dense) ==
    LET both == sparse \o dense
        score(id) == RrfScore(sparse, dense, id)
        first(id) == CHOOSE i \in DOMAIN both :
                        both[i].id = id /\ \A j \in 1..(i - 1) : both[j].id # id
    IN  SetToSortSeq(Ids(both),
            LAMBDA a, b : \/ score(a) > score(b)
                          \/ score(a) = score(b) /\ first(a) < first(b))

\* Order in which the heap of (-score, id) gives the episodes out.
HeapOrder(sparse, dense) ==
    LET score(id) == RrfScore(sparse, dense, id)
    IN  SetToSortSeq(Ids(sparse \o dense),
            LAMBDA a, b : \/ score(a) > score(b)
                          \/ score(a) = score(b) /\ a < b)

Worst(topn) == CHOOSE x \in topn : \A y \in topn : x.score <= y.score

\* A fact enters and nothing is evicted for it.
EnterOnly(acc, item, k) ==
    IF Cardinality(acc.topn) < k \/ item.score > Worst(acc.topn).score
    THEN [topn |-> acc.topn \cup {item}, entered |-> TRUE]
    ELSE acc

\* One fact enters when there is room or it beats the worst item.
Enter(acc, item, k) ==
    IF Cardinality(acc.topn) < k \/ item.score > Worst(acc.topn).score
    THEN LET grown == acc.topn \cup {item}
         IN  [topn |-> IF Cardinality(grown) > k THEN grown \ {Worst(grown)} ELSE grown,
              entered |-> TRUE]
    ELSE acc

\* An expanded episode leaves whether or not one of its facts entered.
ExpandAway(topn, e, found, sparse, k) ==
    LET items == [i \in DOMAIN found |->
                    [id |-> found[i].id, ep |-> e,
                     score |-> Lr(found[i].score, ScoreIn(sparse, e))]]
        after == FoldLeft(LAMBDA acc, item : Enter(acc, item, k),
                          [topn |-> topn, entered |-> FALSE],
                          FirstN(items, FactsPerEpisode))
    IN  {x \in after.topn : x.id # e}

\* _expand_one_episode: an episode with a fact that entered leaves.
ExpandOne(topn, e, found, sparse, k) ==
    LET items == [i \in DOMAIN found |->
                    [id |-> found[i].id, ep |-> e,
                     score |-> Lr(found[i].score, ScoreIn(sparse, e))]]
        after == FoldLeft(LAMBDA acc, item : Enter(acc, item, k),
                          [topn |-> topn, entered |-> FALSE],
                          FirstN(items, FactsPerEpisode))
    IN  IF after.entered THEN {x \in after.topn : x.id # e} ELSE topn

\* heap_expand, with the facts found for each episode.  It stops after
\* MaxRounds episodes in a row that changed nothing.
HeapExpand(sparse, dense, found, k) ==
    LET episode(e) == [id |-> e, ep |-> e,
                       score |-> Lr(ScoreIn(dense, e), ScoreIn(sparse, e))]
        round(acc, e) ==
            IF acc.idle >= MaxRounds THEN acc
            ELSE LET topn == ExpandOne(acc.topn, e, found[e], sparse, k)
                 IN  [topn |-> topn, expanded |-> acc.expanded \cup {e},
                      idle |-> IF topn = acc.topn THEN acc.idle + 1 ELSE 0]
    IN  FoldLeft(round,
                 [topn |-> {episode(e) : e \in ToSet(FirstN(RrfOrder(sparse, dense), k))},
                  expanded |-> {}, idle |-> 0],
                 HeapOrder(sparse, dense))

\* reshape_hybrid_output: facts nest under their episode, which comes back
\* with the score of its best fact when it is no longer an item itself.
Reshape(topn) ==
    LET of(e) == {x \in topn : x.ep = e}
        own(e) == {x \in of(e) : x.id = e}
        best(S) == CHOOSE x \in S : \A y \in S : y.score <= x.score
        shown(e) == [id |-> e, facts |-> {x.id : x \in of(e) \ own(e)},
                     score |-> best(IF own(e) # {} THEN own(e) ELSE of(e)).score]
    IN  SetToSortSeq({shown(x.ep) : x \in topn}, LAMBDA a, b : a.score > b.score)
---------------------------------------------------------------------------
Idle == [phase |-> "idle"]

Init ==
    /\ index \in [Rows -> {"live"}]
    /\ scoring \in Scorings
    /\ changes = 0
    /\ req = Idle

\* SearchManager.search compiles the filters before anything is read.
Ask ==
    /\ req.phase = "idle"
    /\ \E method \in Methods, topK \in TopKs, radius \in Radii, min \in MinScores, node \in Nodes :
        req' = [phase |-> "recall", method |-> method, topK |-> topK,
                radius |-> radius, min |-> min, node |-> node,
                where |-> CompileNode(node), seen |-> Allowed(index, node),
                pending |-> {"sparse", "dense"}, sparse |-> <<>>, dense |-> <<>>]
    /\ UNCHANGED <<index, scoring, changes>>

Answer(items, basis) ==
    req' = [phase |-> "answered", method |-> req.method, topK |-> req.topK,
            min |-> req.min, seen |-> req.seen, items |-> items, basis |-> basis]

KeywordSearch ==
    /\ req.phase = "recall" /\ req.method = "KEYWORD"
    /\ LET cands == FirstN(SparseRecall(index, req), EffectiveTopK(req.topK))
       IN  Answer([i \in DOMAIN cands |-> Plain(cands[i])], {})
    /\ UNCHANGED <<index, scoring, changes>>

\* _maxsim_atomic_recall up to its second await: each episode with a fact
\* among the nearest gets the best of their scores.
VectorFacts ==
    /\ req.phase = "recall" /\ req.method = "VECTOR"
    /\ LET k == EffectiveTopK(req.topK)
           near == Ranked([f \in Where(index, req.where) \cap Facts |-> scoring.cos[f]],
                          k * FactMultiplier)
           best == [e \in {ParentOf[f] : f \in Ids(near)} |->
                       Max({c.score : c \in {x \in ToSet(near) : ParentOf[x.id] = e}})]
       IN  req' = [req EXCEPT !.phase = "fetch",
                              !.dense = Ranked(best, k)]
    /\ UNCHANGED <<index, scoring, changes>>

\* The fetch asks for the entry ids alone.
VectorFetchAny ==
    /\ req.phase = "fetch"
    /\ LET there == SelectSeq(req.dense, LAMBDA c : index[c.id] # "absent")
           kept == FirstN(AtLeast(there, EffectiveRadius(req)), EffectiveTopK(req.topK))
       IN  Answer([i \in DOMAIN kept |-> Plain(kept[i])], {})
    /\ UNCHANGED <<index, scoring, changes>>

\* fetch_by_entry_ids: the episodes that satisfy the clause by now.
VectorFetch ==
    /\ req.phase = "fetch"
    /\ LET there == SelectSeq(req.dense, LAMBDA c : c.id \in Where(index, req.where))
           kept == FirstN(AtLeast(there, EffectiveRadius(req)), EffectiveTopK(req.topK))
       IN  Answer([i \in DOMAIN kept |-> Plain(kept[i])], {})
    /\ UNCHANGED <<index, scoring, changes>>

\* The two recalls of gather, in either order.
HybridSparse ==
    /\ req.phase = "recall" /\ req.method = "HYBRID" /\ "sparse" \in req.pending
    /\ req' = [req EXCEPT !.sparse = SparseRecall(index, req), !.pending = @ \ {"sparse"}]
    /\ UNCHANGED <<index, scoring, changes>>

HybridDense ==
    /\ req.phase = "recall" /\ req.method = "HYBRID" /\ "dense" \in req.pending
    /\ req' = [req EXCEPT !.dense = DenseRecall(index, req), !.pending = @ \ {"dense"}]
    /\ UNCHANGED <<index, scoring, changes>>

\* facts_for_episodes, then the ranking, which awaits nothing.
HybridRank ==
    /\ req.phase = "recall" /\ req.method = "HYBRID" /\ req.pending = {}
    /\ LET k == EffectiveTopK(req.topK)
           pool == Ids(req.sparse \o req.dense)
           found == [e \in pool |->
                        Ranked([f \in {f \in Where(index, req.where) \cap Facts : ParentOf[f] = e}
                                    |-> scoring.cos[f]], Cardinality(Facts))]
           done == HeapExpand(req.sparse, req.dense, found, k)
       IN  Answer(FirstN(AtLeast(Reshape(done.topn), req.min), k),
                  {[id |-> e, score |-> Lr(found[e][1].score, ScoreIn(req.sparse, e))] :
                        e \in {x \in done.expanded : found[x] # <<>>}}
                  \cup {[id |-> e, score |-> 0] : e \in pool})
    /\ UNCHANGED <<index, scoring, changes>>

\* The client has its answer and may ask again.
Forget ==
    /\ req.phase = "answered"
    /\ req' = Idle
    /\ UNCHANGED <<index, scoring, changes>>

\* Cascade adds, rewrites and removes rows; reflection deprecates them.
IndexChanges ==
    /\ req.phase \notin {"idle", "answered"} /\ changes < MaxChanges
    /\ \E r \in Rows, s \in {"absent", "live", "deprecated"} :
        /\ s # index[r]
        /\ index' = [index EXCEPT ![r] = s]
    /\ changes' = changes + 1
    /\ req' = [req EXCEPT !.seen = @ \cup Allowed(index', req.node)]
    /\ UNCHANGED scoring

Next ==
    \/ Ask \/ KeywordSearch \/ VectorFacts \/ VectorFetch
    \/ HybridSparse \/ HybridDense \/ HybridRank \/ Forget \/ IndexChanges

Spec == Init /\ [][Next]_vars
---------------------------------------------------------------------------
Answered == req.phase = "answered"

ShownFacts(items) == UNION {items[i].facts : i \in DOMAIN items}

(* An answer shows only rows that, at some moment of the request, were in  *)
(* the index, not deprecated, of the request's owner, app and project, and *)
(* what the client's filters mean -- the episodes and the facts nested     *)
(* under them, whichever of the recalls and fetches brought them in.       *)
AnswersAreAllowed ==
    Answered => Ids(req.items) \cup ShownFacts(req.items) \subseteq req.seen

(* An answer is a ranking: episodes once each, best first, none below the  *)
(* requested score; facts under the episode they were extracted from, once *)
(* each; no more than top_k of either, however facts and episodes pushed   *)
(* each other out.                                                         *)
AnswerIsRanked ==
    Answered =>
        LET items == req.items
        IN  /\ Len(items) <= EffectiveTopK(req.topK)
            /\ Cardinality(ShownFacts(items)) <= EffectiveTopK(req.topK)
            /\ \A i, j \in DOMAIN items :
                 i < j => items[i].score > items[j].score /\ items[i].id # items[j].id
            /\ \A i \in DOMAIN items :
                 /\ \A f \in items[i].facts : ParentOf[f] = items[i].id
                 /\ req.method = "HYBRID" /\ req.min # NoScore => items[i].score >= req.min

(* HYBRID: when anything was recalled something is shown, and the best     *)
(* answer is at least as good as the best fact of every episode the heap   *)
(* expanded: a fact that replaced its episode is only displaced by better  *)
(* items.                                                                  *)
BestFactsSurvive ==
    Answered /\ req.min = NoScore =>
        \A b \in req.basis : req.items # <<>> /\ req.items[1].score >= b.score
=============================================================================
