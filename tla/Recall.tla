------------------------------- MODULE Recall -------------------------------
(***************************************************************************)
(* core/memory/recall.ts: what of the memory a reply is given.  The        *)
(* rankings of the two searches (embeddings.ts, keywordSearch.ts) are      *)
(* fused (rrf.ts), and what the recent turns do not hold already is put    *)
(* together, piece by piece, up to a size.  Pure operators; what the       *)
(* database and the embedder answer are inputs.                            *)
(***************************************************************************)
EXTENDS Lists, Sequences

CONSTANTS
    Ids,            \* events
    semanticTopK,   \* how many of them each search returns, and recall keeps
    maxChars        \* how much text they may make

ASSUME RecallAssumption ==
    /\ semanticTopK \in 1 .. 5   \* bound: 5 is what the code asks for, and Scale fits into 32 bits
    /\ maxChars \in Nat

Rankings == {q \in SeqOf(Ids, semanticTopK) : IsInjective(q)}

\* semanticSearch keeps what is near enough, which is the beginning of the ranking; it is
\* empty when the embedder is too slow (raceTimeout) or its vector unusable.
semanticSearch(ranking, near) == SubSeq(ranking, 1, near)
----------------------------------------------------------------------------
(* rrf.ts                                                                  *)

DEFAULT_K == 60

\* 1 / (k + rank) in units that make it a whole number.
Scale == FoldLeft(LAMBDA product, rank : product * (DEFAULT_K + rank), 1, [r \in 1 .. semanticTopK |-> r])

rankIn(list, id) == CHOOSE n \in DOMAIN list : list[n] = id

points(list, id) == IF Contains(list, id) THEN Scale \div (DEFAULT_K + rankIn(list, id)) ELSE 0

\* Equal scores keep the order in which the ids were first met.
reciprocalRankFusion(one, other) ==
    LET met == one \o within(other, ToSet(other) \ ToSet(one))
        score == [id \in ToSet(met) |-> points(one, id) + points(other, id)]
    IN  ranked(ToSet(met),
               LAMBDA a, b : \/ score[a] > score[b]
                             \/ score[a] = score[b] /\ rankIn(met, a) < rankIn(met, b))
----------------------------------------------------------------------------
(* recall.ts                                                               *)

capped(q) == SubSeq(q, 1, Min({Len(q), semanticTopK}))

\* Mutant: the best few are taken first, and the recent turns dropped from them.
recallMatchesCapped(semantic, keyword, recent) ==
    within(capped(reciprocalRankFusion(semantic, keyword)), Ids \ recent)

recallMatches(semantic, keyword, recent) ==
    capped(within(reciprocalRankFusion(semantic, keyword), Ids \ recent))

\* tryAdd: a piece that does not fit is left out whole, and a later one may fit yet.
tryAdd(text, piece, size) ==
    LET longer == text.used + size[piece] + IF text.included = <<>> THEN 0 ELSE 1
    IN  IF longer > maxChars
        THEN [text EXCEPT !.truncated = TRUE]
        ELSE [text EXCEPT !.included = Append(@, piece), !.used = longer]

assembled(pieces, size) ==
    FoldLeft(LAMBDA text, piece : tryAdd(text, piece, size),
             [included |-> <<>>, used |-> 0, truncated |-> FALSE], pieces)
----------------------------------------------------------------------------
(* The reference, with no score in it.                                     *)

foundBy(semantic, keyword, id) == {q \in {<<1, semantic>>, <<2, keyword>>} : Contains(q[2], id)}

\* `a` is as good as `b` in every search that has found `b`.
dominates(semantic, keyword, a, b) ==
    \A q \in foundBy(semantic, keyword, b) :
        Contains(q[2], a) /\ rankIn(q[2], a) < rankIn(q[2], b)

\* What both searches have found comes before what only one has.
betterOf(semantic, keyword, a, b) ==
    \/ dominates(semantic, keyword, a, b)
    \/ Cardinality(foundBy(semantic, keyword, a)) > Cardinality(foundBy(semantic, keyword, b))

\* The pieces of `q`, a newline after each.
lengthOf(q, size) == FoldLeft(LAMBDA sum, piece : sum + size[piece] + 1, 0, q)

\* Recall as the reference has it, for every pair of rankings, recent turns and sizes.
RecallsAlike ==
    /\ \A ranking, keyword \in Rankings, recent \in SUBSET Ids : \A near \in 0 .. Len(ranking) :
          LET semantic == semanticSearch(ranking, near)
              found == (ToSet(semantic) \cup ToSet(keyword)) \ recent
              given == recallMatches(semantic, keyword, recent)
          IN  /\ IsInjective(given) /\ ToSet(given) \subseteq found
              /\ Len(given) = Min({Cardinality(found), semanticTopK})
              /\ \A a, b \in found :
                    betterOf(semantic, keyword, a, b) /\ Contains(given, b) =>
                        Contains(given, a) /\ rankIn(given, a) < rankIn(given, b)
    /\ \A pieces \in Rankings, size \in [Ids -> 0 .. maxChars + 1] :
          LET text == assembled(pieces, size)
              before(n) == within(SubSeq(pieces, 1, n - 1), ToSet(text.included))
          IN  /\ text.included # <<>> => lengthOf(text.included, size) - 1 <= maxChars
              /\ text.truncated <=> text.included # pieces
              /\ \A n \in DOMAIN pieces :
                    Contains(text.included, pieces[n]) <=> lengthOf(before(n), size) + size[pieces[n]] <= maxChars
=============================================================================
