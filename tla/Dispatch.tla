------------------------------ MODULE Dispatch ------------------------------
(***************************************************************************)
(* core/skills/registry.ts and loader.ts: which of the registered skills   *)
(* are loaded; dispatch.ts and embeddingMatch.ts: from the similarity of   *)
(* an utterance to every example of those to the decision what to do with  *)
(* it.  Pure operators; similarities are in hundredths.                    *)
(***************************************************************************)
EXTENDS Lists, Sequences

CONSTANTS
    Modules,        \* the skill modules, in the order of REGISTERED_SKILL_MODULES
    Starts,         \* those that can be imported and whose init does not throw
    IdOf,           \* the id each declares
    ExamplesOf,     \* the examples of each manifest, in order
    IntentOf,       \* the intent of each example
    LanesOf         \* the lanes each intent is for

ASSUME DispatchAssumption ==
    /\ Modules \in Seq(ToSet(Modules))
    /\ \A m \in ToSet(Modules) : ExamplesOf[m] \in Seq(ToSet(ExamplesOf[m]))

CANDIDATE_FLOOR == 50
DISPATCH_SCORE == 72
DISPATCH_MARGIN == 8
DISAMBIGUATION_SHORTLIST == 3

AllLanes == {"reflex", "converse", "reason", "see", "act"}

\* A manifest without examples, or for a lane that does not exist, is invalid.
validateManifest(m) ==
    /\ ExamplesOf[m] # <<>>
    /\ \A e \in ToSet(ExamplesOf[m]) : LanesOf[IntentOf[e]] \in SUBSET AllLanes \ {{}}

\* Whatever goes wrong in it disables this skill alone.
loadSkill(m) == m \in Starts /\ validateManifest(m)

\* The second skill to declare an id loses.
loadAll ==
    FoldLeft(LAMBDA skills, m : IF loadSkill(m) /\ \A x \in ToSet(skills) : IdOf[x] # IdOf[m]
                                THEN Append(skills, m) ELSE skills,
             <<>>, Modules)

\* embedManifestExamples
Examples == FlattenSeq([n \in DOMAIN loadAll |-> ExamplesOf[loadAll[n]]])

Intents == {IntentOf[e] : e \in ToSet(Examples)}

\* bestByIntent: the score of an intent is that of its best example; equal scores keep
\* the order in which the intents were first met.
best(score, i) == Max({score[e] : e \in {x \in ToSet(Examples) : IntentOf[x] = i}})

firstMet(i) == Min({n \in DOMAIN Examples : IntentOf[Examples[n]] = i})

\* The candidates of a lane, best first.
laneFiltered(score, lane) ==
    ranked({i \in Intents : lane \in LanesOf[i]},
           LAMBDA i, j : \/ best(score, i) > best(score, j)
                         \/ best(score, i) = best(score, j) /\ firstMet(i) < firstMet(j))

\* Mutant: the margin is not compared, a high score is enough.
clearWinnerByScore(score, q) == best(score, q[1]) >= DISPATCH_SCORE

clearWinner(score, q) ==
    /\ best(score, q[1]) >= DISPATCH_SCORE
    /\ Len(q) > 1 => best(score, q[1]) - best(score, q[2]) >= DISPATCH_MARGIN

\* What dispatch() does before any model is asked: nothing matches, one intent is a
\* clear winner, or a model is asked to choose among the first three.
decide(score, lane) ==
    LET q == laneFiltered(score, lane)
    IN  IF q = <<>> \/ best(score, q[1]) < CANDIDATE_FLOOR
        THEN [to |-> "none", among |-> {}]
        ELSE IF clearWinner(score, q)
             THEN [to |-> "run", among |-> {q[1]}]
             ELSE [to |-> "ask",
                   among |-> {q[n] : n \in 1 .. Min({Len(q), DISAMBIGUATION_SHORTLIST})}]

\* The reference, with no order of evaluation and no ranking in it: the examples of the
\* sound skills that nobody with their id comes before, and the intent, for the lane, that
\* scores well on them and beats every other by the margin; or none that is worth a
\* question; or the few to ask about, than which no other scores better.
Declared == UNION {ToSet(ExamplesOf[Modules[n]]) : n \in DOMAIN Modules}

Served ==
    UNION {ToSet(ExamplesOf[Modules[n]]) : n \in
        {k \in DOMAIN Modules :
            /\ loadSkill(Modules[k])
            /\ \A j \in 1 .. k - 1 : loadSkill(Modules[j]) => IdOf[Modules[j]] # IdOf[Modules[k]]}}

Unrivalled(score, lane) ==
    {IntentOf[e] : e \in
        {x \in Served :
            /\ lane \in LanesOf[IntentOf[x]]
            /\ score[x] >= DISPATCH_SCORE
            /\ \A y \in Served :
                 IntentOf[y] # IntentOf[x] /\ lane \in LanesOf[IntentOf[y]]
                    => \E z \in Served : IntentOf[z] = IntentOf[x]
                                        /\ score[y] + DISPATCH_MARGIN <= score[z]}}

ServedTo(lane) == {x \in Served : lane \in LanesOf[IntentOf[x]]}

Hopeless(score, lane) == \A x \in ServedTo(lane) : score[x] < CANDIDATE_FLOOR

IsShortlist(score, lane, few) ==
    LET offered == {IntentOf[x] : x \in ServedTo(lane)}
    IN  /\ few \subseteq offered
        /\ Cardinality(few) = Min({Cardinality(offered), DISAMBIGUATION_SHORTLIST})
        /\ \A i \in few : \A y \in ServedTo(lane) :
              IntentOf[y] \notin few => \E x \in Served : IntentOf[x] = i /\ score[y] <= score[x]

=============================================================================
