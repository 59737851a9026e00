--------------------------- MODULE GradeCalculator ---------------------------
(***************************************************************************)
(* The grade calculator behind its trust gate: the requests of             *)
(* SyllabusGrades, where an extraction stands for the grade models it may  *)
(* come back with and a batch for the corrections it may consist of, and   *)
(* what GradeMath calculates from the models a ready calculator works on.  *)
(***************************************************************************)
EXTENDS SyllabusGrades, GradeMath

CONSTANTS
    Readings,   \* the grade models of each extraction
    Lists,      \* the lists of corrections of each batch
    Scores100,  \* the scores that are entered, in percent
    Points      \* what a score entered in points is out of

\* The models that pass reconciliation after an extraction and a batch.
Trusted(pair) ==
    LET lists == IF pair[2] = Plain THEN <<<<>>>> ELSE Lists[pair[2]]
    IN  UNION {{Candidate(g, lists[i]) : g \in {g \in Readings[pair[1]] : Accepted(g, lists[i])}} :
                  i \in DOMAIN lists}

\* The relation the requests work with is the one reconciliation yields.
ASSUME AcceptsReconcile ==
    Accepts = {pair \in Extracts \X (Batches \cup {Plain}) : Trusted(pair) # {}}

\* Corrected models have passed the validation of their classes again.
ASSUME ScalesValidated ==
    /\ Unknown \notin Int
    /\ \A pair \in Accepts : \A g \in Trusted(pair) :
          /\ Len(g.thresholds) \in Nat /\ DOMAIN g.thresholds = 1 .. Len(g.thresholds)
          /\ \A t \in ToSet(g.thresholds) :
                {t.minimum, t.maximum} \subseteq Int \cup {Unknown} /\ AtMost(t.minimum, t.maximum)

\* What the components of a model are.
ComponentsOf(g) ==
    [name : Names(g.categories) \cup Names(g.assessments), weight : Nat,
     score : Int \cup {Unknown}, done : BOOLEAN]

\* A number that was left out is Unknown, no other is negative, everything has
\* a name, and no exception is a list of components or a score.
ASSUME WeightsValidated ==
    /\ Scores100 \subseteq Int /\ Points \in Nat
    /\ Unknown \notin [num : Int, den : Int] /\ Refused \notin [num : Int, den : Int]
    /\ \A pair \in Accepts : \A g \in Trusted(pair) :
          /\ \A items \in {g.categories, g.assessments, g.rules} : items \in Seq(ToSet(items))
          /\ \A c \in ToSet(g.categories) : c.weight \in Nat \cup {Unknown} /\ c.name # Unknown
          /\ \A a \in ToSet(g.assessments) : {a.weight, a.points} \subseteq Nat \cup {Unknown}
          /\ Refused \notin Seq(ComponentsOf(g))

\* The calculator is ready only on models with a certain quality.
ReadyOn(sound) ==
    CalculatorReady =>
        <<revisions[profile.current].extract, revisions[profile.current].model>> \in sound

-----------------------------------------------------------------------------
(* The scores a student may enter for a model.                             *)

\* Points are entered as the percent they come to of what they count out of.
Entered(g, x) == [score |-> x, done |-> TRUE,
                  possible |-> IF g.method = "points" THEN Points ELSE Unknown]

EntriesFor(g, items, scores) ==
    UNION {[names -> {Entered(g, x) : x \in scores}] : names \in SUBSET Names(items)}

Sheets(g, scores) ==
    {sheet \in [categories : EntriesFor(g, g.categories, scores),
                assessments : EntriesFor(g, g.assessments, scores)] :
        Calculated(g, sheet) # Refused}

\* Two assessments of one name and different dates are accepted, and are one
\* entry in the engine's dict.
NamesakesApart(g) == Cardinality(Names(Standalone(g))) = Len(Standalone(g))

EvenIn(g) ==
    NamesakesApart(g) =>
        \A x \in Scores100 : \A sheet \in Sheets(g, {x}) : \A components \in {Calculated(g, sheet)} :
            \A grade \in {ProjectedGrade(g, components)} \ {Unknown} : grade.num = x * grade.den

EvenPairs == {pair \in Accepts : \A g \in Trusted(pair) : EvenIn(g)}

\* weighting.py, "the two layers can never disagree about what counts": on
\* every model reconciliation lets through, a student with the same score x on
\* everything has x in the course, whether the categories are scored as a
\* whole or one assessment at a time.
EvenScoresKept == ReadyOn(EvenPairs)

Grades(g) ==
    {[num |-> x, den |-> 1] :
        x \in UNION {{t.minimum, t.maximum, t.maximum + 1} : t \in ToSet(g.thresholds)}}

OrderedIn(g) ==
    (\A t \in ToSet(g.thresholds) : Bounded(t) /\ t.letter \in DOMAIN LetterRank) =>
        \A low, high \in Grades(g) :
            low.num < high.num /\ Unknown \notin {Letter(g, low), Letter(g, high)}
                => LetterRank[Letter(g, high)] <= LetterRank[Letter(g, low)]

OrderedPairs == {pair \in Accepts : \A g \in Trusted(pair) : OrderedIn(g)}

\* reconcile_grade_model: however cutoffs are corrected and their overlaps
\* confirmed, on a scale that is let through a higher grade never gets a
\* lower letter.
LettersFollowScores == ReadyOn(OrderedPairs)

-----------------------------------------------------------------------------
(* The answer to "what do I need on this?".                                *)

\* The engine and the solver look scores up by name.
Unambiguous(g) ==
    LET items == g.categories \o g.assessments
    IN  Cardinality(Names(items)) = Len(items)

\* No rule replaces by what another has replaced: the solver follows one rule.
Unchained(g) ==
    \A r, q \in ToSet(Replacements(g)) : r.target # Unknown => r.target # q.source

\* The sheet with a score for the component as well.
With(g, entries, name, x) ==
    [n \in DOMAIN entries \cup {name} |-> IF n = name THEN Entered(g, x) ELSE entries[n]]

WithScore(g, sheet, name, x) ==
    IF g.method # "points" /\ name \in Names(WeightedCategories(g)) \ Split(g, sheet)
      THEN [sheet EXCEPT !.categories = With(g, @, name, x)]
      ELSE [sheet EXCEPT !.assessments = With(g, @, name, x)]

\* The solver answers for what counts, when it meets at most one rule, from
\* its source's side.
Answerable(g, components, name) ==
    LET met == Chosen(g.rules, {r \in ToSet(Named(g)) : name \in {r.source, r.target}})
    IN  /\ components[Place(components, name)].weight > 0
        /\ \/ met = <<>>
           \/ Len(met) = 1 /\ met[1].target # name /\ Place(components, met[1].target) # 0

Missing(components) == {c.name : c \in {c \in ToSet(components) : c.score = Unknown}}

Floors(g) == {t.minimum : t \in ToSet(g.thresholds)} \ {Unknown}

\* The scores with which the grade reaches a goal are those from its answer on.
Thresholds(needed, g, sheet, name) ==
    \A x \in Scores100 \cup {0, 100} : \E components \in {Calculated(g, WithScore(g, sheet, name, x))} :
        \E grade \in {ProjectedGrade(g, components)} :
            \A goal \in DOMAIN needed :
                /\ needed[goal] \notin {Unknown, Refused}
                /\ grade.num >= goal * grade.den <=> x * needed[goal].den >= needed[goal].num

AnsweredIn(g) ==
    Unchained(g) /\ Unambiguous(g) =>
        \A sheet \in Sheets(g, Scores100) : \E components \in {Calculated(g, sheet)} :
            \A name \in Missing(components) :
                Missing(components) = {name} /\ Answerable(g, components, name) =>
                    \E needed \in {[goal \in Floors(g) |-> Solve(g, components, name, goal)]} :
                        Thresholds(needed, g, sheet, name)

AnsweredPairs == {pair \in Accepts : \A g \in Trusted(pair) : AnsweredIn(g)}

\* solve_required_score: when everything else has a score, the answer is the
\* least score with which calculate_grade_projection reaches the cutoff of
\* the letter, on either side of a replacement rule.
AnswerIsThreshold == ReadyOn(AnsweredPairs)

=============================================================================
