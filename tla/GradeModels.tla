----------------------------- MODULE GradeModels -----------------------------
(***************************************************************************)
(* Which grade models the calculator may trust: the corrections a student  *)
(* makes to an extracted model (corrections.py), the overlapping cutoffs   *)
(* that have one answer (cutoff_resolution.py), the weights that count     *)
(* (weighting.py, validation.py) and the reconciliation that accepts a     *)
(* model or sends it to review (reconciliation.py).                        *)
(*                                                                         *)
(* Weights are whole percents, names are normalized and the letters are    *)
(* those of the scale.  The cited evidence of a claim is what its text     *)
(* states: the value, nothing that parses (Vague), or no text (Unknown).   *)
(***************************************************************************)
EXTENDS Integers, FiniteSets, SequencesExt

CONSTANTS
    Unknown,    \* null
    Vague,      \* an evidence text that states no value
    Refused     \* an exception instead of a model or a result

Names(items) == {items[i].name : i \in DOMAIN items}

Total(numbers) == FoldLeft(LAMBDA sum, n : sum + n, 0, numbers)

Weights(items) == [i \in DOMAIN items |-> items[i].weight]

\* Those of the items that are among these, in their order.
Chosen(items, these) ==
    FoldLeft(LAMBDA chosen, item : IF item \in these THEN Append(chosen, item) ELSE chosen, <<>>, items)

-----------------------------------------------------------------------------
(* The weights that count towards the course.                              *)

WeightedCategories(g) == Chosen(g.categories, {c \in ToSet(g.categories) : c.weight # Unknown})

Standalone(g) ==
    Chosen(g.assessments, {a \in ToSet(g.assessments) : a.weight # Unknown /\ a.category = Unknown})

TotalWeight(g) == Total(Weights(WeightedCategories(g))) + Total(Weights(Standalone(g)))

Within(g, names) == Chosen(g.assessments, {a \in ToSet(g.assessments) : a.category \in names})

Children(g, category) == Within(g, {category.name})

SumsUp(children, category) ==
    /\ children # <<>> /\ category.weight # Unknown
    /\ Unknown \notin ToSet(Weights(children))
    /\ Total(Weights(children)) = category.weight
    /\ category.count \in {Unknown, Len(children)}

\* Mutant: a child may share its name with an assessment outside the category.
DecomposableByWeight(g, category) ==
    LET children == Children(g, category)
    IN  /\ SumsUp(children, category)
        /\ Cardinality(Names(children)) = Len(children)

\* Its assessments may be scored one by one, each under a name nothing else has.
Decomposable(g, category) ==
    LET children == Children(g, category)
        others == {a \in ToSet(g.assessments) : a.category # category.name}
    IN  /\ SumsUp(children, category)
        /\ Cardinality(Names(children)) = Len(children)
        /\ Names(children) \cap ({a.name : a \in others} \cup (Names(g.categories) \ {category.name})) = {}

-----------------------------------------------------------------------------
(* Letter cutoffs.                                                         *)

LetterRank == [A |-> 0, B |-> 1, C |-> 2, D |-> 3, F |-> 4]

Bounded(t) == t.minimum # Unknown /\ t.maximum # Unknown

\* A missing bound is infinite.
AtMost(low, high) == low = Unknown \/ high = Unknown \/ low <= high

Overlap(s, t) ==
    /\ s.letter # t.letter
    /\ AtMost(s.minimum, t.maximum) /\ AtMost(t.minimum, s.maximum)

\* No third cutoff overlaps either of the two.
Apart(cutoffs, i, j) ==
    \A k \in (DOMAIN cutoffs) \ {i, j} :
        ~Overlap(cutoffs[k], cutoffs[i]) /\ ~Overlap(cutoffs[k], cutoffs[j])

\* The overlaps that "higher grade wins" settles: two letters next to each
\* other that share one score, and nothing else overlaps with either.
ResolvedOverlaps(cutoffs) ==
    {[winner |-> cutoffs[p[1]].letter, loser |-> cutoffs[p[2]].letter] :
        p \in {p \in (DOMAIN cutoffs) \X (DOMAIN cutoffs) :
                  LET higher == cutoffs[p[1]]
                      lower == cutoffs[p[2]]
                  IN  /\ Bounded(higher) /\ Bounded(lower)
                      /\ {higher.letter, lower.letter} \subseteq DOMAIN LetterRank
                      /\ LetterRank[lower.letter] = LetterRank[higher.letter] + 1
                      /\ higher.minimum = lower.maximum
                      /\ Apart(cutoffs, p[1], p[2])}}

\* The overlap a letter belongs to: the first in the order of the letters.
OverlapsOf(letter, cutoffs) ==
    LET mine == {r \in ResolvedOverlaps(cutoffs) : letter \in {r.winner, r.loser}}
    IN  {r \in mine : \A other \in mine : LetterRank[r.winner] <= LetterRank[other.winner]}

-----------------------------------------------------------------------------
(* Corrections: [target, at, op, value], applied in order and all or none. *)

Operations ==
    [categories  |-> {"name", "weight", "count", "confirm"},
     assessments |-> {"name", "weight", "points", "date", "category"},
     thresholds  |-> {"minimum", "maximum", "confirm", "resolve"},
     rules       |-> {"source", "target", "simple", "confirm", "remove"},
     warnings    |-> {"remove"},
     method      |-> {"weighted", "points", "hybrid", "unknown"}]

\* Position of what a correction is about, 0 when there is no such thing.
Position(g, c) ==
    CASE c.target \in {"rules", "warnings"} -> IF c.at <= Len(g[c.target]) THEN c.at ELSE 0
      [] c.target = "thresholds" -> SelectInSeq(g.thresholds, LAMBDA t : t.letter = c.at)
      [] OTHER -> SelectInSeq(g[c.target], LAMBDA item : item.name = c.at)

\* The corrected item passes the validation of its class.
Constructible(g, c, item) ==
    /\ c.op = "name" => c.value # Unknown
    /\ c.op = "category" => c.value \in Names(g.categories) \cup {Unknown}
    /\ c.op \in {"weight", "count", "points"} => AtMost(0, c.value)
    /\ c.target = "thresholds" =>
          /\ item.minimum # Unknown \/ item.maximum # Unknown
          /\ AtMost(item.minimum, item.maximum)

Edited(g, c, n) ==
    LET item == [g[c.target][n] EXCEPT ![c.op] = c.value]
    IN  IF Constructible(g, c, item) THEN [g EXCEPT ![c.target][n] = item] ELSE Refused

Applicable(g, c) == c.op \in Operations[c.target] /\ (c.target # "method" => Position(g, c) # 0)

Corrected(g, c) ==
    CASE ~Applicable(g, c) -> Refused
      [] Applicable(g, c) /\ c.target = "method" -> [g EXCEPT !.method = c.op]
      [] Applicable(g, c) /\ c.op = "confirm" -> g
      [] Applicable(g, c) /\ c.op = "resolve" ->
             IF OverlapsOf(c.at, g.thresholds) # {} THEN g ELSE Refused
      [] Applicable(g, c) /\ c.op = "remove" -> [g EXCEPT ![c.target] = RemoveAt(@, Position(g, c))]
      [] OTHER -> Edited(g, c, Position(g, c))

\* apply_grade_model_corrections
Candidate(extracted, corrections) ==
    FoldLeft(LAMBDA g, c : IF g = Refused THEN Refused ELSE Corrected(g, c), extracted, corrections)

\* What the student affirms with the batch, whatever the model says of it.
Affirmed(corrections, target, op) ==
    {corrections[i].at :
        i \in {i \in DOMAIN corrections : corrections[i].target = target /\ corrections[i].op = op}}

\* The cutoff pairs are looked up in the extracted model, not in the candidate.
ConfirmedCutoffs(extracted, corrections) ==
    {{r.winner, r.loser} :
        r \in UNION {OverlapsOf(letter, extracted.thresholds) :
                        letter \in Affirmed(corrections, "thresholds", "resolve")}}

-----------------------------------------------------------------------------
(* Reconciliation: the findings about a model, by their codes.             *)

When(condition, code) == IF condition THEN {code} ELSE {}

WeightFindings(g) ==
    LET none == WeightedCategories(g) = <<>> /\ Standalone(g) = <<>>
        off == IF none THEN g.method = "weighted" /\ (g.categories # <<>> \/ g.assessments # <<>>)
                       ELSE TotalWeight(g) # 100
    IN  When(off, "category_weight_validation")

\* Two assessments of one name are told apart by their dates.
DuplicateFindings(g) ==
    LET categories == [i \in DOMAIN g.categories |-> g.categories[i].name]
        assessments == [i \in DOMAIN g.assessments |-> <<g.assessments[i].name, g.assessments[i].date>>]
    IN  When(~IsInjective(categories), "duplicate_category") \cup
        When(~IsInjective(assessments), "duplicate_assessment")

\* Mutant: a confirmed pair is let through without another look at it.
ConfirmedOverlap(s, t, confirmed, cutoffs) == {s.letter, t.letter} \in confirmed

\* A confirmed pair whose overlap "higher grade wins" still settles.
SettledOverlap(s, t, confirmed, cutoffs) ==
    /\ {s.letter, t.letter} \in confirmed
    /\ {s.letter, t.letter} \in {{r.winner, r.loser} : r \in ResolvedOverlaps(cutoffs)}

\* Position i comes before j when the cutoffs are sorted by letter.
Higher(cutoffs, i, j) ==
    LET r == LetterRank[cutoffs[i].letter]
        q == LetterRank[cutoffs[j].letter]
    IN  r < q \/ (r = q /\ i < j)

ThresholdFindings(g, confirmed) ==
    LET cutoffs == g.thresholds
        floors == {i \in DOMAIN cutoffs : cutoffs[i].minimum # Unknown}
    IN  When(\E s, t \in ToSet(cutoffs) : /\ Bounded(s) /\ Bounded(t) /\ Overlap(s, t)
                                          /\ ~SettledOverlap(s, t, confirmed, cutoffs),
             "overlapping_grade_thresholds") \cup
        When(/\ {t.letter : t \in ToSet(cutoffs)} \subseteq DOMAIN LetterRank
             /\ \E i, j \in floors : Higher(cutoffs, i, j) /\ cutoffs[i].minimum < cutoffs[j].minimum,
             "grade_threshold_ordering_anomaly")

Deterministic(rule) ==
    /\ rule.type \in {"replacement", "drop"}
    /\ rule.source # Unknown /\ rule.target # Unknown

ReferenceFindings(g) ==
    LET known == Names(g.categories) \cup Names(g.assessments) \cup {Unknown}
    IN  When(\E r \in ToSet(g.rules) : ~({r.source, r.target} \subseteq known),
             "unresolved_rule_reference") \cup
        When(\E r \in ToSet(g.rules) : ~Deterministic(r), "non_deterministic_grading_rule") \cup
        When(\E a \in ToSet(g.assessments) : a.category \notin Names(g.categories) \cup {Unknown},
             "unresolved_assessment_category_reference")

\* Everything the calculator will use must cite a text.
Claims(g) ==
    {c \in ToSet(g.categories) : c.weight # Unknown} \cup
    {a \in ToSet(g.assessments) : a.weight # Unknown \/ a.points # Unknown \/ a.date # Unknown} \cup
    ToSet(g.thresholds) \cup ToSet(g.rules)

Parsed(item) == item.cited \notin {Unknown, Vague}

\* Where the text states a value it must be the claimed one.  A student's word
\* stands in for a value that does not parse, and for a cutoff also against one that does.
EvidenceFindings(g, letters, names) ==
    LET weights == {c \in ToSet(g.categories) : c.weight # Unknown}
        points == {a \in ToSet(g.assessments) : a.points # Unknown}
        ranges == {t \in ToSet(g.thresholds) : Bounded(t) /\ t.letter \notin letters}
    IN  When(\E claim \in Claims(g) : claim.cited = Unknown, "missing_claim_evidence") \cup
        When(\/ \E c \in weights : c.cited = Vague /\ c.name \notin names
             \/ \E item \in points \cup ranges : item.cited = Vague,
             "claim_evidence_consistency_unverifiable") \cup
        When(\/ \E c \in weights : Parsed(c) /\ c.cited # c.weight
             \/ \E a \in points : Parsed(a) /\ a.cited # a.points
             \/ \E t \in ranges : Parsed(t) /\ t.cited # <<t.minimum, t.maximum>>,
             "claim_evidence_value_mismatch")

Findings(g, confirmed, letters, names) ==
    WeightFindings(g) \cup DuplicateFindings(g) \cup
    When(g.method = "unknown", "grading_method_unknown") \cup
    ThresholdFindings(g, confirmed) \cup ReferenceFindings(g) \cup
    ToSet(g.warnings) \cup EvidenceFindings(g, letters, names)

NonBlocking == {"unknown_assessment_count", "missing_grade_scale", "non_deterministic_grading_rule",
                "possible_curve", "ambiguous_rule", "unknown_weight"}

\* reconcile_grade_model of the extraction after the corrections, none for <<>>.
Accepted(extracted, corrections) ==
    LET g == Candidate(extracted, corrections)
    IN  /\ g # Refused
        /\ Findings(g, ConfirmedCutoffs(extracted, corrections),
                    Affirmed(corrections, "thresholds", "confirm"),
                    Affirmed(corrections, "categories", "confirm")) \subseteq NonBlocking

=============================================================================
