-------------------------- MODULE MCSyllabusGrades --------------------------
(***************************************************************************)
(* Instances of GradeCalculator.                                           *)
(***************************************************************************)
EXTENDS GradeCalculator

CONSTANTS t1, t2, clear, vague, fix, slip

TabSymmetry == Permutations(Tabs)

\* A clear extraction is accepted as it is, a vague one when corrected.
MCAccepts == {<<clear, Plain>>, <<clear, fix>>, <<vague, fix>>}

-----------------------------------------------------------------------------
(* The grade models of syllabi.                                            *)

Category(name, weight, count, cited) ==
    [name |-> name, weight |-> weight, count |-> count, cited |-> cited]

Assessment(name, category, date, weight) ==
    [name |-> name, category |-> category, date |-> date, weight |-> weight,
     points |-> Unknown, cited |-> Vague]

InPoints(name, points, cited) ==
    [name |-> name, category |-> Unknown, date |-> Unknown, weight |-> Unknown,
     points |-> points, cited |-> cited]

Cutoff(letter, low, high) ==
    [letter |-> letter, minimum |-> low, maximum |-> high, cited |-> <<low, high>>]

Rule(type, source, target) ==
    [type |-> type, source |-> source, target |-> target, simple |-> TRUE, cited |-> Vague]

Model(method, categories, assessments, thresholds, rules, warnings) ==
    [method |-> method, categories |-> categories, assessments |-> assessments,
     thresholds |-> thresholds, rules |-> rules, warnings |-> warnings]

Scale == <<Cutoff("A", 90, 100), Cutoff("B", 80, 89), Cutoff("C", 60, 79)>>

\* Scales that share one score or more, in and out of order, or with one bound.
Scales ==
    {Scale,
     <<Cutoff("A", 91, 100), Cutoff("B", 80, 90), Cutoff("C", 70, 80)>>,
     <<Cutoff("C", 70, 80), Cutoff("B", 80, 90), Cutoff("A", 91, 100)>>,
     <<Cutoff("A", 90, 100), Cutoff("B", 80, 90), Cutoff("C", 70, 80)>>,
     <<Cutoff("A", 90, 100), Cutoff("B", 75, 89), Cutoff("C", 70, 80)>>,
     <<Cutoff("A", 70, 79), Cutoff("B", 80, 89)>>,
     <<Cutoff("S", 70, 100), Cutoff("U", 0, 69)>>,
     <<[Cutoff("A", 90, Unknown) EXCEPT !.cited = Vague], Cutoff("B", 80, 89)>>,
     <<[Cutoff("A", 90, 100) EXCEPT !.cited = Vague], [Cutoff("B", 80, 89) EXCEPT !.cited = <<80, 90>>]>>}

Simple(scale) ==
    Model("weighted", <<Category("exams", 60, Unknown, 60), Category("quizzes", 40, Unknown, 40),
                        Category("attendance", 0, Unknown, 0)>>,
          <<>>, scale, <<>>, <<>>)

\* Categories that do or do not decompose, with and without their weights.
Weighings ==
    {Model(method, categories, assessments, Scale, <<>>, <<>>) :
        method \in {"weighted", "hybrid", "unknown"},
        categories \in {<<Category("exams", 60, count, cited)>> : count \in {Unknown, 2, 3}, cited \in {60, Vague}} \cup
                       {<<Category("exams", Unknown, 2, Vague)>>},
        assessments \in {<<Assessment("midterm", "exams", "d1", 20), Assessment("final", "exams", "d3", 40)>> \o rest :
                            rest \in {<<Assessment("project", Unknown, "d2", 40)>>,
                                      <<Assessment("midterm", Unknown, "d2", 40)>>,
                                      <<Assessment("final", "exam", "d2", 40)>>,
                                      <<Assessment("exams", Unknown, "d2", 40)>>,
                                      <<Assessment("quiz", Unknown, "d1", 20), Assessment("quiz", Unknown, "d2", 20)>>}}}

\* Replacement rules, alone, together and in a chain, and other rules.
Policies ==
    {Model("weighted", <<Category("quizzes", 20, Unknown, 20)>>,
           <<Assessment("midterm", Unknown, "d1", 30), Assessment("final", Unknown, "d2", 50)>>,
           Scale, rules, <<>>) :
        rules \in {<<>>, <<Rule("replacement", "final", "midterm")>>,
                   <<[Rule("replacement", "final", "midterm") EXCEPT !.simple = FALSE]>>,
                   <<Rule("replacement", "final", "midterm"), Rule("replacement", "quizzes", "midterm")>>,
                   <<Rule("replacement", "final", "midterm"), Rule("replacement", "midterm", "quizzes")>>,
                   <<Rule("replacement", "final", "homework")>>, <<Rule("replacement", Unknown, "midterm")>>,
                   <<Rule("curve", Unknown, Unknown), Rule("drop", "quizzes", "quizzes")>>}}

Warned == {[Simple(Scale) EXCEPT !.warnings = <<warning>>] : warning \in {"possible_curve", "other"}}

InPointsOnly ==
    {Model("points", <<>>, <<InPoints("lab", 100, 100), InPoints("final", points, cited)>>,
           Scale, <<Rule("replacement", "final", "lab")>>, <<>>) :
        points \in {Unknown, 300}, cited \in {Vague, 300, 400}}

Syllabi == {Simple(scale) : scale \in Scales} \cup Weighings \cup Policies \cup Warned \cup InPointsOnly

MCReadings == [e \in {clear, vague} |-> {g \in Syllabi : Accepted(g, <<>>) <=> e = clear}]

-----------------------------------------------------------------------------
(* Corrections.                                                            *)

Fix(target, at, op, value) == [target |-> target, at |-> at, op |-> op, value |-> value]

Helpful ==
    <<<<Fix("thresholds", "C", "resolve", Unknown)>>,
      <<Fix("thresholds", "C", "resolve", Unknown),
        Fix("thresholds", "B", "maximum", 85), Fix("thresholds", "B", "confirm", Unknown),
        Fix("thresholds", "C", "maximum", 88), Fix("thresholds", "C", "confirm", Unknown)>>,
      <<Fix("thresholds", "C", "maximum", 79), Fix("thresholds", "C", "confirm", Unknown),
        Fix("thresholds", "A", "minimum", 91), Fix("thresholds", "A", "confirm", Unknown),
        Fix("thresholds", "B", "minimum", 80), Fix("thresholds", "B", "confirm", Unknown)>>,
      <<Fix("categories", "exams", "weight", 60), Fix("categories", "exams", "confirm", Unknown),
        Fix("method", Unknown, "weighted", Unknown)>>,
      <<Fix("categories", "exams", "count", 2), Fix("assessments", "final", "name", "last exam")>>,
      <<Fix("assessments", "midterm", "category", Unknown)>>,
      <<Fix("warnings", 1, "remove", Unknown)>>,
      <<Fix("rules", 1, "source", "final"), Fix("rules", 1, "target", "midterm"),
        Fix("rules", 1, "simple", TRUE)>>,
      <<Fix("rules", 1, "remove", Unknown)>>>>

\* Nothing is accepted when the grading method is unknown.
Harmful == <<<<Fix("method", Unknown, "unknown", Unknown)>>,
             <<Fix("categories", "exams", "weight", 70)>>>>

MCLists == [b \in {fix, slip} |-> IF b = fix THEN Helpful ELSE Harmful]

=============================================================================
