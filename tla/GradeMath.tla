------------------------------ MODULE GradeMath ------------------------------
(***************************************************************************)
(* What the calculator makes of an accepted grade model and the scores a   *)
(* student entered: the components of the course (engine.py), the          *)
(* replacement rules (rules.py), the grade, its letter, and the score that *)
(* is still needed (solver.py).                                            *)
(*                                                                         *)
(* Scores are whole percents.  A grade is a fraction [num, den], so that   *)
(* nothing is rounded.  Points an assessment is out of are positive.       *)
(***************************************************************************)
EXTENDS GradeModels

Unscored == [score |-> Unknown, done |-> FALSE]

\* A sheet has the scores entered for categories and for assessments by name;
\* one entered in points has the points it was out of, one in percent Unknown.
ScoreOf(entries, name) ==
    IF name \in DOMAIN entries THEN [score |-> entries[name].score, done |-> entries[name].done]
                               ELSE Unscored

Component(item, weight, entered) ==
    [name |-> item.name, weight |-> weight, score |-> entered.score, done |-> entered.done]

\* A dict by name: the place of the first, the value of the last.
Indexed(items) ==
    LET firsts == Chosen([i \in DOMAIN items |-> i],
                         {i \in DOMAIN items : items[i].name \notin Names(SubSeq(items, 1, i - 1))})
    IN  [k \in DOMAIN firsts |->
            items[SelectLastInSeq(items, LAMBDA item : item.name = items[firsts[k]].name)]]

\* The categories scored through their assessments in this calculation.
Split(g, sheet) ==
    {c.name : c \in {c \in ToSet(g.categories) :
                        Decomposable(g, c) /\ Names(Children(g, c)) \cap DOMAIN sheet.assessments # {}}}

WeightedComponents(g, sheet) ==
    LET split == Split(g, sheet)
        whole == Chosen(Indexed(WeightedCategories(g)), {c \in ToSet(g.categories) : c.name \notin split})
        parts == Indexed(Standalone(g) \o Within(g, split))
        percents == \A n \in DOMAIN sheet.assessments : sheet.assessments[n].possible = Unknown
    IN  IF DOMAIN sheet.assessments \subseteq Names(parts) /\ percents
          THEN [i \in DOMAIN whole |->
                   Component(whole[i], whole[i].weight, ScoreOf(sheet.categories, whole[i].name))] \o
               [i \in DOMAIN parts |->
                   Component(parts[i], parts[i].weight, ScoreOf(sheet.assessments, parts[i].name))]
          ELSE Refused

\* The points of an assessment, its own or those entered with its score.
Possible(a, sheet) ==
    IF a.points = Unknown /\ a.name \in DOMAIN sheet.assessments
      THEN sheet.assessments[a.name].possible
      ELSE a.points

PointsComponents(g, sheet) ==
    LET usable == Chosen(g.assessments, {a \in ToSet(g.assessments) : Possible(a, sheet) # Unknown})
    IN  IF DOMAIN sheet.categories = {}
          THEN [i \in DOMAIN usable |->
                   Component(usable[i], Possible(usable[i], sheet),
                             ScoreOf(sheet.assessments, usable[i].name))]
          ELSE Refused

\* build_components, refused as well when there is nothing to calculate from
Components(g, sheet) ==
    LET known == /\ DOMAIN sheet.categories \subseteq Names(g.categories)
                 /\ DOMAIN sheet.assessments \subseteq Names(g.assessments)
        mixed == \E a \in ToSet(g.assessments) : a.points # Unknown
        components == CASE ~known -> Refused
                        [] known /\ g.method = "points" -> PointsComponents(g, sheet)
                        [] known /\ g.method = "weighted" -> WeightedComponents(g, sheet)
                        [] known /\ g.method = "hybrid" /\ ~mixed -> WeightedComponents(g, sheet)
                        [] OTHER -> Refused
    IN  IF components = <<>> THEN Refused ELSE components

\* What the weights are parts of.
Whole(g, components) == IF g.method = "points" THEN Total(Weights(components)) ELSE 100

-----------------------------------------------------------------------------
(* Replacement rules.                                                      *)

Place(components, name) == SelectInSeq(components, LAMBDA c : c.name = name)

\* A score that is higher than the one it replaces takes its place.
Replaced(components, rule) ==
    LET s == Place(components, rule.source)
        t == Place(components, rule.target)
    IN  IF /\ s # 0 /\ t # 0
           /\ Unknown \notin {components[s].score, components[t].score}
           /\ components[s].score > components[t].score
          THEN [components EXCEPT ![t].score = components[s].score]
          ELSE components

Replacements(g) == Chosen(g.rules, {r \in ToSet(g.rules) : r.type = "replacement"})

\* The replacements that name both components.
Named(g) == Chosen(g.rules, {r \in ToSet(Replacements(g)) : Unknown \notin {r.source, r.target}})

\* apply_deterministic_rules: in the order of the model; a condition that is
\* not a plain comparison refuses the calculation, other rules do nothing.
Ruled(g, components) ==
    IF components = Refused \/ \E r \in ToSet(Replacements(g)) : ~r.simple
      THEN Refused
      ELSE FoldLeft(Replaced, components, Named(g))

Calculated(g, sheet) == Ruled(g, Components(g, sheet))

-----------------------------------------------------------------------------
(* The grade and its letter.                                               *)

AllScored(components) == \A c \in ToSet(components) : c.score # Unknown

\* Of components that have a score.
Contributions(components) ==
    Total([i \in DOMAIN components |-> components[i].score * components[i].weight])

\* The grade on the completed work, Unknown while there is none.
CurrentGrade(components) ==
    LET completed == Chosen(components, {c \in ToSet(components) : c.done /\ c.score # Unknown})
        weight == Total(Weights(completed))
    IN  IF weight > 0 THEN [num |-> Contributions(completed), den |-> weight] ELSE Unknown

\* The grade of the course, Unknown until everything has a score.
ProjectedGrade(g, components) ==
    IF AllScored(components)
      THEN [num |-> Contributions(components), den |-> Whole(g, components)]
      ELSE Unknown

Covers(cutoff, grade) ==
    /\ cutoff.minimum = Unknown \/ cutoff.minimum * grade.den <= grade.num
    /\ cutoff.maximum = Unknown \/ grade.num <= cutoff.maximum * grade.den

\* classify_grade: the first cutoff that covers the grade.
Letter(g, grade) ==
    LET n == SelectInSeq(g.thresholds, LAMBDA cutoff : Covers(cutoff, grade))
    IN  IF n = 0 THEN Unknown ELSE g.thresholds[n].letter

-----------------------------------------------------------------------------
(* The score that is still needed on one component.                        *)

\* The contribution still missing, shared among the weights that carry the score.
Share(missing, weight) == [num |-> missing, den |-> weight]

\* Mutant: the plain weighted equation, whatever the score would replace.
NeverReplaced(aim, rest, source, target) ==
    Share(aim - rest - target.score * target.weight, source.weight)

\* The score either stays below the one it could replace, or replaces it too.
WithReplacement(aim, rest, source, target) ==
    LET apart == Share(aim - rest - target.score * target.weight, source.weight)
        both == Share(aim - rest, source.weight + target.weight)
    IN  CASE apart.num <= target.score * apart.den -> apart
          [] apart.num > target.score * apart.den /\ both.num > target.score * both.den -> both
          [] OTHER -> Unknown

\* solve_required_score: Unknown when there is no answer, Refused when the
\* question makes no sense for the model.
Solve(g, components, name, goal) ==
    LET n == Place(components, name)
        target == components[n]
        others == RemoveAt(components, n)
        aim == goal * Whole(g, components)
        rules == Chosen(g.rules, {r \in ToSet(Named(g)) : name \in {r.source, r.target}})
        m == IF Len(rules) = 1 THEN Place(others, rules[1].target) ELSE 0
    IN  IF components = Refused \/ n = 0 \/ target.weight <= 0 THEN Refused
        ELSE CASE ~AllScored(others) -> Unknown
               [] AllScored(others) /\ rules = <<>> ->
                      Share(aim - Contributions(others), target.weight)
               [] AllScored(others) /\ m # 0 /\ rules[1].target # name ->
                      WithReplacement(aim, Contributions(RemoveAt(others, m)), target, others[m])
               [] OTHER -> Unknown

=============================================================================
