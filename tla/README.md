# A verification project for GradusIQ

GradusIQ is a FastAPI backend (`GradusIQ_career/`), a React frontend (`frontend/`) and a
Supabase Postgres schema (`supabase/migrations/`) that plan a student's degree and analyse a
career fit. The backend keeps almost nothing in memory: what matters is in Postgres, reached by
one REST call at a time, so nearly every operation is a read in one transaction and a write in a
later one. That is where the difficulty is, and it is what the TLA+ modules here are about.

## 1. Inventory

| Part (source) | State it keeps | Operations | What is hard | What makes it correct |
|---|---|---|---|---|
| **Degree schedule choices** (`degree_schedule_choice_service.py`, `degree_schedule_exclusion_service.py`, `degree_schedule_version.py`, the migrations `20260824120000`, `130000`, `140000`, `20260903120000`, `DegreeSchedulePanel.tsx`) | selections, exclusions, three revision rows, the registered catalog semantics; per tab the schedule shown | load; replace the complete set of selections or of exclusions; every other write to an input table | validation in Python over ten separate reads between two RPCs; two tabs; rolling deploys; cascades; rows created lazily | a set is stored only if it was validated on what is stored; no choice is overwritten unseen; every PUT is answered |
| **Background analyses** (`analysis_runs.py`, `analysis_freshness.py`, routes of `api.py`, `analysisApi.mjs`, `useCachedAnalysisRun.ts`) | run registry and capacity gate (process memory), `student_analysis_cache` (Postgres); per page the run it follows | start, join, wait, poll, resume, save, invalidate, serve, restart | threads that outlive their request; a slot handed from request to thread; races of starts; edits during a run; lost memory | slots balance; one working run per feature; a stale saved result says so; pages settle |
| **Career-optimized schedule coordinator** (`degree_plan_career_optimization.py`) | result cache with time to live and LRU order, table of Futures in flight (process memory) | look in the cache, join or begin a ranking batch, keep, settle, take out | a lock released between every two of these; exceptions; threads that block on a Future | one owner per flight; nobody waits for an unowned Future; no old outcome is handed on |
| **Syllabus grade profiles** (`syllabus/service.py`, `store.py`, `read.py`, `GradeCalculatorPanel.tsx`) | profile (review state, current revision), immutable revisions with corrections and confirmation, saved scores with a revision | ingest, correct, confirm, save scores, delete | two-row updates without a transaction; idempotent re-ingest after a partial failure; two tabs | calculator ready only for an accepted model the student confirmed; no save lost |
| **Course lifecycle** (`planning/lifecycle.py`, `planning/planned.py`, `transcript/terms.py`) | `planned_courses`, `academic_terms`, `course_records` | add, promote when the term activates, edit, drop, finalize | promotion on every page load; stop between upsert and delete; finalize against drop; term rows on demand | a plan becomes one record; no plan lost; finished history stays; one row per term |
| **Resume reconciliation** (`resume/`, migration `20260812170000`) | staged proposals with stale markers, career rows | stage, decide, apply | base rows change between staging and applying | applied at most once, on the rows it was reviewed against |
| **Transcript review, repeats, GPA** (`transcript/`, `academics/gpa.py`) | `course_records`: confirmation, exclusion from the GPA | upload, edit, confirm, reconcile repeats | confirms that read, clear and write over each other; the gate checked before the stamp | only confirmed attempts replace each other; exclusions are the policy's |
| **Requirement satisfaction and selection, term scheduler** (`course_discovery/requirement_satisfaction.py`, `scheduler_scope.py`, `requirement_selection.py`, `scheduler.py`, and where `api.py` composes them) | none (pure): one computation goes from rows to a plan | evaluate the tree, split it, list candidates, try every combination on the packing loop, decide, schedule | three readers of the same records; corequisite closures in a greedy loop; in-degrees and running totals; decisions, locks, exclusions and the list of unscheduled groups computed apart | prerequisites earlier, corequisites no later, no term above the cap; nothing dropped; the plan follows the choices; an open requirement is planned or listed |
| **Grade models and calculator** (`syllabus/corrections.py`, `cutoff_resolution.py`, `weighting.py`, `validation.py`, `reconciliation.py`, `calculator/`) | none (pure) | correct, reconcile; project a grade, give it a letter, solve for a score | what reconciliation lets through is all the calculator can rely on: colliding names, confirmed overlaps, rules that change the equation | even scores give that grade; a higher grade has no lower letter; solver and engine agree |
| **Role research agent** (`features/role_research_agent.py`) | call budgets of one run | tool loop | budgets and failing tools | ends within its budgets |
| **Feature runners, AI client** (`features/`, `ai/`) | none | one model call with retries | malformed output | validated or failed |
| **Chat and memory notes** (`ai/chat_*.py`) | notes | propose and confirm changes | stale proposals | nothing changes unconfirmed |
| **Canvas feed** (`canvas/calendar_feed.py`) | cached events | connect, sync, read | failing external feed | old events survive a failure |
| **Job postings** (`scripts/job_postings/`) | postings, clusters, identity keys; the cache of the process | nightly vendor and employer sweeps: stage, resolve, adopt, merge, write, drop; collect empty clusters | stopped or failing between any two calls; merges inside a batch; counts read before the batch | every posting in one live cluster; an identity is never taken away; a requisition has its own cluster |
| **Rate limiters** (`api.py`, keyed ones in `feedback/report.py`) | timestamps | allow, prune | boundary of the window | at most `limit` per window |
| Profile assembly, course discovery agent, action planning, issue reports, demo cache, reference data | none, or static files | read-only | – | – |

How they interact: everything that writes `course_records`, `students`, the requirement tree, the
catalog or term dates changes the inputs of the degree schedule (through Postgres triggers) and of
the analyses (noticed only when a saved result is read). Uploads, the course lifecycle and review share
the tables of one student, so one module models them together. The syllabus calculator and the job
postings have tables of their own. The analyses, chat, the role research agent
and the ranking batches of the career-optimized schedule share one capacity gate. The frontend keeps no authority: after a schedule write it refetches,
and it follows an analysis by polling.

What the schedule service treats as "the planner accepts" is the computation of the plan, which has
modules of its own.

The hazards of each part are listed, at their line, in `PROJECT.json`.

## 2. Modules

| Module | Models | Depends on |
|---|---|---|
| `ScheduleData` | the rows a schedule is computed from, the trigger that guards each table, cascades, the schedule version | – |
| `DegreeSchedule` | tabs, backend processes, other transactions, the RPCs | `ScheduleData`, instance of `ChoiceStore` |
| `ChoiceStore` | abstract specification: one compare-and-swap on the whole schedule | `ScheduleData` |
| `DegreeScheduleProofs` | theorems about `DegreeSchedule` | `DegreeSchedule`, `TLAPS` |
| `MCDegreeSchedule` | instances for TLC | `DegreeSchedule` |
| `AnalysisRuns` | pages, requests, run threads, gate, registry, saved results, restarts | – |
| `AnalysisRunsProofs` | theorems about `AnalysisRuns` | `AnalysisRuns`, `TLAPS` |
| `MCAnalysisRuns` | instances for TLC | `AnalysisRuns` |
| `CareerOptimization` | threads that serve requests, the cache, the flights | – |
| `CareerOptimizationProofs` | theorems about `CareerOptimization` | `CareerOptimization`, `TLAPS` |
| `MCCareerOptimization` | instances for TLC | `CareerOptimization` |
| `RecordRules` | pure rules over course records: grade points, catalog match, repeat groups and plans | – |
| `CourseRecords` | requests that add, promote, edit, finalize, upload, correct and confirm courses | `RecordRules` |
| `CourseRecordsProofs` | theorems about `CourseRecords` and the repeat policy | `CourseRecords`, `TLAPS` |
| `MCCourseRecords` | instances for TLC | `CourseRecords` |
| `SyllabusGrades` | requests of several tabs on one calculator | – |
| `GradeModels` | corrections, weights, cutoffs and reconciliation of a grade model: pure operators | – |
| `GradeMath` | components, replacement rules, grades, letters, required scores: pure operators | `GradeModels` |
| `GradeCalculator` | composes the requests with the models an extraction and a batch may stand for | `SyllabusGrades`, `GradeMath` |
| `GradeCalculatorProofs` | theorems about `GradeCalculator` and the solver | `GradeCalculator`, `SyllabusGradesProofs`, `TLAPS` |
| `SyllabusGradesProofs` | theorems about `SyllabusGrades` | `SyllabusGrades`, `TLAPS` |
| `MCSyllabusGrades` | instances for TLC | `GradeCalculator` |
| `PostingClusters` | the tables of the postings pipeline, the job that runs, the collector | – |
| `PostingClustersProofs` | theorems about `PostingClusters` | `PostingClusters`, `FiniteSetTheorems`, `WellFoundedInduction`, `TLAPS` |
| `MCPostingClusters` | instances for TLC | `PostingClusters` |
| `CourseCatalog` | codes, their order, credit hours | – |
| `RequirementTree` | evaluation of the requirement tree, its split, the candidates of a group: pure operators | `CourseCatalog` |
| `TermScheduler` | dependencies and the packing loop, a step per course tried | `CourseCatalog` |
| `DegreePlan` | one computation of a plan: combinations, decisions, schedule | `RequirementTree`, `TermScheduler` |
| `DegreePlanProofs` | theorems about `DegreePlan` | `DegreePlan`, `TLAPS` |
| `MCDegreePlan` | instances for TLC | `DegreePlan` |

In every module, a definition whose comment begins "Mutant" is not part of the specification: it is
a plausible bug, and the properties are known to notice it.

### DegreeSchedule

State and code:

- `db[t]` is the committed contents of table `t`: two values stand for "what the rows of an input
  table say"; the contents of the two choice tables are sets of rows. `rev` is the three revision
  rows (0: no row yet), `registered` is `degree_schedule_institution_semantics`.
- `open[t]` is a transaction in flight on an input table: its trigger has fired (`BeginEdit`), it
  holds the revision rows it advances, and it commits or rolls back later. Any writer of an input
  table is such a transaction: transcript confirmation, course edits, catalog seeding. The student
  trigger only *updates* the revision row, the program and institution triggers insert or update;
  `BeginEdit` keeps that difference.
- `pc[c]` walks through `write_degree_schedule_choices` (and `_exclusions`, which has the same
  shape): `sync` registers the process's semantics, `capture` is `get_degree_schedule_revisions`,
  `read` is `_reconstruct_academic_schedule`, one REST call per step in the order of the code, then
  the version check and the planner (`Accepted`), `Resync` registers again, `cas` is the RPC
  `replace_degree_requirement_*` with its outcomes applied, unchanged and conflict. Any call may
  fail (`FailGet`, `FailPut`). After every PUT the panel refetches, so a PUT ends in `get`.
- `view[c]` is what the tab shows: the rows the GET read and the semantics of the process that
  computed it. A tab shows nothing while it loads and after a failed load.

Abstractions:

- `schedule_version` is sha256 over a canonical payload; it is taken to be collision free and
  modelled as the payload (`Version`). The reconstruction date is a part of it that only turns
  writes into conflicts when the day changes, and is left out. An exclusion of a group that the
  coursework satisfies does not show in the payload; `EffectiveExclusions` keeps that, and
  `NoLostUpdate` says exactly what is therefore protected.
- The planner is deterministic; `Valid(kind, rows, set)` is a constant operator. The theorems hold
  for every planner.
- `get_degree_schedule_revisions` runs three selects; taking them in one step is exact because each
  revision guards its own tables.
- A schedule without program or graduation date ("skipped") is not a shown schedule.
- A PUT whose client has gone away but which the server still serves acts as another tab does.
- After an exclusion was applied the service reads everything again to report a version. That read
  changes nothing and the panel ignores the version; it is left out.
- `academic_terms` has no revision trigger; see the hazard list.

### ChoiceStore

The promise: a tab looks at a schedule, and one atomic step later replaces a set if the schedule is
still the one it looked at and the planner accepts. `DegreeSchedule!ImplementsStore` is
`Store!Spec` under the mapping `seen <- view` (the other variables have the same names); it holds
when the student has a revision row from the start.

### AnalysisRuns

- `inputs[f]` is what feature `f` would read from the profile now, reduced to what the fingerprint
  distinguishes; `cache[f]` is the saved row: the inputs the result was computed from (`origin`,
  known to the model only) and the fingerprint saved with it (`mark`; `None` in rows older than
  fingerprints).
- A request is one page's: `POST analysis-runs` goes `build` (read the profile), `acquire` (gate, or
  429), `start` (the registry, under its lock: `Register` or `LoseRace`), `spawn` (`Thread.start`,
  outside the lock, may fail), then the page polls. `POST analyze` goes `wait_build`,
  `wait_acquire`, `wait_model`, `wait_save`. Opening a page goes `cache_build`, `cache_get`,
  `resume`.
- A run is an `AnalysisRun` with its thread: `model` (it may raise), `save` (best effort), `release`
  (the `finally` of `work`), `finish` (`target` settles the run). `registry[f]` is the entry of the
  student and the feature.
- `EditProfile` is any edit of the profile; if skills were edited, `Invalidate` deletes saved results
  in a call of its own, best effort. `Restart` loses gate, registry, threads and requests in flight.
  `Prune` is the expiry of a finished run; it happens in the code inside `get` and `start`, and as
  nobody can see an entry except through them, it is a step of its own here.

Chat, role research, the slug routes, ranking batches and other students take and give back a slot
inside one request, as the waiting route does; that route stands for them all. Left out otherwise:
the slug and demo routes, the rate limiter, the contents of results, and the reading of
`AnalysisRun.to_client` without the lock (a tuple assignment is not torn in CPython 3.11).

### CareerOptimization

- `cache[k]` is the kept response, reduced to the batch it came from and when it expires; `lru` the
  order of the `OrderedDict`; `inflight[k]` the Future in the table, `batches[i]` the Future with the
  outcome of its computation and whether it is set. Two requests with one key have the same student
  and fingerprint.
- A request is a thread in `run`, and each action is one critical section of its lock or the code
  between two: `Hit` and `Miss` are `_cached` (the clock was read before, on `Arrive`), `Claim` and
  `Join` the look into the table of flights, `Compute` the ranking batch with the rebuilt schedule,
  `Store` the keeping and evicting of an OPTIMIZED response, `Settle` `set_result` or
  `set_exception`, `Pop` the `finally`. `Joined` is `future.result()`.
- A provider that fails or a full gate makes a fallback plan, which is not kept; an exception of the
  schedule builder is raised in every thread that waits. "PARTIAL" stands for both kinds of
  response that are not kept.
- `met[r]` is history: the batches of its key somebody worked on since `r` arrived.

Left out: the contents of rankings and schedules, and how the fingerprint is made.

### RecordRules and CourseRecords

- `terms`, `planned` and `records` are one student's rows. `terms[i]` is the (year, season) of the row
  with sequence number `i`, as an ordinal. A record's `was` is history: every (term, course) key it
  has had. `by` is `excluded_from_gpa_by`. Rows of `course_records` are never deleted by the code.
- A request in `req` is one thread of the server, and each action is one call to Supabase with the
  Python around it. A page load (`LoadPage`) is any of the three routes that call
  `_reconcile_course_lifecycle`: it reads the due rows, then per row `Promote` (upsert that ignores
  duplicates) and `Fulfil` (delete). Adding a course goes `resolve` (`InsertTerm`, then `Proceed`
  with the activation of its term), and `AddPlanned` or `AddRecord`. `Finalize`, `Complete` read and
  then update with the status in the filter. An upload resolves its terms and stores one course per
  call (`StoreCourse`). `Confirm` is the gate, `Stamp` the filtered update, then `ReadConfirmed`,
  `Clear` and one `Exclude` per superseded row.
- `EditCourse`, `ReviewEdit` and `RemovePlanned` are one step each: their deciding condition is in
  the filter of a single update or delete (`status = 'in_progress'`, `confirmed_at is null`), and a
  key that is taken makes the update fail.
- `Fail` is a call that fails at any point: the request is answered with an error, what it wrote
  stays. `Tomorrow` lets days pass, so that terms activate.
- `undisturbed` is history: reconciling requests since whose read nobody else wrote the records.
- The repeat policy (`Plans`) is `plan_exclusions` as a set, because the sort is stable and the order
  of the rows it gets is not defined: of several attempts in one latest term any may win.

Abstractions: a course code is a model value with its normal form and catalog match given by
functions; credit hours are there or not (`NOT NULL` is what the code trips over); the averages of the
GPA are left out, `Scored` says which rows of courses taken enter them (transfer and exam credit,
`credit_type`, is left out). An edit sets a course, its term and its grade
together; the routes let a body leave some of them as they are.

### SyllabusGrades

- `profile`, `revisions` and `grades` are the three tables, each action one row read or written.
  Ingest is `Find`, `InsertRevision`, `ReviewAgain`, `Point`; a correction is `WriteCorrection`,
  `Look`, `Reopen`; a confirmation `ReadModel`, `Stamp`, `Mark`; saving scores `Load`, `Store` and
  the tab's `Saved` or `Conflict`.
- A grade model is reduced to its extraction and the batch of corrections on it; `Accepts` says which
  of them the reconciliation accepts, and is any relation. The unique keys on a profile's source and
  on a profile's saved scores make the second insert fail.
- `asked` and `torn` are history: revisions somebody asked to confirm, and those with a correction
  between the two writes of a confirmation, or one that failed between its own.
- A batch with a correction that cannot be applied writes nothing (`RefuseBatch`).
- A profile that is deleted is not found by any later request but those under way go on.

### GradeModels, GradeMath and GradeCalculator

- A grade model is a record of sequences, as in `models.py`. `Corrected` is one correction (the six
  handlers of `corrections.py`, by target and operation), `Candidate` a batch, all or nothing.
  `Findings` is `reconcile_grade_model` up to wording: every check gives its code, `Accepted` is
  `_derive_status`. What a student affirms (`Affirmed`, `ConfirmedCutoffs`) is taken from the
  corrections, the cutoff pairs from the *extracted* thresholds, as `service.py` does.
- `Decomposable` and `Split` are the decision whether a category is scored through its assessments;
  `Indexed` is a dict by normalized name. `Replaced` is one replacement rule; a rule of another kind
  does nothing. `Solve` is `solve_required_score` from the components on.
- `GradeCalculator` gives an extraction of `SyllabusGrades` the models it may come back with
  (`Readings`) and a batch its lists of corrections (`Lists`). `Trusted` are the candidates that
  reconciliation accepts, and the relation `Accepts` that the requests work with is assumed to be the
  one this yields (`AcceptsReconcile`, evaluated by TLC). Its three properties have the form
  `ReadyOn(...)`: whenever the calculator is ready, it is so on a pair all of whose accepted models
  have the quality in question, over every sheet of scores a student may enter.

Abstractions: weights and scores are whole percents, grades are fractions and never rounded, the
tolerance of 0.01 is none. Names are normalized. Evidence is what its text states (the value, nothing
that parses, or no text); a page out of range is left out, and so is a cutoff with its bounds reversed,
which validation does not let exist. Points an assessment is out of are positive, and a score in points
is the percent it comes to of them (the engine divides, `engine.py:275-298`). A status of
a score (actual or projected) matters for the current grade only.

### PostingClusters

- `postings`, `clusters`, `keys` are `job_postings` (identity only), `posting_clusters` and
  `posting_identity_keys`. `job` is the one process the workflow's concurrency group lets run: its
  batch, its cache of keys, the identities it read when it staged the batch, and what it resolved.
- `Stage` writes the batch and reads identities and members back. Per row: `MatchExact`,
  `MatchFuzzy`, `Adopt` or `Create`, a merge in three calls when the two keys lead to two clusters,
  `Attach`, `SetCanonical`. Then `Upsert`, `Drop` and `DropKeys`. `Gc` to `GcClusters` is
  `gc_clusters.py --live`, which a person runs while no sweep does.
- `DeleteClusters` is the delete with its foreign keys: keys cascade, identities become null, which
  is why `IdentityKept` is worth stating.
- `Fail` is a call that raises: it ends a vendor run, of an employer's sweep only that employer, and
  nothing if it was the dropping of vacated clusters. `Kill` stops the process. `Reject` is a foreign
  key that the database refuses.
- An employer's title never makes a key; `Legacy` is a cluster keyed by title from before that rule.
- `spared` is a history variable, as `torn` is: the clusters that have no member since a batch that
  repeats a listing moved it out of them or into them. `Upsert` computes it from what the batch did,
  without looking at the counts of the code (`Vacated`); a deleted cluster leaves it.
- `OneRequisition` is about pairs: no step leaves two requisitions in one cluster that were not in one
  before it. Those of an old title-keyed cluster are, and a merge rightly moves them as a whole.

The id of a requisition is taken to be of one employer: the row of `job_postings` is known by the id
alone (`UPSERT_CONFLICT`), the key by employer and id (`workday_exact_key`), and what the two make of an
id that two employers share is not represented.

Left out: what vendors return and how titles and localities are normalized (a title stands for
employer, title and locality), enrichment, retention.

### CourseCatalog, RequirementTree, TermScheduler and DegreePlan

- `Program` is the tree as the database has it: per group its type, children, options and what it
  needs. A row of an option is the set of codes that satisfy it: two when two departments list one
  course, none for a reference the catalog does not have. Types of groups, `and` and `or` options,
  approval notes (`unsafe`) and groups without a structured definition (`manual`) are as in the code.
- `Evaluate` is `evaluate_requirement_tree`, a recursive function over the tree. `Visited`, `NoChoice`,
  `Required` and `Deferred` are `scope_schedule_input`. `CandidatesOf` is `_choices_for_group`.
  The three readers of course records stay apart, as in the code: `Earned` asks for credit of a
  completed row, `Cleared` (prerequisites, and what selection takes as done) does not; a threshold
  sums the hours of the records, its candidates sum the hours of the catalog.
- `TermScheduler` is `_build_dependencies` and `_pack_terms`. One run is `Begin`, then per term
  `OpenTerm`, one `Consider` for each course of `ready` in lexicographic order, and `CloseTerm`.
  `load` is the running total and `ready` is kept as the code keeps it; the properties compare them
  with what they stand for. `Closure` is `corequisite_closure` as a least fixed point: the memory of
  visited courses of the recursion makes mutual corequisites one component, which is the same set.
- `DegreePlan` composes them as `_build_academic_schedule_state` does, and, if `input.ranked`, as the
  route of the career-optimized schedule does. `Load` evaluates and splits, `Pair` lists the
  combinations, `Try` to `Tried` runs one of them on the packing loop (`place_courses`), `Decide` takes
  the decisions and begins the final run, `Finish` is `ScheduleResult`, which carries nothing when it
  is an error. Locks that fail are set aside as a whole; the ranked route refuses then (409), and
  when no choice is open to rank (`RankedRefused`).

Abstractions: the winner is the best by a nine-part score; the model takes any combination that
respects the locks, so what holds does not depend on the score. The order in which combinations are
tried does not matter, `Try` takes one by `CHOOSE`. `DATA_UNRESOLVED` and `ADVISER_REVIEW` are one
state `UNRESOLVED`, as only wording depends on which. A prerequisite clause never names its own course
(the code raises); rows of one group name different courses. The name of a term follows from its
number and is left out.

## 3. Runs

| Run | Question | Instance | Result |
|---|---|---|---|
| `schedule_store` | two tabs in a rolling deploy, a cascading catalog edit; refinement | 2 tabs, 2 releases, table `requirement_groups`, 1 group, 1 candidate, with and without a revision row, no start beyond revision 2 | holds, 0.47 million states |
| `schedule_live` | coursework edits and the first write; is every PUT answered | 1 tab, 2 releases, table `course_records`, with and without a revision row, no start beyond revision 3, fairness | holds, 35 thousand states |
| `analysis_runs` | slots, registration, freshness; do pages settle | 1 feature, 2 pages, 2 input values, capacity 2, 2 runs, fairness | holds, 0.93 million states |
| `career_flights` | flights, waiting, freshness of answers, termination | 2 threads, 2 keys, room for 1 response, clock 0..1 with time to live 1, 3 batches, fairness | holds, 0.25 million states |
| `course_lifecycle` | promotion against adds, edits, drops and finalizes | 2 requests, 2 courses added, one day passes, 1 failing call, fairness | holds |
| `transcript_repeats` | uploads, corrections and confirms | 2 requests, 2 uploads out of 3 transcripts, 2 institutions of which one is verified, 1 failing call | holds |
| `records_superseded` | a sentence of `repeats.py` | a failed attempt, and its retake added as a course under way | violated, see findings |
| `syllabus_grades` | trust gate, uploads, saved scores; what the calculator makes of what the gate lets through | 2 tabs, 2 sources, 2 extractions, 2 batches, 5 requests, 1 failing call; 123 grade models, 11 lists of corrections, scores 50, 75 and 90 | holds, 3.1 million states |
| `syllabus_ready` | docstring of `calculator_ready` | as above, 4 requests, nothing fails | violated, see findings |
| `posting_clusters` | what finished batches leave; identities, requisitions, healing | 3 vendor listings, 3 requisitions, 5 batches, 1 legacy cluster of two, 8 clusters, 1 fault, fairness | holds, 0.57 million states |
| `degree_plan` | order, cap, completeness of every packing; does the plan follow the student | 7 courses, 7 groups of all types; 4 record sets × 4 catalogs × 6 sets of locks × 3 exclusions × ranked or not × 1 to 3 terms, cap 7 | holds, 61 thousand states |
| `plan_incomplete` | docstring of `UnscheduledRequirement` | as above, a course completed without credit, 3 terms | violated, see findings |

Bounds and why they are enough:

- `MaxRevision` stops edits and PUTs from *starting*; those begun always end. With 2 or 3, two
  writes and an edit, or two edits and a write, follow each other, which is what a stale read, a
  lost update or an overtaken transaction needs.
- One table is instantiated per run because each property relates one table with its revision; the
  two chosen are the ones whose triggers differ (student: update only; program: upsert and cascade).
  The theorems cover any set of tables, and any number of tabs for either.
- One transaction is in flight per table. A second one on the same revision row would wait for the
  row lock; a second blind one adds no case that one blind transaction does not show.
- Two tabs in `schedule_store`, because its properties relate one write with one other writer; in
  `schedule_live` the other writer is a transaction and one tab is enough. Tabs are symmetric in the
  safety runs; symmetry is not used with fairness.
- `MaxRuns` bounds the runs of a behaviour: two runs are one finished or dead run and one more, and
  two starts racing for one. Capacity 2 lets both racing starts hold a slot; the gate is full when
  they do, or when a waiting request and a run hold them, and the 429 is taken then.
- One feature: features share only the gate, and the second page's waiting request contends for it.
- In `career_flights` two threads are an owner and one other that hits, joins, claims or arrives in
  between; three batches (`MaxBatches` bounds how many begin) are one that is left behind, one that
  could be mistaken for it and one that evicts; a clock of two instants (`MaxTime`) with a time to
  live of one expires a response.

- In the two passing runs of `CourseRecords` two requests are one that has read and one that writes in
  between; two inputs are two courses that fall due together (one without credit hours), or an
  attempt and its retake, or one transcript in two spellings. Term 1 has begun, term 2 activates on
  day 1, term 3 is not in the calendar. One failing call (`MaxFailures`) is one promotion that stops
  midway; a second adds nothing a later page load does not do. `Kinds` divides what the student does
  between the runs; what the two parts share (`Rekey`, `Upsert`, terms) is in both.
- In `degree_plan` the program has a group of every type the code treats on its own: required courses
  with a cross-listing, one of two, a choice of two paths of which one is a threshold of hours, and a
  freeform group; groups share courses, so combinations conflict. The catalogs are a chain with an
  alternative clause; mutual corequisites and a course whose prerequisite may be its corequisite; a
  cycle in the core and a course behind a manual review; a corequisite that is not ready yet and a ring
  of three that fit in no term. One to three terms under a cap of two courses make the horizon
  and the cap bind, fail and suffice. The loop and the decisions have no other bound.
- In `syllabus_grades` five requests (`MaxRequests`) are two uploads, a confirmation, and two more
  that come in between or after; in `syllabus_ready` four are enough.
- The grade models of `syllabus_grades` are nine scales (in and out of order, touching, overlapping
  wider, with one bound, of other letters); weights that do and do not decompose, with every kind of
  collision of names; replacement rules alone, together, in a chain and incomplete; and points. The
  corrections are those that make some of them acceptable, and two that do not; one batch confirms
  the tie of two cutoffs and then widens both. Three scores are one below, one between and one above
  the cutoffs and each other, so a rule replaces, does not replace, and ties. 39 models are
  accepted as they are, 110 with the corrected ones; of these 36 decompose a category, 14 have one
  replacement rule, and the rules of 2 chain. 57 give every component a name of its own, as
  `AnswerIsThreshold` asks. A category may weigh nothing, or share its name with an assessment. The quality of the models is evaluated once, the state space is that of the requests.
- In `posting_clusters` the batches are the cases of the resolution: two listings with one title, a
  listing that is renamed (with and without an employer's link), a title that comes back, a board that
  lists one requisition at two locations beside the other one of its old cluster and a new one, and
  that board with one requisition only, after which the other adopts the old cluster. So the run has
  both: rows that leave a cluster counted right, and the repeated row that leaves an empty one in
  `spared`, which the collector takes. Batches repeat for ever; only faults are bounded (`MaxFaults`),
  and the run shows what follows a fault: an unlinked posting, an empty cluster, a half-done merge.
  `Ids` bounds the clusters there are at one time and is never reached.

Deadlock is checked in `posting_clusters`. Elsewhere it is not: with its bound reached, or with nobody asking for anything, the system
rightly rests.

### Properties

`WriteGuarded` (the inductive invariant), `AppliedOnFreshRows`, `AppliedUnderOwnSemantics`,
`OnlyValidSetsStored`, `NoLostUpdate`, `PutAnswered` and the refinement `ImplementsStore` for the
schedule; `SlotsAccounted`, `WorkIsRegistered`, `UnflaggedIsCurrent`, `PageSettles` for the
analyses; `FlightsOwned`, `WaitsForSomeone`, `AnswersAreRecent`, `NewestKept`,
`EveryRequestAnswered` for the coordinator; `PromotedOnce`, `FulfilledNotLost`, `HistoryKept`,
`DuePromoted`, `OneRowPerTerm`, `ExclusionsSound`, `ReconciledIsPlan` for the course records;
`ReadyIsAccepted`, `NothingInherited`, `ReadyIsConfirmed`, `SavesBuildOnSeen`, `EvenScoresKept`,
`LettersFollowScores`, `AnswerIsThreshold` for the calculator; `SweptClean`, `IdentityKept`, `OneRequisition`, `Healed` for
the postings; `OrderKept`, `HoursCapped`, `NothingDropped`, `NeverSilentlyIncomplete`, `ChoicesHonoured`
for the plan. The type invariant is checked as a run's property of `AnalysisRuns`, where the bounds of the gate are
part of it; those of the other modules are stated, and most are proved. The comment at each says what it means for the code. Each
is accompanied by a mutated definition (`PROJECT.json`, "mutants") that breaks it.

### Fairness

- `DegreeSchedule!FairSpec`: an open transaction ends (Postgres ends it by commit, rollback or
  statement timeout), and a tab's request goes on. The steps of a tab are strongly fair: they wait
  for row locks that other transactions take again and again, but Postgres queues the waiters of a
  row and a request reaches the front.
- `AnalysisRuns!FairSpec`: model calls have timeouts, so a started thread runs to its end; a request
  that registered a run goes on to start its thread; a page polls on a timer. Weak fairness is enough
  because a behaviour has finitely many runs. Nothing is assumed of restarts, of edits, of the
  student or of other pages.
- `CareerOptimization!FairSpec`: a thread in `run` goes on. The calls of a batch to the model time
  out and taking a slot of the gate does not block, so `compute` ends.
- `CourseRecords!FairSpec`: a request the server has begun goes on (weak fairness of `Step`), and the
  student keeps loading pages (strong fairness of `LoadPage`: a request slot is free again and again).
  The code promotes only then, so without page loads nothing is due to happen. `DuePromoted` does not
  assume that removals, edits or days happen.
- `PostingClusters!FairSpec`: a job that runs goes on, ends when its queries are done, and the nightly
  schedule runs every query again and again, with runs of either kind in between: strong fairness of
  `Exit`, and of a `Take` of a batch that lists a posting without identity (`Relinks`), which follows
  from every query coming again. Nothing is assumed of the collector, which a person runs.

### Findings

1. *An attempt is superseded by one that does not count* (`records_superseded`). `plan_exclusions`
   takes the confirmed attempt in the latest term whatever its status. A retake still under way, which
   is written as confirmed, takes the failed attempt out of the official GPA before it counts itself;
   a dropped one does so for good. The module's docstring says this is unrepresentable.
2. *Ready on a model nobody confirmed* (`syllabus_ready`). `confirm_grade_model` stamps the revision and
   marks the profile in two calls. A correction between them stores an unconfirmed candidate and finds
   nothing to reopen. If the candidate reconciles, the calculator is ready on it. `ReadyIsConfirmed`
   shows that this and a correction that failed midway are the only ways (`torn`).
3. *An open requirement that the plan does not mention* (`plan_incomplete`). A course completed without
   credit (withdrawn, repeat-excluded) clears prerequisites, and selection uses the same set to tell
   which options are done; the evaluator of the tree asks for credit. The group is open, its one
   candidate has no courses, the decision is AUTO_SELECTED, and the group leaves the unscheduled list
   with nothing scheduled for it.

### Known gaps, seen while modelling

These follow from the code as modelled. No run of their own shows them; the property named with
each is stated so that it excludes exactly the case.

- The first schedule write is not guarded. The student trigger only updates the revision row. Before
  the first write there is none; a transaction whose trigger ran then, and which commits between the
  reads and the compare-and-swap, goes unnoticed. `AppliedOnFreshRows` excludes exactly the tables in
  `overtaken`.
- A run is registered before `Thread.start`. When that raises, the slot is given back but the run
  stays "running" until a restart. `PageSettles` excludes exactly this run.
- A live analysis response is computed from the profile read minutes earlier and carries no
  `profile_changed`; `UnflaggedIsCurrent` is about saved results.
- Two identical rankings may run one after the other, because the look into the cache and the look
  into the table of flights are two critical sections. `FlightsOwned` shows what holds: never two at
  a time.
- A planned course without credit hours makes its promotion fail, and the rows behind it in the same
  loop with it, on every page load. `DuePromoted` excludes exactly this.
- A Workday board lists a requisition once per location, and the rows are resolved before
  `dedupe_by_conflict_key` collapses them. Two requisitions of an old title-keyed cluster, one of them
  listed twice, leave it with three rows: 2 - 3 is not 0 (`ingest.py:586`), so the cluster stays without
  a member, and its title key with it, until the collector runs; `posting_clusters` reaches this state,
  and `check_integrity` reports it. The comment at `:573-575` calls the count correct when several rows
  leave; `EmptyIsVacated` proves it is for a cluster no repeated row touches, and `SweptClean` lets no
  other cluster be empty (`spared`).
- `check_integrity.evaluate` expects as many keys as clusters that have one (`cluster_key_count_delta`),
  while `attach_keys` gives a cluster the link and the title of a row, and the title of the next one. And
  a legacy cluster of several requisitions is reported until they are listed again
  (`clusters_with_multiple_workday_requisition_ids`); `OneRequisition` says that no sweep makes another.
  `SweptClean` states neither.
- A merge inside a batch can delete a cluster that an earlier row of the batch was resolved to. The
  second upsert is then refused and the batch stays without identities until a later sweep (`Healed`).
- A listing may adopt a cluster that is not empty. Whether a row is alone in its old cluster is decided
  on counts read before the batch (`ingest.py:527`). A listing that an earlier row of the batch put
  there is not counted: one renamed on the day another comes with its old title adopts the cluster and
  drops the fuzzy key by which the other was found, and two jobs share it, which the comment at `:473`
  means to exclude. Two requisitions of an employer never end so, as `RequisitionsStayApart` proves.
- The packing loop is greedy in lexicographic order. A plan may be reported over-constrained, and a
  candidate infeasible, although another packing fits; the comment in `_pack_terms` ("genuinely
  over-constrained") claims more. `NothingDropped` is about what the loop reports as a success.
- The plan is silently incomplete, too, for programs outside `ProgramAnswerable`. A row whose courses have
  no credit hours, or that the catalog does not have, is skipped from a list that is all required, and
  the group is on neither list; so is such a list without options, or one with
  `requires_manual_definition`. A group that asks for hours but for none of them is never satisfied and
  takes an empty choice. And an `and` option that is done in part counts the finished part twice towards
  the hours of its group, as earned and as picked (`_leaf_choices` takes the hours of all of a variant).
  With each part of the hypothesis removed TLC finds a plan that is incomplete; with the finding on
  credit these are all the ways, as the theorem says.
- An `and` option with a reference the catalog does not have reports no match although other rows of it
  are matched, so the group counts as not started.
- The canonical posting of a cluster is not changed when that posting moves to another cluster;
  `SweptClean` therefore does not ask that it be a member.
- An upload whose profile update failed cannot be repaired by uploading the file again: the source is
  found and the profile is left alone.
- The first save of scores sends no expected revision, so of two tabs opened before it the later one
  overwrites the earlier. `SavesBuildOnSeen` is about saves with an expectation.
- `academic_terms` feeds the schedule and has no revision trigger.
- Two assessments of one name and different dates are accepted, but the engine's dict keeps one: with
  the same score on everything, such a course gives less. `EvenScoresKept` is about models without
  them (`NamesakesApart`).
- The solver follows the rule its component is the source of and takes the other scores as they stand. Where a
  rule replaces by what another has replaced, its answer is not that of the engine; and the solver
  starts from a sheet that may hold a score for the component itself, which earlier rules have then
  used. `AnswerIsThreshold` is about rules that do not chain (`Unchained`) and a component without a
  score.
- The engine and the solver look a component up by its name, and a category and a standalone assessment
  may share one: the score then goes to one of them while the solver asks about the other, or a rule
  meets the wrong one. `AnswerIsThreshold` is about models without such names (`Unambiguous`).
- Some accepted models cannot be calculated: a replacement rule whose condition is no plain
  comparison, HYBRID with points, a weighted model without categories and assessments, points without
  any. The engine refuses them; the properties are about the rest (`Sheets`).
- Overlaps with a cutoff that has one bound are never reported, and where two cutoffs share a score the
  letter is that of the first in the list, whichever is higher. `LettersFollowScores` compares
  different grades on scales with both bounds.
- `required_score` is rounded and a letter is given for the grade before rounding, so a score equal to
  the answer as shown can miss the letter by less than the rounding.

## 4. Proofs

`DegreeScheduleProofs` proves, for any numbers of tabs, processes, groups, candidates and values,
for any set of input tables, any bound `MaxRevision` and any planner:

| Theorem | States |
|---|---|
| `TypeCorrect` | `Spec => []TypeOK` |
| `WritesAreGuarded` | `Spec => []WriteGuarded` |
| `FreshRows` | `Spec => AppliedOnFreshRows` |
| `OwnSemantics` | `Spec => AppliedUnderOwnSemantics` |
| `ValidSets` | `Spec => OnlyValidSetsStored` |
| `NothingLost` | `Spec => NoLostUpdate` |
| `Refinement` | `0 \notin InitialStudentRevisions /\ Spec => ImplementsStore` |

Assumptions: `DataAssumption` and `ScheduleAssumption`, on the constants only.

The argument. The action properties are not inductive: that a set is stored on the rows that were
read needs to know, while the reads go on, what keeps them valid. `WriteGuarded` says it:

- `CapturedBelow`: captured revisions never exceed the current ones, so a revision that has moved
  never comes back (`RevisionsGrow`);
- `ReadRowsGuarded`: while the revision of its table is the captured one, a row that was read is the
  row that is stored. A commit keeps it because it advances the guard of each table it changes or
  was noted as overtaken (`UnguardedChange`); a cascade into the choices advances the student's
  revision too;
- `EditsLock`: for that, an open transaction holds every revision it will have to advance, although
  the choices it will orphan may be stored after it began. They cannot: their writer needs the
  student's revision row, and `RowBeforeChoices` says there are no choices before there is a row;
- `AcceptedBeforeWrite`: at the compare-and-swap all tables were read, the planner accepted them,
  and the registered semantics are the process's own unless the institution's revision moved.

At the compare-and-swap every revision is the captured one, so the rows read are the rows stored
(`ReplacesIsCas`), and the properties follow. For the refinement, a student with a revision row
never has an overtaken table (`NothingBlind`), so the write is the abstract `Replace`
(`CasIsReplace`), a commit is `Change`, a registration is `Deploy`, a tab that loads is `Look`, and
every other step is a stutter.

`AnalysisRunsProofs` proves, for any numbers of pages, features and runs, any inputs and any capacity:

| Theorem | States |
|---|---|
| `TypeCorrect` | `Spec => []TypeOK` |
| `SlotsAreAccounted` | `Spec => []SlotsAccounted` |
| `WorkingRunsAreRegistered` | `Spec => []WorkIsRegistered` |
| `UnflaggedAreCurrent` | `Spec => UnflaggedIsCurrent` |

Assumption: `AnalysisAssumption`. The gate is related to two sets, the pages whose request holds a slot
and the runs whose thread does; every action leaves both alone, moves one element from the first to the
second, or adds or removes one together with a slot. That the bounds of the gate hold is a consequence:
a slot is only given back by an element of a set. The strengthening `IInv` adds `Awaited` (a request
about to start a thread has a run of its own whose thread is new, so the slot never passes to a thread
that has one), `ReadFirst` (what a request computes from, it has read) and `Stamped` (a saved
fingerprint is that of the inputs behind the result, or absent). A start that finds no running run
finds, by `WorkIsRegistered`, no thread that could still save for its feature.

`CareerOptimizationProofs` proves, for any numbers of threads and keys, any time to live and cache
size:

| Theorem | States |
|---|---|
| `FlightsAreOwned` | `Spec => []FlightsOwned` |
| `NobodyWaitsInVain` | `Spec => []WaitsForSomeone` |
| `AnswersKeepTheirPromise` | `Spec => AnswersAreRecent` |
| `OldBatchesNeverReturn` | `Spec => NewestKept` |

Assumption: `CoordinatorAssumption`. Their inductive invariant `IInv` holds both: a thread that joins
knows from `FlightsOwned` that the Future it found has an owner, and from `OwnersWork` that the owner
has settled it if it is about to leave; a thread that claims finds no Future for its key, so by
`FlightsOwned` no owner.

The two theorems on answers add `History`: what is kept is the complete response of a batch of its key
(`Kept`), every request in `run` has met the batch of each owner of its key (`Meets`), and until an
owner has stored, what is kept for its key is older than its batch (`Newer`). `Kept` needs `Newer`: an
owner writes the outcome of its batch in `compute`, and the kept response is not of that batch, because
a batch at work is newer than what is kept. `Newer` in turn needs `FlightsOwned`, for a second owner of
the key could store between.

`CourseRecordsProofs` proves, for any numbers of overlapping requests, terms, courses, institutions,
transcripts and failures:

| Theorem | States |
|---|---|
| `PolicyIsSound` | what `plan_exclusions` returns for any rows: a superseding attempt is another, not earlier, of the same group, and is not superseded |
| `TypeCorrect` | `Spec => []TypeOK` |
| `TermsAreUnique` | `Spec => []OneRowPerTerm` |
| `ExclusionsAreSound` | `Spec => []ExclusionsSound` |
| `HistoryIsKept` | `Spec => HistoryKept` |
| `PlansAreNotLost` | `Spec => FulfilledNotLost` |
| `PromotedAtMostOnce` | `Spec => []PromotedOnce` |
| `ReconciledAsPlanned` | `Spec => []ReconciledIsPlan` |

Assumptions: `RulesAssumption`, `RecordsAssumption`. The inductive invariant `IInv` says of every
request what it has read and is still so (`Sound`), and three facts carry it:

- no step deletes or unconfirms a row or forgets a key it has had, and terms are only appended
  (`Keeps`, `Extends`), so what a request has read about confirmed rows, and that a record covers a
  plan, stays true (`SoundStays`). Each write of the code is shown to be of this kind once
  (`AppendKeeps`, `UpsertKeeps`, `ChangeKeeps`, `RemarkKeeps`);
- a term that a request found missing, if somebody inserts it, gets a sequence number that is at least
  the one the request will try next. So the unique key on the sequence number refuses the request's
  own insert, although no key is on (year, season);
- a plan over rows that were confirmed when read names confirmed rows (`PolicyIsSound`), and still
  does when it is written.

`PromotedAtMostOnce` has an invariant of its own, `PlanInv`, beside `IInv`. Copies of one planned row
may be held by several page loads at once, so uniqueness of records by plan is no invariant. What is:
`Traced`, that the records of one plan share a key they have had, and that it is the key of every copy
of the row; and `Fresh`, that no copy and no record has the id under which a request is about to add a
planned row (without it, an old record would be taken for one of the new row). Records only grow in
what they have been (`Grows`). Two records of one plan which nobody edited would have one key, and
the unique key of the table forbids it. `RecordsAssumption` has, for this proof, that `None` is no
request.

`ReconciledAsPlanned` follows a confirm through its calls. `ReconcileInv` says of a confirm beside which
nobody wrote confirmed rows that what it has read are the confirmed rows, or that the exclusions
written so far together with those it still has to write (`Whole`) are a plan of the policy for the
rows there are. Its own writes move an entry from the second to the first; the policy does not look at
exclusions (`ConfirmedSame`), nor at terms no row is in (`PlansSame`), which other requests may insert
meanwhile.

`SyllabusGradesProofs` proves, for any numbers of tabs, sources, models and requests, and any verdict of
the reconciliation:

| Theorem | States |
|---|---|
| `TypeCorrect` | `Spec => []TypeOK` |
| `RevisionsAreUnique` | `Spec => []OneRevisionPerSource` |
| `ReadyMeansAccepted` | `Spec => []ReadyIsAccepted` |
| `NothingIsInherited` | `Spec => []NothingInherited` |
| `ReadyMeansConfirmed` | `Spec => []ReadyIsConfirmed` |
| `SavesAreBuiltOn` | `Spec => SavesBuildOnSeen` |

Assumption: `SyllabusAssumption`. The strengthening says of each revision that its model and status were
written together, of a request between its writes which revision it works on and that this revision was
asked for if it is about to be marked confirmed, and, for `ReadyMeansConfirmed`, that a revision which
is not stamped while its profile says confirmed has a correction under way or is in `torn`.

`SavesAreBuiltOn` adds `ScoresInv`: what a tab has loaded is not newer than the row and is the row if
their revision numbers agree (`Loaded`), and a save under way that expects the row as it is sends every
score in it (`Builds`). It is kept because a store raises the revision number: what other tabs loaded,
and what their saves expect or have read, is older from then on.

`GradeCalculatorProofs` proves, for any extractions, corrections, scales, confirmations and rules:

| Theorem | States |
|---|---|
| `LettersAreOrdered` | `Spec => []LettersFollowScores` |
| `EvenScoresAreKept` | `Spec => []EvenScoresKept` |
| `AnswersAreThresholds` | `Spec => []AnswerIsThreshold` |
| `SolverIsExact` | for all weights and scores one of the two branches of `WithReplacement` is consistent, and a score reaches the aim exactly when it is at least the answer |

Assumptions: `SyllabusAssumption`, and `ScalesValidated`, that cutoffs of corrected models have ordered
numbers for bounds, which their validation ensures; the next two also need `WeightsValidated`,
that the lists of a model are lists, its weights and points null or not negative, and its categories
named, which the classes of the model ensure; and that an exception is neither a list of components nor
a score, which only says what `Refused` stands for. The first rests on `ReadyMeansAccepted` and on
`NoInversion`: if a higher grade had a lower letter, the two cutoffs that give the letters would, by the
order of the minimums that reconciliation checks, overlap, so "higher grade wins" settles a pair with
their letters. If it is these two, they share one score and the order of the two grades is
contradicted; if it is another pair with these letters, that nothing else overlaps with it
contradicts the order of the minimums. What the code re-derives about confirmed pairs is exactly what
the argument needs.

`EvenScoresAreKept` is about lists of any length, so it needs what the folds behind `Total` and
`Chosen` come to: `TotalRuns` and `TotalIs` (the last of the partial sums), `ChosenRuns` and
`ChosenPlaces` (the items that qualify, all of them, in their order), proved by the least position at
which they would differ. That is why lists are filtered by `Chosen`, and not by the built-in
`SelectSeq`, about which tlapm knows nothing. The argument is then the code's own. Reconciliation
leaves models of total weight 100 whose categories have different names (`Weighable`). A category is
split only into parts that add up to it, so that the sum over all split categories is the sum over
their parts (`SplitTotal`) and what is calculated with weighs what was validated (`WeightKept`). The
names of the parts are nobody else's, so the dict of the engine keeps every one (`PartsDistinct`,
`IndexedAll`). Among equal scores a rule replaces nothing (`RulesChangeNothing`), and a sum of
`x * weight` is `x` times the sum (`TotalOfMultiples`).

`AnswersAreThresholds` relates two calculations: the one the solver asks about, with one score missing,
and the one with a score entered for it. It is the argument the solver leaves out, in three steps. First,
entering the score fills exactly the component that was asked for (`ComponentsFilled`): the solver knows
the component by its name, the sheet has two dicts, and what the components are depends on what was
entered. A score for a part splits no other category (`SplitKept`), and one for an assessment with points
of its own makes no other assessment usable (`PointsFilled`). Second, the replacements are applied one
after the other to both lists. `RunsBeside` shows, from the first rule to the last, that the two differ
at the component, and once its rule was met also at the rule's target, which then has the higher of the
two scores (`Beside`). That needs that nothing replaces the component, that its rules lead to one target,
and that no rule starts at that target (`Meets`), which is what `Answerable` and `Unchained` give
(`RuleIsFor`); that exactly one score is missing before the rules as well is `WhatIsMissing`. Third, the
equation: without a rule it is linear (`LinearAnswer`), with one it is `SolverIsExact`
(`RuleAnswer`). Both preconditions are needed: without `Unchained` or without `Unambiguous` TLC finds
a model of the instance for which the answer is wrong (see "Known gaps").

`PostingClustersProofs` proves, for any postings, listings and batches:

| Theorem | States |
|---|---|
| `IdentityIsKept` | `Spec => IdentityKept` |
| `SweepsLeaveNothing` | `Spec => []SweptClean` |
| `RequisitionsStayApart` | `Spec => OneRequisition` |

Assumptions: `PostingAssumption`, and for the third `TableAssumption`, that the postings are finitely
many and no key is null. An identity could only go with its cluster. The invariant `DeletesEmpty` says
that a merge about to delete the absorbed cluster, and a collector about to delete what it found empty,
still find them empty: there is one job, and nothing of it comes between; `Drop` looks again in the same
step.

The second holds for batches that repeat listings too. The invariant `SweptInv` says, until a call
fails, what each stage of a batch knows: between batches, and while the collector runs, the tables are
clean but for spared clusters; while rows are resolved (`Underway`) only postings of the batch lack an
identity, every posting is where it was staged unless its cluster was absorbed (`Unmoved`), and every
cluster had a member then, or was spared, or was created for a row (`Awaited`); after the upsert whatever
is empty is spared or about to be dropped (`Written`). The step that matters is the upsert. Take a
cluster it leaves empty and that no repeated row left or joined: it was not created for a row, so all its
members of the staging left it, nobody arrived, and as each of them is one row the leaving rows are as
many as the members (`EmptyIsVacated`).

The third says that over any nights, and wherever jobs are stopped, requisitions come together in no way:
not by a vendor's listing that one is found by through its title and another through its link, not by a
merge, not by adopting a cluster. What is needed of the tables is `Separate`. A requisition is tied to a
cluster if it is in it or its own id leads there (`Tied`, `Claimed`). Vendors' listings get to a cluster
by a key that is not an employer's id (`Open`); some of these keys, links and posting ids, are never
given up (`Lasting`), titles are when the cluster is adopted.

- `ClaimsApart`: a cluster that a requisition has by its id is tied to no other requisition;
- `OneMixed`: of the clusters vendors' listings can get to, two never have different requisitions. So a
  merge, whose two clusters are both of that kind, never has requisitions on both sides;
- `ClaimsLast`: a cluster that a requisition has by its id is open for good, or closed to vendors'
  listings and without any of them. Otherwise a requisition could get its key to a closed cluster, its
  job be stopped before the identity is written, and a vendor's posting there, alone as far as the counts
  say, adopt the cluster and open it again.

In a merge, the absorbed cluster counts as open until its postings have moved (`Pending`), although after
the first write no key leads there any more (`KeysMoved`, `MembersMoved`). The rest of `ApartInv` is what
the process knows. Its cache agrees with the table, up to a merge under way (`Remembered`, `Now`), and
may hold keys of a cluster that is gone, but for a cluster that is there it promises nothing the table
has lost (`RememberedIds`, `RememberedFinds`). Every key of the row that the table has leads to the
cluster it is about to join (`Chosen`); an employer's row joins a cluster that can be its own
(`WorkdayRun`, `Own`); a cluster an earlier row of a vendor's batch got, if a requisition has it by its
id, is open for good (`VendorRun`, `Safe`). `ApartInv` was first checked by TLC, on instances with two
requisitions in the old cluster, titles that collide and two faults.

`DegreePlanProofs` proves, for any catalog, program, records, locks, exclusions and horizon:

| Theorem | States |
|---|---|
| `OrderIsKept` | `Spec => []OrderKept` |
| `NothingIsDropped` | `Spec => []NothingDropped` |
| `HoursAreCapped` | `Spec => []HoursCapped` |
| `ChoicesAreHonoured` | `Spec => []ChoicesHonoured` |
| `PlansAreComplete` | `RecordsCredited /\ ProgramAnswerable /\ Spec => []NeverSilentlyIncomplete` |

Assumptions: `CatalogAssumption`, `TreeAssumption` (courses, groups and options are finitely many, and no
group is its own ancestor), `CapAssumption`, `HorizonAssumption`. The first two rest on `PackInv`:

- `ReadyExact`: the counted-down in-degrees are exact, a course is ready exactly when it is not placed
  and all its prerequisites are. So whatever enters a term has them in earlier ones;
- `Accompanied`: the open term has the corequisites of its courses, or an earlier term does. `Fits`
  adds a whole closure, and `ClosureClosed` says that nothing a closure needs is outside it;
- at the end, `NothingLeft`: if courses remained and none were ready, each of them would have a
  prerequisite among them, a set that `Cyclic` would have found before the loop began.

`HoursAreCapped` adds `CapInv`: the load of the open term is what its courses add up to, and only
courses of the catalog get on the scheduler. The first needs that a closure brings only courses the
open term does not have yet (`ClosureIsNew`), else their hours would count twice, and that hours of
disjoint sets add (`HoursOfUnion`). The second needs what the evaluation, the scope and the candidates
compute (`RequiredAreCourses`, `CandidatesTyped`): courses, for any records. `TotalHours` is a fold and
`Evaluate` and `CandidatesOf` are recursive functions, so both begin with what such a definition is
for every finite set and every tree: the first sections of the module derive it from a least
counterexample (`SetInduction`, `Recursion`, `TreeInduction`), which needs no induction theorem.

`ChoicesAreHonoured` does not look into the loop: `ChoiceInv` says that choices belong to deferred
groups, that valid combinations are compatible, and, once decided, what the plan holds and that the
scope of the final run is the required courses with the scheduled candidates. A sole feasible
candidate is in every valid combination (`SoleCandidate`), and compatibility separates what was set
aside from what is scheduled.

`PlansAreComplete` follows a requirement through all the stages. Its two hypotheses are about the data:
`RecordsCredited`, that completed courses earn credit and have the hours of the catalog, which the
finding `plan_incomplete` violates; and `ProgramAnswerable`, that courses can answer for the program
(see "Known gaps" for what happens without each part of it). `MCDegreePlan` assumes both of the instance
it checks, so TLC evaluates them. `ScopeInv` says that what is scheduled, deferred and tried stays what
the records gave; the rest is about the operators. A candidate of a group satisfies the group, by
induction over the tree (`CandidateSatisfies`) from the three kinds of leaf: every option is done or
picked (`AllSatisfies`), what is done and what is picked are different options, so their numbers add
(`SomeSatisfies`), and what was earned and what is picked are different courses, so their hours add
(`HoursSatisfy`). A list without a choice is satisfied by its matches and the required courses
(`RequiredSatisfies`). Locks, exclusions and the ranked plan need no hypothesis: whichever valid
combination wins, a group is either scheduled from it or listed.

Only model-checked: liveness (`PutAnswered`, `PageSettles`, `EveryRequestAnswered`, `DuePromoted`,
`Healed`), which is out of the prover's reach. Every other property of the passing runs is a theorem.

## 5. Plan

Built, in this order: `ScheduleData`, `DegreeSchedule`, `ChoiceStore`, `DegreeScheduleProofs`,
`AnalysisRuns`, `CareerOptimization`, `CareerOptimizationProofs`, `RecordRules`, `CourseRecords`,
`SyllabusGrades`, `SyllabusGradesProofs`, `PostingClusters`, `PostingClustersProofs`,
`CourseRecordsProofs`, `CourseCatalog`, `RequirementTree`, `TermScheduler`, `DegreePlan`,
`DegreePlanProofs`, `AnalysisRunsProofs`, `GradeModels`, `GradeMath`, `GradeCalculator`,
`GradeCalculatorProofs`. To come, the most important first:

1. `ResumeReconciliation` with an abstract specification (apply once, on the reviewed base) and the
   refinement. The apply is one transaction of Postgres, so its hazards are fewer.
2. The rate limiters with a reference definition over bounded histories.
3. The composition of `DegreePlan` with `DegreeSchedule`, whose `Valid` it would replace.
4. The calendar feed, retention of postings, and the sequencing of the three analysis panels.

## 6. Not modelled

- Resume import: see the plan.
- Of the calculator: warnings, explanations and rounding.
- Of the plan: the score that ranks combinations, the reasons given for excluded candidates, the parsing
  of prerequisite text, technical electives. `DegreeSchedule` refers to the planner through constants
  that its theorems leave arbitrary.
- The rate limiters, the demo routes, sign-in and account states, the calendar feed: state of their
  own, apart from that of the modules.
- The role research agent, the feature runners, the AI client, chat: one request, one model, no shared
  state beyond the capacity gate, where `AnalysisRuns` has them.
- Profile assembly, course discovery, action planning: they only read.
- Prompt construction and parsing of model output, PDF and resume text extraction, vendors' payloads,
  rendering, static demo data, one-off imports and evaluations: formatting or I/O without shared state.
