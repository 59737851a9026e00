---------------------------- MODULE AnalysisRuns ----------------------------
(***************************************************************************)
(* GAP, FIT and SHIFT runs of one student: POST .../analysis-runs starts a *)
(* run on a thread of the backend's single process and the page polls its  *)
(* state; POST .../analyze holds the request for the whole run; GET        *)
(* .../analysis-cache serves the saved result of an earlier run.  All of   *)
(* them share the capacity gate; a restart loses gate and registry but not *)
(* the cache, which lives in Postgres.                                     *)
(***************************************************************************)
EXTENDS Naturals, Sequences, FiniteSets

CONSTANTS
    Features,
    SkillFeatures,   \* the features whose saved results a skills edit deletes
    Values,          \* the fingerprinted inputs of a feature
    Pages,
    Capacity,        \* of the AI concurrency gate
    MaxRuns,         \* bound: runs started in a behaviour
    None

ASSUME AnalysisAssumption ==
    /\ SkillFeatures \subseteq Features
    /\ IsFiniteSet(Pages)
    /\ Capacity \in Nat \ {0}
    /\ MaxRuns \in Nat
    /\ None \notin Values
    /\ None \notin Nat

VARIABLES
    inputs,    \* what a feature would read from the profile now
    cache,     \* student_analysis_cache: the inputs a result was computed from
               \* and the fingerprint saved with it
    dropping,  \* a skills edit is saved and has still to delete saved results
    used,      \* taken slots of the gate
    runs,      \* AnalysisRun objects and their threads
    registry,  \* AnalysisRunRegistry._runs
    pc,        \* where each page's request is
    feature,   \* the feature it is about
    read,      \* the inputs its request read from the profile
    spawning   \* the run it has registered and has still to start

serverVars == <<used, runs, registry>>
pageVars == <<pc, feature, read, spawning>>
vars == <<inputs, cache, dropping, serverVars, pageVars>>

\* Pages whose request holds a slot of the gate.
Holding == {"start", "spawn", "giveback", "raise", "wait_model"}

\* Pages whose request is inside the server.
InServer == Holding \cup {"build", "acquire", "wait_build", "wait_acquire", "wait_save",
                          "cache_build", "cache_get"}

Running(f) == registry[f] # None /\ runs[registry[f]].state = "running"

-----------------------------------------------------------------------------

\* A saved result may be older than fingerprints.
Init ==
    /\ inputs \in [Features -> Values]
    /\ cache \in [Features -> {None} \cup [origin : Values, mark : {None}]]
    /\ dropping = FALSE
    /\ used = 0
    /\ runs = <<>>
    /\ registry = [f \in Features |-> None]
    /\ pc = [p \in Pages |-> "idle"]
    /\ feature \in [Pages -> Features]
    /\ read = [p \in Pages |-> None]
    /\ spawning = [p \in Pages |-> None]

-----------------------------------------------------------------------------
(* The student edits the profile; a skills edit then deletes saved results. *)

EditProfile(new, skills) ==
    /\ new # inputs
    /\ inputs' = new
    /\ dropping' = (dropping \/ skills)
    /\ UNCHANGED <<cache, serverVars, pageVars>>

\* _invalidate_analysis_cache is best effort.
Invalidate ==
    /\ dropping
    /\ dropping' = FALSE
    /\ \/ cache' = [f \in Features |-> IF f \in SkillFeatures THEN None ELSE cache[f]]
       \/ UNCHANGED cache
    /\ UNCHANGED <<inputs, serverVars, pageVars>>

-----------------------------------------------------------------------------
(* start_me_analysis_run, analyze_me and get_me_analysis_cache. *)

Goto(p, at) == pc' = [pc EXCEPT ![p] = at]

\* The page has its answer and forgets what the request had read.
Leave(p, at) ==
    /\ Goto(p, at)
    /\ read' = [read EXCEPT ![p] = None]
    /\ UNCHANGED <<feature, spawning>>

\* The page asks to wait for an analysis, or opens and looks for a saved one.
Ask(p, f, at) ==
    /\ pc[p] = "idle"
    /\ Goto(p, at)
    /\ feature' = [feature EXCEPT ![p] = f]
    /\ UNCHANGED <<inputs, cache, dropping, serverVars, read, spawning>>

\* POST analysis-runs: a run that is going is joined, else one is prepared.
AskRun(p, f) ==
    /\ pc[p] = "idle"
    /\ feature' = [feature EXCEPT ![p] = f]
    /\ \/ /\ Running(f)
          /\ Goto(p, "poll")
       \/ /\ ~Running(f)
          /\ Len(runs) + Cardinality({q \in Pages : pc[q] \in {"build", "acquire", "start"}}) < MaxRuns
          /\ Goto(p, "build")
    /\ UNCHANGED <<inputs, cache, dropping, serverVars, read, spawning>>

\* build_student_intelligence_profile
Build(p) ==
    /\ \E at \in {<<"build", "acquire">>, <<"wait_build", "wait_acquire">>,
                  <<"cache_build", "cache_get">>} :
          pc[p] = at[1] /\ Goto(p, at[2])
    /\ read' = [read EXCEPT ![p] = inputs[feature[p]]]
    /\ UNCHANGED <<inputs, cache, dropping, serverVars, feature, spawning>>

Acquire(p) ==
    /\ used < Capacity
    /\ \E at \in {<<"acquire", "start">>, <<"wait_acquire", "wait_model">>} :
          pc[p] = at[1] /\ Goto(p, at[2])
    /\ used' = used + 1
    /\ UNCHANGED <<inputs, cache, dropping, runs, registry, feature, read, spawning>>

\* Mutant: the slot is released although it was never taken.
BusyReleasing(p) ==
    /\ pc[p] \in {"acquire", "wait_acquire"}
    /\ used = Capacity
    /\ used' = used - 1
    /\ Leave(p, "idle")
    /\ UNCHANGED <<inputs, cache, dropping, runs, registry>>

\* 429: the gate never blocks.
Busy(p) ==
    /\ pc[p] \in {"acquire", "wait_acquire"}
    /\ used = Capacity
    /\ Leave(p, "idle")
    /\ UNCHANGED <<inputs, cache, dropping, serverVars>>

\* Mutant: the check that no run is going was only made on arrival.
RegisterUnchecked(p) ==
    /\ pc[p] = "start"
    /\ runs' = Append(runs, [feature |-> feature[p], inputs |-> read[p], state |-> "running",
                             thread |-> "new", ok |-> FALSE])
    /\ registry' = [registry EXCEPT ![feature[p]] = Len(runs) + 1]
    /\ spawning' = [spawning EXCEPT ![p] = Len(runs) + 1]
    /\ read' = [read EXCEPT ![p] = None]
    /\ Goto(p, "spawn")
    /\ UNCHANGED <<inputs, cache, dropping, used, feature>>

\* AnalysisRunRegistry.start, inside its lock.
Register(p) ==
    /\ pc[p] = "start"
    /\ ~Running(feature[p])
    /\ runs' = Append(runs, [feature |-> feature[p], inputs |-> read[p], state |-> "running",
                             thread |-> "new", ok |-> FALSE])
    /\ registry' = [registry EXCEPT ![feature[p]] = Len(runs) + 1]
    /\ spawning' = [spawning EXCEPT ![p] = Len(runs) + 1]
    /\ read' = [read EXCEPT ![p] = None]
    /\ Goto(p, "spawn")
    /\ UNCHANGED <<inputs, cache, dropping, used, feature>>

\* Mutant: the loser keeps its slot.
LoseRaceHolding(p) ==
    /\ pc[p] = "start"
    /\ Running(feature[p])
    /\ Leave(p, "poll")
    /\ UNCHANGED <<inputs, cache, dropping, serverVars>>

\* "Lost a race with another start for the same run."
LoseRace(p) ==
    /\ pc[p] = "start"
    /\ Running(feature[p])
    /\ Leave(p, "giveback")
    /\ UNCHANGED <<inputs, cache, dropping, serverVars>>

\* Thread.start, outside the lock.
Spawn(p) ==
    /\ pc[p] = "spawn"
    /\ runs' = [runs EXCEPT ![spawning[p]].thread = "model"]
    /\ spawning' = [spawning EXCEPT ![p] = None]
    /\ Goto(p, "poll")
    /\ UNCHANGED <<inputs, cache, dropping, used, registry, feature, read>>

\* "can't start new thread": the slot goes back, the registered run stays.
SpawnFails(p) ==
    /\ pc[p] = "spawn"
    /\ spawning' = [spawning EXCEPT ![p] = None]
    /\ Goto(p, "raise")
    /\ UNCHANGED <<inputs, cache, dropping, serverVars, feature, read>>

GiveBack(p) ==
    /\ \E at \in {<<"giveback", "poll">>, <<"raise", "idle">>} :
          pc[p] = at[1] /\ Goto(p, at[2])
    /\ used' = used - 1
    /\ UNCHANGED <<inputs, cache, dropping, runs, registry, feature, read, spawning>>

\* A read of the profile, or of the cache, fails.
FailRequest(p) ==
    /\ pc[p] \in {"build", "wait_build", "cache_build", "cache_get"}
    /\ Leave(p, "idle")
    /\ UNCHANGED <<inputs, cache, dropping, serverVars>>

\* The waiting route gives its slot back before it saves.
WaitModel(p) ==
    /\ pc[p] = "wait_model"
    /\ used' = used - 1
    /\ \/ Goto(p, "wait_save") /\ UNCHANGED <<feature, read, spawning>>
       \/ Leave(p, "idle")
    /\ UNCHANGED <<inputs, cache, dropping, runs, registry>>

\* Mutant: the fingerprint is taken when the result is saved.
SaveRestamped(f, v) ==
    \/ cache' = [cache EXCEPT ![f] = [origin |-> v, mark |-> inputs[f]]]
    \/ UNCHANGED cache

\* stamp() and _write_analysis_cache: the result of a run on inputs v is saved
\* with their fingerprint; a failing write is only logged.
Save(f, v) ==
    \/ cache' = [cache EXCEPT ![f] = [origin |-> v, mark |-> v]]
    \/ UNCHANGED cache

WaitSave(p) ==
    /\ pc[p] = "wait_save"
    /\ Save(feature[p], read[p])
    /\ Leave(p, "idle")
    /\ UNCHANGED <<inputs, dropping, serverVars>>

\* for_client: the verdict on a saved result; there is none to give on one
\* saved before fingerprints existed.
ProfileChanged(row, v) == row.mark \notin {None, v}

\* A saved result with its verdict, or 404; then the page looks for a run.
GetCached(p) ==
    /\ pc[p] = "cache_get"
    /\ Leave(p, "resume")
    /\ UNCHANGED <<inputs, cache, dropping, serverVars>>

\* resumeAnalysisRun: an opened page follows a run that is still going.
Resume(p) ==
    /\ pc[p] = "resume"
    /\ Leave(p, IF Running(feature[p]) THEN "poll" ELSE "idle")
    /\ UNCHANGED <<inputs, cache, dropping, serverVars>>

-----------------------------------------------------------------------------
(* A run's thread: work() and target(). *)

Thread(i, from, to) ==
    /\ runs[i].thread = from
    /\ runs' = [runs EXCEPT ![i].thread = to]

\* run_canonical returns, or raises.
ModelEnds(i) ==
    /\ \/ /\ Thread(i, "model", "release")
       \/ /\ runs[i].thread = "model"
          /\ runs' = [runs EXCEPT ![i].thread = "save", ![i].ok = TRUE]
    /\ UNCHANGED <<inputs, cache, dropping, used, registry, pageVars>>

SaveRun(i) ==
    /\ Thread(i, "save", "release")
    /\ Save(runs[i].feature, runs[i].inputs)
    /\ UNCHANGED <<inputs, dropping, used, registry, pageVars>>

Release(i) ==
    /\ Thread(i, "release", "finish")
    /\ used' = used - 1
    /\ UNCHANGED <<inputs, cache, dropping, registry, pageVars>>

\* Mutant: an exception ends the thread without settling the run.
FinishWithoutFailing(i) ==
    /\ runs[i].thread = "finish"
    /\ runs' = [runs EXCEPT ![i].thread = "ended",
                            ![i].state = IF runs[i].ok THEN "done" ELSE @]
    /\ UNCHANGED <<inputs, cache, dropping, used, registry, pageVars>>

Finish(i) ==
    /\ runs[i].thread = "finish"
    /\ runs' = [runs EXCEPT ![i].thread = "ended",
                            ![i].state = IF runs[i].ok THEN "done" ELSE "failed"]
    /\ UNCHANGED <<inputs, cache, dropping, used, registry, pageVars>>

-----------------------------------------------------------------------------
(* waitForAnalysisRun *)

\* A status read that settles the page -- done, failed, or no run known; one
\* that says "running" changes nothing.
Poll(p) ==
    /\ pc[p] = "poll"
    /\ ~Running(feature[p])
    /\ Leave(p, "idle")
    /\ UNCHANGED <<inputs, cache, dropping, serverVars>>

\* Four failed reads in a row, the page's deadline, or the page is closed.
GiveUp(p) ==
    /\ pc[p] \in {"poll", "resume"}
    /\ Leave(p, "idle")
    /\ UNCHANGED <<inputs, cache, dropping, serverVars>>

\* KEEP_FINISHED_SECONDS after a run finished no read finds it any more.
Prune(f) ==
    /\ registry[f] # None
    /\ ~Running(f)
    /\ registry' = [registry EXCEPT ![f] = None]
    /\ UNCHANGED <<inputs, cache, dropping, used, runs, pageVars>>

Restart ==
    /\ used' = 0
    /\ runs' = [i \in DOMAIN runs |-> [runs[i] EXCEPT !.thread = "ended"]]
    /\ registry' = [f \in Features |-> None]
    /\ dropping' = FALSE
    /\ pc' = [p \in Pages |-> IF pc[p] \in InServer THEN "idle" ELSE pc[p]]
    /\ read' = [p \in Pages |-> None]
    /\ spawning' = [p \in Pages |-> None]
    /\ UNCHANGED <<inputs, cache, feature>>

-----------------------------------------------------------------------------

Request(p) ==
    \/ \E f \in Features : \/ AskRun(p, f)
                           \/ \E at \in {"wait_build", "cache_build"} : Ask(p, f, at)
    \/ Build(p) \/ Acquire(p) \/ Busy(p) \/ FailRequest(p)
    \/ Register(p) \/ LoseRace(p) \/ Spawn(p) \/ SpawnFails(p) \/ GiveBack(p)
    \/ WaitModel(p) \/ WaitSave(p)
    \/ GetCached(p) \/ Resume(p)
    \/ Poll(p) \/ GiveUp(p)

Work(i) == ModelEnds(i) \/ SaveRun(i) \/ Release(i) \/ Finish(i)

Next ==
    \/ \E new \in [Features -> Values], skills \in BOOLEAN : EditProfile(new, skills)
    \/ Invalidate
    \/ \E p \in Pages : Request(p)
    \/ \E i \in DOMAIN runs : Work(i)
    \/ \E f \in Features : Prune(f)
    \/ Restart

Spec == Init /\ [][Next]_vars

\* Model calls time out, so a thread that was started runs to its end; a
\* request that registered a run starts its thread; a page polls until its run
\* settles.
FairSpec == /\ Spec
            /\ \A p \in Pages : WF_vars(Spawn(p) \/ SpawnFails(p)) /\ WF_vars(Poll(p))
            /\ \A i \in 1..MaxRuns : WF_vars(i \in DOMAIN runs /\ Work(i))

-----------------------------------------------------------------------------

RunRecord == [feature : Features, inputs : Values, state : {"running", "done", "failed"},
              thread : {"new", "model", "save", "release", "finish", "ended"}, ok : BOOLEAN]

\* Every variable holds what its declaration says.
TypeOK ==
    /\ inputs \in [Features -> Values]
    /\ cache \in [Features -> {None} \cup [origin : Values, mark : Values \cup {None}]]
    /\ dropping \in BOOLEAN
    /\ used \in 0..Capacity
    /\ runs \in Seq(RunRecord)
    /\ registry \in [Features -> {None} \cup DOMAIN runs]
    /\ pc \in [Pages -> InServer \cup {"idle", "poll", "resume"}]
    /\ feature \in [Pages -> Features]
    /\ read \in [Pages -> Values \cup {None}]
    /\ spawning \in [Pages -> {None} \cup DOMAIN runs]

HoldsSlot(i) == runs[i].thread \in {"model", "save", "release"}

\* The gate counts exactly the runs and requests that hold a slot: a slot is
\* handed from the starting request to the run's thread and given back once,
\* whoever loses the race, fails or is interrupted.
SlotsAccounted ==
    used = Cardinality({p \in Pages : pc[p] \in Holding})
           + Cardinality({i \in DOMAIN runs : HoldsSlot(i)})

\* A run whose thread may still save a result is the one its feature is
\* registered with, so no two of them work on the same feature and every page
\* finds it.
WorkIsRegistered ==
    \A i \in DOMAIN runs :
        runs[i].thread # "ended" => /\ registry[runs[i].feature] = i
                                    /\ runs[i].state = "running"

\* The page is served the saved result of its feature.
ServesCached(p) == pc[p] = "cache_get" /\ pc'[p] = "resume" /\ cache[feature[p]] # None

\* A saved result served without "profile_changed" was computed from the inputs
\* the serving request read, whenever the run began, the edit happened and the
\* saved results were deleted.  Only results older than fingerprints escape it.
UnflaggedIsCurrent ==
    [][\A p \in Pages : ServesCached(p) =>
          LET row == cache[feature[p]]
          IN  ~ProfileChanged(row, read[p]) /\ row.mark # None => row.origin = read[p]]_vars

\* A page that follows a run sees it settle, unless the run is one whose thread
\* could not be started.
PageSettles ==
    \A p \in Pages :
        pc[p] = "poll" ~> \/ pc[p] = "idle"
                          \/ Running(feature[p]) /\ runs[registry[feature[p]]].thread = "new"
=============================================================================
