------------------------- MODULE AnalysisRunsProofs -------------------------
(***************************************************************************)
(* Proofs about AnalysisRuns: the gate counts its slots, a working run is  *)
(* the registered one, and a saved result says when it is stale.           *)
(***************************************************************************)
EXTENDS AnalysisRuns, FiniteSetTheorems, SequenceTheorems, TLAPS

----------------------------------------------------------------------------
(* The inductive invariant.                                                *)

\* A request has read the profile before it works on what it read.
ReadFirst ==
    \A p \in Pages :
        pc[p] \in {"acquire", "start", "wait_acquire", "wait_model", "wait_save", "cache_get"}
            => read[p] \in Values

\* A request about to start a thread has a run of its own whose thread is new.
Awaited ==
    /\ \A p \in Pages : pc[p] = "spawn" => spawning[p] # None
    /\ \A p \in Pages : spawning[p] # None =>
          pc[p] = "spawn" /\ runs[spawning[p]].thread = "new"
    /\ \A p, q \in Pages : spawning[p] # None /\ spawning[p] = spawning[q] => p = q

\* A saved fingerprint is that of the inputs the result was computed from.
Stamped == \A f \in Features : cache[f] # None => cache[f].mark \in {None, cache[f].origin}

Holders == {p \in Pages : pc[p] \in Holding}

Workers == {i \in DOMAIN runs : HoldsSlot(i)}

\* SlotsAccounted is not inductive alone: the slot of a starting request passes
\* to a thread that must not have one yet (Awaited).  WorkIsRegistered is, but
\* for the types.
IInv == TypeOK /\ ReadFirst /\ Awaited /\ Stamped /\ WorkIsRegistered /\ SlotsAccounted

-----------------------------------------------------------------------------
(* The runs, and the sets the gate counts.                                  *)

\* Registering a run appends it and leaves the others as they are.
LEMMA AppendRun ==
    ASSUME runs \in Seq(RunRecord), NEW r \in RunRecord, runs' = Append(runs, r)
    PROVE  /\ runs' \in Seq(RunRecord)
           /\ DOMAIN runs' = DOMAIN runs \cup {Len(runs) + 1}
           /\ runs'[Len(runs) + 1] = r
           /\ Len(runs) + 1 \notin DOMAIN runs
           /\ \A i \in DOMAIN runs : runs'[i] = runs[i]
  OBVIOUS

\* Replacing one run leaves the others as they are.
LEMMA ChangeRun ==
    ASSUME runs \in Seq(RunRecord), NEW i \in DOMAIN runs, NEW r \in RunRecord,
           runs' = [runs EXCEPT ![i] = r]
    PROVE  /\ runs' \in Seq(RunRecord)
           /\ DOMAIN runs' = DOMAIN runs
           /\ runs'[i] = r
           /\ \A j \in DOMAIN runs : j # i => runs'[j] = runs[j]
  OBVIOUS

\* The index of a run is never the value that says there is none.
LEMMA NoneIsNoRun ==
    ASSUME TypeOK
    PROVE  None \notin DOMAIN runs
  BY AnalysisAssumption DEF TypeOK

\* A run is a record of its type.
LEMMA RunTyped ==
    ASSUME TypeOK, NEW i \in DOMAIN runs
    PROVE  runs[i] \in RunRecord /\ runs[i].feature \in Features /\ runs[i].inputs \in Values
<1>1. runs[i] \in RunRecord
  BY DEF TypeOK
<1> QED BY <1>1 DEF RunRecord

\* Both sets the gate counts are finite.
LEMMA SlotSetsFinite ==
    ASSUME TypeOK
    PROVE  /\ IsFiniteSet(Holders) /\ Cardinality(Holders) \in Nat
           /\ IsFiniteSet(Workers) /\ Cardinality(Workers) \in Nat
<1>1. IsFiniteSet(Holders)
  BY AnalysisAssumption, FS_Subset DEF Holders
<1>2. IsFiniteSet(Workers)
  <2>1. Len(runs) \in Nat /\ DOMAIN runs = 1..Len(runs)
    BY DEF TypeOK
  <2>2. IsFiniteSet(1..Len(runs))
    BY <2>1, FS_Interval
  <2> QED BY <2>1, <2>2, FS_Subset DEF Workers
<1> QED BY <1>1, <1>2, FS_CardinalityType

\* What the gate counts, in terms of the two sets.
LEMMA SlotsCounted ==
    SlotsAccounted <=> used = Cardinality(Holders) + Cardinality(Workers)
  BY DEF SlotsAccounted, Holders, Workers

\* The gate still counts its slots when nobody's slot changes hands.
LEMMA SlotsStay ==
    ASSUME SlotsAccounted, used' = used, Holders' = Holders, Workers' = Workers
    PROVE  SlotsAccounted'
<1>1. SlotsAccounted' <=> used' = Cardinality(Holders') + Cardinality(Workers')
  BY DEF SlotsAccounted, Holders, Workers
<1> QED BY <1>1, SlotsCounted

\* At first nothing runs and every page is idle.
LEMMA InitInv == Init => IInv
<1> SUFFICES ASSUME Init PROVE IInv
  OBVIOUS
<1>1. runs \in Seq(RunRecord) /\ DOMAIN runs = {}
  BY DEF Init
<1>2. TypeOK
  <2>1. cache \in [Features -> {None} \cup [origin : Values, mark : Values \cup {None}]]
    BY DEF Init
  <2>2. used \in 0..Capacity
    BY AnalysisAssumption DEF Init
  <2>3. pc \in [Pages -> InServer \cup {"idle", "poll", "resume"}]
    BY DEF Init
  <2>4. /\ registry \in [Features -> {None} \cup DOMAIN runs]
        /\ read \in [Pages -> Values \cup {None}]
        /\ spawning \in [Pages -> {None} \cup DOMAIN runs]
    BY DEF Init
  <2> QED BY <1>1, <2>1, <2>2, <2>3, <2>4 DEF Init, TypeOK
<1>3. ReadFirst /\ Awaited /\ Stamped /\ WorkIsRegistered
  BY <1>1 DEF Init, ReadFirst, Awaited, Stamped, WorkIsRegistered
<1>4. Holders = {} /\ Workers = {}
  BY <1>1 DEF Init, Holders, Workers, Holding
<1>5. SlotsAccounted
  BY <1>4, SlotsCounted, FS_EmptySet DEF Init
<1> QED BY <1>2, <1>3, <1>5 DEF IInv

-----------------------------------------------------------------------------
(* Steps of a request.                                                      *)

\* A request moves without touching the gate or the runs, and without coming to
\* hold a slot or ceasing to.
LEMMA MoveInv ==
    ASSUME IInv, NEW p \in Pages, NEW at \in InServer \cup {"idle", "poll", "resume"},
           pc' = [pc EXCEPT ![p] = at],
           feature' \in [Pages -> Features],
           read' \in [Pages -> Values \cup {None}],
           \A q \in Pages : q # p => read'[q] = read[q],
           at \in {"acquire", "start", "wait_acquire", "wait_model", "wait_save", "cache_get"}
               => read'[p] \in Values,
           at \in Holding <=> pc[p] \in Holding,
           at # "spawn", pc[p] # "spawn",
           cache' \in [Features -> {None} \cup [origin : Values, mark : Values \cup {None}]],
           Stamped',
           UNCHANGED <<inputs, dropping, serverVars, spawning>>
    PROVE  IInv'
<1>1. TypeOK'
  BY DEF IInv, TypeOK, serverVars
<1>2. pc'[p] = at /\ \A q \in Pages : q # p => pc'[q] = pc[q]
  BY DEF IInv, TypeOK
<1>3. ReadFirst'
  BY <1>2 DEF IInv, ReadFirst
<1>4. Awaited'
  BY <1>2 DEF IInv, Awaited, serverVars
<1>5. WorkIsRegistered'
  BY DEF IInv, WorkIsRegistered, serverVars
<1>6. Holders' = Holders /\ Workers' = Workers
  BY <1>2 DEF Holders, Workers, HoldsSlot, serverVars
<1>7. SlotsAccounted'
  BY <1>6, SlotsStay DEF IInv, serverVars
<1> QED BY <1>1, <1>3, <1>4, <1>5, <1>7 DEF IInv

\* A request comes in, reads, is refused, or has its answer.
LEMMA AnswerInv ==
    ASSUME IInv, NEW p \in Pages,
           \/ \E f \in Features : \/ AskRun(p, f)
                                  \/ \E at \in {"wait_build", "cache_build"} : Ask(p, f, at)
           \/ Build(p) \/ Busy(p) \/ FailRequest(p) \/ LoseRace(p)
           \/ GetCached(p) \/ Resume(p) \/ Poll(p) \/ GiveUp(p)
    PROVE  IInv'
<1>1. UNCHANGED <<inputs, cache, dropping, serverVars, spawning>>
  BY DEF AskRun, Ask, Build, Busy, FailRequest, LoseRace, GetCached, Resume, Poll, GiveUp, Leave
<1>2. Stamped' /\ cache' = cache
  BY <1>1 DEF IInv, Stamped
<1>3. CASE \E f \in Features : \/ AskRun(p, f)
                               \/ \E at \in {"wait_build", "cache_build"} : Ask(p, f, at)
  <2>1. PICK at \in {"poll", "build", "wait_build", "cache_build"} :
          /\ pc' = [pc EXCEPT ![p] = at]
          /\ pc[p] = "idle" /\ read' = read
          /\ feature' \in [Pages -> Features]
    BY <1>3 DEF AskRun, Ask, Goto, IInv, TypeOK
  <2> QED BY <1>1, <1>2, <2>1, MoveInv DEF IInv, TypeOK, InServer, Holding
<1>4. CASE Build(p)
  <2>1. PICK at \in {"acquire", "wait_acquire", "cache_get"} :
          /\ pc' = [pc EXCEPT ![p] = at]
          /\ pc[p] \in {"build", "wait_build", "cache_build"}
    <3>1. PICK at \in {<<"build", "acquire">>, <<"wait_build", "wait_acquire">>,
                       <<"cache_build", "cache_get">>} : pc[p] = at[1] /\ Goto(p, at[2])
      BY <1>4 DEF Build
    <3>2. /\ at[1] \in {"build", "wait_build", "cache_build"}
          /\ at[2] \in {"acquire", "wait_acquire", "cache_get"}
      OBVIOUS
    <3> QED BY <3>1, <3>2 DEF Goto
  <2>2. /\ read' = [read EXCEPT ![p] = inputs[feature[p]]]
        /\ inputs[feature[p]] \in Values /\ feature' = feature
    BY <1>4 DEF Build, IInv, TypeOK
  <2> QED BY <1>1, <1>2, <2>1, <2>2, MoveInv DEF IInv, TypeOK, InServer, Holding
<1>5. CASE LoseRace(p)
  BY <1>1, <1>2, <1>5, MoveInv DEF LoseRace, Leave, Goto, IInv, TypeOK, InServer, Holding
<1>6. CASE Busy(p) \/ FailRequest(p) \/ GetCached(p) \/ Resume(p) \/ Poll(p) \/ GiveUp(p)
  <2>1. PICK at \in {"idle", "poll", "resume"} : Leave(p, at)
    BY <1>6 DEF Busy, FailRequest, GetCached, Resume, Poll, GiveUp
  <2>2. pc[p] \notin Holding
    BY <1>6 DEF Busy, FailRequest, GetCached, Resume, Poll, GiveUp, Holding
  <2> QED BY <1>1, <1>2, <2>1, <2>2, MoveInv DEF Leave, Goto, IInv, TypeOK, InServer, Holding
<1> QED BY <1>3, <1>4, <1>5, <1>6

-----------------------------------------------------------------------------
(* Steps that take, hand over and give back a slot.                         *)

\* One more holder or worker, or one fewer, is one more slot, or one fewer.
LEMMA SlotsChange ==
    ASSUME IInv, NEW S, NEW x, S = Holders \/ S = Workers
    PROVE  /\ x \notin S => Cardinality(S \cup {x}) = Cardinality(S) + 1
           /\ x \in S => /\ Cardinality(S \ {x}) = Cardinality(S) - 1
                         /\ Cardinality(S) - 1 \in Nat
<1>1. IsFiniteSet(S)
  BY SlotSetsFinite DEF IInv
<1>2. x \notin S => Cardinality(S \cup {x}) = Cardinality(S) + 1
  BY <1>1, FS_AddElement
<1>3. Cardinality(S \ {x}) = IF x \in S THEN Cardinality(S) - 1 ELSE Cardinality(S)
  BY <1>1, FS_RemoveElement
<1>4. IsFiniteSet(S \ {x})
  BY <1>1, FS_RemoveElement
<1>5. Cardinality(S \ {x}) \in Nat
  BY <1>4, FS_CardinalityType
<1> QED BY <1>2, <1>3, <1>5

\* A slot given back keeps the gate within its bounds and counting right.
LEMMA SlotGiven ==
    ASSUME IInv, NEW x, used' = used - 1,
           \/ x \in Holders /\ Holders' = Holders \ {x} /\ Workers' = Workers
           \/ x \in Workers /\ Workers' = Workers \ {x} /\ Holders' = Holders
    PROVE  used' \in 0..Capacity /\ SlotsAccounted'
<1>1. /\ used \in 0..Capacity /\ used = Cardinality(Holders) + Cardinality(Workers)
      /\ Cardinality(Holders) \in Nat /\ Cardinality(Workers) \in Nat
  BY SlotsCounted, SlotSetsFinite DEF IInv, TypeOK
<1>2. SlotsAccounted' <=> used' = Cardinality(Holders') + Cardinality(Workers')
  BY DEF SlotsAccounted, Holders, Workers
<1>3. CASE x \in Holders /\ Holders' = Holders \ {x} /\ Workers' = Workers
  <2>1. Cardinality(Holders') = Cardinality(Holders) - 1 /\ Cardinality(Holders) - 1 \in Nat
    BY <1>3, SlotsChange
  <2> QED BY <1>1, <1>2, <1>3, <2>1, AnalysisAssumption
<1>4. CASE x \in Workers /\ Workers' = Workers \ {x} /\ Holders' = Holders
  <2>1. Cardinality(Workers') = Cardinality(Workers) - 1 /\ Cardinality(Workers) - 1 \in Nat
    BY <1>4, SlotsChange
  <2> QED BY <1>1, <1>2, <1>4, <2>1, AnalysisAssumption
<1> QED BY <1>3, <1>4

\* The gate is not full, and the request holds nothing yet.
LEMMA AcquireInv ==
    ASSUME IInv, NEW p \in Pages, Acquire(p)
    PROVE  IInv'
<1>1. PICK at \in {"start", "wait_model"} :
        pc[p] \in {"acquire", "wait_acquire"} /\ pc' = [pc EXCEPT ![p] = at]
  <2>1. PICK to \in {<<"acquire", "start">>, <<"wait_acquire", "wait_model">>} :
          pc[p] = to[1] /\ Goto(p, to[2])
    BY DEF Acquire
  <2>2. to[1] \in {"acquire", "wait_acquire"} /\ to[2] \in {"start", "wait_model"}
    OBVIOUS
  <2> QED BY <2>1, <2>2 DEF Goto
<1>2. /\ used < Capacity /\ used' = used + 1
      /\ UNCHANGED <<inputs, cache, dropping, runs, registry, feature, read, spawning>>
  BY DEF Acquire
<1>3. used' \in 0..Capacity
  BY <1>2, AnalysisAssumption DEF IInv, TypeOK
<1>4. TypeOK'
  BY <1>1, <1>2, <1>3 DEF IInv, TypeOK, InServer, Holding
<1>5. pc'[p] = at /\ \A q \in Pages : q # p => pc'[q] = pc[q]
  BY <1>1 DEF IInv, TypeOK
<1>6. ReadFirst' /\ Awaited' /\ Stamped' /\ WorkIsRegistered'
  BY <1>1, <1>2, <1>5 DEF IInv, ReadFirst, Awaited, Stamped, WorkIsRegistered
<1>7. p \notin Holders /\ Holders' = Holders \cup {p} /\ Workers' = Workers
  BY <1>1, <1>2, <1>5 DEF Holders, Workers, HoldsSlot, Holding
<1>8. Cardinality(Holders') = Cardinality(Holders) + 1
  BY <1>7, SlotsChange
<1>9. SlotsAccounted'
  <2>1. SlotsAccounted' <=> used' = Cardinality(Holders') + Cardinality(Workers')
    BY DEF SlotsAccounted, Holders, Workers
  <2>2. /\ used = Cardinality(Holders) + Cardinality(Workers)
        /\ Cardinality(Holders) \in Nat /\ Cardinality(Workers) \in Nat
    BY SlotsCounted, SlotSetsFinite DEF IInv
  <2> QED BY <1>2, <1>7, <1>8, <2>1, <2>2
<1> QED BY <1>4, <1>6, <1>9 DEF IInv

\* Both routes: the slot of a lost race, of a thread that did not start, or of a
\* model call the request waited for.
LEMMA GiveBackInv ==
    ASSUME IInv, NEW p \in Pages, GiveBack(p) \/ WaitModel(p)
    PROVE  IInv'
<1>1. PICK at \in {"poll", "idle", "wait_save"} :
        /\ pc' = [pc EXCEPT ![p] = at]
        /\ pc[p] \in {"giveback", "raise", "wait_model"}
        /\ read' = read \/ read' = [read EXCEPT ![p] = None]
        /\ at = "wait_save" => pc[p] = "wait_model" /\ read' = read
  <2>1. CASE GiveBack(p)
    <3>1. PICK to \in {<<"giveback", "poll">>, <<"raise", "idle">>} :
            pc[p] = to[1] /\ Goto(p, to[2])
      BY <2>1 DEF GiveBack
    <3>2. to[1] \in {"giveback", "raise"} /\ to[2] \in {"poll", "idle"}
      OBVIOUS
    <3> QED BY <2>1, <3>1, <3>2 DEF Goto, GiveBack
  <2>2. CASE WaitModel(p)
    BY <2>2 DEF WaitModel, Leave, Goto
  <2> QED BY <2>1, <2>2
<1>2. used' = used - 1 /\ UNCHANGED <<inputs, cache, dropping, runs, registry, feature, spawning>>
  BY DEF GiveBack, WaitModel, Leave
<1>3. /\ pc'[p] = at
      /\ \A q \in Pages : q # p => pc'[q] = pc[q] /\ read'[q] = read[q]
      /\ at = "wait_save" => read'[p] \in Values
  BY <1>1 DEF IInv, TypeOK, ReadFirst
<1>4. p \in Holders /\ Holders' = Holders \ {p} /\ Workers' = Workers
  BY <1>1, <1>2, <1>3 DEF Holders, Workers, HoldsSlot, Holding
<1>5. used' \in 0..Capacity /\ SlotsAccounted'
  BY <1>2, <1>4, SlotGiven
<1>6. read' \in [Pages -> Values \cup {None}]
  BY <1>1 DEF IInv, TypeOK
<1>7. TypeOK'
  BY <1>1, <1>2, <1>5, <1>6 DEF IInv, TypeOK, InServer, Holding
<1>8. ReadFirst'
  BY <1>3 DEF IInv, ReadFirst
<1>9. Awaited' /\ Stamped' /\ WorkIsRegistered'
  BY <1>1, <1>2, <1>3 DEF IInv, Awaited, Stamped, WorkIsRegistered
<1> QED BY <1>5, <1>7, <1>8, <1>9 DEF IInv
-----------------------------------------------------------------------------
(* Steps that register a run and start its thread.                          *)

\* No run of the feature is going, so none is left that could still work on it,
\* and the new run is nobody else's.
LEMMA RegisterInv ==
    ASSUME IInv, NEW p \in Pages, Register(p)
    PROVE  IInv'
<1> DEFINE f == feature[p]
           n == Len(runs) + 1
           r == [feature |-> f, inputs |-> read[p], state |-> "running",
                 thread |-> "new", ok |-> FALSE]
<1>1. /\ pc[p] = "start" /\ ~Running(f)
      /\ runs' = Append(runs, r)
      /\ registry' = [registry EXCEPT ![f] = n]
      /\ spawning' = [spawning EXCEPT ![p] = n]
      /\ read' = [read EXCEPT ![p] = None]
      /\ pc' = [pc EXCEPT ![p] = "spawn"]
      /\ UNCHANGED <<inputs, cache, dropping, used, feature>>
  BY DEF Register, Goto
<1>2. r \in RunRecord /\ f \in Features
  BY <1>1 DEF RunRecord, IInv, TypeOK, ReadFirst
<1>3. r.feature = f /\ r.thread = "new" /\ r.state = "running"
  OBVIOUS
<1>4. n \in Nat /\ n # None
  BY AnalysisAssumption DEF IInv, TypeOK
<1> HIDE DEF r
<1>5. /\ runs' \in Seq(RunRecord) /\ DOMAIN runs' = DOMAIN runs \cup {n}
      /\ runs'[n] = r /\ n \notin DOMAIN runs
      /\ \A i \in DOMAIN runs : runs'[i] = runs[i]
  BY <1>1, <1>2, AppendRun DEF IInv, TypeOK
<1> HIDE DEF n, f
<1>6. TypeOK'
  BY <1>1, <1>2, <1>5 DEF IInv, TypeOK, InServer, Holding
<1>7. /\ pc'[p] = "spawn" /\ spawning'[p] = n /\ registry'[f] = n
      /\ \A q \in Pages : q # p => pc'[q] = pc[q] /\ spawning'[q] = spawning[q] /\ read'[q] = read[q]
      /\ \A g \in Features : g # f => registry'[g] = registry[g]
  BY <1>1, <1>2 DEF IInv, TypeOK
<1>8. \A q \in Pages : spawning[q] # None => spawning[q] \in DOMAIN runs
  BY DEF IInv, TypeOK
<1>9. ReadFirst' /\ Stamped'
  BY <1>1, <1>7 DEF IInv, ReadFirst, Stamped
<1>10. Awaited'
  <2>1. \A q \in Pages : pc'[q] = "spawn" => spawning'[q] # None
    BY <1>4, <1>7 DEF IInv, Awaited
  <2>2. \A q \in Pages : spawning'[q] # None =>
            pc'[q] = "spawn" /\ runs'[spawning'[q]].thread = "new"
    BY <1>3, <1>5, <1>7, <1>8 DEF IInv, Awaited
  <2>3. \A q, o \in Pages : spawning'[q] # None /\ spawning'[q] = spawning'[o] => q = o
    BY <1>4, <1>5, <1>7, <1>8 DEF IInv, Awaited
  <2> QED BY <2>1, <2>2, <2>3 DEF Awaited
<1>11. WorkIsRegistered'
  <2> SUFFICES ASSUME NEW i \in DOMAIN runs', runs'[i].thread # "ended"
               PROVE  registry'[runs'[i].feature] = i /\ runs'[i].state = "running"
    BY DEF WorkIsRegistered
  <2>1. CASE i = n
    BY <1>3, <1>5, <1>7, <2>1
  <2>2. CASE i \in DOMAIN runs
    <3>1. runs[i].feature \in Features
      BY <2>2, RunTyped DEF IInv
    <3>2. registry[runs[i].feature] = i /\ runs[i].state = "running" /\ i # None
      <4>1. runs[i].thread # "ended"
        BY <1>5, <2>2
      <4> QED BY <2>2, <4>1, NoneIsNoRun DEF IInv, WorkIsRegistered
    <3>3. runs[i].feature # f
      BY <1>1, <3>2 DEF Running
    <3>4. runs'[i] = runs[i] /\ registry'[runs[i].feature] = registry[runs[i].feature]
      BY <1>5, <1>7, <2>2, <3>1, <3>3
    <3> QED BY <3>2, <3>4
  <2> QED BY <1>5, <2>1, <2>2
<1>12. Holders' = Holders
  BY <1>1, <1>7 DEF Holders, Holding
<1>13. Workers' = Workers
  BY <1>3, <1>5 DEF Workers, HoldsSlot
<1>14. SlotsAccounted'
  BY <1>1, <1>12, <1>13, SlotsStay DEF IInv
<1> QED BY <1>6, <1>9, <1>10, <1>11, <1>14 DEF IInv

\* The slot passes from the request to the thread of its run.
LEMMA SpawnInv ==
    ASSUME IInv, NEW p \in Pages, Spawn(p)
    PROVE  IInv'
<1> DEFINE n == spawning[p]
           r == [runs[n] EXCEPT !.thread = "model"]
<1>1. /\ pc[p] = "spawn"
      /\ runs' = [runs EXCEPT ![n] = r]
      /\ spawning' = [spawning EXCEPT ![p] = None]
      /\ pc' = [pc EXCEPT ![p] = "poll"]
      /\ UNCHANGED <<inputs, cache, dropping, used, registry, feature, read>>
  BY DEF Spawn, Goto
<1>2. n \in DOMAIN runs /\ n # None /\ runs[n].thread = "new"
  BY <1>1 DEF IInv, TypeOK, Awaited
<1>3. runs[n] \in RunRecord
  BY <1>2 DEF IInv, TypeOK
<1>4. /\ r \in RunRecord /\ r.thread = "model"
      /\ r.feature = runs[n].feature /\ r.state = runs[n].state
  BY <1>3 DEF RunRecord
<1> HIDE DEF n, r
<1>5. /\ runs' \in Seq(RunRecord) /\ DOMAIN runs' = DOMAIN runs /\ runs'[n] = r
      /\ \A j \in DOMAIN runs : j # n => runs'[j] = runs[j]
  BY <1>1, <1>2, <1>4, ChangeRun DEF IInv, TypeOK
<1>6. TypeOK'
  BY <1>1, <1>5 DEF IInv, TypeOK, InServer, Holding
<1>7. /\ pc'[p] = "poll" /\ spawning'[p] = None
      /\ \A q \in Pages : q # p => pc'[q] = pc[q] /\ spawning'[q] = spawning[q]
      /\ \A q \in Pages : q # p => spawning[q] # n
      /\ \A q \in Pages : spawning[q] # None => spawning[q] \in DOMAIN runs
  BY <1>1, <1>2 DEF IInv, TypeOK, Awaited, n
<1>8. ReadFirst' /\ Stamped'
  BY <1>1, <1>7 DEF IInv, ReadFirst, Stamped
<1>9. Awaited'
  BY <1>5, <1>7 DEF IInv, Awaited
<1>10. WorkIsRegistered'
  BY <1>1, <1>2, <1>4, <1>5 DEF IInv, WorkIsRegistered
<1>11. p \in Holders /\ n \notin Workers
  BY <1>1, <1>2 DEF Holders, Workers, HoldsSlot, Holding
<1>12. Holders' = Holders \ {p}
  BY <1>1, <1>7 DEF Holders, Holding
<1>13. Workers' = Workers \cup {n}
  BY <1>2, <1>4, <1>5 DEF Workers, HoldsSlot
<1>14. /\ Cardinality(Holders') = Cardinality(Holders) - 1
       /\ Cardinality(Workers') = Cardinality(Workers) + 1
  BY <1>11, <1>12, <1>13, SlotsChange
<1>15. SlotsAccounted'
  <2>1. SlotsAccounted' <=> used' = Cardinality(Holders') + Cardinality(Workers')
    BY DEF SlotsAccounted, Holders, Workers
  <2>2. /\ used = Cardinality(Holders) + Cardinality(Workers)
        /\ Cardinality(Holders) \in Nat /\ Cardinality(Workers) \in Nat
    BY SlotsCounted, SlotSetsFinite DEF IInv
  <2> QED BY <1>1, <1>14, <2>1, <2>2
<1> QED BY <1>6, <1>8, <1>9, <1>10, <1>15 DEF IInv

\* The request keeps the slot its thread did not get, until it gives it back.
LEMMA SpawnFailsInv ==
    ASSUME IInv, NEW p \in Pages, SpawnFails(p)
    PROVE  IInv'
<1>1. /\ pc[p] = "spawn"
      /\ spawning' = [spawning EXCEPT ![p] = None]
      /\ pc' = [pc EXCEPT ![p] = "raise"]
      /\ UNCHANGED <<inputs, cache, dropping, used, runs, registry, feature, read>>
  BY DEF SpawnFails, Goto, serverVars
<1>2. TypeOK'
  BY <1>1 DEF IInv, TypeOK, InServer, Holding
<1>3. /\ pc'[p] = "raise" /\ spawning'[p] = None
      /\ \A q \in Pages : q # p => pc'[q] = pc[q] /\ spawning'[q] = spawning[q]
  BY <1>1 DEF IInv, TypeOK
<1>4. ReadFirst' /\ Awaited' /\ Stamped' /\ WorkIsRegistered'
  BY <1>1, <1>3 DEF IInv, ReadFirst, Awaited, Stamped, WorkIsRegistered
<1>5. Holders' = Holders /\ Workers' = Workers
  BY <1>1, <1>3 DEF Holders, Workers, HoldsSlot, Holding
<1>6. SlotsAccounted'
  BY <1>1, <1>5, SlotsStay DEF IInv
<1> QED BY <1>2, <1>4, <1>6 DEF IInv

-----------------------------------------------------------------------------
(* What is saved, and the steps of a run's thread.                          *)

\* A saved result keeps the fingerprint of the inputs it was computed from.
LEMMA SaveStamps ==
    ASSUME IInv, NEW f \in Features, NEW v \in Values, Save(f, v)
    PROVE  /\ cache' \in [Features -> {None} \cup [origin : Values, mark : Values \cup {None}]]
           /\ Stamped'
<1>1. CASE UNCHANGED cache
  BY <1>1 DEF IInv, TypeOK, Stamped
<1>2. CASE cache' = [cache EXCEPT ![f] = [origin |-> v, mark |-> v]]
  BY <1>2 DEF IInv, TypeOK, Stamped
<1> QED BY <1>1, <1>2 DEF Save

\* The waiting route saves what it computed from what it read.
LEMMA WaitSaveInv ==
    ASSUME IInv, NEW p \in Pages, WaitSave(p)
    PROVE  IInv'
<1>1. /\ pc[p] = "wait_save" /\ Save(feature[p], read[p]) /\ Leave(p, "idle")
      /\ UNCHANGED <<inputs, dropping, serverVars>>
  BY DEF WaitSave
<1>2. feature[p] \in Features /\ read[p] \in Values
  BY <1>1 DEF IInv, TypeOK, ReadFirst
<1>3. /\ cache' \in [Features -> {None} \cup [origin : Values, mark : Values \cup {None}]]
      /\ Stamped'
  BY <1>1, <1>2, SaveStamps
<1> QED BY <1>1, <1>3, MoveInv DEF Leave, Goto, IInv, TypeOK, InServer, Holding

\* A thread that has started moves on: its run stays the one its feature is
\* registered with, unless it ends.
LEMMA ThreadInv ==
    ASSUME IInv, NEW i \in DOMAIN runs, NEW r \in RunRecord,
           runs' = [runs EXCEPT ![i] = r],
           runs[i].thread \in {"model", "save", "release", "finish"},
           r.thread # "ended" => r.feature = runs[i].feature /\ r.state = runs[i].state,
           UNCHANGED <<inputs, dropping, registry, pageVars>>
    PROVE  /\ runs' \in Seq(RunRecord) /\ DOMAIN runs' = DOMAIN runs /\ runs'[i] = r
           /\ \A j \in DOMAIN runs : j # i => runs'[j] = runs[j]
           /\ ReadFirst' /\ Awaited' /\ WorkIsRegistered'
           /\ Holders' = Holders
           /\ r.thread \in {"model", "save", "release"} => Workers' = Workers \cup {i}
           /\ r.thread \notin {"model", "save", "release"} => Workers' = Workers \ {i}
           /\ (used' \in 0..Capacity
               /\ cache' \in [Features -> {None} \cup [origin : Values, mark : Values \cup {None}]])
                 => TypeOK'
<1>1. /\ runs' \in Seq(RunRecord) /\ DOMAIN runs' = DOMAIN runs /\ runs'[i] = r
      /\ \A j \in DOMAIN runs : j # i => runs'[j] = runs[j]
  BY ChangeRun DEF IInv, TypeOK
<1>2. ReadFirst'
  BY DEF IInv, ReadFirst, pageVars
<1>3. \A p \in Pages : spawning[p] # None => spawning[p] \in DOMAIN runs /\ spawning[p] # i
  BY DEF IInv, TypeOK, Awaited
<1>4. Awaited'
  BY <1>1, <1>3 DEF IInv, Awaited, pageVars
<1>5. WorkIsRegistered'
  BY <1>1 DEF IInv, WorkIsRegistered
<1>6. Holders' = Holders
  BY DEF Holders, pageVars
<1>7. /\ r.thread \in {"model", "save", "release"} => Workers' = Workers \cup {i}
      /\ r.thread \notin {"model", "save", "release"} => Workers' = Workers \ {i}
  BY <1>1 DEF Workers, HoldsSlot
<1>8. (used' \in 0..Capacity
       /\ cache' \in [Features -> {None} \cup [origin : Values, mark : Values \cup {None}]])
         => TypeOK'
  BY <1>1 DEF IInv, TypeOK, pageVars
<1> QED BY <1>1, <1>2, <1>4, <1>5, <1>6, <1>7, <1>8

\* The model call ends, and the result is saved: the thread keeps its slot.
LEMMA WorkingInv ==
    ASSUME IInv, NEW i \in DOMAIN runs, ModelEnds(i) \/ SaveRun(i)
    PROVE  IInv'
<1> DEFINE r == runs'[i]
<1>1. runs[i] \in RunRecord /\ runs[i].feature \in Features /\ runs[i].inputs \in Values
  BY RunTyped DEF IInv
<1>2. /\ r \in RunRecord /\ r.thread \in {"save", "release"}
      /\ r.feature = runs[i].feature /\ r.state = runs[i].state
      /\ runs' = [runs EXCEPT ![i] = r]
      /\ runs[i].thread \in {"model", "save"}
  <2>1. PICK to \in {"save", "release"} :
          \/ runs' = [runs EXCEPT ![i] = [@ EXCEPT !.thread = to]]
          \/ runs' = [runs EXCEPT ![i] = [@ EXCEPT !.thread = to, !.ok = TRUE]]
    BY DEF ModelEnds, SaveRun, Thread
  <2>2. runs[i].thread \in {"model", "save"}
    BY DEF ModelEnds, SaveRun, Thread
  <2>3. r \in {[runs[i] EXCEPT !.thread = to], [runs[i] EXCEPT !.thread = to, !.ok = TRUE]}
        /\ runs' = [runs EXCEPT ![i] = r]
    BY <2>1 DEF IInv, TypeOK
  <2> HIDE DEF r
  <2>4. /\ r \in RunRecord /\ r.thread = to
        /\ r.feature = runs[i].feature /\ r.state = runs[i].state
    BY <1>1, <2>3 DEF RunRecord
  <2> QED BY <2>2, <2>3, <2>4
<1>3. UNCHANGED <<inputs, dropping, used, registry, pageVars>>
  BY DEF ModelEnds, SaveRun
<1>4. /\ cache' \in [Features -> {None} \cup [origin : Values, mark : Values \cup {None}]]
      /\ Stamped'
  <2>1. CASE ModelEnds(i)
    BY <2>1 DEF ModelEnds, IInv, TypeOK, Stamped
  <2>2. CASE SaveRun(i)
    BY <1>1, <2>2, SaveStamps DEF SaveRun
  <2> QED BY <2>1, <2>2
<1>5. used' \in 0..Capacity
  BY <1>3 DEF IInv, TypeOK
<1> HIDE DEF r
<1>6. /\ TypeOK' /\ ReadFirst' /\ Awaited' /\ WorkIsRegistered'
      /\ Holders' = Holders /\ Workers' = Workers \cup {i}
  BY <1>2, <1>3, <1>4, <1>5, ThreadInv
<1>7. i \in Workers
  BY <1>2 DEF Workers, HoldsSlot
<1>8. SlotsAccounted'
  BY <1>3, <1>6, <1>7, SlotsStay DEF IInv
<1> QED BY <1>4, <1>6, <1>8 DEF IInv

\* The thread gives its slot back, and then settles its run.
LEMMA LeavingInv ==
    ASSUME IInv, NEW i \in DOMAIN runs, Release(i) \/ Finish(i)
    PROVE  IInv'
<1> DEFINE r == runs'[i]
<1>1. runs[i] \in RunRecord
  BY DEF IInv, TypeOK
<1>2. /\ r \in RunRecord /\ r.thread \in {"finish", "ended"}
      /\ r.thread # "ended" => r.feature = runs[i].feature /\ r.state = runs[i].state
      /\ runs' = [runs EXCEPT ![i] = r]
      /\ runs[i].thread \in {"release", "finish"}
  <2>1. runs[i].thread \in {"release", "finish"}
    BY DEF Release, Finish, Thread
  <2>2. PICK st \in {"done", "failed"} :
          \/ runs' = [runs EXCEPT ![i] = [@ EXCEPT !.thread = "finish"]]
          \/ runs' = [runs EXCEPT ![i] = [@ EXCEPT !.thread = "ended", !.state = st]]
    BY DEF Release, Finish, Thread
  <2>3. r \in {[runs[i] EXCEPT !.thread = "finish"],
               [runs[i] EXCEPT !.thread = "ended", !.state = st]}
        /\ runs' = [runs EXCEPT ![i] = r]
    BY <2>2 DEF IInv, TypeOK
  <2> HIDE DEF r
  <2>4. /\ r \in RunRecord /\ r.thread \in {"finish", "ended"}
        /\ r.thread # "ended" => r.feature = runs[i].feature /\ r.state = runs[i].state
    BY <1>1, <2>3 DEF RunRecord
  <2> QED BY <2>1, <2>3, <2>4
<1>3. UNCHANGED <<inputs, cache, dropping, registry, pageVars>>
  BY DEF Release, Finish
<1> HIDE DEF r
<1>4. /\ ReadFirst' /\ Awaited' /\ WorkIsRegistered'
      /\ Holders' = Holders /\ Workers' = Workers \ {i}
      /\ (used' \in 0..Capacity
          /\ cache' \in [Features -> {None} \cup [origin : Values, mark : Values \cup {None}]])
            => TypeOK'
  BY <1>2, <1>3, ThreadInv
<1>5. Stamped' /\ cache' \in [Features -> {None} \cup [origin : Values, mark : Values \cup {None}]]
  BY <1>3 DEF IInv, TypeOK, Stamped
<1>6. used' \in 0..Capacity /\ SlotsAccounted'
  <2>1. CASE Release(i)
    <3>1. used' = used - 1 /\ i \in Workers
      BY <2>1 DEF Release, Thread, Workers, HoldsSlot
    <3> QED BY <1>4, <3>1, SlotGiven
  <2>2. CASE Finish(i)
    <3>1. used' = used /\ i \notin Workers
      BY <2>2 DEF Finish, Workers, HoldsSlot
    <3> QED BY <1>4, <3>1, SlotsStay DEF IInv, TypeOK
  <2> QED BY <2>1, <2>2
<1> QED BY <1>4, <1>5, <1>6 DEF IInv

-----------------------------------------------------------------------------
(* The student's edits, the registry's forgetting, and a restart.           *)

\* None of them touches a slot, a run or a request.
LEMMA EditInv ==
    ASSUME IInv,
           \/ \E new \in [Features -> Values], skills \in BOOLEAN : EditProfile(new, skills)
           \/ Invalidate
    PROVE  IInv'
<1>1. UNCHANGED <<serverVars, pageVars>>
  BY DEF EditProfile, Invalidate
<1>2. inputs' \in [Features -> Values] /\ dropping' \in BOOLEAN
  BY DEF EditProfile, Invalidate, IInv, TypeOK
<1>3. \/ cache' = cache
      \/ cache' = [f \in Features |-> IF f \in SkillFeatures THEN None ELSE cache[f]]
  BY DEF EditProfile, Invalidate
<1>4. cache' \in [Features -> {None} \cup [origin : Values, mark : Values \cup {None}]]
  BY <1>3 DEF IInv, TypeOK
<1>5. Stamped'
  BY <1>3 DEF IInv, Stamped
<1>6. TypeOK'
  BY <1>1, <1>2, <1>4 DEF IInv, TypeOK, serverVars, pageVars
<1>7. ReadFirst' /\ Awaited' /\ WorkIsRegistered'
  BY <1>1 DEF IInv, ReadFirst, Awaited, WorkIsRegistered, serverVars, pageVars
<1>8. Holders' = Holders /\ Workers' = Workers
  BY <1>1 DEF Holders, Workers, HoldsSlot, serverVars, pageVars
<1>9. SlotsAccounted'
  BY <1>1, <1>8, SlotsStay DEF IInv, serverVars
<1> QED BY <1>5, <1>6, <1>7, <1>9 DEF IInv

\* Only a run that is not going is forgotten.
LEMMA PruneInv ==
    ASSUME IInv, NEW f \in Features, Prune(f)
    PROVE  IInv'
<1>1. /\ registry[f] # None /\ ~Running(f) /\ registry' = [registry EXCEPT ![f] = None]
      /\ UNCHANGED <<inputs, cache, dropping, used, runs, pageVars>>
  BY DEF Prune
<1>2. TypeOK'
  BY <1>1 DEF IInv, TypeOK, pageVars
<1>3. ReadFirst' /\ Awaited' /\ Stamped'
  BY <1>1 DEF IInv, ReadFirst, Awaited, Stamped, pageVars
<1>4. WorkIsRegistered'
  <2> SUFFICES ASSUME NEW i \in DOMAIN runs, runs[i].thread # "ended"
               PROVE  registry'[runs[i].feature] = i /\ runs[i].state = "running"
    BY <1>1 DEF WorkIsRegistered
  <2>1. registry[runs[i].feature] = i /\ runs[i].state = "running"
    BY DEF IInv, WorkIsRegistered
  <2>2. runs[i].feature # f
    BY <1>1, <2>1 DEF Running
  <2>3. runs[i].feature \in Features
    BY RunTyped DEF IInv
  <2> QED BY <1>1, <2>1, <2>2, <2>3 DEF IInv, TypeOK
<1>5. Holders' = Holders /\ Workers' = Workers
  BY <1>1 DEF Holders, Workers, HoldsSlot, pageVars
<1>6. SlotsAccounted'
  BY <1>1, <1>5, SlotsStay DEF IInv
<1> QED BY <1>2, <1>3, <1>4, <1>6 DEF IInv

\* A restart empties the gate and takes everyone who held a slot with it.
LEMMA RestartInv ==
    ASSUME IInv, Restart
    PROVE  IInv'
<1>1. /\ used' = 0
      /\ runs' = [i \in DOMAIN runs |-> [runs[i] EXCEPT !.thread = "ended"]]
      /\ registry' = [f \in Features |-> None]
      /\ dropping' = FALSE
      /\ pc' = [p \in Pages |-> IF pc[p] \in InServer THEN "idle" ELSE pc[p]]
      /\ read' = [p \in Pages |-> None]
      /\ spawning' = [p \in Pages |-> None]
      /\ UNCHANGED <<inputs, cache, feature>>
  BY DEF Restart
<1>2. \A i \in DOMAIN runs :
        [runs[i] EXCEPT !.thread = "ended"] \in RunRecord
        /\ [runs[i] EXCEPT !.thread = "ended"].thread = "ended"
  <2> SUFFICES ASSUME NEW i \in DOMAIN runs
               PROVE  [runs[i] EXCEPT !.thread = "ended"] \in RunRecord
                      /\ [runs[i] EXCEPT !.thread = "ended"].thread = "ended"
    OBVIOUS
  <2>1. runs[i] \in RunRecord
    BY RunTyped DEF IInv
  <2> QED BY <2>1 DEF RunRecord
<1>3. DOMAIN runs = 1..Len(runs) /\ Len(runs) \in Nat
  BY DEF IInv, TypeOK
<1>4. /\ runs' \in Seq(RunRecord) /\ DOMAIN runs' = DOMAIN runs
      /\ \A i \in DOMAIN runs : runs'[i].thread = "ended"
  <2>1. runs' \in [1..Len(runs) -> RunRecord] /\ \A i \in DOMAIN runs : runs'[i].thread = "ended"
    BY <1>1, <1>2, <1>3
  <2>2. runs' \in Seq(RunRecord)
    BY <1>3, <2>1, SeqDef
  <2> QED BY <1>3, <2>1, <2>2
<1>5. 0 \in 0..Capacity
  BY AnalysisAssumption
<1>6. pc' \in [Pages -> {"idle", "poll", "resume"}]
  BY <1>1 DEF IInv, TypeOK
<1>7. TypeOK'
  BY <1>1, <1>4, <1>5, <1>6 DEF IInv, TypeOK
<1>8. ReadFirst' /\ Awaited' /\ Stamped' /\ WorkIsRegistered'
  BY <1>1, <1>4, <1>6 DEF IInv, ReadFirst, Awaited, Stamped, WorkIsRegistered
<1>9. Holders' = {} /\ Workers' = {}
  BY <1>4, <1>6 DEF Holders, Workers, HoldsSlot, Holding
<1>10. SlotsAccounted'
  <2>1. SlotsAccounted' <=> used' = Cardinality(Holders') + Cardinality(Workers')
    BY DEF SlotsAccounted, Holders, Workers
  <2> QED BY <1>1, <1>9, <2>1, FS_EmptySet
<1> QED BY <1>7, <1>8, <1>10 DEF IInv

-----------------------------------------------------------------------------
(* The theorems.                                                            *)

\* Every step of every actor keeps the invariant.
LEMMA StepInv == IInv /\ [Next]_vars => IInv'
<1> SUFFICES ASSUME IInv, [Next]_vars PROVE IInv'
  OBVIOUS
<1>1. CASE UNCHANGED vars
  <2>1. UNCHANGED <<inputs, cache, dropping, used, runs, registry, pc, feature, read, spawning>>
    BY <1>1 DEF vars, serverVars, pageVars
  <2>2. TypeOK' /\ ReadFirst' /\ Awaited' /\ Stamped' /\ WorkIsRegistered'
    BY <2>1 DEF IInv, TypeOK, ReadFirst, Awaited, Stamped, WorkIsRegistered
  <2>3. Holders' = Holders /\ Workers' = Workers
    BY <2>1 DEF Holders, Workers, HoldsSlot
  <2> QED BY <2>1, <2>2, <2>3, SlotsStay DEF IInv
<1>2. CASE \/ \E new \in [Features -> Values], skills \in BOOLEAN : EditProfile(new, skills)
           \/ Invalidate
  BY <1>2, EditInv
<1>3. CASE \E p \in Pages : Request(p)
  <2>1. PICK p \in Pages : Request(p)
    BY <1>3
  <2>2. CASE \/ \E f \in Features : \/ AskRun(p, f)
                                    \/ \E at \in {"wait_build", "cache_build"} : Ask(p, f, at)
             \/ Build(p) \/ Busy(p) \/ FailRequest(p) \/ LoseRace(p)
             \/ GetCached(p) \/ Resume(p) \/ Poll(p) \/ GiveUp(p)
    BY <2>2, AnswerInv
  <2>3. CASE Acquire(p)
    BY <2>3, AcquireInv
  <2>4. CASE GiveBack(p) \/ WaitModel(p)
    BY <2>4, GiveBackInv
  <2>5. CASE Register(p)
    BY <2>5, RegisterInv
  <2>6. CASE Spawn(p) \/ SpawnFails(p)
    BY <2>6, SpawnInv, SpawnFailsInv
  <2>7. CASE WaitSave(p)
    BY <2>7, WaitSaveInv
  <2> QED BY <2>1, <2>2, <2>3, <2>4, <2>5, <2>6, <2>7 DEF Request
<1>4. CASE \E i \in DOMAIN runs : Work(i)
  BY <1>4, WorkingInv, LeavingInv DEF Work
<1>5. CASE \E f \in Features : Prune(f)
  BY <1>5, PruneInv
<1>6. CASE Restart
  BY <1>6, RestartInv
<1> QED BY <1>1, <1>2, <1>3, <1>4, <1>5, <1>6 DEF Next

\* The invariant holds throughout.
LEMMA Inductive == Spec => []IInv
  BY InitInv, StepInv, PTL DEF Spec

\* Every variable keeps its type, and with it the gate its bounds: never fewer
\* than no slots and never more than its capacity, whatever the number of pages.
THEOREM TypeCorrect == Spec => []TypeOK
<1>1. IInv => TypeOK
  BY DEF IInv
<1> QED BY <1>1, Inductive, PTL

\* No slot leaks and none is given back twice: the gate counts exactly the
\* requests and threads that hold one, across lost races, threads that do not
\* start, failures and restarts.
THEOREM SlotsAreAccounted == Spec => []SlotsAccounted
<1>1. IInv => SlotsAccounted
  BY DEF IInv
<1> QED BY <1>1, Inductive, PTL

\* A run whose thread may still save is the one its feature is registered with,
\* so two of them never work on one feature and none is lost to the page.
THEOREM WorkingRunsAreRegistered == Spec => []WorkIsRegistered
<1>1. IInv => WorkIsRegistered
  BY DEF IInv
<1> QED BY <1>1, Inductive, PTL

\* A result served without "profile_changed" was computed from the inputs the
\* serving request read, unless it is older than fingerprints.
THEOREM UnflaggedAreCurrent == Spec => UnflaggedIsCurrent
<1> DEFINE Served ==
      \A p \in Pages : ServesCached(p) =>
          LET row == cache[feature[p]]
          IN  ~ProfileChanged(row, read[p]) /\ row.mark # None => row.origin = read[p]
<1>1. IInv /\ [Next]_vars => [Served]_vars
  BY DEF IInv, TypeOK, Stamped, ServesCached, ProfileChanged
<1> QED BY <1>1, Inductive, PTL DEF Spec, UnflaggedIsCurrent

=============================================================================
