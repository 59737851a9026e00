------------------------ MODULE SyllabusGradesProofs ------------------------
(***************************************************************************)
(* The trust gate of the grade calculator and its saved scores, for every  *)
(* number of tabs, sources, extractions, requests and failures.            *)
(***************************************************************************)
EXTENDS SyllabusGrades, TLAPS

Reviewing == {"state", "point", "correct", "look", "reopen", "read", "stamp", "mark"}

\* What a request carries is still true of the tables it will write to.
Sound(r, revs, ask, trn) ==
    /\ r.at \in {"find", "insert"} => r.source \in Sources /\ r.extract \in Extracts
    /\ r.at \in Reviewing => r.rev \in DOMAIN revs
    /\ r.at = "point" => r.state \in {"needs_review", "reconfirm_required"}
    /\ r.at = "correct" => r.batch \in Batches
    /\ r.at = "reopen" => r.current \in {0} \cup DOMAIN revs
    /\ r.at = "stamp" => /\ r.model \in Batches \cup {Plain}
                         /\ <<revs[r.rev].extract, r.model>> \in Accepts
    /\ r.at \in {"read", "stamp", "mark"} => r.rev \in ask
    /\ r.at = "mark" => revs[r.rev].stamped \/ r.rev \in trn
    /\ r.at \in {"load", "store"} => r.saves \in SUBSET (1 .. MaxRequests) /\ r.expected \in Nat
    /\ r.at = "store" => r.base \in Nat
    /\ r.at = "saved" => r.grades \in Scores

\* A stored model whose status is accepted is one that reconciles.
AcceptedReconciles ==
    \A n \in DOMAIN revisions :
        revisions[n].model # None /\ revisions[n].accepted
            => <<revisions[n].extract, revisions[n].model>> \in Accepts

\* ReadyIsConfirmed, whatever model the revision has.
ConfirmedIsStamped ==
    profile.state = "confirmed" /\ ~profile.deleted =>
        \/ revisions[profile.current].stamped
        \/ profile.current \in torn
        \/ \E t \in Tabs : Correcting(t, profile.current)

Requested ==
    /\ requests \in Nat
    /\ DOMAIN req = Tabs
    /\ \A t \in Tabs : Sound(req[t], revisions, asked, torn)

IInv ==
    /\ TypeOK
    /\ Requested
    /\ OneRevisionPerSource
    /\ AcceptedReconciles
    /\ NothingInherited
    /\ ConfirmedIsStamped

-----------------------------------------------------------------------------
(* Requests that only read. *)

\* What a request carries stays true while the rows keep their extractions
\* and a row that is to be marked stays stamped or is torn.
LEMMA SoundStays ==
    ASSUME NEW r, NEW revs, NEW ask, NEW trn, NEW revs2, NEW ask2, NEW trn2,
           Sound(r, revs, ask, trn),
           DOMAIN revs \subseteq DOMAIN revs2,
           \A n \in DOMAIN revs : revs2[n].extract = revs[n].extract,
           ask \subseteq ask2,
           r.at = "mark" => revs2[r.rev].stamped \/ r.rev \in trn2
    PROVE  Sound(r, revs2, ask2, trn2)
BY DEF Sound, Reviewing

\* One request moves on and no table changes but the scores.
LEMMA MoveKeepsIInv ==
    ASSUME IInv, NEW t \in Tabs, NEW r, Goto(t, r),
           Sound(r, revisions, asked, torn),
           UNCHANGED <<profile, revisions, asked, torn>>,
           grades' \in Scores, seen' \in [Tabs -> Scores], requests' \in Nat,
           \A n \in DOMAIN revisions :
               Correcting(t, n) => \/ r.at \in {"look", "reopen"} /\ r.rev = n
                                   \/ profile.state # "confirmed" \/ profile.deleted
    PROVE  IInv'
<1>1. TypeOK'
  BY DEF IInv, TypeOK
<1>2. Requested'
  BY DEF IInv, Requested, Goto
<1>3. ConfirmedIsStamped'
  <2> SUFFICES ASSUME profile.state = "confirmed", ~profile.deleted,
                      NEW u \in Tabs, Correcting(u, profile.current)
               PROVE  \E v \in Tabs : Correcting(v, profile.current)'
    BY DEF IInv, ConfirmedIsStamped
  <2>1. profile.current \in DOMAIN revisions
    BY DEF IInv, NothingInherited, TypeOK
  <2>2. CASE u = t
    <3>1. req'[t] = r
      BY DEF Goto, IInv, Requested
    <3>2. r.at \in {"look", "reopen"} /\ r.rev = profile.current
      BY <2>1, <2>2
    <3> QED
      BY <3>1, <3>2 DEF Correcting
  <2>3. CASE u # t
    BY <2>3 DEF Goto, IInv, Requested, Correcting
  <2> QED
    BY <2>2, <2>3
<1>4. OneRevisionPerSource' /\ AcceptedReconciles' /\ NothingInherited'
  BY DEF IInv, OneRevisionPerSource, AcceptedReconciles, NothingInherited
<1> QED
  BY <1>1, <1>2, <1>3, <1>4 DEF IInv

LEMMA InitIInv == Init => IInv
<1> SUFFICES ASSUME Init PROVE IInv
  OBVIOUS
<1>1. TypeOK
  BY SyllabusAssumption DEF Init, TypeOK, NoGrades, Scores
<1>2. Requested
  BY DEF Init, Requested, Sound, Idle, Reviewing
<1>3. OneRevisionPerSource /\ AcceptedReconciles /\ NothingInherited /\ ConfirmedIsStamped
  BY DEF Init, OneRevisionPerSource, AcceptedReconciles, NothingInherited, ConfirmedIsStamped
<1> QED
  BY <1>1, <1>2, <1>3 DEF IInv

LEMMA RequestKeepsIInv ==
    ASSUME IInv, NEW t \in Tabs,
           \/ \E source \in Sources, extract \in Extracts : Ingest(t, source, extract)
           \/ \E batch \in Batches : Correct(t, batch)
           \/ Save(t)
    PROVE  IInv'
<1>0. grades \in Scores /\ seen \in [Tabs -> Scores] /\ requests \in Nat
  BY DEF IInv, TypeOK, Requested
<1>1. CASE \E source \in Sources, extract \in Extracts : Ingest(t, source, extract)
  <2>1. PICK source \in Sources, extract \in Extracts : Ingest(t, source, extract)
    BY <1>1
  <2> DEFINE r == [at |-> "find", source |-> source, extract |-> extract]
  <2>2. Goto(t, r) /\ At(t, "idle") /\ requests' = requests + 1
        /\ UNCHANGED <<profile, revisions, grades, seen, asked, torn>>
    BY <2>1 DEF Ingest, Begin
  <2>3. Sound(r, revisions, asked, torn)
    BY DEF Sound, Reviewing
  <2>4. \A n \in DOMAIN revisions : ~Correcting(t, n)
    BY <2>2 DEF At, Correcting
  <2> HIDE DEF r
  <2> QED
    BY <1>0, <2>2, <2>3, <2>4, MoveKeepsIInv
<1>2. CASE \E batch \in Batches : Correct(t, batch)
  <2>1. PICK batch \in Batches : Correct(t, batch)
    BY <1>2
  <2> DEFINE r == [at |-> "correct", rev |-> profile.current, batch |-> batch]
  <2>2. Goto(t, r) /\ At(t, "idle") /\ requests' = requests + 1 /\ profile.current # 0
        /\ UNCHANGED <<profile, revisions, grades, seen, asked, torn>>
    BY <2>1 DEF Correct, Begin
  <2>3. Sound(r, revisions, asked, torn)
    BY <2>2 DEF Sound, Reviewing, IInv, TypeOK
  <2>4. \A n \in DOMAIN revisions : ~Correcting(t, n)
    BY <2>2 DEF At, Correcting
  <2> HIDE DEF r
  <2> QED
    BY <1>0, <2>2, <2>3, <2>4, MoveKeepsIInv
<1>3. CASE Save(t)
  <2> DEFINE r == [at |-> "load", expected |-> seen[t].revision, saves |-> seen[t].saves \cup {requests + 1}]
  <2>1. Goto(t, r) /\ At(t, "idle") /\ requests' = requests + 1 /\ requests < MaxRequests
        /\ UNCHANGED <<profile, revisions, grades, seen, asked, torn>>
    BY <1>3 DEF Save, Begin
  <2>2. seen[t].revision \in Nat /\ seen[t].saves \in SUBSET (1 .. MaxRequests)
    BY <1>0 DEF Scores
  <2>3. requests + 1 \in 1 .. MaxRequests
    BY <1>0, <2>1, SyllabusAssumption
  <2>4. Sound(r, revisions, asked, torn)
    BY <2>2, <2>3 DEF Sound, Reviewing
  <2>5. \A n \in DOMAIN revisions : ~Correcting(t, n)
    BY <2>1 DEF At, Correcting
  <2> HIDE DEF r
  <2> QED
    BY <1>0, <2>1, <2>4, <2>5, MoveKeepsIInv
<1> QED
  BY <1>1, <1>2, <1>3

LEMMA ReadKeepsIInv ==
    ASSUME IInv, NEW t \in Tabs,
           Find(t) \/ ReviewAgain(t) \/ RefuseBatch(t) \/ Look(t) \/ ReadModel(t) \/ Load(t)
    PROVE  IInv'
<1>0. /\ grades \in Scores /\ seen \in [Tabs -> Scores] /\ requests \in Nat
      /\ Sound(req[t], revisions, asked, torn)
  BY DEF IInv, TypeOK, Requested
<1>1. Sound(Idle, revisions, asked, torn)
  BY DEF Sound, Idle, Reviewing
<1>2. CASE Find(t)
  <2> DEFINE r == IF Stored(req[t].source) THEN Idle ELSE [req[t] EXCEPT !.at = "insert"]
  <2>1. Goto(t, r) /\ req[t].at = "find" /\ UNCHANGED <<profile, revisions, grades, seen, asked, torn, requests>>
    BY <1>2 DEF Find, At
  <2>2. Sound([req[t] EXCEPT !.at = "insert"], revisions, asked, torn)
    BY <1>0, <2>1 DEF Sound, Reviewing
  <2>3. Sound(r, revisions, asked, torn)
    BY <1>1, <2>2
  <2>4. \A n \in DOMAIN revisions : ~Correcting(t, n)
    BY <2>1 DEF Correcting
  <2> HIDE DEF r
  <2> QED
    BY <1>0, <2>1, <2>3, <2>4, MoveKeepsIInv
<1>3. CASE ReviewAgain(t)
  <2> DEFINE r == [at |-> "point", rev |-> req[t].rev,
                   state |-> IF profile.state = "confirmed" /\ ~profile.deleted
                               THEN "reconfirm_required" ELSE "needs_review"]
  <2>1. Goto(t, r) /\ req[t].at = "state" /\ UNCHANGED <<profile, revisions, grades, seen, asked, torn, requests>>
    BY <1>3 DEF ReviewAgain, At
  <2>2. Sound(r, revisions, asked, torn)
    BY <1>0, <2>1 DEF Sound, Reviewing
  <2>3. \A n \in DOMAIN revisions : ~Correcting(t, n)
    BY <2>1 DEF Correcting
  <2> HIDE DEF r
  <2> QED
    BY <1>0, <2>1, <2>2, <2>3, MoveKeepsIInv
<1>4. CASE Look(t)
  <2> DEFINE r == IF profile.state = "confirmed" /\ ~profile.deleted
                    THEN [at |-> "reopen", rev |-> req[t].rev, current |-> profile.current] ELSE Idle
  <2>1. Goto(t, r) /\ req[t].at = "look" /\ UNCHANGED <<profile, revisions, grades, seen, asked, torn, requests>>
    BY <1>4 DEF Look, At
  <2>2. Sound([at |-> "reopen", rev |-> req[t].rev, current |-> profile.current], revisions, asked, torn)
    BY <1>0, <2>1 DEF Sound, Reviewing, IInv, TypeOK
  <2>3. Sound(r, revisions, asked, torn)
    BY <1>1, <2>2
  <2>4. \A n \in DOMAIN revisions :
           Correcting(t, n) => \/ r.at \in {"look", "reopen"} /\ r.rev = n
                               \/ profile.state # "confirmed" \/ profile.deleted
    BY DEF Correcting
  <2> HIDE DEF r
  <2> QED
    BY <1>0, <2>1, <2>3, <2>4, MoveKeepsIInv
<1>5. CASE ReadModel(t)
  <2> DEFINE row == revisions[req[t].rev]
             model == IF row.model # None THEN row.model ELSE Plain
             accepted == IF row.model # None THEN row.accepted ELSE <<row.extract, Plain>> \in Accepts
             stamp == [at |-> "stamp", rev |-> req[t].rev, model |-> model]
             r == IF accepted THEN stamp ELSE Idle
  <2>1. Goto(t, r) /\ req[t].at = "read" /\ UNCHANGED <<profile, revisions, grades, seen, asked, torn, requests>>
    BY <1>5 DEF ReadModel, At
  <2>2. req[t].rev \in DOMAIN revisions /\ req[t].rev \in asked
    BY <1>0, <2>1 DEF Sound, Reviewing
  <2>3. row \in Revision
    BY <2>2 DEF IInv, TypeOK
  <2>4. model \in Batches \cup {Plain}
    BY <2>3 DEF Revision
  <2>5. accepted => <<row.extract, model>> \in Accepts
    BY <2>2 DEF IInv, AcceptedReconciles
  <2>6. accepted => Sound(stamp, revisions, asked, torn)
    BY <2>2, <2>4, <2>5 DEF Sound, Reviewing
  <2>7. Sound(r, revisions, asked, torn)
    BY <1>1, <2>6
  <2>8. \A n \in DOMAIN revisions : ~Correcting(t, n)
    BY <2>1 DEF Correcting
  <2> HIDE DEF r
  <2> QED
    BY <1>0, <2>1, <2>7, <2>8, MoveKeepsIInv
<1>6. CASE Load(t)
  <2> DEFINE c == [at |-> "conflict"]
             w == [at |-> "store", base |-> grades.revision, expected |-> req[t].expected,
                   saves |-> req[t].saves]
             r == IF req[t].expected # 0 /\ req[t].expected # grades.revision THEN c ELSE w
  <2>1. Goto(t, r) /\ req[t].at = "load" /\ UNCHANGED <<profile, revisions, grades, seen, asked, torn, requests>>
    BY <1>6 DEF Load, At
  <2>2. Sound(c, revisions, asked, torn)
    BY DEF Sound, Reviewing
  <2>3. Sound(w, revisions, asked, torn)
    BY <1>0, <2>1 DEF Sound, Reviewing, Scores
  <2>4. Sound(r, revisions, asked, torn)
    BY <2>2, <2>3
  <2>5. \A n \in DOMAIN revisions : ~Correcting(t, n)
    BY <2>1 DEF Correcting
  <2> HIDE DEF r
  <2> QED
    BY <1>0, <2>1, <2>4, <2>5, MoveKeepsIInv
<1>7. CASE RefuseBatch(t)
  <2>1. /\ Goto(t, Idle) /\ req[t].at = "correct"
        /\ UNCHANGED <<profile, revisions, grades, seen, asked, torn, requests>>
    BY <1>7 DEF RefuseBatch, At
  <2>2. \A n \in DOMAIN revisions : ~Correcting(t, n)
    BY <2>1 DEF Correcting
  <2> QED
    BY <1>0, <1>1, <2>1, <2>2, MoveKeepsIInv
<1> QED
  BY <1>2, <1>3, <1>4, <1>5, <1>6, <1>7

LEMMA ScoresKeepIInv ==
    ASSUME IInv, NEW t \in Tabs,
           Store(t) \/ Saved(t) \/ Conflict(t)
    PROVE  IInv'
<1>0. /\ grades \in Scores /\ seen \in [Tabs -> Scores] /\ requests \in Nat
      /\ Sound(req[t], revisions, asked, torn)
  BY DEF IInv, TypeOK, Requested
<1>1. Sound(Idle, revisions, asked, torn)
  BY DEF Sound, Idle, Reviewing
<1>2. CASE Store(t)
  <2> DEFINE saved == [revision |-> req[t].base + 1, saves |-> req[t].saves]
             ok == [at |-> "saved", grades |-> saved]
             c == [at |-> "conflict"]
             r == IF grades.revision = req[t].base THEN ok ELSE IF req[t].base = 0 THEN Idle ELSE c
  <2>1. /\ Goto(t, r) /\ req[t].at = "store" /\ UNCHANGED <<profile, revisions, seen, asked, torn, requests>>
        /\ grades' \in {grades, saved}
    BY <1>2 DEF Store, Stores, At
  <2>2. saved \in Scores
    BY <1>0, <2>1 DEF Sound, Scores
  <2>3. Sound(ok, revisions, asked, torn)
    BY <2>2 DEF Sound, Reviewing
  <2>4. Sound(c, revisions, asked, torn)
    BY DEF Sound, Reviewing
  <2>5. Sound(r, revisions, asked, torn)
    BY <1>1, <2>3, <2>4
  <2>6. \A n \in DOMAIN revisions : ~Correcting(t, n)
    BY <2>1 DEF Correcting
  <2> HIDE DEF r
  <2> QED
    BY <1>0, <2>1, <2>2, <2>5, <2>6, MoveKeepsIInv
<1>3. CASE Saved(t)
  <2>1. /\ Goto(t, Idle) /\ req[t].at = "saved"
        /\ UNCHANGED <<profile, revisions, grades, asked, torn, requests>>
        /\ seen' = [seen EXCEPT ![t] = req[t].grades]
    BY <1>3 DEF Saved, At
  <2>2. seen' \in [Tabs -> Scores]
    BY <1>0, <2>1 DEF Sound
  <2>3. \A n \in DOMAIN revisions : ~Correcting(t, n)
    BY <2>1 DEF Correcting
  <2> QED
    BY <1>0, <1>1, <2>1, <2>2, <2>3, MoveKeepsIInv
<1>4. CASE Conflict(t)
  <2>1. /\ Goto(t, Idle) /\ req[t].at = "conflict"
        /\ UNCHANGED <<profile, revisions, grades, asked, torn, requests>>
        /\ seen' \in [Tabs -> Scores]
    BY <1>0, <1>4 DEF Conflict, At
  <2>2. \A n \in DOMAIN revisions : ~Correcting(t, n)
    BY <2>1 DEF Correcting
  <2> QED
    BY <1>0, <1>1, <2>1, <2>2, MoveKeepsIInv
<1> QED
  BY <1>2, <1>3, <1>4

-----------------------------------------------------------------------------
(* Requests that write the profile or a revision. *)

\* One request moves on and the profile is left unconfirmed, or pointed at a
\* revision whose confirmation was asked for and stamped.
LEMMA ProfileKeepsIInv ==
    ASSUME IInv, NEW t \in Tabs, Goto(t, Idle),
           UNCHANGED <<revisions, grades, seen, asked, torn, requests>>,
           NEW state, NEW current, UpdateProfile(state, current),
           \/ state \in {"needs_review", "reconfirm_required"} /\ current \in {0} \cup DOMAIN revisions
           \/ /\ state = "confirmed" /\ current \in asked
              /\ revisions[current].stamped \/ current \in torn
    PROVE  IInv'
<1>1. /\ profile' = [profile EXCEPT !.state = state, !.current = current]
      /\ profile'.state = state /\ profile'.current = current
  BY DEF UpdateProfile, IInv, TypeOK
<1>2. TypeOK'
  BY <1>1 DEF IInv, TypeOK
<1>3. Requested'
  BY DEF IInv, Requested, Goto, Sound, Idle, Reviewing
<1>4. NothingInherited' /\ ConfirmedIsStamped'
  BY <1>1 DEF NothingInherited, ConfirmedIsStamped
<1>5. OneRevisionPerSource' /\ AcceptedReconciles'
  BY DEF IInv, OneRevisionPerSource, AcceptedReconciles
<1> QED
  BY <1>2, <1>3, <1>4, <1>5 DEF IInv

LEMMA WriteProfileKeepsIInv ==
    ASSUME IInv, NEW t \in Tabs, Point(t) \/ Reopen(t) \/ Mark(t)
    PROVE  IInv'
<1>0. Sound(req[t], revisions, asked, torn)
  BY DEF IInv, Requested
<1>1. CASE Point(t)
  <2>1. req[t].state \in {"needs_review", "reconfirm_required"} /\ req[t].rev \in DOMAIN revisions
    BY <1>0, <1>1 DEF Point, At, Sound, Reviewing
  <2> QED
    BY <2>1, <1>1, ProfileKeepsIInv DEF Point
<1>2. CASE Reopen(t)
  <2>1. req[t].current \in {0} \cup DOMAIN revisions
    BY <1>0, <1>2 DEF Reopen, At, Sound, Reviewing
  <2> QED
    BY <2>1, <1>2, ProfileKeepsIInv DEF Reopen
<1>3. CASE Mark(t)
  <2>1. req[t].rev \in asked /\ (revisions[req[t].rev].stamped \/ req[t].rev \in torn)
    BY <1>0, <1>3 DEF Mark, At, Sound, Reviewing
  <2> QED
    BY <2>1, <1>3, ProfileKeepsIInv DEF Mark
<1> QED
  BY <1>1, <1>2, <1>3

LEMMA UpdatedAt ==
    ASSUME NEW S, NEW s \in Seq(S), NEW n \in DOMAIN s, NEW x \in S, NEW u, u = [s EXCEPT ![n] = x]
    PROVE  /\ u \in Seq(S) /\ DOMAIN u = DOMAIN s
           /\ u[n] = x /\ \A m \in DOMAIN s \ {n} : u[m] = s[m]
OBVIOUS

\* Row n is written by request t, with the extraction it has and a model and
\* a status that belong together.
LEMMA RowKeepsIInv ==
    ASSUME IInv, NEW t \in Tabs, NEW n \in DOMAIN revisions, NEW r, Goto(t, r),
           NEW model \in Batches \cup {Plain}, NEW accepted \in BOOLEAN, NEW stamped \in BOOLEAN,
           accepted => <<revisions[n].extract, model>> \in Accepts,
           revisions' = [revisions EXCEPT ![n].model = model, ![n].accepted = accepted,
                                          ![n].stamped = stamped],
           UNCHANGED <<profile, grades, seen, asked, requests>>,
           \A m \in DOMAIN revisions \ {n} : m \in torn' <=> m \in torn,
           torn' \subseteq DOMAIN revisions,
           stamped \/ (\E u \in Tabs : At(u, "mark") /\ req[u].rev = n) => stamped \/ n \in torn',
           ~stamped => r.at = "look" /\ r.rev = n,
           ~(\E m \in DOMAIN revisions : Correcting(t, m)),
           \A revs, trn :
               /\ DOMAIN revs = DOMAIN revisions
               /\ revs[n].stamped \/ n \in trn \/ r.at # "mark"
               => Sound(r, revs, asked, trn)
    PROVE  IInv'
<1> DEFINE row == [revisions[n] EXCEPT !.model = model, !.accepted = accepted, !.stamped = stamped]
<1>1. revisions \in Seq(Revision) /\ revisions[n] \in Revision
  BY DEF IInv, TypeOK
<1>2. row \in Revision /\ row.source = revisions[n].source /\ row.extract = revisions[n].extract
      /\ row.model = model /\ row.accepted = accepted /\ row.stamped = stamped
  BY <1>1 DEF Revision
<1>3. revisions' = [revisions EXCEPT ![n] = row]
  BY <1>1
<1> HIDE DEF row
<1>4. /\ revisions' \in Seq(Revision) /\ DOMAIN revisions' = DOMAIN revisions
      /\ revisions'[n] = row /\ \A m \in DOMAIN revisions \ {n} : revisions'[m] = revisions[m]
  BY <1>1, <1>2, <1>3, UpdatedAt
<1>5. TypeOK'
  BY <1>4 DEF IInv, TypeOK
<1>6. Requested'
  <2>1. ASSUME NEW u \in Tabs PROVE Sound(req'[u], revisions', asked', torn')
    <3>1. CASE u = t
      <4>1. req'[u] = r
        BY <3>1 DEF Goto, IInv, Requested
      <4>2. revisions'[n].stamped \/ n \in torn' \/ r.at # "mark"
        BY <1>2, <1>4
      <4> QED
        BY <4>1, <4>2, <1>4
    <3>2. CASE u # t
      <4>1. req'[u] = req[u] /\ Sound(req[u], revisions, asked, torn)
        BY <3>2 DEF Goto, IInv, Requested
      <4>2. ASSUME req[u].at = "mark"
            PROVE  revisions'[req[u].rev].stamped \/ req[u].rev \in torn'
        <5>1. req[u].rev \in DOMAIN revisions
              /\ (revisions[req[u].rev].stamped \/ req[u].rev \in torn)
          BY <4>1, <4>2 DEF Sound, Reviewing
        <5>2. CASE req[u].rev = n
          BY <4>2, <5>2, <1>2, <1>4 DEF At
        <5>3. CASE req[u].rev # n
          BY <5>1, <5>3, <1>4
        <5> QED
          BY <5>2, <5>3
      <4>3. \A m \in DOMAIN revisions : revisions'[m].extract = revisions[m].extract
        BY <1>2, <1>4
      <4>4. DOMAIN revisions' = DOMAIN revisions /\ asked' = asked
        BY <1>4
      <4> QED
        BY <4>1, <4>2, <4>3, <4>4 DEF Sound, Reviewing
    <3> QED
      BY <3>1, <3>2
  <2> QED
    BY <2>1 DEF IInv, Requested, Goto
<1>7. OneRevisionPerSource'
  BY <1>2, <1>4 DEF IInv, OneRevisionPerSource
<1>8. AcceptedReconciles'
  BY <1>2, <1>4 DEF IInv, AcceptedReconciles
<1>9. NothingInherited'
  BY DEF IInv, NothingInherited
<1>10. ConfirmedIsStamped'
  <2> SUFFICES ASSUME profile.state = "confirmed", ~profile.deleted
               PROVE  \/ revisions'[profile.current].stamped
                      \/ profile.current \in torn'
                      \/ \E u \in Tabs : Correcting(u, profile.current)'
    BY DEF ConfirmedIsStamped
  <2>1. profile.current \in DOMAIN revisions
    BY DEF IInv, NothingInherited, TypeOK
  <2>2. CASE profile.current = n
    <3>1. CASE stamped
      BY <3>1, <2>2, <1>2, <1>4
    <3>2. CASE ~stamped
      BY <3>2, <2>2 DEF Goto, IInv, Requested, Correcting
    <3> QED
      BY <3>1, <3>2
  <2>3. CASE profile.current # n
    <3>1. CASE revisions[profile.current].stamped \/ profile.current \in torn
      BY <3>1, <2>1, <2>3, <1>4
    <3>2. CASE \E u \in Tabs : Correcting(u, profile.current)
      <4>1. PICK u \in Tabs : Correcting(u, profile.current) /\ u # t
        BY <3>2, <2>1
      <4>2. req'[u] = req[u]
        BY <4>1 DEF Goto, IInv, Requested
      <4> QED
        BY <4>1, <4>2 DEF Correcting
    <3> QED
      BY <3>1, <3>2 DEF IInv, ConfirmedIsStamped
  <2> QED
    BY <2>2, <2>3
<1> QED
  BY <1>5, <1>6, <1>7, <1>8, <1>9, <1>10 DEF IInv

LEMMA WriteRowKeepsIInv ==
    ASSUME IInv, NEW t \in Tabs, WriteCorrection(t) \/ Stamp(t)
    PROVE  IInv'
<1>0. Sound(req[t], revisions, asked, torn)
  BY DEF IInv, Requested
<1>1. CASE WriteCorrection(t)
  <2> DEFINE n == req[t].rev
             accepted == <<revisions[n].extract, req[t].batch>> \in Accepts
             r == [at |-> "look", rev |-> n]
  <2>1. n \in DOMAIN revisions /\ req[t].batch \in Batches
    BY <1>0, <1>1 DEF WriteCorrection, At, Sound, Reviewing
  <2>2. /\ revisions' = [revisions EXCEPT ![n].model = req[t].batch, ![n].accepted = accepted,
                                          ![n].stamped = FALSE]
        /\ torn' = IF Marking(n) THEN torn \cup {n} ELSE torn
        /\ Goto(t, r)
        /\ UNCHANGED <<profile, grades, seen, asked, requests>>
    BY <1>1 DEF WriteCorrection
  <2>3. torn' \subseteq DOMAIN revisions
    BY <2>1, <2>2 DEF IInv, TypeOK
  <2>4. ~(\E m \in DOMAIN revisions : Correcting(t, m))
    BY <1>1 DEF WriteCorrection, At, Correcting
  <2>5. \A revs, trn : DOMAIN revs = DOMAIN revisions => Sound(r, revs, asked, trn)
    BY <2>1 DEF Sound, Reviewing
  <2>6. (\E u \in Tabs : At(u, "mark") /\ req[u].rev = n) => n \in torn'
    BY <2>2 DEF Marking
  <2>7. accepted \in BOOLEAN /\ r.at = "look" /\ r.rev = n
    OBVIOUS
  <2>8. \A m \in DOMAIN revisions \ {n} : m \in torn' <=> m \in torn
    BY <2>2
  <2> HIDE DEF r, n
  <2> QED
    BY <2>1, <2>2, <2>3, <2>4, <2>5, <2>6, <2>7, <2>8, RowKeepsIInv
<1>2. CASE Stamp(t)
  <2> DEFINE n == req[t].rev
             r == [at |-> "mark", rev |-> n]
  <2>1. /\ n \in DOMAIN revisions /\ n \in asked /\ req[t].model \in Batches \cup {Plain}
        /\ <<revisions[n].extract, req[t].model>> \in Accepts
    BY <1>0, <1>2 DEF Stamp, At, Sound, Reviewing
  <2>2. /\ revisions' = [revisions EXCEPT ![n].model = req[t].model, ![n].accepted = TRUE,
                                          ![n].stamped = TRUE]
        /\ torn' = torn \ {n}
        /\ Goto(t, r)
        /\ UNCHANGED <<profile, grades, seen, asked, requests>>
    BY <1>2 DEF Stamp
  <2>3. torn' \subseteq DOMAIN revisions
    BY <2>2 DEF IInv, TypeOK
  <2>4. ~(\E m \in DOMAIN revisions : Correcting(t, m))
    BY <1>2 DEF Stamp, At, Correcting
  <2>5. \A revs, trn :
           /\ DOMAIN revs = DOMAIN revisions
           /\ revs[n].stamped \/ n \in trn \/ r.at # "mark"
           => Sound(r, revs, asked, trn)
    BY <2>1 DEF Sound, Reviewing
  <2>6. \A m \in DOMAIN revisions \ {n} : m \in torn' <=> m \in torn
    BY <2>2
  <2> HIDE DEF r, n
  <2> QED
    BY <2>1, <2>2, <2>3, <2>4, <2>5, <2>6, RowKeepsIInv
<1> QED
  BY <1>1, <1>2

\* A source without a revision gets its first one, unconfirmed.
LEMMA InsertKeepsIInv ==
    ASSUME IInv, NEW t \in Tabs, InsertRevision(t)
    PROVE  IInv'
<1>0. /\ grades \in Scores /\ seen \in [Tabs -> Scores] /\ requests \in Nat
      /\ Sound(req[t], revisions, asked, torn) /\ req[t].at = "insert"
  BY DEF IInv, TypeOK, Requested, InsertRevision, At
<1>1. \A n \in DOMAIN revisions : ~Correcting(t, n)
  BY <1>0 DEF Correcting
<1>2. CASE Stored(req[t].source)
  <2>1. Sound(Idle, revisions, asked, torn)
    BY DEF Sound, Idle, Reviewing
  <2> QED
    BY <1>0, <1>1, <1>2, <2>1, MoveKeepsIInv DEF InsertRevision
<1>3. CASE ~Stored(req[t].source)
  <2> DEFINE row == NewRevision(req[t].source, req[t].extract)
             n == Len(revisions) + 1
             r == [at |-> "state", rev |-> n]
  <2>1. /\ revisions' = Append(revisions, row) /\ Goto(t, r)
        /\ UNCHANGED <<profile, grades, seen, asked, torn, requests>>
    BY <1>3 DEF InsertRevision
  <2>2. row \in Revision /\ row.source = req[t].source /\ row.model = None
    BY <1>0 DEF NewRevision, Revision, Sound
  <2>3. revisions \in Seq(Revision)
    BY DEF IInv, TypeOK
  <2> HIDE DEF row
  <2>4. /\ revisions' \in Seq(Revision) /\ DOMAIN revisions' = DOMAIN revisions \cup {n}
        /\ revisions'[n] = row /\ n \notin DOMAIN revisions
        /\ \A m \in DOMAIN revisions : revisions'[m] = revisions[m]
    BY <2>1, <2>2, <2>3
  <2>5. TypeOK'
    BY <2>1, <2>4 DEF IInv, TypeOK
  <2>6. Requested'
    <3>1. ASSUME NEW u \in Tabs PROVE Sound(req'[u], revisions', asked', torn')
      <4>1. CASE u = t
        <5>1. req'[u] = r
          BY <2>1, <4>1 DEF Goto, IInv, Requested
        <5> QED
          BY <5>1, <2>4 DEF Sound, Reviewing
      <4>2. CASE u # t
        <5>1. req'[u] = req[u] /\ Sound(req[u], revisions, asked, torn)
          BY <2>1, <4>2 DEF Goto, IInv, Requested
        <5>2. req[u].at = "mark" => revisions'[req[u].rev].stamped \/ req[u].rev \in torn'
          BY <5>1, <2>1, <2>4 DEF Sound, Reviewing
        <5>3. /\ DOMAIN revisions \subseteq DOMAIN revisions' /\ asked' = asked
              /\ \A m \in DOMAIN revisions : revisions'[m].extract = revisions[m].extract
          BY <2>1, <2>4
        <5> QED
          BY <5>1, <5>2, <5>3 DEF Sound, Reviewing
      <4> QED
        BY <4>1, <4>2
    <3> QED
      BY <3>1, <2>1 DEF IInv, Requested, Goto
  <2>7. OneRevisionPerSource'
    <3>1. \A m \in DOMAIN revisions : revisions[m].source # req[t].source
      BY <1>3 DEF Stored
    <3> QED
      BY <3>1, <2>2, <2>4 DEF IInv, OneRevisionPerSource
  <2>8. AcceptedReconciles'
    BY <2>2, <2>4 DEF IInv, AcceptedReconciles
  <2>9. NothingInherited'
    BY <2>1 DEF IInv, NothingInherited
  <2>10. ConfirmedIsStamped'
    <3> SUFFICES ASSUME profile.state = "confirmed", ~profile.deleted
                 PROVE  \/ revisions'[profile.current].stamped
                        \/ profile.current \in torn'
                        \/ \E u \in Tabs : Correcting(u, profile.current)'
      BY <2>1 DEF ConfirmedIsStamped
    <3>1. profile.current \in DOMAIN revisions
      BY DEF IInv, NothingInherited, TypeOK
    <3>2. ASSUME NEW u \in Tabs, Correcting(u, profile.current)
          PROVE  Correcting(u, profile.current)'
      <4>1. u # t
        BY <1>1, <3>1, <3>2
      <4> QED
        BY <4>1, <3>2, <2>1 DEF Goto, IInv, Requested, Correcting
    <3> QED
      BY <3>1, <3>2, <2>1, <2>4 DEF IInv, ConfirmedIsStamped
  <2> QED
    BY <2>5, <2>6, <2>7, <2>8, <2>9, <2>10 DEF IInv
<1> QED
  BY <1>2, <1>3

-----------------------------------------------------------------------------
(* The other steps, and the theorems. *)

LEMMA ConfirmKeepsIInv ==
    ASSUME IInv, NEW t \in Tabs, Confirm(t)
    PROVE  IInv'
<1> DEFINE r == [at |-> "read", rev |-> profile.current]
<1>1. /\ Goto(t, r) /\ req[t].at = "idle" /\ profile.current # 0 /\ requests' = requests + 1
      /\ asked' = asked \cup {profile.current}
      /\ UNCHANGED <<profile, revisions, grades, seen, torn>>
  BY DEF Confirm, Begin, At
<1>2. profile.current \in DOMAIN revisions
  BY <1>1 DEF IInv, TypeOK
<1>3. TypeOK'
  BY <1>1, <1>2 DEF IInv, TypeOK
<1>4. Requested'
  <2>1. ASSUME NEW u \in Tabs PROVE Sound(req'[u], revisions', asked', torn')
    <3>1. CASE u = t
      BY <3>1, <1>1, <1>2 DEF Goto, IInv, Requested, Sound, Reviewing
    <3>2. CASE u # t
      <4>1. req'[u] = req[u] /\ Sound(req[u], revisions, asked, torn)
        BY <3>2, <1>1 DEF Goto, IInv, Requested
      <4> QED
        BY <4>1, <1>1 DEF Sound, Reviewing
    <3> QED
      BY <3>1, <3>2
  <2> QED
    BY <2>1, <1>1 DEF IInv, Requested, Goto
<1>5. OneRevisionPerSource' /\ AcceptedReconciles' /\ NothingInherited'
  BY <1>1 DEF IInv, OneRevisionPerSource, AcceptedReconciles, NothingInherited
<1>6. ConfirmedIsStamped'
  <2>1. \A u \in Tabs : Correcting(u, profile.current) => Correcting(u, profile.current)'
    BY <1>1 DEF Goto, IInv, Requested, Correcting
  <2> QED
    BY <2>1, <1>1 DEF IInv, ConfirmedIsStamped
<1> QED
  BY <1>3, <1>4, <1>5, <1>6 DEF IInv

\* A correction that fails midway leaves its revision torn.
LEMMA FailKeepsIInv ==
    ASSUME IInv, NEW t \in Tabs, Fail(t)
    PROVE  IInv'
<1>1. /\ Goto(t, Idle) /\ torn' = torn \cup {n \in DOMAIN revisions : Correcting(t, n)}
      /\ UNCHANGED <<profile, revisions, grades, seen, asked, requests>>
  BY DEF Fail
<1>2. TypeOK'
  BY <1>1 DEF IInv, TypeOK
<1>3. Requested'
  <2>1. ASSUME NEW u \in Tabs PROVE Sound(req'[u], revisions', asked', torn')
    <3>1. CASE u = t
      BY <3>1, <1>1 DEF Goto, IInv, Requested, Sound, Reviewing, Idle
    <3>2. CASE u # t
      <4>1. req'[u] = req[u] /\ Sound(req[u], revisions, asked, torn)
        BY <3>2, <1>1 DEF Goto, IInv, Requested
      <4> QED
        BY <4>1, <1>1 DEF Sound, Reviewing
    <3> QED
      BY <3>1, <3>2
  <2> QED
    BY <2>1, <1>1 DEF IInv, Requested, Goto
<1>4. OneRevisionPerSource' /\ AcceptedReconciles' /\ NothingInherited'
  BY <1>1 DEF IInv, OneRevisionPerSource, AcceptedReconciles, NothingInherited
<1>5. ConfirmedIsStamped'
  <2> SUFFICES ASSUME profile.state = "confirmed", ~profile.deleted,
                      NEW u \in Tabs, Correcting(u, profile.current)
               PROVE  profile.current \in torn' \/ \E v \in Tabs : Correcting(v, profile.current)'
    BY <1>1 DEF IInv, ConfirmedIsStamped
  <2>1. profile.current \in DOMAIN revisions
    BY DEF IInv, NothingInherited, TypeOK
  <2>2. CASE u = t
    BY <2>1, <2>2, <1>1
  <2>3. CASE u # t
    BY <2>3, <1>1 DEF Goto, IInv, Requested, Correcting
  <2> QED
    BY <2>2, <2>3
<1> QED
  BY <1>2, <1>3, <1>4, <1>5 DEF IInv

LEMMA StillKeepsIInv ==
    ASSUME IInv, Delete \/ (\E t \in Tabs : Reload(t)) \/ UNCHANGED vars
    PROVE  IInv'
<1>1. CASE Delete
  <2>1. /\ profile' = [profile EXCEPT !.deleted = TRUE]
        /\ UNCHANGED <<revisions, grades, seen, req, asked, torn, requests, failures>>
    BY <1>1 DEF Delete
  <2>2. TypeOK' /\ profile'.deleted /\ profile'.state = profile.state /\ profile'.current = profile.current
    BY <2>1 DEF IInv, TypeOK
  <2> QED
    BY <2>1, <2>2 DEF IInv, Requested, OneRevisionPerSource, AcceptedReconciles, NothingInherited,
       ConfirmedIsStamped
<1>2. CASE \E t \in Tabs : Reload(t)
  <2>1. /\ UNCHANGED <<profile, revisions, grades, req, asked, torn, requests, failures>>
        /\ seen' \in [Tabs -> Scores]
    BY <1>2 DEF Reload, IInv, TypeOK
  <2> QED
    BY <2>1 DEF IInv, TypeOK, Requested, OneRevisionPerSource, AcceptedReconciles, NothingInherited,
       ConfirmedIsStamped, Correcting
<1>3. CASE UNCHANGED vars
  BY <1>3 DEF vars, IInv, TypeOK, Requested, OneRevisionPerSource, AcceptedReconciles,
     NothingInherited, ConfirmedIsStamped, Correcting
<1> QED
  BY <1>1, <1>2, <1>3

LEMMA NextKeepsIInv == IInv /\ [Next]_vars => IInv'
<1> SUFFICES ASSUME IInv, [Next]_vars PROVE IInv'
  OBVIOUS
<1>1. ASSUME NEW t \in Tabs, Request(t) PROVE IInv'
  BY <1>1, RequestKeepsIInv, ConfirmKeepsIInv DEF Request
<1>2. ASSUME NEW t \in Tabs, Step(t) PROVE IInv'
  BY <1>2, ReadKeepsIInv, ScoresKeepIInv, WriteProfileKeepsIInv, WriteRowKeepsIInv, InsertKeepsIInv
     DEF Step
<1> QED
  BY <1>1, <1>2, FailKeepsIInv, StillKeepsIInv DEF Next

LEMMA SpecIInv == Spec => []IInv
BY InitIInv, NextKeepsIInv, PTL DEF Spec

\* The rows keep their columns and the profile points at a revision there is.
THEOREM TypeCorrect == Spec => []TypeOK
<1>1. IInv => TypeOK
  BY DEF IInv
<1> QED
  BY SpecIInv, <1>1, PTL

\* Uploads of one file from any number of tabs leave one revision of it.
THEOREM RevisionsAreUnique == Spec => []OneRevisionPerSource
<1>1. IInv => OneRevisionPerSource
  BY DEF IInv
<1> QED
  BY SpecIInv, <1>1, PTL

\* The calculator never works on a model that reconciliation did not accept.
THEOREM ReadyMeansAccepted == Spec => []ReadyIsAccepted
<1>1. IInv => ReadyIsAccepted
  BY DEF IInv, TypeOK, AcceptedReconciles, ReadyIsAccepted, CalculatorReady
<1> QED
  BY SpecIInv, <1>1, PTL

\* A new source never inherits an old confirmation.
THEOREM NothingIsInherited == Spec => []NothingInherited
<1>1. IInv => NothingInherited
  BY DEF IInv
<1> QED
  BY SpecIInv, <1>1, PTL

\* Outside a correction, and unless one landed inside a confirm or failed
\* between its writes, a calculator that is ready has been confirmed.
THEOREM ReadyMeansConfirmed == Spec => []ReadyIsConfirmed
<1>1. IInv => ReadyIsConfirmed
  BY DEF IInv, ConfirmedIsStamped, ReadyIsConfirmed, CalculatorReady
<1> QED
  BY SpecIInv, <1>1, PTL


-----------------------------------------------------------------------------
(* The saved scores: the invariant behind SavesBuildOnSeen. *)

\* What was loaded with a revision number is not newer than the row, and is the
\* row if the numbers agree.
Loaded(view, row) ==
    /\ view.revision <= row.revision
    /\ view.revision = row.revision => view.saves = row.saves

\* A save that expects the row as it is sends all the scores in it.
Builds(r, row) ==
    /\ r.at \in {"load", "store"} =>
          /\ r.expected <= row.revision
          /\ r.expected = row.revision => row.saves \subseteq r.saves
    /\ r.at = "store" => r.base <= row.revision /\ (r.expected # 0 => r.base = r.expected)
    /\ r.at = "saved" => Loaded(r.grades, row)

ScoresInv == \A t \in Tabs : Loaded(seen[t], grades) /\ Builds(req[t], grades)

\* A request that goes on while the saved scores stay.
LEMMA ScoresStay ==
    ASSUME IInv, ScoresInv, NEW t \in Tabs, NEW r, Goto(t, r),
           UNCHANGED <<grades, seen>>, Builds(r, grades)
    PROVE  ScoresInv'
<1>1. \A u \in Tabs : req'[u] = IF u = t THEN r ELSE req[u]
  BY DEF Goto, IInv, Requested
<1> QED
  BY <1>1 DEF ScoresInv

\* Nothing but a save carries scores.
LEMMA OthersBuild ==
    ASSUME NEW r, r.at \notin {"load", "store", "saved"}
    PROVE  Builds(r, grades)
  BY DEF Builds

LEMMA TabLoads ==
    ASSUME IInv, ScoresInv, NEW t \in Tabs, NEW view \in {grades, seen[t]} \cup {req[t].grades},
           Loaded(view, grades), seen' = [seen EXCEPT ![t] = view],
           req' = req \/ Goto(t, Idle), grades' = grades
    PROVE  ScoresInv'
<1>1. \A u \in Tabs : seen'[u] = IF u = t THEN view ELSE seen[u]
  BY DEF IInv, TypeOK
<1>2. \A u \in Tabs : req'[u] \in {req[u], Idle}
  BY DEF Goto, IInv, Requested
<1>3. Builds(Idle, grades)
  BY OthersBuild DEF Idle
<1>4. \A u \in Tabs : Builds(req'[u], grades)
  BY <1>2, <1>3 DEF ScoresInv
<1> QED
  BY <1>1, <1>4 DEF ScoresInv

\* What a tab that begins a save has loaded is in what it sends.
LEMMA SaveBuilds ==
    ASSUME IInv, ScoresInv, NEW t \in Tabs, Save(t)
    PROVE  ScoresInv'
<1> DEFINE r == [at |-> "load", expected |-> seen[t].revision,
                 saves |-> seen[t].saves \cup {requests + 1}]
<1>1. Goto(t, r) /\ UNCHANGED <<grades, seen>>
  BY DEF Save, Begin
<1>2. Builds(r, grades)
  BY DEF Builds, ScoresInv, Loaded
<1> HIDE DEF r
<1> QED
  BY <1>1, <1>2, ScoresStay

LEMMA LoadBuilds ==
    ASSUME IInv, ScoresInv, NEW t \in Tabs, Load(t)
    PROVE  ScoresInv'
<1> DEFINE r == [at |-> "store", base |-> grades.revision, expected |-> req[t].expected,
                 saves |-> req[t].saves]
<1>1. At(t, "load") /\ UNCHANGED <<grades, seen>>
  BY DEF Load
<1>2. Builds(req[t], grades) /\ req[t].at = "load" /\ grades.revision \in Nat
  BY <1>1 DEF ScoresInv, At, IInv, TypeOK, Scores
<1>3. CASE req[t].expected # 0 /\ req[t].expected # grades.revision
  <2>1. Goto(t, [at |-> "conflict"])
    BY <1>3 DEF Load
  <2> QED
    BY <1>1, <2>1, OthersBuild, ScoresStay
<1>4. CASE ~(req[t].expected # 0 /\ req[t].expected # grades.revision)
  <2>1. Goto(t, r)
    BY <1>4 DEF Load
  <2>2. Builds(r, grades)
    BY <1>2, <1>4 DEF Builds
  <2> HIDE DEF r
  <2> QED
    BY <1>1, <2>1, <2>2, ScoresStay
<1> QED
  BY <1>3, <1>4

\* A store that succeeds makes a revision nobody has loaded yet.
LEMMA StoreBuilds ==
    ASSUME IInv, ScoresInv, NEW t \in Tabs, Store(t)
    PROVE  ScoresInv'
<1>1. At(t, "store") /\ UNCHANGED seen
  BY DEF Store
<1>2. CASE grades.revision = req[t].base
  <2> DEFINE new == [revision |-> req[t].base + 1, saves |-> req[t].saves]
  <2>1. grades' = new /\ Goto(t, [at |-> "saved", grades |-> new])
    BY <1>2 DEF Store, Stores
  <2>2. \A u \in Tabs : req'[u] = IF u = t THEN [at |-> "saved", grades |-> new] ELSE req[u]
    BY <2>1 DEF Goto, IInv, Requested
  <2>3. grades.revision \in Nat /\ grades'.revision = grades.revision + 1
    BY <1>2, <2>1 DEF IInv, TypeOK, Scores
  <2>4. ASSUME NEW view, view.revision \in Nat, Loaded(view, grades)
        PROVE  Loaded(view, grades')
    BY <2>3, <2>4 DEF Loaded
  <2>5. ASSUME NEW u \in Tabs, u # t
        PROVE  Builds(req[u], grades')
    <3>1. Builds(req[u], grades) /\ Sound(req[u], revisions, asked, torn)
      BY DEF ScoresInv, IInv, Requested
    <3>2. req[u].at \in {"load", "store"} => req[u].expected \in Nat
      BY <3>1 DEF Sound
    <3>3. req[u].at = "store" => req[u].base \in Nat
      BY <3>1 DEF Sound
    <3>4. req[u].at = "saved" => Loaded(req[u].grades, grades')
      BY <2>4, <3>1 DEF Builds, Sound, Scores
    <3> QED
      BY <2>3, <3>1, <3>2, <3>3, <3>4 DEF Builds
  <2>6. Loaded(new, grades')
    BY <1>2, <2>1, <2>3 DEF Loaded
  <2>7. Builds([at |-> "saved", grades |-> new], grades')
    BY <2>6 DEF Builds
  <2>8. \A u \in Tabs : Loaded(seen[u], grades')
    BY <2>4 DEF ScoresInv, IInv, TypeOK, Scores
  <2> HIDE DEF new
  <2> QED
    BY <1>1, <2>2, <2>5, <2>7, <2>8 DEF ScoresInv
<1>3. CASE grades.revision # req[t].base
  <2>1. UNCHANGED grades /\ \E r \in {Idle, [at |-> "conflict"]} : Goto(t, r)
    BY <1>3 DEF Store
  <2>2. \A r \in {Idle, [at |-> "conflict"]} : r.at \notin {"load", "store", "saved"}
    BY DEF Idle
  <2> QED
    BY <1>1, <2>1, <2>2, OthersBuild, ScoresStay
<1> QED
  BY <1>2, <1>3

\* Every other request only goes from one place without scores to another.
LEMMA WithoutScores ==
    ASSUME IInv, ScoresInv, NEW t \in Tabs,
           \/ Request(t) /\ ~Save(t)
           \/ Step(t) /\ ~(Load(t) \/ Store(t) \/ Saved(t) \/ Conflict(t))
           \/ Fail(t)
    PROVE  ScoresInv'
<1>1. \E r : Goto(t, r) /\ r.at \notin {"load", "store", "saved"} /\ UNCHANGED <<grades, seen>>
  <2>1. CASE Request(t) /\ ~Save(t)
    <3>1. CASE \E source \in Sources, extract \in Extracts : Ingest(t, source, extract)
      BY <3>1 DEF Ingest, Begin
    <3>2. CASE \E b \in Batches : Correct(t, b)
      BY <3>2 DEF Correct, Begin
    <3>3. CASE Confirm(t)
      BY <3>3 DEF Confirm, Begin
    <3> QED
      BY <2>1, <3>1, <3>2, <3>3 DEF Request
  <2>2. CASE Fail(t)
    BY <2>2 DEF Fail, Idle
  <2>3. CASE Find(t)
    <3> DEFINE r == [req[t] EXCEPT !.at = "insert"]
    <3>1. req[t].at = "find" /\ UNCHANGED <<grades, seen>> /\ (Goto(t, Idle) \/ Goto(t, r))
      BY <2>3 DEF Find, At
    <3>2. r.at = "insert"
      BY <3>1 DEF IInv, Requested, Sound
    <3> HIDE DEF r
    <3> QED
      BY <3>1, <3>2 DEF Idle
  <2>4. CASE InsertRevision(t)
    BY <2>4 DEF InsertRevision, Idle
  <2>5. CASE ReviewAgain(t)
    BY <2>5 DEF ReviewAgain
  <2>6. CASE Point(t) \/ RefuseBatch(t) \/ Reopen(t) \/ Mark(t)
    BY <2>6 DEF Point, RefuseBatch, Reopen, Mark, Idle
  <2>7. CASE WriteCorrection(t) \/ Stamp(t)
    BY <2>7 DEF WriteCorrection, Stamp
  <2>8. CASE Look(t)
    BY <2>8 DEF Look, Idle
  <2>9. CASE ReadModel(t)
    BY <2>9 DEF ReadModel, Idle
  <2> QED
    BY <2>1, <2>2, <2>3, <2>4, <2>5, <2>6, <2>7, <2>8, <2>9 DEF Step
<1>2. PICK r : Goto(t, r) /\ r.at \notin {"load", "store", "saved"} /\ UNCHANGED <<grades, seen>>
  BY <1>1
<1> QED
  BY <1>2, OthersBuild, ScoresStay

LEMMA NextKeepsScores == IInv /\ ScoresInv /\ [Next]_vars => ScoresInv'
<1> SUFFICES ASSUME IInv, ScoresInv, [Next]_vars PROVE ScoresInv'
  OBVIOUS
<1>1. \A view : view = grades => Loaded(view, grades)
  BY DEF Loaded, IInv, TypeOK, Scores
<1>2. CASE Delete \/ UNCHANGED vars
  BY <1>2 DEF Delete, vars, ScoresInv
<1>3. ASSUME NEW t \in Tabs, Reload(t) PROVE ScoresInv'
  BY <1>1, <1>3, TabLoads DEF Reload
<1>4. ASSUME NEW t \in Tabs, Saved(t) PROVE ScoresInv'
  <2>1. Loaded(req[t].grades, grades)
    BY <1>4 DEF Saved, At, ScoresInv, Builds
  <2> QED
    BY <1>4, <2>1, TabLoads DEF Saved
<1>5. ASSUME NEW t \in Tabs, Conflict(t) PROVE ScoresInv'
  <2>1. \E view \in {grades, seen[t]} : seen' = [seen EXCEPT ![t] = view]
    <3>1. CASE profile.deleted
      <4>1. seen' = [seen EXCEPT ![t] = seen[t]]
        BY <1>5, <3>1 DEF Conflict, IInv, TypeOK
      <4> QED
        BY <4>1
    <3>2. CASE ~profile.deleted
      BY <1>5, <3>2 DEF Conflict
    <3> QED
      BY <3>1, <3>2
  <2>2. Loaded(seen[t], grades)
    BY DEF ScoresInv
  <2> QED
    BY <1>1, <1>5, <2>1, <2>2, TabLoads DEF Conflict
<1> QED
  BY <1>2, <1>3, <1>4, <1>5, SaveBuilds, LoadBuilds, StoreBuilds, WithoutScores
     DEF Next, Request, Step

\* save_grade_state: a tab that had loaded saved scores never overwrites a save
\* it has not seen, however the reads and writes of other tabs come between.
THEOREM SavesAreBuiltOn == Spec => SavesBuildOnSeen
<1>1. Init => ScoresInv
  BY SyllabusAssumption DEF Init, ScoresInv, Loaded, Builds, NoGrades, Idle
<1>2. ASSUME IInv, ScoresInv, [Next]_vars,
             NEW t \in Tabs, At(t, "store"), req[t].expected # 0, req'[t].at = "saved"
      PROVE  grades.revision = req[t].expected /\ grades.saves \subseteq grades'.saves
  <2>1. Store(t)
    <3>1. ASSUME NEW u \in Tabs, u # t, Request(u) \/ Step(u) \/ Reload(u) \/ Fail(u)
          PROVE  req'[t] = req[t]
      <4>1. CASE Request(u)
        <5>1. \A kind, r : Begin(u, kind, r) => Goto(u, r)
          BY DEF Begin
        <5> QED
          BY <1>2, <3>1, <4>1, <5>1 DEF Request, Ingest, Correct, Confirm, Save, Goto, IInv, Requested
      <4>2. CASE Reload(u) \/ Fail(u)
        BY <1>2, <3>1, <4>2 DEF Reload, Fail, Goto, IInv, Requested
      <4>3. CASE Find(u) \/ InsertRevision(u) \/ ReviewAgain(u) \/ Point(u) \/ WriteCorrection(u)
        BY <1>2, <3>1, <4>3 DEF Find, InsertRevision, ReviewAgain, Point, WriteCorrection, Goto, IInv, Requested
      <4>4. CASE RefuseBatch(u) \/ Look(u) \/ Reopen(u) \/ ReadModel(u) \/ Stamp(u) \/ Mark(u)
        BY <1>2, <3>1, <4>4 DEF RefuseBatch, Look, Reopen, ReadModel, Stamp, Mark, Goto, IInv, Requested
      <4>5. CASE Load(u) \/ Store(u) \/ Saved(u) \/ Conflict(u)
        BY <1>2, <3>1, <4>5 DEF Load, Store, Stores, Saved, Conflict, Goto, IInv, Requested
      <4> QED
        BY <1>2, <3>1, <4>1, <4>2, <4>3, <4>4, <4>5 DEF Step
    <3>2. ~Request(t) /\ ~Reload(t)
      BY <1>2 DEF Request, Ingest, Correct, Confirm, Save, Begin, Reload, At
    <3>3. ~Fail(t)
      BY <1>2 DEF Fail, Goto, Idle, IInv, Requested
    <3>4. Step(t) => Store(t)
      BY <1>2 DEF Step, Find, InsertRevision, ReviewAgain, Point, WriteCorrection, RefuseBatch, Look,
         Reopen, ReadModel, Stamp, Mark, Load, Saved, Conflict, At
    <3>5. ~(Delete \/ UNCHANGED vars)
      BY <1>2 DEF Delete, vars, At
    <3> QED
      BY <1>2, <3>1, <3>2, <3>3, <3>4, <3>5 DEF Next, At
  <2>2. grades.revision = req[t].base /\ grades' = [revision |-> req[t].base + 1, saves |-> req[t].saves]
    BY <1>2, <2>1 DEF Store, Stores, Goto, Idle, IInv, Requested
  <2> QED
    BY <1>2, <2>2 DEF ScoresInv, Builds, At
<1>3. IInv /\ ScoresInv /\ [Next]_vars =>
        [\A t \in Tabs :
            At(t, "store") /\ req[t].expected # 0 /\ req'[t].at = "saved"
                => grades.revision = req[t].expected /\ grades.saves \subseteq grades'.saves]_vars
  BY <1>2
<1> QED
  BY <1>1, <1>3, SpecIInv, NextKeepsScores, PTL DEF Spec, SavesBuildOnSeen
=============================================================================
