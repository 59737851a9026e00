----------------------- MODULE PostingClustersProofs -----------------------
(***************************************************************************)
(* No step of a sweep, a merge or the collection of empty clusters takes   *)
(* away the identity of a posting, wherever a job is stopped: what is      *)
(* about to be deleted has no members.  Batches that run to their end      *)
(* leave the tables clean, but for a cluster that a repeated listing left. *)
(* And no two requisitions are brought together.                           *)
(***************************************************************************)
EXTENDS PostingClusters, FiniteSetTheorems, WellFoundedInduction, TLAPS

Merging == {"mergeKeys", "mergePostings", "mergeDelete"}

Collecting == {"gcKeys", "gcClusters"}

\* What a merge or a collection has read about what it deletes is still so.
DeletesEmpty ==
    /\ DOMAIN job = DOMAIN Off
    /\ DOMAIN clusters \subseteq Ids
    /\ job.at \in Merging => job.pick # None /\ job.pick # job.absorbed
    /\ job.at = "mergeDelete" => Members(postings, job.absorbed) = {}
    /\ job.at \in Collecting => \A c \in job.drop : Members(postings, c) = {}

LEMMA InitDeletesEmpty == Init => DeletesEmpty
<1> SUFFICES ASSUME Init PROVE DeletesEmpty
  OBVIOUS
<1>1. DOMAIN << >> = {}
  OBVIOUS
<1>2. DOMAIN clusters \subseteq Ids
  BY <1>1, PostingAssumption DEF Init
<1>3. job = Off /\ job.at = "off"
  BY DEF Init, Off
<1> QED
  BY <1>2, <1>3 DEF DeletesEmpty, Merging, Collecting

\* The steps that begin nothing and delete nothing leave it as it is.
LEMMA ResolveDeletesEmpty ==
    ASSUME DeletesEmpty,
           MatchFuzzy \/ Adopt \/ Create \/ Attach \/ SetCanonical
    PROVE  DeletesEmpty'
<1>1. DOMAIN job' = DOMAIN Off /\ job'.at \notin Merging \cup Collecting
  <2>1. CASE MatchFuzzy
    BY <2>1 DEF MatchFuzzy, DeletesEmpty, Off, Merging, Collecting
  <2>2. CASE Adopt
    BY <2>2 DEF Adopt, DeletesEmpty, Off, Merging, Collecting
  <2>3. CASE Create
    BY <2>3 DEF Create, DeletesEmpty, Off, Merging, Collecting
  <2>4. CASE Attach
    BY <2>4 DEF Attach, DeletesEmpty, Off, Merging, Collecting
  <2>5. CASE SetCanonical
    BY <2>5 DEF SetCanonical, DeletesEmpty, Off, Merging, Collecting
  <2> QED
    BY <2>1, <2>2, <2>3, <2>4, <2>5
<1>2. DOMAIN clusters' \subseteq Ids
  <2>1. CASE Create
    <3>1. PICK c \in Ids : clusters' = Put(clusters, [id \in {c} |-> None])
      BY <2>1 DEF Create
    <3>2. DOMAIN clusters' = DOMAIN clusters \cup {c}
      BY <3>1 DEF Put
    <3> QED
      BY <3>2 DEF DeletesEmpty
  <2>2. CASE SetCanonical
    BY <2>2 DEF SetCanonical, DeletesEmpty
  <2>3. CASE MatchFuzzy \/ Adopt \/ Attach
    BY <2>3 DEF MatchFuzzy, Adopt, Attach, DeletesEmpty
  <2> QED
    BY <2>1, <2>2, <2>3
<1> QED
  BY <1>1, <1>2 DEF DeletesEmpty, Merging, Collecting

\* The cluster of a merge that is absorbed is another one than the one that stays.
LEMMA MatchDeletesEmpty ==
    ASSUME DeletesEmpty, MatchExact
    PROVE  DeletesEmpty'
<1>1. UNCHANGED <<postings, clusters>> /\ DOMAIN job' = DOMAIN Off
  BY DEF MatchExact, DeletesEmpty
<1>2. \/ job'.at = "attach"
      \/ job'.at = "mergeKeys" /\ job'.pick = ExactHit /\ job'.absorbed = FuzzyHit
            /\ FuzzyHit # ExactHit /\ ExactHit # None
  BY DEF MatchExact, DeletesEmpty, Off
<1> QED
  BY <1>1, <1>2 DEF DeletesEmpty, Merging, Collecting

LEMMA MergeDeletesEmpty ==
    ASSUME DeletesEmpty, Merge
    PROVE  DeletesEmpty'
<1>1. CASE MergeKeys
  <2>1. UNCHANGED <<postings, clusters, job.pick, job.absorbed>> /\ DOMAIN job' = DOMAIN Off
    BY <1>1 DEF MergeKeys, DeletesEmpty, Off, At
  <2>2. job'.at = "mergePostings" /\ job.at = "mergeKeys"
    BY <1>1 DEF MergeKeys, DeletesEmpty, Off, At
  <2> QED
    BY <2>1, <2>2 DEF DeletesEmpty, Merging, Collecting
<1>2. CASE MergePostings
  <2>1. UNCHANGED <<clusters, job.pick, job.absorbed>> /\ DOMAIN job' = DOMAIN Off
    BY <1>2 DEF MergePostings, DeletesEmpty, Off, At
  <2>2. job'.at = "mergeDelete" /\ job.at = "mergePostings"
    BY <1>2 DEF MergePostings, DeletesEmpty, Off, At
  <2>3. Members(postings, job.absorbed)' = {}
    BY <2>1, <2>2, <1>2 DEF MergePostings, Members, DeletesEmpty, Merging
  <2> QED
    BY <2>1, <2>2, <2>3 DEF DeletesEmpty, Merging, Collecting
<1>3. CASE MergeDelete
  <2>1. DOMAIN job' = DOMAIN Off /\ job'.at = "attach"
    BY <1>3 DEF MergeDelete, DeletesEmpty, Off
  <2>2. DOMAIN clusters' \subseteq Ids
    BY <1>3 DEF MergeDelete, DeleteClusters, Without, DeletesEmpty
  <2> QED
    BY <2>1, <2>2 DEF DeletesEmpty, Merging, Collecting
<1> QED
  BY <1>1, <1>2, <1>3 DEF Merge

LEMMA BatchDeletesEmpty ==
    ASSUME DeletesEmpty,
           (\E b \in Batches : Take(b)) \/ Exit \/ Stage \/ Upsert \/ Drop \/ DropKeys
    PROVE  DeletesEmpty'
<1>0. DOMAIN Between = DOMAIN Off /\ Between.at = "between" /\ Off.at = "off"
  BY DEF Between, Off
<1>1. DOMAIN job' = DOMAIN Off /\ job'.at \notin Merging \cup Collecting
  <2>1. CASE \E b \in Batches : Take(b)
    BY <2>1 DEF Take, DeletesEmpty, Off, Merging, Collecting
  <2>2. CASE Exit
    BY <2>2, <1>0 DEF Exit, Merging, Collecting
  <2>3. CASE Stage
    BY <2>3 DEF Stage, DeletesEmpty, Off, Merging, Collecting
  <2>4. CASE Upsert
    BY <2>4, <1>0 DEF Upsert, DeletesEmpty, Off, Merging, Collecting
  <2>5. CASE Drop
    BY <2>5, <1>0 DEF Drop, DeletesEmpty, Off, Merging, Collecting
  <2>6. CASE DropKeys
    BY <2>6, <1>0 DEF DropKeys, Merging, Collecting, Off, Between
  <2> QED
    BY <2>1, <2>2, <2>3, <2>4, <2>5, <2>6
<1>2. DOMAIN clusters' \subseteq Ids
  <2>1. CASE Drop
    BY <2>1 DEF Drop, DeleteClusters, Without, DeletesEmpty
  <2>2. CASE (\E b \in Batches : Take(b)) \/ Exit \/ Stage \/ Upsert \/ DropKeys
    BY <2>2 DEF Take, Exit, Stage, Upsert, DropKeys, DeletesEmpty
  <2> QED
    BY <2>1, <2>2
<1> QED
  BY <1>1, <1>2 DEF DeletesEmpty, Merging, Collecting

LEMMA GcDeletesEmpty ==
    ASSUME DeletesEmpty, Gc \/ GcKeys \/ GcClusters
    PROVE  DeletesEmpty'
<1>1. CASE Gc
  <2>1. UNCHANGED <<postings, clusters>> /\ DOMAIN job' = DOMAIN Off /\ job'.at = "gcKeys"
    BY <1>1 DEF Gc, Off
  <2>2. job'.drop = {c \in DOMAIN clusters : Members(postings, c) = {}}
    BY <1>1 DEF Gc, Off
  <2> QED
    BY <2>1, <2>2 DEF DeletesEmpty, Merging, Collecting, Members
<1>2. CASE GcKeys
  <2>1. UNCHANGED <<postings, clusters, job.drop>> /\ DOMAIN job' = DOMAIN Off
    BY <1>2 DEF GcKeys, DeletesEmpty, Off, At
  <2>2. job'.at = "gcClusters" /\ job.at = "gcKeys"
    BY <1>2 DEF GcKeys, DeletesEmpty, Off, At
  <2> QED
    BY <2>1, <2>2 DEF DeletesEmpty, Merging, Collecting, Members
<1>3. CASE GcClusters
  <2>1. DOMAIN job' = DOMAIN Off /\ job'.at = "off"
    BY <1>3 DEF GcClusters, Off
  <2>2. DOMAIN clusters' \subseteq Ids
    BY <1>3 DEF GcClusters, DeleteClusters, Without, DeletesEmpty
  <2> QED
    BY <2>1, <2>2 DEF DeletesEmpty, Merging, Collecting
<1> QED
  BY <1>1, <1>2, <1>3

LEMMA EndDeletesEmpty ==
    ASSUME DeletesEmpty, Reject \/ Fail \/ Kill
    PROVE  DeletesEmpty'
<1>1. DOMAIN Between = DOMAIN Off /\ Between.at = "between" /\ Off.at = "off"
  BY DEF Between, Off
<1>2. job' \in {Between, Off}
  BY DEF Reject, Fail, Kill, Broken
<1>3. UNCHANGED <<postings, clusters>>
  BY DEF Reject, Fail, Kill
<1> QED
  BY <1>1, <1>2, <1>3 DEF DeletesEmpty, Merging, Collecting

LEMMA NextDeletesEmpty == DeletesEmpty /\ [Next]_vars => DeletesEmpty'
<1> SUFFICES ASSUME DeletesEmpty, [Next]_vars PROVE DeletesEmpty'
  OBVIOUS
<1>1. CASE UNCHANGED vars
  BY <1>1 DEF vars, DeletesEmpty, Members
<1>2. CASE Next
  BY <1>2, ResolveDeletesEmpty, MatchDeletesEmpty, MergeDeletesEmpty, BatchDeletesEmpty,
     GcDeletesEmpty, EndDeletesEmpty DEF Next, Work, Resolve
<1> QED
  BY <1>1, <1>2

\* What a step deletes has no members, and what it writes is an identity.
LEMMA StepKeepsIdentity ==
    ASSUME DeletesEmpty, [Next]_vars, NEW p \in DOMAIN postings, postings[p] # None
    PROVE  postings'[p] # None
<1>1. CASE \/ MatchExact \/ MatchFuzzy \/ Adopt \/ Create \/ MergeKeys \/ Attach \/ SetCanonical
           \/ (\E b \in Batches : Take(b)) \/ Exit \/ DropKeys \/ Gc \/ GcKeys
           \/ Reject \/ Fail \/ Kill \/ UNCHANGED vars
  BY <1>1 DEF MatchExact, MatchFuzzy, Adopt, Create, MergeKeys, Attach, SetCanonical, Take, Exit,
     DropKeys, Gc, GcKeys, Reject, Fail, Kill, vars
<1>2. CASE Stage
  BY <1>2 DEF Stage, Put
<1>3. CASE MergePostings
  BY <1>3 DEF MergePostings, DeletesEmpty, Merging, At
<1>4. CASE MergeDelete
  <2>1. postings[p] \notin {job.absorbed}
    BY <1>4 DEF MergeDelete, DeletesEmpty, Members, At
  <2> QED
    BY <2>1, <1>4 DEF MergeDelete, DeleteClusters
<1>5. CASE Upsert
  <2>1. p \in DOMAIN Resolved => Resolved[p] # None
    BY <1>5, PostingAssumption DEF Upsert, Valid, DeletesEmpty
  <2>2. postings' = Put(Resolved, postings)
    BY <1>5 DEF Upsert
  <2>3. postings'[p] = IF p \in DOMAIN Resolved THEN Resolved[p] ELSE postings[p]
    BY <2>2 DEF Put
  <2> QED
    BY <2>1, <2>3
<1>6. CASE Drop
  <2>1. PICK gone : DeleteClusters(gone) /\ \A c \in gone : Members(postings, c) = {}
    BY <1>6 DEF Drop
  <2>2. postings[p] \notin gone
    BY <2>1 DEF Members
  <2> QED
    BY <2>1, <2>2 DEF DeleteClusters
<1>7. CASE GcClusters
  <2>1. postings[p] \notin job.drop
    BY <1>7 DEF GcClusters, DeletesEmpty, Members, Collecting, At
  <2> QED
    BY <2>1, <1>7 DEF GcClusters, DeleteClusters
<1> QED
  BY <1>1, <1>2, <1>3, <1>4, <1>5, <1>6, <1>7 DEF Next, Work, Resolve, Merge

\* No step takes away the identity a posting has: a merge repoints before it
\* deletes, and what is dropped or collected has no members.
THEOREM IdentityIsKept == Spec => IdentityKept
<1>1. DeletesEmpty /\ [Next]_vars
        => [\A p \in DOMAIN postings : postings[p] # None => postings'[p] # None]_vars
  BY StepKeepsIdentity
<1> QED
  BY InitDeletesEmpty, NextDeletesEmpty, <1>1, PTL DEF Spec, IdentityKept


-----------------------------------------------------------------------------
(* What a sweep leaves: the invariant behind SweptClean. *)

\* What SweptClean says.
Clean ==
    /\ \A p \in DOMAIN postings : postings[p] # None
    /\ \A c \in DOMAIN clusters : clusters[c] # None /\ (Members(postings, c) = {} => c \in spared)

Resolving == Merging \cup {"resolve", "attach", "canonical", "upsert"}

\* The cluster of the row that is being resolved.
Picked(c) == job.at \in {"attach", "canonical"} /\ job.pick = c

Listed == {job.rows[i].id : i \in DOMAIN job.rows}

\* Only a posting of the batch has no identity yet.
ListedUnlinked == \A p \in DOMAIN postings : postings[p] = None => p \in Listed

\* Postings are where they were when the batch was staged, but for those whose
\* cluster was absorbed.
Unmoved ==
    \A p \in DOMAIN postings :
        job.was[p] \in DOMAIN clusters /\ ~(At("mergeDelete") /\ job.was[p] = job.absorbed)
            => postings[p] = job.was[p]

\* A cluster had a member when the batch was staged, or was spared before, or
\* it was created for a row of the batch.
Awaited ==
    \A c \in DOMAIN clusters :
        \/ Members(job.was, c) # {} \/ c \in spared
        \/ \E i \in DOMAIN job.got : job.got[i] = c
        \/ Picked(c)

Represented == \A c \in DOMAIN clusters : clusters[c] # None \/ Picked(c)

\* Rows are resolved in order, and the upsert comes after the last.
InOrder ==
    /\ \E S : job.got \in Seq(S)
    /\ IF At("upsert") THEN Len(job.got) = Len(job.rows) ELSE Len(job.got) < Len(job.rows)

Underway ==
    /\ DOMAIN job.was = DOMAIN postings
    /\ Listed \subseteq DOMAIN postings
    /\ ListedUnlinked /\ Unmoved /\ Awaited /\ Represented /\ InOrder

\* Whatever cluster is empty after the upsert is spared or going to be dropped.
Written ==
    /\ \A p \in DOMAIN postings : postings[p] # None
    /\ \A c \in DOMAIN clusters :
          /\ clusters[c] # None
          /\ Members(postings, c) = {} => c \in job.drop \cup spared

Untorn ==
    /\ job.at \in {"off", "between", "stage", "dropKeys"} \cup Collecting => Clean
    /\ job.at \in {"off", "between", "stage"} => job.got = << >> /\ job.drop = {}
    /\ job.at \in {"stage"} \cup Resolving => job.rows \in Batches
    /\ job.at \in Resolving => Underway
    /\ job.at = "drop" => Written

SweptInv == DeletesEmpty /\ (torn \/ Untorn)

LEMMA PutIs ==
    ASSUME NEW f, NEW g
    PROVE  /\ DOMAIN Put(f, g) = DOMAIN f \cup DOMAIN g
           /\ \A x \in DOMAIN f : Put(f, g)[x] = f[x]
           /\ \A x \in DOMAIN g \ DOMAIN f : Put(f, g)[x] = g[x]
  BY DEF Put

LEMMA WithoutIs ==
    ASSUME NEW f, NEW S
    PROVE  /\ DOMAIN Without(f, S) = DOMAIN f \ S
           /\ \A x \in DOMAIN f \ S : Without(f, S)[x] = f[x]
  BY DEF Without

LEMMA Places ==
    /\ Off.at = "off" /\ Off.got = << >> /\ Off.drop = {}
    /\ Between.at = "between" /\ Between.got = << >> /\ Between.drop = {}
  BY DEF Off, Between

\* At the start the legacy cluster has its members and one of them for its
\* canonical posting.
LEMMA InitUntorn == Init => Untorn
<1> SUFFICES ASSUME Init PROVE Untorn
  OBVIOUS
<1>1. job = Off /\ job.at = "off" /\ job.got = << >> /\ job.drop = {}
  BY DEF Init, Off
<1>2. DOMAIN << >> = {}
  OBVIOUS
<1>3. Clean
  <2>1. \A p \in DOMAIN postings : postings[p] # None
    BY PostingAssumption DEF Init
  <2>2. CASE Legacy = {}
    BY <1>2, <2>1, <2>2 DEF Init, Clean
  <2>3. CASE Legacy # {}
    <3>1. (CHOOSE p \in Legacy : TRUE) \in Legacy
      BY <2>3
    <3>2. (CHOOSE p \in Legacy : TRUE) # None
      BY <3>1, PostingAssumption DEF Postings
    <3>3. clusters = [c \in {1} |-> CHOOSE p \in Legacy : TRUE] /\ postings = [p \in Legacy |-> 1]
      BY <2>3 DEF Init
    <3>4. DOMAIN clusters = {1} /\ clusters[1] # None
      BY <3>2, <3>3
    <3>5. Members(postings, 1) # {}
      BY <2>3, <3>3 DEF Members
    <3> QED
      BY <2>1, <3>4, <3>5 DEF Clean
  <2> QED
    BY <2>2, <2>3
<1> QED
  BY <1>1, <1>3 DEF Untorn, Collecting, Resolving, Merging

-----------------------------------------------------------------------------
(* Before and after a batch. *)

LEMMA TakeUntorn ==
    ASSUME DeletesEmpty, Untorn, NEW b \in Batches, Take(b)
    PROVE  Untorn'
<1>1. /\ job.at \in {"off", "between"}
      /\ job'.at = "stage" /\ job'.rows = b /\ job'.got = job.got /\ job'.drop = job.drop
      /\ UNCHANGED <<postings, clusters, spared>>
  BY DEF Take, DeletesEmpty, Off, At
<1> QED
  BY <1>1 DEF Untorn, Clean, Members, Collecting, Resolving, Merging

LEMMA ExitUntorn ==
    ASSUME DeletesEmpty, Untorn, Exit
    PROVE  Untorn'
<1>1. job.at = "between" /\ job' = Off /\ UNCHANGED <<postings, clusters, spared>>
  BY DEF Exit, At
<1> QED
  BY <1>1, Places DEF Untorn, Clean, Members, Collecting, Resolving, Merging

\* What is staged is where it was, or is new and of the batch.
LEMMA StageUntorn ==
    ASSUME DeletesEmpty, Untorn, Stage
    PROVE  Untorn'
<1>1. /\ job.at = "stage" /\ job'.at = "resolve" /\ job'.was = postings'
      /\ job'.rows = job.rows /\ job'.got = job.got
      /\ UNCHANGED <<clusters, spared>>
  BY DEF Stage, DeletesEmpty, Off, At
<1>2. Clean /\ job.got = << >> /\ job.rows \in Batches
  BY <1>1 DEF Untorn
<1>3. /\ DOMAIN postings' = DOMAIN postings \cup Listed
      /\ \A p \in DOMAIN postings : postings'[p] = postings[p]
  BY PutIs DEF Stage, Listed
<1>4. Listed' = Listed
  BY <1>1 DEF Listed
<1>5. ListedUnlinked'
  BY <1>2, <1>3, <1>4 DEF ListedUnlinked, Clean
<1>6. Unmoved'
  BY <1>1 DEF Unmoved
<1>7. Awaited' /\ Represented'
  <2>1. \A c \in DOMAIN clusters : (Members(postings, c) # {} \/ c \in spared) /\ clusters[c] # None
    BY <1>2 DEF Clean
  <2>2. \A c : Members(postings, c) \subseteq Members(postings', c)
    BY <1>3 DEF Members
  <2> QED
    BY <1>1, <2>1, <2>2 DEF Awaited, Represented
<1>8. InOrder'
  <2>1. job.rows \in Seq(Listings) /\ job.rows # << >>
    BY <1>2, PostingAssumption
  <2>2. Len(job.rows) > 0
    BY <2>1
  <2>3. << >> \in Seq({}) /\ Len(<< >>) = 0
    OBVIOUS
  <2> QED
    BY <1>1, <1>2, <2>2, <2>3 DEF InOrder, At
<1>9. Underway'
  BY <1>1, <1>3, <1>4, <1>5, <1>6, <1>7, <1>8 DEF Underway
<1> QED
  BY <1>1, <1>2, <1>9 DEF Untorn, Collecting, Resolving, Merging

-----------------------------------------------------------------------------
(* A row is resolved. *)

\* Steps that only move the job on leave what is so of the tables.
LEMMA KeyUntorn ==
    ASSUME DeletesEmpty, Untorn,
           MatchExact \/ MatchFuzzy \/ Adopt \/ MergeKeys \/ Attach
    PROVE  Untorn'
<1>1. /\ job.at \in Resolving \ {"mergePostings", "mergeDelete", "canonical", "upsert"}
      /\ job'.at \in Resolving \ {"resolve", "mergeDelete", "upsert"}
      /\ job'.at # "canonical" => job.at # "attach"
      /\ job'.at = "canonical" => job.at = "attach" /\ job'.pick = job.pick
      /\ job'.was = job.was /\ job'.rows = job.rows /\ job'.got = job.got
      /\ UNCHANGED <<postings, clusters, spared>>
  <2>1. CASE MatchExact
    BY <2>1 DEF MatchExact, DeletesEmpty, Off, At, Resolving, Merging
  <2>2. CASE MatchFuzzy
    BY <2>2 DEF MatchFuzzy, DeletesEmpty, Off, At, Resolving, Merging
  <2>3. CASE Adopt
    BY <2>3 DEF Adopt, NoMatch, DeletesEmpty, Off, At, Resolving, Merging
  <2>4. CASE MergeKeys
    BY <2>4 DEF MergeKeys, DeletesEmpty, Off, At, Resolving, Merging
  <2>5. CASE Attach
    BY <2>5 DEF Attach, DeletesEmpty, Off, At, Resolving, Merging
  <2> QED
    BY <2>1, <2>2, <2>3, <2>4, <2>5
<1>2. Underway /\ job.rows \in Batches
  BY <1>1 DEF Untorn
<1>3. Listed' = Listed
  BY <1>1 DEF Listed
<1>4. ListedUnlinked' /\ Unmoved'
  BY <1>1, <1>2, <1>3 DEF Underway, ListedUnlinked, Unmoved, At, Resolving, Merging
<1>5. \A c : Picked(c) => Picked(c)'
  BY <1>1 DEF Picked
<1>6. Awaited' /\ Represented'
  BY <1>1, <1>2, <1>5 DEF Underway, Awaited, Represented
<1>7. InOrder'
  BY <1>1, <1>2 DEF Underway, InOrder, At, Resolving, Merging
<1>8. Underway'
  BY <1>1, <1>2, <1>3, <1>4, <1>6, <1>7 DEF Underway
<1> QED
  BY <1>1, <1>2, <1>8 DEF Untorn, Collecting, Resolving, Merging

\* A created cluster is none that a posting was in.
LEMMA CreateUntorn ==
    ASSUME DeletesEmpty, Untorn, Create
    PROVE  Untorn'
<1>1. PICK c \in Ids \ Used : /\ clusters' = Put(clusters, [id \in {c} |-> None])
                              /\ job' = [job EXCEPT !.at = "attach", !.pick = c]
  <2> DEFINE c == CHOOSE id \in Ids \ Used : TRUE
  <2>1. c \in Ids \ Used
    BY DEF Create
  <2>2. /\ clusters' = Put(clusters, [id \in {c} |-> None])
        /\ job' = [job EXCEPT !.at = "attach", !.pick = c]
    BY DEF Create
  <2> HIDE DEF c
  <2> QED
    BY <2>1, <2>2
<1>2. /\ job.at = "resolve" /\ job'.at = "attach" /\ job'.pick = c
      /\ job'.was = job.was /\ job'.rows = job.rows /\ job'.got = job.got
      /\ UNCHANGED <<postings, spared>>
  BY <1>1 DEF Create, NoMatch, DeletesEmpty, Off, At
<1>3. /\ c \notin DOMAIN clusters /\ \A p \in DOMAIN job.was : job.was[p] # c
      /\ DOMAIN clusters' = DOMAIN clusters \cup {c}
      /\ \A d \in DOMAIN clusters : clusters'[d] = clusters[d]
  <2>1. c \notin DOMAIN clusters /\ \A p \in DOMAIN job.was : job.was[p] # c
    BY <1>1 DEF Used
  <2> DEFINE new == [id \in {c} |-> None]
  <2>2. DOMAIN new = {c} /\ clusters' = Put(clusters, new)
    BY <1>1
  <2> HIDE DEF new
  <2>3. /\ DOMAIN clusters' = DOMAIN clusters \cup DOMAIN new
        /\ \A d \in DOMAIN clusters : clusters'[d] = clusters[d]
    BY <2>2 DEF Put
  <2> QED
    BY <2>1, <2>2, <2>3
<1>4. Underway /\ job.rows \in Batches
  BY <1>2 DEF Untorn, Resolving
<1>5. Listed' = Listed
  BY <1>2 DEF Listed
<1>6. ListedUnlinked' /\ Unmoved'
  BY <1>2, <1>3, <1>4, <1>5 DEF Underway, ListedUnlinked, Unmoved, At
<1>7. \A d \in DOMAIN clusters' : d \in DOMAIN clusters \/ Picked(d)'
  BY <1>2, <1>3 DEF Picked
<1>8. \A d : ~Picked(d)
  BY <1>2 DEF Picked
<1>9. Awaited' /\ Represented'
  BY <1>2, <1>3, <1>4, <1>7, <1>8 DEF Underway, Awaited, Represented
<1>10. InOrder'
  BY <1>2, <1>4 DEF Underway, InOrder, At
<1>11. Underway'
  BY <1>2, <1>4, <1>5, <1>6, <1>9, <1>10 DEF Underway
<1> QED
  BY <1>2, <1>4, <1>11 DEF Untorn, Collecting, Resolving, Merging

\* A merge moves the postings of the absorbed cluster only.
LEMMA MovePostingsUntorn ==
    ASSUME DeletesEmpty, Untorn, MergePostings
    PROVE  Untorn'
<1>1. /\ job.at = "mergePostings" /\ job'.at = "mergeDelete" /\ job'.absorbed = job.absorbed
      /\ job'.was = job.was /\ job'.rows = job.rows /\ job'.got = job.got
      /\ UNCHANGED <<clusters, spared>>
  BY DEF MergePostings, DeletesEmpty, Off, At
<1>2. /\ DOMAIN postings' = DOMAIN postings
      /\ \A p \in DOMAIN postings : postings'[p] = IF postings[p] = job.absorbed THEN job.pick ELSE postings[p]
      /\ job.pick # None
  BY <1>1 DEF MergePostings, DeletesEmpty, Merging
<1>3. Underway /\ job.rows \in Batches
  BY <1>1 DEF Untorn, Resolving, Merging
<1>4. Listed' = Listed
  BY <1>1 DEF Listed
<1>5. ListedUnlinked'
  BY <1>2, <1>3, <1>4 DEF Underway, ListedUnlinked
<1>6. Unmoved'
  BY <1>1, <1>2, <1>3 DEF Underway, Unmoved, At
<1>7. \A c : ~Picked(c)
  BY <1>1 DEF Picked
<1>8. Awaited' /\ Represented'
  BY <1>1, <1>3, <1>7 DEF Underway, Awaited, Represented
<1>9. InOrder'
  BY <1>1, <1>3 DEF Underway, InOrder, At
<1>10. Underway'
  BY <1>1, <1>2, <1>3, <1>4, <1>5, <1>6, <1>8, <1>9 DEF Underway
<1> QED
  BY <1>1, <1>3, <1>10 DEF Untorn, Collecting, Resolving, Merging

\* Deleting clusters without members changes no posting.
LEMMA DeleteIs ==
    ASSUME NEW gone, DeleteClusters(gone), \A c \in gone : Members(postings, c) = {}
    PROVE  /\ DOMAIN postings' = DOMAIN postings
           /\ \A p \in DOMAIN postings : postings'[p] = postings[p]
           /\ \A c : Members(postings', c) = Members(postings, c)
           /\ DOMAIN clusters' = DOMAIN clusters \ gone
           /\ \A c \in DOMAIN clusters \ gone : clusters'[c] = clusters[c]
           /\ spared' = spared \ gone
<1>1. \A p \in DOMAIN postings : postings[p] \notin gone
  BY DEF Members
<1>2. DOMAIN postings' = DOMAIN postings /\ \A p \in DOMAIN postings : postings'[p] = postings[p]
  BY <1>1 DEF DeleteClusters
<1>3. \A c : Members(postings', c) = Members(postings, c)
  BY <1>2 DEF Members
<1>4. /\ DOMAIN clusters' = DOMAIN clusters \ gone
      /\ \A c \in DOMAIN clusters \ gone : clusters'[c] = clusters[c]
  BY WithoutIs DEF DeleteClusters
<1> QED
  BY <1>2, <1>3, <1>4 DEF DeleteClusters

\* A collection takes what was spared, and nothing else is there to take.
LEMMA GcUntorn ==
    ASSUME DeletesEmpty, Untorn, Gc \/ GcKeys \/ GcClusters
    PROVE  Untorn'
<1>1. CASE Gc
  <2>1. job.at = "off" /\ job'.at = "gcKeys" /\ UNCHANGED <<postings, clusters, spared>>
    BY <1>1 DEF Gc, Off, At
  <2> QED
    BY <2>1 DEF Untorn, Clean, Members, Collecting, Resolving, Merging
<1>2. CASE GcKeys
  <2>1. job.at = "gcKeys" /\ job'.at = "gcClusters" /\ UNCHANGED <<postings, clusters, spared>>
    BY <1>2 DEF GcKeys, DeletesEmpty, Off, At
  <2> QED
    BY <2>1 DEF Untorn, Clean, Members, Collecting, Resolving, Merging
<1>3. CASE GcClusters
  <2>1. job.at = "gcClusters" /\ DeleteClusters(job.drop) /\ job' = Off
    BY <1>3 DEF GcClusters, At
  <2>2. \A c \in job.drop : Members(postings, c) = {}
    BY <2>1 DEF DeletesEmpty, Collecting
  <2>3. Clean
    BY <2>1 DEF Untorn, Collecting
  <2>4. Clean'
    BY <2>1, <2>2, <2>3, DeleteIs DEF Clean
  <2> QED
    BY <2>1, <2>4, Places DEF Untorn, Collecting, Resolving, Merging
<1> QED
  BY <1>1, <1>2, <1>3

LEMMA MergeDeleteUntorn ==
    ASSUME DeletesEmpty, Untorn, MergeDelete
    PROVE  Untorn'
<1>1. /\ job.at = "mergeDelete" /\ job'.at = "attach" /\ job'.pick = job.pick
      /\ job'.was = job.was /\ job'.rows = job.rows /\ job'.got = job.got
  BY DEF MergeDelete, DeletesEmpty, Off, At
<1>2. /\ DOMAIN postings' = DOMAIN postings
      /\ \A p \in DOMAIN postings : postings'[p] = postings[p]
      /\ DOMAIN clusters' = DOMAIN clusters \ {job.absorbed}
      /\ \A c \in DOMAIN clusters \ {job.absorbed} : clusters'[c] = clusters[c]
      /\ spared' = spared \ {job.absorbed}
  BY <1>1, DeleteIs DEF MergeDelete, DeletesEmpty
<1>3. Underway /\ job.rows \in Batches
  BY <1>1 DEF Untorn, Resolving, Merging
<1>4. Listed' = Listed
  BY <1>1 DEF Listed
<1>5. ListedUnlinked'
  BY <1>2, <1>3, <1>4 DEF Underway, ListedUnlinked
<1>6. Unmoved'
  BY <1>1, <1>2, <1>3 DEF Underway, Unmoved, At
<1>7. \A c : ~Picked(c)
  BY <1>1 DEF Picked
<1>8. Awaited' /\ Represented'
  BY <1>1, <1>2, <1>3, <1>7 DEF Underway, Awaited, Represented
<1>9. InOrder'
  BY <1>1, <1>3 DEF Underway, InOrder, At
<1>10. Underway'
  BY <1>1, <1>2, <1>3, <1>4, <1>5, <1>6, <1>8, <1>9 DEF Underway
<1> QED
  BY <1>1, <1>3, <1>10 DEF Untorn, Collecting, Resolving, Merging

\* One more element at the end.
LEMMA AppendIs ==
    ASSUME NEW S, NEW s \in Seq(S), NEW x
    PROVE  /\ Append(s, x) \in Seq(S \cup {x})
           /\ Len(Append(s, x)) = Len(s) + 1 /\ Len(s) \in Nat
           /\ DOMAIN Append(s, x) = DOMAIN s \cup {Len(s) + 1}
           /\ \A i \in DOMAIN s : Append(s, x)[i] = s[i]
           /\ Append(s, x)[Len(s) + 1] = x
<1>1. s \in Seq(S \cup {x})
  OBVIOUS
<1>2. Append(s, x) \in Seq(S \cup {x}) /\ Len(Append(s, x)) = Len(s) + 1
  BY <1>1
<1>3. DOMAIN s = 1 .. Len(s) /\ Len(s) \in Nat /\ DOMAIN Append(s, x) = 1 .. (Len(s) + 1)
  BY <1>1, <1>2
<1> QED
  BY <1>1, <1>2, <1>3

\* With its canonical posting a row is resolved; its cluster is in got.
LEMMA SetCanonicalUntorn ==
    ASSUME DeletesEmpty, Untorn, SetCanonical
    PROVE  Untorn'
<1>1. /\ job.at = "canonical" /\ job'.got = Append(job.got, job.pick)
      /\ job'.at = IF Len(job.got) + 1 = Len(job.rows) THEN "upsert" ELSE "resolve"
      /\ job'.was = job.was /\ job'.rows = job.rows
      /\ UNCHANGED <<postings, spared>>
  BY DEF SetCanonical, DeletesEmpty, Off, At
<1>2. Underway /\ job.rows \in Batches
  BY <1>1 DEF Untorn, Resolving
<1>3. PICK S : job.got \in Seq(S)
  BY <1>2 DEF Underway, InOrder
<1>4. /\ job'.got \in Seq(S \cup {job.pick})
      /\ Len(job'.got) = Len(job.got) + 1 /\ Len(job.got) \in Nat
      /\ DOMAIN job'.got = DOMAIN job.got \cup {Len(job.got) + 1}
      /\ \A i \in DOMAIN job.got : job'.got[i] = job.got[i]
      /\ job'.got[Len(job.got) + 1] = job.pick
  BY <1>1, <1>3, AppendIs
<1>5. job.rows \in Seq(Listings) /\ Len(job.got) < Len(job.rows)
  BY <1>1, <1>2, PostingAssumption DEF Underway, InOrder, At
<1>6. Row.id # None
  <2>1. Row \in Listings
    BY <1>4, <1>5 DEF Row
  <2> QED
    BY <2>1, PostingAssumption DEF Listings
<1>7. Listed' = Listed
  BY <1>1 DEF Listed
<1>8. /\ DOMAIN clusters' = DOMAIN clusters
      /\ \A c \in DOMAIN clusters : c # job.pick => clusters'[c] = clusters[c]
      /\ \A c \in DOMAIN clusters : c = job.pick => clusters'[c] # None
  BY <1>6 DEF SetCanonical
<1>9. ListedUnlinked' /\ Unmoved'
  BY <1>1, <1>2, <1>7, <1>8 DEF Underway, ListedUnlinked, Unmoved, At
<1>10. \A c : Picked(c) => c = job.pick
  BY DEF Picked
<1>11. Awaited'
  BY <1>1, <1>2, <1>4, <1>8, <1>10 DEF Underway, Awaited
<1>12. Represented'
  BY <1>2, <1>8, <1>10 DEF Underway, Represented
<1>13. InOrder'
  BY <1>1, <1>4, <1>5 DEF InOrder, At
<1>14. Underway'
  BY <1>1, <1>2, <1>7, <1>8, <1>9, <1>11, <1>12, <1>13 DEF Underway
<1> QED
  BY <1>1, <1>2, <1>14 DEF Untorn, Collecting, Resolving, Merging

-----------------------------------------------------------------------------
(* After the last row. *)

\* Where every member of a cluster leaves it and nobody joins it, the counts
\* of the batch add up, unless a row of it is repeated: a posting is one row,
\* and a row one posting.
LEMMA EmptyIsVacated ==
    ASSUME DeletesEmpty, Untorn, Upsert, NEW c \in DOMAIN clusters, Members(postings', c) = {},
           c \notin spared, ~Repeated(c)
    PROVE  c \in Vacated
<1>1. job.at = "upsert" /\ Underway /\ job.rows \in Batches
  BY DEF Upsert, At, Untorn, Resolving
<1> DEFINE rows == DOMAIN job.rows
           id(i) == job.rows[i].id
<1>2. job.rows \in Seq(Listings) /\ rows = 1 .. Len(job.rows) /\ Len(job.rows) \in Nat
  BY <1>1, PostingAssumption
<1>3. DOMAIN job.got = rows
  <2>1. PICK S : job.got \in Seq(S)
    BY <1>1 DEF Underway, InOrder
  <2>2. Len(job.got) = Len(job.rows)
    BY <1>1 DEF Underway, InOrder, At
  <2> QED
    BY <1>2, <2>1, <2>2
<1>4. \A i, j \in rows : id(i) = id(j) /\ c \in {Was(i), job.got[i]} => i = j
  BY DEF Repeated
<1>5. \A i \in rows : job.got[i] = c => id(i) \in DOMAIN Resolved /\ Resolved[id(i)] = c
  <2> SUFFICES ASSUME NEW i \in rows, job.got[i] = c
               PROVE  id(i) \in DOMAIN Resolved /\ Resolved[id(i)] = c
    OBVIOUS
  <2>1. {j \in rows : id(j) = id(i)} = {i}
    BY <1>4
  <2>2. i \in Nat
    BY <1>2
  <2>3. Min({i}) = i
    BY <2>2 DEF Min
  <2>4. id(i) \in {id(j) : j \in rows}
    OBVIOUS
  <2> QED
    BY <2>1, <2>3, <2>4 DEF Resolved
<1>6. /\ DOMAIN postings' = DOMAIN Resolved \cup DOMAIN postings
      /\ \A p \in DOMAIN Resolved : postings'[p] = Resolved[p]
      /\ \A p \in DOMAIN postings \ DOMAIN Resolved : postings'[p] = postings[p]
  <2>1. postings' = Put(Resolved, postings)
    BY DEF Upsert
  <2> QED
    BY <2>1 DEF Put
<1>7. \A p \in DOMAIN postings' : postings'[p] # c
  BY DEF Members
<1>8. \A i \in rows : job.got[i] # c
  BY <1>5, <1>6, <1>7
<1>9. DOMAIN Resolved = {id(i) : i \in rows}
  BY DEF Resolved
<1>10. \A p \in Members(job.was, c) : \E i \in rows : id(i) = p
  <2> SUFFICES ASSUME NEW p \in Members(job.was, c) PROVE p \in DOMAIN Resolved
    BY <1>9
  <2>1. p \in DOMAIN postings /\ job.was[p] = c
    BY <1>1 DEF Members, Underway
  <2>2. postings[p] = c
    BY <1>1, <2>1 DEF Underway, Unmoved, At
  <2> QED
    BY <1>6, <1>7, <2>1, <2>2
<1>11. Members(job.was, c) # {}
  BY <1>1, <1>3, <1>8 DEF Underway, Awaited, Picked
<1> DEFINE Leaving == {i \in rows : Was(i) = c /\ job.got[i] # c}
           Arriving == {i \in rows : Was(i) # c /\ job.got[i] = c}
<1>12. Leaving = {i \in rows : Was(i) = c} /\ Arriving = {}
  BY <1>8
<1>13. \A i \in rows : id(i) \in DOMAIN job.was /\ Was(i) = job.was[id(i)]
  BY <1>1 DEF Underway, Listed, Was
<1>14. Cardinality(Leaving) \in Nat /\ IsFiniteSet(Leaving)
       /\ Cardinality(Members(job.was, c)) = Cardinality(Leaving)
  <2> DEFINE f == [i \in Leaving |-> id(i)]
  <2>1. IsFiniteSet(Leaving)
    <3>1. IsFiniteSet(rows)
      BY <1>2, FS_Interval
    <3> QED
      BY <3>1, FS_Subset
  <2>2. \A i \in Leaving : id(i) \in Members(job.was, c)
    BY <1>12, <1>13 DEF Members
  <2>3. \A p \in Members(job.was, c) : \E i \in Leaving : id(i) = p
    BY <1>10, <1>12, <1>13 DEF Members
  <2>4. f \in Bijection(Leaving, Members(job.was, c))
    BY <1>4, <2>2, <2>3 DEF Bijection, Injection, Surjection, IsInjective
  <2>5. ExistsBijection(Leaving, Members(job.was, c))
    BY <2>4 DEF ExistsBijection
  <2> HIDE DEF Leaving
  <2> QED
    BY <2>1, <2>5, FS_Bijection, FS_CardinalityType
<1>15. Cardinality(Leaving) > 0
  <2>1. Leaving # {}
    BY <1>10, <1>11, <1>12, <1>13 DEF Members
  <2> HIDE DEF Leaving
  <2> QED
    BY <1>14, <2>1, FS_EmptySet
<1>16. Cardinality(Arriving) = 0
  BY <1>12, FS_EmptySet
<1>17. c \in {Was(i) : i \in rows} /\ c # None
  <2>1. c # None
    BY PostingAssumption DEF DeletesEmpty
  <2> QED
    BY <1>10, <1>11, <1>13, <2>1 DEF Members
<1>18. Leavers(c) = Cardinality(Leaving) /\ Joiners(c) = Cardinality(Arriving)
  BY DEF Leavers, Joiners, Rows
<1>19. c \in Priors
  BY <1>17 DEF Priors
<1> QED
  BY <1>14, <1>15, <1>16, <1>18, <1>19 DEF Vacated

\* The upsert gives every posting of the batch an identity.
LEMMA UpsertUntorn ==
    ASSUME DeletesEmpty, Untorn, Upsert
    PROVE  Untorn'
<1>1. job.at = "upsert" /\ Underway /\ UNCHANGED clusters /\ Valid
  BY DEF Upsert, At, Untorn, Resolving
<1>2. postings' = Put(Resolved, postings)
  BY DEF Upsert
<1>3. DOMAIN Resolved = Listed
  BY DEF Resolved, Listed
<1>4. /\ DOMAIN postings' = DOMAIN Resolved \cup DOMAIN postings
      /\ \A p \in DOMAIN Resolved : postings'[p] = Resolved[p]
      /\ \A p \in DOMAIN postings \ DOMAIN Resolved : postings'[p] = postings[p]
  BY <1>2 DEF Put
<1>5. \A p \in DOMAIN Resolved : Resolved[p] # None
  BY <1>1, PostingAssumption DEF Valid, DeletesEmpty
<1>6. \A p \in DOMAIN postings' : postings'[p] # None
  BY <1>1, <1>3, <1>4, <1>5 DEF Underway, ListedUnlinked
<1>7. \A c \in DOMAIN clusters : clusters[c] # None
  BY <1>1 DEF Underway, Represented, Picked
<1>8. \A c \in DOMAIN clusters : Members(postings', c) = {} => c \in Vacated \cup spared'
  BY EmptyIsVacated DEF Upsert, NowSpared
<1>9. CASE Vacated = {}
  <2>1. job' = Between
    BY <1>9 DEF Upsert
  <2>2. Clean'
    BY <1>1, <1>6, <1>7, <1>8, <1>9 DEF Clean
  <2> QED
    BY <2>1, <2>2, Places DEF Untorn, Collecting, Resolving, Merging
<1>10. CASE Vacated # {}
  <2>1. job'.at = "drop" /\ job'.drop = Vacated
    BY <1>10 DEF Upsert, DeletesEmpty, Off
  <2>2. Written'
    BY <1>1, <1>6, <1>7, <1>8, <2>1 DEF Written
  <2> QED
    BY <2>1, <2>2 DEF Untorn, Collecting, Resolving, Merging
<1> QED
  BY <1>9, <1>10

LEMMA DropUntorn ==
    ASSUME DeletesEmpty, Untorn, Drop
    PROVE  Untorn'
<1> DEFINE empty == {c \in job.drop : Members(postings, c) = {}}
<1>1. /\ job.at = "drop" /\ DeleteClusters(empty)
      /\ IF empty = {} THEN job' = Between ELSE job' = [job EXCEPT !.at = "dropKeys", !.drop = empty]
  BY DEF Drop, At
<1>2. Written
  BY <1>1 DEF Untorn
<1>3. \A c \in empty : Members(postings, c) = {}
  OBVIOUS
<1>4. \A c \in DOMAIN clusters : Members(postings, c) = {} => c \in empty \cup spared
  BY <1>2 DEF Written
<1> HIDE DEF empty
<1>5. /\ DOMAIN postings' = DOMAIN postings
      /\ \A p \in DOMAIN postings : postings'[p] = postings[p]
      /\ \A c : Members(postings', c) = Members(postings, c)
      /\ DOMAIN clusters' = DOMAIN clusters \ empty
      /\ \A c \in DOMAIN clusters \ empty : clusters'[c] = clusters[c]
      /\ spared' = spared \ empty
  BY <1>1, <1>3, DeleteIs
<1>6. Clean'
  BY <1>2, <1>4, <1>5 DEF Clean, Written
<1>7. CASE empty = {}
  BY <1>1, <1>6, <1>7, Places DEF Untorn, Collecting, Resolving, Merging
<1>8. CASE empty # {}
  <2>1. job'.at = "dropKeys"
    BY <1>1, <1>8 DEF DeletesEmpty, Off
  <2> QED
    BY <1>6, <2>1 DEF Untorn, Collecting, Resolving, Merging
<1> QED
  BY <1>7, <1>8

LEMMA DropKeysUntorn ==
    ASSUME DeletesEmpty, Untorn, DropKeys
    PROVE  Untorn'
<1>1. job.at = "dropKeys" /\ UNCHANGED <<postings, clusters, spared>>
  BY DEF DropKeys, At
<1>2. job'.at = "between" /\ job'.got = << >> /\ job'.drop = {}
  BY DEF DropKeys, Between, Off
<1>3. Clean'
  BY <1>1 DEF Untorn, Clean, Members
<1> QED
  BY <1>2, <1>3 DEF Untorn, Collecting, Resolving, Merging

LEMMA NextSwept == SweptInv /\ [Next]_vars => SweptInv'
<1> SUFFICES ASSUME SweptInv, [Next]_vars PROVE torn' \/ Untorn'
  BY NextDeletesEmpty DEF SweptInv
<1>0. DeletesEmpty
  BY DEF SweptInv
<1>1. CASE torn
  <2>1. torn' = torn \/ torn'
    BY DEF Next, Work, Resolve, Merge, Take, Exit, Gc, Stage, MatchExact, MatchFuzzy, Adopt, Create,
       MergeKeys, MergePostings, MergeDelete, Attach, SetCanonical, Upsert, Drop, DropKeys, GcKeys,
       GcClusters, Reject, Fail, Kill, vars
  <2> QED
    BY <1>1, <2>1
<1>2. CASE ~torn
  <2>0. Untorn
    BY <1>2 DEF SweptInv
  <2>1. CASE UNCHANGED vars
    BY <2>0, <2>1 DEF vars, Untorn, Clean, Underway, Written, Members, Listed, ListedUnlinked, Unmoved,
       Awaited, Represented, InOrder, Picked, At
  <2>2. CASE (\E b \in Batches : Take(b)) \/ Exit \/ Gc \/ GcKeys \/ GcClusters
    BY <1>0, <2>0, <2>2, TakeUntorn, ExitUntorn, GcUntorn
  <2>3. CASE Stage \/ Resolve
    BY <1>0, <2>0, <2>3, StageUntorn, KeyUntorn, CreateUntorn, MovePostingsUntorn, MergeDeleteUntorn,
       SetCanonicalUntorn DEF Resolve, Merge
  <2>4. CASE Upsert \/ Drop \/ DropKeys
    BY <1>0, <2>0, <2>4, UpsertUntorn, DropUntorn, DropKeysUntorn
  <2>5. CASE Reject \/ Fail \/ Kill
    BY <2>5 DEF Reject, Fail, Kill
  <2> QED
    BY <2>1, <2>2, <2>3, <2>4, <2>5 DEF Next, Work
<1> QED
  BY <1>1, <1>2

\* Between batches that ran to their end every posting has an identity and
\* every cluster a canonical posting, and a cluster without a member is one
\* that a listing the batch repeated has left: Vacated names all the others.
THEOREM SweepsLeaveNothing == Spec => []SweptClean
<1>1. Init => SweptInv
  BY InitDeletesEmpty, InitUntorn DEF SweptInv
<1>2. SweptInv => SweptClean
  BY DEF SweptInv, Untorn, SweptClean, Clean, Busy
<1> QED
  BY <1>1, <1>2, NextSwept, PTL DEF Spec


-----------------------------------------------------------------------------
(* Requisitions stay apart.  t is the table of the postings, f that of the *)
(* keys, and S the clusters the next call leads vendors' listings to.      *)

Lasts(k) == k[1] \in {"url", "posting"}

\* A listing without the employer's own id finds the cluster, by a key that
\* no cluster adopts away or by any.
Lasting(f, c) == \E k \in DOMAIN f : f[k] = c /\ Lasts(k)

Open(f, c) == \E k \in DOMAIN f : f[k] = c /\ k[1] # "ats"

Shared(f, S, c) == Open(f, c) \/ c \in S

Holds(t, p, c) == p \in DOMAIN t /\ t[p] = c

Claimed(f, p, c) == <<"ats", p>> \in DOMAIN f /\ f[<<"ats", p>>] = c

Tied(t, f, p, c) == Holds(t, p, c) \/ Claimed(f, p, c)

NoVendor(t, c) == \A v \in Vendor : ~Holds(t, v, c)

Safe(f, c) == \A p \in Workday : Claimed(f, p, c) => Lasting(f, c)

NoTies(t, f, c) == \A p \in Workday : ~Tied(t, f, p, c)

\* The cluster a requisition has by its id has no other requisition.
ClaimsApart(t, f) ==
    \A p, q \in Workday : \A c \in Ids : Claimed(f, p, c) /\ p # q => ~Tied(t, f, q, c)

\* Of the clusters vendors' listings get to, one at most has requisitions.
OneMixed(t, f, S) ==
    \A c, d \in Ids : \A p, q \in Workday :
        c # d /\ Shared(f, S, c) /\ Shared(f, S, d) /\ Tied(t, f, p, c) /\ Tied(t, f, q, d) => p = q

\* A cluster a requisition has by its id is closed to vendors' listings, or
\* will always be open to them.
ClaimsLast(t, f, S) ==
    \A p \in Workday : \A c \in Ids :
        Claimed(f, p, c) => Lasting(f, c) \/ (~Shared(f, S, c) /\ NoVendor(t, c))

Separate(t, f, S) == ClaimsApart(t, f) /\ OneMixed(t, f, S) /\ ClaimsLast(t, f, S)

LEMMA LastingIsOpen ==
    ASSUME NEW f, NEW c, Lasting(f, c)
    PROVE  Open(f, c)
  BY DEF Lasting, Open, Lasts

\* What adds no tie of a requisition, takes no lasting key away and opens
\* only clusters without requisitions.
LEMMA SeparateStays ==
    ASSUME NEW t, NEW f, NEW S, NEW t2, NEW f2, NEW S2, Separate(t, f, S),
           \A p \in Workday : \A c \in Ids : Tied(t2, f2, p, c) => Tied(t, f, p, c),
           \A p \in Workday : \A c \in Ids :
               Claimed(f2, p, c) => Claimed(f, p, c) /\ (Lasting(f, c) => Lasting(f2, c)),
           \A c \in Ids : Shared(f2, S2, c) => Shared(f, S, c) \/ NoTies(t, f, c),
           \A v \in Vendor : \A c \in Ids : Holds(t2, v, c) => Holds(t, v, c) \/ Safe(f, c)
    PROVE  Separate(t2, f2, S2)
<1>1. ClaimsApart(t2, f2)
  BY DEF Separate, ClaimsApart
<1>2. OneMixed(t2, f2, S2)
  BY DEF Separate, OneMixed, NoTies
<1>3. ASSUME NEW p \in Workday, NEW c \in Ids, Claimed(f2, p, c), ~Lasting(f2, c)
      PROVE  ~Shared(f2, S2, c) /\ NoVendor(t2, c)
  <2>1. Claimed(f, p, c) /\ ~Lasting(f, c)
    BY <1>3
  <2>2. ~Shared(f, S, c) /\ NoVendor(t, c)
    BY <2>1 DEF Separate, ClaimsLast
  <2>3. ~Safe(f, c) /\ ~NoTies(t, f, c)
    BY <2>1 DEF Safe, NoTies, Tied
  <2> QED
    BY <2>2, <2>3 DEF NoVendor
<1> QED
  BY <1>1, <1>2, <1>3 DEF Separate, ClaimsLast

\* The first write of a merge: the keys of d lead to c.
LEMMA KeysMoved ==
    ASSUME NEW t, NEW f, NEW c \in Ids, NEW d \in Ids, NEW f2,
           c # d, Separate(t, f, {}), Lasting(f, c), Open(f, d) \/ NoTies(t, f, d),
           DOMAIN f2 = DOMAIN f, \A k \in DOMAIN f : f2[k] = IF f[k] = d THEN c ELSE f[k]
    PROVE  /\ Separate(t, f2, {d})
           /\ Lasting(f2, c)
           /\ \A e : e # d /\ Lasting(f, e) => Lasting(f2, e)
           /\ \A e : e # d /\ Open(f, e) => Open(f2, e)
           /\ \A e : Safe(f, e) => Safe(f2, e)
<1>2. \A p, e : Claimed(f2, p, e) => e # d /\ (Claimed(f, p, e) \/ (e = c /\ Claimed(f, p, d)))
  BY DEF Claimed
<1>3. \A e : e # d /\ Lasting(f, e) => Lasting(f2, e)
  BY DEF Lasting
<1>4. \A e : e # d /\ Open(f, e) => Open(f2, e)
  BY DEF Open
<1>5. Lasting(f2, c) /\ Open(f, c)
  BY <1>3, LastingIsOpen
<1>6. \A e : Open(f2, e) => e # d /\ Open(f, e)
  <2> SUFFICES ASSUME NEW e, Open(f2, e) PROVE e # d /\ Open(f, e)
    OBVIOUS
  <2>1. PICK k \in DOMAIN f : f2[k] = e /\ k[1] # "ats"
    BY DEF Open
  <2>2. CASE f[k] = d
    BY <1>5, <2>1, <2>2
  <2>3. CASE f[k] # d
    BY <2>1, <2>3 DEF Open
  <2> QED
    BY <2>2, <2>3
<1>7. \A e : Safe(f, e) => Safe(f2, e)
  BY <1>2, <1>3, <1>5 DEF Safe
<1>8. ASSUME NEW p \in Workday, NEW q \in Workday, NEW e \in Ids, Claimed(f2, p, e), Tied(t, f2, q, e)
      PROVE  p = q
  <2>1. CASE e # c
    BY <1>2, <1>8, <2>1 DEF Separate, ClaimsApart, Tied
  <2>2. CASE e = c
    <3>1. Tied(t, f, p, c) \/ Claimed(f, p, d)
      BY <1>2, <1>8, <2>2 DEF Tied
    <3>2. Tied(t, f, q, c) \/ Claimed(f, q, d)
      BY <1>2, <1>8, <2>2 DEF Tied
    <3>3. CASE Claimed(f, p, d) /\ Claimed(f, q, d)
      BY <3>3 DEF Separate, ClaimsApart, Tied
    <3>4. CASE Claimed(f, p, d) /\ Tied(t, f, q, c)
      <4>1. Tied(t, f, p, d) /\ Open(f, d)
        BY <3>4 DEF Tied, NoTies
      <4> QED
        BY <1>5, <3>4, <4>1 DEF Separate, OneMixed, Shared
    <3>5. CASE ~Claimed(f, p, d) /\ Claimed(f, q, d)
      <4>1. Tied(t, f, q, d) /\ Open(f, d) /\ Tied(t, f, p, c)
        BY <3>1, <3>5 DEF Tied, NoTies
      <4> QED
        BY <1>5, <4>1 DEF Separate, OneMixed, Shared
    <3>6. CASE ~Claimed(f, p, d) /\ ~Claimed(f, q, d)
      <4>1. Claimed(f, p, c) /\ Tied(t, f, q, c)
        BY <1>2, <1>8, <2>2, <3>2, <3>6
      <4> QED
        BY <4>1 DEF Separate, ClaimsApart
    <3> QED
      BY <3>1, <3>2, <3>3, <3>4, <3>5, <3>6
  <2> QED
    BY <2>1, <2>2
<1>9. ASSUME NEW e \in Ids, NEW p \in Workday, Shared(f2, {d}, e), Tied(t, f2, p, e)
      PROVE  \/ Open(f, e) /\ Tied(t, f, p, e)
             \/ e = c /\ Open(f, d) /\ Claimed(f, p, d)
  BY <1>9, <1>2, <1>6 DEF Shared, Tied, NoTies
<1>10. ASSUME NEW a \in Ids, NEW b \in Ids, NEW p \in Workday, NEW q \in Workday, a # b,
              Shared(f2, {d}, a), Shared(f2, {d}, b), Tied(t, f2, p, a), Tied(t, f2, q, b)
       PROVE  p = q
  <2>1. \/ Open(f, a) /\ Tied(t, f, p, a)
        \/ a = c /\ Open(f, d) /\ Claimed(f, p, d)
    BY <1>9, <1>10
  <2>2. \/ Open(f, b) /\ Tied(t, f, q, b)
        \/ b = c /\ Open(f, d) /\ Claimed(f, q, d)
    BY <1>9, <1>10
  <2>3. \A x, y \in Ids : x # y /\ Open(f, x) /\ Open(f, y) /\ Tied(t, f, p, x) /\ Tied(t, f, q, y) => p = q
    BY DEF Separate, OneMixed, Shared
  <2>4. \A x \in Ids : (Claimed(f, p, x) /\ Tied(t, f, q, x)) \/ (Claimed(f, q, x) /\ Tied(t, f, p, x)) => p = q
    BY DEF Separate, ClaimsApart
  <2>5. \A x : (Claimed(f, p, x) => Tied(t, f, p, x)) /\ (Claimed(f, q, x) => Tied(t, f, q, x))
    BY DEF Tied
  <2>6. CASE Open(f, a) /\ Tied(t, f, p, a) /\ Open(f, b) /\ Tied(t, f, q, b)
    BY <1>10, <2>3, <2>6
  <2>7. CASE a = c /\ Open(f, d) /\ Claimed(f, p, d) /\ Open(f, b) /\ Tied(t, f, q, b)
    <3>1. CASE b = d
      BY <2>4, <2>7, <3>1
    <3>2. CASE b # d
      BY <2>3, <2>5, <2>7, <3>2
    <3> QED
      BY <3>1, <3>2
  <2>8. CASE b = c /\ Open(f, d) /\ Claimed(f, q, d) /\ Open(f, a) /\ Tied(t, f, p, a)
    <3>1. CASE a = d
      BY <2>4, <2>8, <3>1
    <3>2. CASE a # d
      BY <2>3, <2>5, <2>8, <3>2
    <3> QED
      BY <3>1, <3>2
  <2> QED
    BY <1>10, <2>1, <2>2, <2>6, <2>7, <2>8
<1>11. ASSUME NEW p \in Workday, NEW e \in Ids, Claimed(f2, p, e), ~Lasting(f2, e)
       PROVE  ~Shared(f2, {d}, e) /\ NoVendor(t, e)
  <2>1. e # d /\ e # c /\ Claimed(f, p, e) /\ ~Lasting(f, e)
    BY <1>2, <1>3, <1>5, <1>11
  <2>2. ~Shared(f, {}, e) /\ NoVendor(t, e)
    BY <2>1 DEF Separate, ClaimsLast
  <2> QED
    BY <1>6, <2>1, <2>2 DEF Shared
<1>12. Separate(t, f2, {d})
  BY <1>8, <1>10, <1>11 DEF Separate, ClaimsApart, OneMixed, ClaimsLast
<1> QED
  BY <1>3, <1>4, <1>5, <1>7, <1>12

\* The second: the postings of d go to c.
LEMMA MembersMoved ==
    ASSUME NEW t, NEW f, NEW c \in Ids, NEW d \in Ids, NEW t2,
           c # d, None \notin Ids, Separate(t, f, {d}), Lasting(f, c), \A k \in DOMAIN f : f[k] # d,
           DOMAIN t2 = DOMAIN t, \A p \in DOMAIN t : t2[p] = IF t[p] = d THEN c ELSE t[p]
    PROVE  /\ Separate(t2, f, {})
           /\ \A p, q \in Workday : Holds(t, p, d) /\ Holds(t, q, c) => p = q
<1>1. Open(f, c) /\ ~Open(f, d) /\ \A p : ~Claimed(f, p, d)
  BY LastingIsOpen DEF Open, Claimed
<1>2. \A p, e : Holds(t2, p, e) => e # d /\ (Holds(t, p, e) \/ (e = c /\ Holds(t, p, d)))
  BY DEF Holds
<1>3. \A p, e : Tied(t2, f, p, e) => e # d /\ (Tied(t, f, p, e) \/ (e = c /\ Tied(t, f, p, d)))
  BY <1>1, <1>2 DEF Tied
<1>4. Shared(f, {d}, c) /\ Shared(f, {d}, d)
  BY <1>1 DEF Shared
<1>5. \A p, q \in Workday : Tied(t, f, p, d) /\ Tied(t, f, q, c) => p = q
  BY <1>4 DEF Separate, OneMixed
<1>6. ClaimsApart(t2, f)
  <2> SUFFICES ASSUME NEW p \in Workday, NEW q \in Workday, NEW e \in Ids, Claimed(f, p, e), Tied(t2, f, q, e)
               PROVE  p = q
    BY DEF ClaimsApart
  <2>1. Tied(t, f, p, e)
    BY DEF Tied
  <2>2. CASE Tied(t, f, q, e)
    BY <2>2 DEF Separate, ClaimsApart
  <2>3. CASE e = c /\ Tied(t, f, q, d)
    BY <1>5, <2>1, <2>3
  <2> QED
    BY <1>3, <2>2, <2>3
<1>7. OneMixed(t2, f, {})
  <2> SUFFICES ASSUME NEW a \in Ids, NEW b \in Ids, NEW p \in Workday, NEW q \in Workday, a # b,
                      Shared(f, {}, a), Shared(f, {}, b), Tied(t2, f, p, a), Tied(t2, f, q, b)
               PROVE  p = q
    BY DEF OneMixed
  <2>1. a # d /\ b # d /\ Shared(f, {d}, a) /\ Shared(f, {d}, b)
    BY <1>3 DEF Shared
  <2>2. \E x \in Ids : x \in {a, d} /\ Shared(f, {d}, x) /\ Tied(t, f, p, x) /\ (x = d => a = c)
    BY <1>3, <1>4, <2>1
  <2>3. \E y \in Ids : y \in {b, d} /\ Shared(f, {d}, y) /\ Tied(t, f, q, y) /\ (y = d => b = c)
    BY <1>3, <1>4, <2>1
  <2> QED
    BY <2>1, <2>2, <2>3 DEF Separate, OneMixed
<1>8. ClaimsLast(t2, f, {})
  <2> SUFFICES ASSUME NEW p \in Workday, NEW e \in Ids, Claimed(f, p, e), ~Lasting(f, e)
               PROVE  ~Shared(f, {}, e) /\ NoVendor(t2, e)
    BY DEF ClaimsLast
  <2>1. e # c /\ ~Shared(f, {d}, e) /\ NoVendor(t, e)
    BY DEF Separate, ClaimsLast
  <2> QED
    BY <1>2, <2>1 DEF Shared, NoVendor
<1> QED
  BY <1>5, <1>6, <1>7, <1>8 DEF Separate, Tied

\* A requisition gets its key.
LEMMA ClaimAdded ==
    ASSUME NEW t, NEW f, NEW r \in Workday, NEW c \in Ids, NEW f2, Separate(t, f, {}),
           \A q \in Workday \ {r} : ~Tied(t, f, q, c),
           Tied(t, f, r, c) \/ ~Open(f, c),
           Lasting(f, c) \/ (~Open(f, c) /\ NoVendor(t, c)),
           DOMAIN f2 = DOMAIN f \cup {<<"ats", r>>},
           f2[<<"ats", r>>] = c,
           \A k \in DOMAIN f : f2[k] = f[k]
    PROVE  Separate(t, f2, {})
<1>1. \A p, e : Claimed(f2, p, e) => Claimed(f, p, e) \/ (p = r /\ e = c)
  BY DEF Claimed
<1>2. \A e : Lasting(f, e) => Lasting(f2, e)
  BY DEF Lasting
<1>3. \A e : Open(f2, e) => Open(f, e)
  BY DEF Open
<1>4. \A p, e : Tied(t, f2, p, e) => Tied(t, f, p, e) \/ (p = r /\ e = c)
  BY <1>1 DEF Tied
<1>5. ClaimsApart(t, f2)
  <2> SUFFICES ASSUME NEW p \in Workday, NEW q \in Workday, NEW e \in Ids, p # q,
                      Claimed(f2, p, e), Tied(t, f2, q, e)
               PROVE  FALSE
    BY DEF ClaimsApart
  <2>1. CASE p = r /\ e = c
    BY <1>4, <2>1
  <2>2. CASE q = r /\ e = c
    <3>1. Claimed(f, p, c)
      BY <1>1, <2>2
    <3> QED
      BY <2>2, <3>1 DEF Tied
  <2>3. CASE Claimed(f, p, e) /\ Tied(t, f, q, e)
    BY <2>3 DEF Separate, ClaimsApart
  <2> QED
    BY <1>1, <1>4, <2>1, <2>2, <2>3
<1>6. OneMixed(t, f2, {})
  <2>1. \A p \in Workday : \A e \in Ids : Shared(f2, {}, e) /\ Tied(t, f2, p, e)
            => Shared(f, {}, e) /\ Tied(t, f, p, e)
    BY <1>3, <1>4 DEF Shared
  <2> QED
    BY <2>1 DEF OneMixed, Separate
<1>7. ClaimsLast(t, f2, {})
  BY <1>1, <1>2, <1>3 DEF ClaimsLast, Separate, Shared
<1> QED
  BY <1>5, <1>6, <1>7 DEF Separate

-----------------------------------------------------------------------------
(* The state keeps them so.                                                *)

\* What the call that comes next leads vendors' listings to.
Pending ==
    IF At("attach") /\ job.kind = "vendor" THEN {job.pick}
    ELSE IF At("mergePostings") THEN {job.absorbed}
    ELSE {}

Apart == Separate(postings, keys, Pending)

Tables ==
    /\ DOMAIN postings \subseteq Postings
    /\ \A p \in DOMAIN postings : postings[p] \in DOMAIN clusters \cup {None}
    /\ \A k \in DOMAIN keys : keys[k] \in DOMAIN clusters
    /\ \A k \in DOMAIN keys : k # None /\ k[1] \in {"ats", "url", "posting", "fuzzy"}

\* A merge changes the table before the cache.
Repointed == {"mergePostings", "mergeDelete"}

Now(c) == IF job.at \in Repointed /\ c = job.absorbed THEN job.pick ELSE c

\* What the process remembers of the keys agrees with the table.
Remembered ==
    \A k \in DOMAIN job.cache :
        /\ k # None /\ job.cache[k] \in Ids
        /\ k \in DOMAIN keys => keys[k] = Now(job.cache[k])

\* It may be the keys of a cluster that is gone.
RememberedIds ==
    job.kind = "workday" =>
        \A k \in DOMAIN job.cache :
            /\ k[1] = "ats"
            /\ job.cache[k] \in DOMAIN clusters => k \in DOMAIN keys

RememberedFinds ==
    job.kind = "vendor" =>
        \A k \in DOMAIN job.cache :
            /\ k[1] \in {"url", "posting", "fuzzy"}
            /\ job.cache[k] \in DOMAIN clusters /\ ~(job.at \in Repointed /\ job.cache[k] = job.absorbed) =>
                  /\ Lasts(k) => Lasting(keys, job.cache[k])
                  /\ Open(keys, job.cache[k])

\* A batch is one of vendors' listings or one of an employer's.
Read ==
    /\ job.at \in {"off", "between", "stage"} => job.got = << >>
    /\ job.at \in {"off"} \cup Collecting => job.cache = << >>
    /\ job.at \in {"stage"} \cup Resolving =>
          /\ job.rows \in Batches
          /\ job.kind \in {"workday", "vendor"}
          /\ \A i \in DOMAIN job.rows : job.rows[i].id \in Workday <=> job.kind = "workday"

Staged ==
    job.at \in Resolving =>
        /\ job.got \in Seq(Ids)
        /\ IF At("upsert") THEN Len(job.got) = Len(job.rows) ELSE Len(job.got) < Len(job.rows)
        /\ DOMAIN job.was = DOMAIN postings
        /\ \A i \in DOMAIN job.rows : job.rows[i].id \in DOMAIN postings
        /\ \A p \in DOMAIN job.was : job.was[p] \in Ids \cup {None}

RowKeys == KeysOf(Row) \cap DOMAIN keys

\* The cluster of the row, and the one a merge ends.
Chosen ==
    /\ job.at \in Merging \cup {"attach", "canonical"} => job.pick \in Ids
    /\ job.at \in {"attach"} \cup Repointed => \A k \in RowKeys : keys[k] = job.pick
    /\ At("canonical") =>
          IF job.kind = "workday" THEN Claimed(keys, Row.id, job.pick) ELSE Safe(keys, job.pick)

Joining ==
    /\ job.at \in Merging =>
          /\ job.kind = "vendor" /\ job.absorbed \in Ids
          /\ job.pick \in DOMAIN clusters => Lasting(keys, job.pick)
    /\ At("mergeKeys") =>
          /\ job.absorbed \in DOMAIN clusters => Open(keys, job.absorbed)
          /\ \A k \in RowKeys : keys[k] \in {job.pick, job.absorbed}
    /\ job.at \in Repointed =>
          /\ job.pick \in DOMAIN clusters
          /\ \A k \in DOMAIN keys : keys[k] # job.absorbed

\* The cluster of an employer's row can be its own.
Own(c) ==
    /\ \A q \in Workday \ {Row.id} : ~Tied(postings, keys, q, c)
    /\ Tied(postings, keys, Row.id, c) \/ ~Open(keys, c)
    /\ Lasting(keys, c) \/ (~Open(keys, c) /\ NoVendor(postings, c))

WorkdayRun ==
    job.kind = "workday" /\ job.at \in Resolving =>
        /\ job.was = postings
        /\ \A i \in DOMAIN job.got : Claimed(keys, job.rows[i].id, job.got[i])
        /\ At("attach") /\ job.pick \in DOMAIN clusters => Own(job.pick)

\* Postings are where they were, but for those that were merged away.
Kept(p) ==
    /\ job.was[p] \in DOMAIN clusters /\ ~(At("mergeDelete") /\ job.was[p] = job.absorbed)
          => postings[p] = job.was[p]
    /\ p \in Workday /\ postings[p] # None =>
          \/ postings[p] = job.was[p]
          \/ Lasting(keys, postings[p])
          \/ At("mergePostings") /\ postings[p] = job.absorbed

VendorRun ==
    job.kind = "vendor" /\ job.at \in Resolving =>
        /\ \A p \in DOMAIN postings : Kept(p)
        /\ \A i \in DOMAIN job.got : Safe(keys, job.got[i])

ApartInv ==
    /\ DeletesEmpty /\ Tables /\ Apart
    /\ Remembered /\ RememberedIds /\ RememberedFinds
    /\ Read /\ Staged /\ Chosen /\ Joining /\ WorkdayRun /\ VendorRun

LEMMA KeysOfIs ==
    ASSUME NEW l \in Listings
    PROVE  /\ \A k \in KeysOf(l) : k # None /\ (k = IdentityKeys(l)[1] \/ k = IdentityKeys(l)[2])
           /\ IdentityKeys(l)[1] # None => IdentityKeys(l)[1] \in KeysOf(l)
           /\ IdentityKeys(l)[2] # None => IdentityKeys(l)[2] \in KeysOf(l)
           /\ l.id \in Workday =>
                 /\ KeysOf(l) = {<<"ats", l.id>>}
                 /\ IdentityKeys(l)[1] = <<"ats", l.id>> /\ IdentityKeys(l)[2] = None
           /\ l.id \notin Workday =>
                 /\ KeysOf(l) # {}
                 /\ \A k \in KeysOf(l) : k[1] \in {"url", "posting", "fuzzy"}
                 /\ IdentityKeys(l)[1] # None => Lasts(IdentityKeys(l)[1])
<1>1. l.id \in Postings /\ l.ats \in Boards \cup {None} /\ l.title \in Titles \cup {None}
  BY DEF Listings
<1>2. \A tag \in {"ats", "url", "fuzzy", "posting"} : \A x \in Postings \cup Boards \cup Titles : <<tag, x>> # None
  BY TableAssumption
<1>3. KeysOf(l) = {IdentityKeys(l)[1], IdentityKeys(l)[2]} \ {None}
  BY DEF KeysOf
<1>4. CASE l.id \in Workday
  <2>1. IdentityKeys(l) = <<<<"ats", l.id>>, None>>
    BY <1>4 DEF IdentityKeys
  <2>2. <<"ats", l.id>> # None
    BY <1>1, <1>2
  <2> QED
    BY <1>3, <1>4, <2>1, <2>2
<1>5. CASE l.id \notin Workday
  <2> DEFINE first == IF l.ats # None THEN <<"url", l.ats>> ELSE None
             second == IF l.title # None THEN <<"fuzzy", l.title>>
                       ELSE IF l.ats = None THEN <<"posting", l.id>> ELSE None
  <2>1. IdentityKeys(l) = <<first, second>>
    BY <1>5 DEF IdentityKeys
  <2>2. first # None => first[1] = "url" /\ l.ats # None
    OBVIOUS
  <2>3. second # None => second[1] \in {"fuzzy", "posting"}
    OBVIOUS
  <2>4. l.ats # None => first # None
    BY <1>1, <1>2
  <2>5. l.ats = None => second # None
    BY <1>1, <1>2
  <2> HIDE DEF first, second
  <2> QED
    BY <1>3, <1>5, <2>1, <2>2, <2>3, <2>4, <2>5 DEF Lasts
<1> QED
  BY <1>4, <1>5

LEMMA InitApart == Init => ApartInv
<1> SUFFICES ASSUME Init PROVE ApartInv
  OBVIOUS
<1>1. job = Off /\ job.at = "off" /\ job.kind = None /\ job.cache = << >> /\ job.got = << >>
  BY DEF Init, Off
<1>2. DOMAIN << >> = {}
  OBVIOUS
<1>3. /\ \A k \in DOMAIN keys : k = LegacyKey /\ keys[k] = 1 /\ 1 \in DOMAIN clusters
      /\ \A p \in DOMAIN postings : p \in Workday /\ postings[p] = 1 /\ 1 \in DOMAIN clusters
  <2>1. postings = [p \in Legacy |-> 1]
    BY DEF Init
  <2>2. CASE Legacy = {}
    BY <1>2, <2>1, <2>2 DEF Init
  <2>3. CASE Legacy # {}
    BY <2>1, <2>3, PostingAssumption DEF Init
  <2> QED
    BY <2>2, <2>3
<1>4. LegacyKey # None /\ LegacyKey[1] = "fuzzy"
  BY PostingAssumption, TableAssumption
<1>5. Tables
  BY <1>3, <1>4 DEF Tables, Postings
<1>6. Pending = {}
  BY <1>1 DEF Pending, At
<1>7. \A p, c : ~Claimed(keys, p, c)
  BY <1>3, <1>4 DEF Claimed
<1>8. \A c : Shared(keys, {}, c) => c = 1
  BY <1>3 DEF Shared, Open
<1>9. Apart
  BY <1>6, <1>7, <1>8 DEF Apart, Separate, ClaimsApart, OneMixed, ClaimsLast
<1> QED
  BY <1>1, <1>2, <1>5, <1>9, InitDeletesEmpty DEF ApartInv, Remembered, RememberedIds, RememberedFinds, Read,
     Staged, Chosen, Joining, WorkdayRun, VendorRun, At, Merging, Resolving, Repointed

\* Outside the resolution of a batch little is to be known.
LEMMA QuietApart ==
    ASSUME DeletesEmpty', Tables', Separate(postings, keys, {})', Remembered', RememberedIds', RememberedFinds', Read',
           job'.at \in {"off", "between", "drop", "dropKeys", "stage"} \cup Collecting
    PROVE  ApartInv'
<1>1. /\ job'.at \notin Resolving /\ job'.at \notin Merging /\ job'.at \notin Repointed
      /\ job'.at \notin {"attach", "canonical", "mergeKeys", "mergePostings"}
  BY DEF Resolving, Merging, Repointed, Collecting
<1>2. Pending' = {}
  BY <1>1 DEF Pending, At
<1>3. Apart'
  BY <1>2 DEF Apart
<1>4. Staged' /\ WorkdayRun' /\ VendorRun'
  BY <1>1 DEF Staged, WorkdayRun, VendorRun
<1>5. Chosen' /\ Joining'
  BY <1>1 DEF Chosen, Joining, At
<1> QED
  BY <1>3, <1>4, <1>5 DEF ApartInv

\* The end of a batch, regular or not, leaves the tables.
LEMMA EndApart ==
    ASSUME ApartInv, DeletesEmpty', Exit \/ Reject \/ Fail \/ Kill
    PROVE  ApartInv'
<1>1. UNCHANGED <<postings, clusters, keys>>
  BY DEF Exit, Reject, Fail, Kill
<1>2. job' = Off \/ (job' = Between /\ job.at \notin Merging)
  <2>1. CASE Exit \/ Kill
    BY <2>1 DEF Exit, Kill
  <2>2. CASE Reject \/ Fail
    <3>1. job' = Broken \/ (job' = Between /\ (At("drop") \/ At("dropKeys")))
      BY <2>2 DEF Reject, Fail
    <3>2. job.kind = "workday" => job.at \notin Merging
      BY DEF ApartInv, Joining
    <3> QED
      BY <3>1, <3>2 DEF Broken, At, Merging
  <2> QED
    BY <2>1, <2>2
<1>3. /\ Off.at = "off" /\ Off.cache = << >> /\ Off.got = << >> /\ Off.kind = None /\ DOMAIN << >> = {}
      /\ Between.at = "between" /\ Between.cache = job.cache /\ Between.got = << >> /\ Between.kind = job.kind
  BY DEF Off, Between
<1>4. Separate(postings, keys, {})
  <2>1. Separate(postings, keys, Pending)
    BY DEF ApartInv, Apart
  <2> QED
    BY <2>1, SeparateStays DEF Shared
<1>5. Tables' /\ Separate(postings, keys, {})'
  BY <1>1, <1>4 DEF ApartInv, Tables
<1>6. CASE job' = Off
  <2>1. Remembered' /\ RememberedIds' /\ RememberedFinds' /\ Read'
    BY <1>3, <1>6 DEF Remembered, RememberedIds, RememberedFinds, Read, Resolving, Merging, Collecting
  <2> QED
    BY <1>3, <1>5, <1>6, <2>1, QuietApart
<1>7. CASE job' = Between /\ job.at \notin Merging
  <2>1. job.at \notin Repointed /\ job'.at \notin Repointed
    BY <1>3, <1>7 DEF Repointed, Merging
  <2>2. Remembered' /\ RememberedIds' /\ RememberedFinds'
    BY <1>1, <1>3, <1>7, <2>1 DEF ApartInv, Remembered, RememberedIds, RememberedFinds, Now
  <2>3. Read'
    BY <1>3, <1>7 DEF Read, Resolving, Merging, Collecting
  <2> QED
    BY <1>3, <1>5, <1>7, <2>2, <2>3, QuietApart
<1> QED
  BY <1>2, <1>6, <1>7

LEMMA TakeApart ==
    ASSUME ApartInv, DeletesEmpty', NEW b \in Batches, Take(b)
    PROVE  ApartInv'
<1> DEFINE kind == IF b[1].id \in Workday THEN "workday" ELSE "vendor"
<1>1. UNCHANGED <<postings, clusters, keys>>
  BY DEF Take
<1>2. /\ job.at = "off" \/ (job.at = "between" /\ job.kind = kind)
      /\ job'.at = "stage" /\ job'.kind = kind /\ job'.rows = b
      /\ job'.cache = job.cache /\ job'.got = job.got
  BY DEF Take, ApartInv, DeletesEmpty, Off, At
<1>3. job.at \notin Repointed /\ job'.at \notin Repointed
  BY <1>2 DEF Repointed
<1>4. Separate(postings, keys, {})'
  <2>1. Pending = {}
    BY <1>2 DEF Pending, At
  <2> QED
    BY <1>1, <2>1 DEF ApartInv, Apart
<1>5. Tables' /\ Remembered'
  BY <1>1, <1>2, <1>3 DEF ApartInv, Tables, Remembered, Now
<1>6. job.at = "off" => DOMAIN job.cache = {}
  <2>1. DOMAIN << >> = {}
    OBVIOUS
  <2> QED
    BY <2>1 DEF ApartInv, Read
<1>7. RememberedIds' /\ RememberedFinds'
  <2>1. CASE job.at = "off"
    BY <1>2, <1>6, <2>1 DEF RememberedIds, RememberedFinds
  <2>2. CASE job.at = "between" /\ job.kind = kind
    BY <1>1, <1>2, <1>3, <2>2 DEF ApartInv, RememberedIds, RememberedFinds
  <2> QED
    BY <1>2, <2>1, <2>2
<1>8. \A i \in DOMAIN b : b[i].id \in Workday <=> kind = "workday"
  <2>1. b \in Seq(Listings) /\ b # << >>
    BY PostingAssumption
  <2>2. 1 \in DOMAIN b
    BY <2>1
  <2> QED
    BY <2>2, PostingAssumption
<1>9. Read'
  BY <1>2, <1>8 DEF ApartInv, Read, Collecting, Resolving, Merging
<1> QED
  BY <1>2, <1>4, <1>5, <1>7, <1>9, QuietApart

\* New postings have no identity.
LEMMA StageApart ==
    ASSUME ApartInv, DeletesEmpty', Stage
    PROVE  ApartInv'
<1> DEFINE ids == {job.rows[i].id : i \in DOMAIN job.rows}
           unlinked == [p \in ids |-> None]
<1>1. UNCHANGED <<clusters, keys>> /\ postings' = Put(postings, unlinked)
  BY DEF Stage
<1>2. /\ job.at = "stage" /\ job'.at = "resolve" /\ job'.was = postings' /\ job'.rows = job.rows
      /\ job'.kind = job.kind /\ job'.cache = job.cache /\ job'.got = job.got
  BY DEF Stage, ApartInv, DeletesEmpty, Off, At
<1>3. /\ DOMAIN postings' = DOMAIN postings \cup ids
      /\ \A p \in DOMAIN postings : postings'[p] = postings[p]
      /\ \A p \in ids \ DOMAIN postings : postings'[p] = None
  <2>1. DOMAIN unlinked = ids /\ \A p \in ids : unlinked[p] = None
    OBVIOUS
  <2> HIDE DEF unlinked, ids
  <2> QED
    BY <1>1, <2>1 DEF Put
<1>4. /\ job.rows \in Batches /\ job.got = << >> /\ job.kind \in {"workday", "vendor"}
      /\ \A i \in DOMAIN job.rows : job.rows[i].id \in Workday <=> job.kind = "workday"
  BY <1>2 DEF ApartInv, Read
<1>5. job.rows \in Seq(Listings) /\ job.rows # << >>
  BY <1>4, PostingAssumption
<1>6. \A p \in ids : p \in Postings
  <2>1. \A i \in DOMAIN job.rows : job.rows[i] \in Listings
    BY <1>5
  <2> QED
    BY <2>1 DEF Listings
<1>7. Tables'
  BY <1>1, <1>3, <1>6 DEF ApartInv, Tables
<1>8. Pending = {} /\ Pending' = {}
  BY <1>2 DEF Pending, At
<1>9. Apart'
  <2>1. \A p : \A c \in Ids : Holds(postings', p, c) => Holds(postings, p, c)
    BY <1>3, PostingAssumption DEF Holds
  <2>2. Separate(postings, keys, {})
    BY <1>8 DEF ApartInv, Apart
  <2>3. Separate(postings', keys, {})
    BY <2>1, <2>2, SeparateStays DEF Tied, Shared
  <2> QED
    BY <1>1, <1>8, <2>3 DEF Apart
<1>10. job.at \notin Repointed /\ job'.at \notin Repointed
  BY <1>2 DEF Repointed
<1>11. Remembered' /\ RememberedIds' /\ RememberedFinds'
  BY <1>1, <1>2, <1>10 DEF ApartInv, Remembered, RememberedIds, RememberedFinds, Now
<1>12. Read'
  BY <1>2, <1>4 DEF Read, Collecting
<1>13. Staged'
  <2>1. << >> \in Seq(Ids) /\ Len(<< >>) < Len(job.rows)
    BY <1>5
  <2>2. \A p \in DOMAIN postings' : postings'[p] \in Ids \cup {None}
    BY <1>7 DEF Tables, DeletesEmpty
  <2> QED
    BY <1>2, <1>3, <1>4, <2>1, <2>2 DEF Staged, At
<1>14. Chosen' /\ Joining'
  BY <1>2, <1>10 DEF Chosen, Joining, At, Merging
<1>15. WorkdayRun'
  BY <1>2, <1>4 DEF WorkdayRun, At
<1>16. VendorRun'
  BY <1>2, <1>4 DEF VendorRun, Kept, At
<1> QED
  BY <1>7, <1>9, <1>11, <1>12, <1>13, <1>14, <1>15, <1>16 DEF ApartInv

-----------------------------------------------------------------------------
(* The steps of the resolution.                                            *)

Rowwise == Resolving \ {"upsert"}

LEMMA RowIs ==
    ASSUME ApartInv, job.at \in Rowwise
    PROVE  /\ Row \in Listings /\ Row.id \in DOMAIN postings /\ Row.id \in Postings
           /\ Row.id \in Workday <=> job.kind = "workday"
           /\ job.kind \in {"workday", "vendor"}
           /\ Len(job.got) \in Nat /\ Len(job.got) < Len(job.rows) /\ Row = job.rows[Len(job.got) + 1]
           /\ DOMAIN job.got = 1 .. Len(job.got)
<1>1. /\ job.rows \in Batches /\ job.kind \in {"workday", "vendor"}
      /\ \A i \in DOMAIN job.rows : job.rows[i].id \in Workday <=> job.kind = "workday"
  BY DEF ApartInv, Read, Rowwise
<1>2. /\ job.got \in Seq(Ids) /\ Len(job.got) < Len(job.rows)
      /\ \A i \in DOMAIN job.rows : job.rows[i].id \in DOMAIN postings
  BY DEF ApartInv, Staged, Rowwise, At
<1>3. job.rows \in Seq(Listings)
  BY <1>1, PostingAssumption
<1>4. /\ Len(job.got) \in Nat /\ DOMAIN job.got = 1 .. Len(job.got)
      /\ Len(job.got) + 1 \in DOMAIN job.rows
  BY <1>2, <1>3
<1>5. Row = job.rows[Len(job.got) + 1] /\ Row \in Listings
  BY <1>3, <1>4 DEF Row
<1>6. Row.id \in DOMAIN postings
  BY <1>2, <1>4, <1>5
<1> QED
  BY <1>1, <1>2, <1>4, <1>5, <1>6 DEF ApartInv, Tables

\* What is said of the rows stays true from step to step of one row.
LEMMA BatchKept ==
    ASSUME ApartInv, job.at \in Rowwise, job'.at \in Rowwise, DOMAIN postings' = DOMAIN postings,
           job'.rows = job.rows, job'.kind = job.kind, job'.was = job.was, job'.got = job.got
    PROVE  Read' /\ Staged' /\ Row' = Row
<1>1. job'.at \notin {"off", "between", "stage", "upsert"} \cup Collecting /\ job.at # "upsert"
  BY DEF Rowwise, Resolving, Merging, Collecting
<1>2. job.at \in Resolving
  BY DEF Rowwise
<1>3. Read'
  BY <1>1, <1>2 DEF ApartInv, Read
<1>4. Staged'
  BY <1>1, <1>2 DEF ApartInv, Staged, At
<1> QED
  BY <1>3, <1>4 DEF Row

LEMMA FindIs ==
    ASSUME ApartInv, At("resolve"), NEW k
    PROVE  /\ Find(k) = None => k \notin DOMAIN keys /\ k \notin DOMAIN job.cache
           /\ Find(k) # None =>
                 /\ Find(k) \in Ids
                 /\ k \in DOMAIN keys => keys[k] = Find(k)
                 /\ job.kind = "workday" /\ Find(k) \in DOMAIN clusters => k \in DOMAIN keys
                 /\ job.kind = "vendor" /\ k[1] # "ats" /\ Find(k) \in DOMAIN clusters =>
                       Open(keys, Find(k)) /\ (Lasts(k) => Lasting(keys, Find(k)))
<1>1. job.at \notin Repointed
  BY DEF At, Repointed
<1>2. CASE k \in DOMAIN job.cache
  <2>1. Find(k) = job.cache[k] /\ job.cache[k] \in Ids /\ job.cache[k] # None
    BY <1>2, PostingAssumption DEF Find, ApartInv, Remembered
  <2>2. k \in DOMAIN keys => keys[k] = job.cache[k]
    BY <1>1, <1>2 DEF ApartInv, Remembered, Now
  <2>3. job.kind = "workday" /\ job.cache[k] \in DOMAIN clusters => k \in DOMAIN keys
    BY <1>2 DEF ApartInv, RememberedIds
  <2>4. job.kind = "vendor" /\ job.cache[k] \in DOMAIN clusters =>
            Open(keys, job.cache[k]) /\ (Lasts(k) => Lasting(keys, job.cache[k]))
    BY <1>1, <1>2 DEF ApartInv, RememberedFinds
  <2> QED
    BY <2>1, <2>2, <2>3, <2>4
<1>3. CASE k \notin DOMAIN job.cache /\ k \in DOMAIN keys
  <2>1. Find(k) = keys[k] /\ keys[k] \in DOMAIN clusters /\ keys[k] \in Ids /\ keys[k] # None
    BY <1>3, PostingAssumption DEF Find, ApartInv, Tables, DeletesEmpty
  <2>2. k[1] # "ats" => Open(keys, keys[k])
    BY <1>3 DEF Open
  <2>3. Lasts(k) => Lasting(keys, keys[k])
    BY <1>3 DEF Lasting
  <2> QED
    BY <1>3, <2>1, <2>2, <2>3
<1>4. CASE k \notin DOMAIN job.cache /\ k \notin DOMAIN keys
  BY <1>4 DEF Find
<1> QED
  BY <1>2, <1>3, <1>4

\* A cluster that is gone has no postings and no keys.
LEMMA GoneNoTies ==
    ASSUME Tables, NEW c \in Ids, c \notin DOMAIN clusters
    PROVE  NoTies(postings, keys, c)
  BY PostingAssumption DEF Tables, NoTies, Tied, Holds, Claimed

\* What is looked up is remembered.
LEMMA LookedKept ==
    ASSUME ApartInv, At("resolve"), UNCHANGED <<clusters, keys>>, job'.at \notin Repointed,
           job'.cache = Looked, job'.kind = job.kind
    PROVE  Remembered' /\ RememberedIds' /\ RememberedFinds'
<1>1. job.at \notin Repointed /\ job.at \in Rowwise
  BY DEF At, Repointed, Rowwise, Resolving
<1> DEFINE looked == [k \in KeysOf(Row) \cap DOMAIN keys |-> keys[k]]
<1>2. /\ DOMAIN Looked = DOMAIN job.cache \cup (KeysOf(Row) \cap DOMAIN keys)
      /\ \A k \in DOMAIN job.cache : Looked[k] = job.cache[k]
      /\ \A k \in KeysOf(Row) \cap DOMAIN keys : k \notin DOMAIN job.cache => Looked[k] = keys[k]
  <2>1. Looked = Put(job.cache, looked)
    BY DEF Looked
  <2>2. DOMAIN looked = KeysOf(Row) \cap DOMAIN keys /\ \A k \in KeysOf(Row) \cap DOMAIN keys : looked[k] = keys[k]
    OBVIOUS
  <2> HIDE DEF looked
  <2> QED
    BY <2>1, <2>2 DEF Put
<1> HIDE DEF looked
<1>3. Row \in Listings /\ (Row.id \in Workday <=> job.kind = "workday")
  BY <1>1, RowIs
<1>4. \A k \in KeysOf(Row) : k # None
  BY <1>3, KeysOfIs
<1>5. \A k \in DOMAIN keys : keys[k] \in DOMAIN clusters /\ keys[k] \in Ids
  BY DEF ApartInv, Tables, DeletesEmpty
<1>6. Remembered'
  <2> SUFFICES ASSUME NEW k \in DOMAIN Looked
               PROVE  k # None /\ Looked[k] \in Ids /\ (k \in DOMAIN keys => keys[k] = Looked[k])
    BY DEF Remembered, Now
  <2>1. CASE k \in DOMAIN job.cache
    BY <1>1, <1>2, <2>1 DEF ApartInv, Remembered, Now
  <2>2. CASE k \notin DOMAIN job.cache
    BY <1>2, <1>4, <1>5, <2>2
  <2> QED
    BY <2>1, <2>2
<1>7. RememberedIds'
  <2> SUFFICES ASSUME job.kind = "workday", NEW k \in DOMAIN Looked
               PROVE  k[1] = "ats" /\ (Looked[k] \in DOMAIN clusters => k \in DOMAIN keys)
    BY DEF RememberedIds
  <2>1. CASE k \in DOMAIN job.cache
    BY <1>2, <2>1 DEF ApartInv, RememberedIds
  <2>2. CASE k \notin DOMAIN job.cache
    <3>1. k \in KeysOf(Row) /\ k \in DOMAIN keys
      BY <1>2, <2>2
    <3>2. k = <<"ats", Row.id>>
      BY <1>3, <3>1, KeysOfIs
    <3> QED
      BY <3>1, <3>2
  <2> QED
    BY <2>1, <2>2
<1>8. RememberedFinds'
  <2> SUFFICES ASSUME job.kind = "vendor", NEW k \in DOMAIN Looked
               PROVE  /\ k[1] \in {"url", "posting", "fuzzy"}
                      /\ Looked[k] \in DOMAIN clusters =>
                            (Lasts(k) => Lasting(keys, Looked[k])) /\ Open(keys, Looked[k])
    BY DEF RememberedFinds
  <2>1. CASE k \in DOMAIN job.cache
    BY <1>1, <1>2, <2>1 DEF ApartInv, RememberedFinds
  <2>2. CASE k \notin DOMAIN job.cache
    <3>1. k \in KeysOf(Row) /\ k \in DOMAIN keys /\ Looked[k] = keys[k]
      BY <1>2, <2>2
    <3>2. k[1] \in {"url", "posting", "fuzzy"}
      BY <1>3, <3>1, KeysOfIs
    <3> QED
      BY <3>1, <3>2 DEF Lasting, Open
  <2> QED
    BY <2>1, <2>2
<1> QED
  BY <1>6, <1>7, <1>8

\* A row that leads to one cluster, or to two that are merged.
LEMMA MatchApart ==
    ASSUME ApartInv, DeletesEmpty', MatchExact \/ MatchFuzzy
    PROVE  ApartInv'
<1> DEFINE first == IdentityKeys(Row)[1]
           second == IdentityKeys(Row)[2]
<1>1. At("resolve") /\ job.at = "resolve" /\ UNCHANGED <<postings, clusters, keys>>
  BY DEF MatchExact, MatchFuzzy, At
<1>2. job.at \in Rowwise /\ job.at \in Resolving /\ job.at \notin Repointed
  BY <1>1 DEF Rowwise, Resolving, Repointed
<1>3. /\ Row \in Listings /\ (Row.id \in Workday <=> job.kind = "workday")
      /\ job.kind \in {"workday", "vendor"}
  BY <1>2, RowIs
<1>4. ExactHit = Find(first) /\ FuzzyHit = Find(second)
  BY DEF ExactHit, FuzzyHit
<1>5. Find(None) = None
  BY DEF Find, ApartInv, Remembered, Tables
<1>6. /\ job'.cache = Looked /\ job'.rows = job.rows /\ job'.kind = job.kind
      /\ job'.was = job.was /\ job'.got = job.got
      /\ job'.at \in {"attach", "mergeKeys"}
      /\ job'.pick = IF ExactHit # None THEN ExactHit ELSE FuzzyHit
      /\ job'.pick # None
      /\ job'.at = "attach" /\ ExactHit # None => FuzzyHit \in {None, ExactHit}
      /\ job'.at = "mergeKeys" => ExactHit # None /\ FuzzyHit # None /\ job'.absorbed = FuzzyHit
  BY DEF MatchExact, MatchFuzzy, ApartInv, DeletesEmpty, Off
<1>7. job'.at \in Rowwise /\ job'.at \in Resolving /\ job'.at \notin Repointed
  BY <1>6 DEF Rowwise, Resolving, Merging, Repointed
<1>8. Read' /\ Staged' /\ Row' = Row
  BY <1>1, <1>2, <1>6, <1>7, BatchKept
<1>9. Remembered' /\ RememberedIds' /\ RememberedFinds'
  BY <1>1, <1>6, <1>7, LookedKept
<1>10. Tables'
  BY <1>1 DEF ApartInv, Tables
<1>11. \A k \in KeysOf(Row) : k = first \/ k = second
  BY <1>3, KeysOfIs
<1>12. ExactHit # None =>
           /\ first # None /\ first \in KeysOf(Row)
           /\ ExactHit \in Ids
           /\ first \in DOMAIN keys => keys[first] = ExactHit
           /\ job.kind = "workday" /\ ExactHit \in DOMAIN clusters => first \in DOMAIN keys
           /\ job.kind = "vendor" /\ ExactHit \in DOMAIN clusters =>
                 Open(keys, ExactHit) /\ Lasting(keys, ExactHit)
  <2> SUFFICES ASSUME ExactHit # None
               PROVE  /\ first # None /\ first \in KeysOf(Row)
                      /\ ExactHit \in Ids
                      /\ first \in DOMAIN keys => keys[first] = ExactHit
                      /\ job.kind = "workday" /\ ExactHit \in DOMAIN clusters => first \in DOMAIN keys
                      /\ job.kind = "vendor" /\ ExactHit \in DOMAIN clusters =>
                            Open(keys, ExactHit) /\ Lasting(keys, ExactHit)
    OBVIOUS
  <2>1. first # None
    BY <1>4, <1>5
  <2>2. first \in KeysOf(Row)
    BY <1>3, <2>1, KeysOfIs
  <2>3. job.kind = "vendor" => Lasts(first)
    BY <1>3, <2>1, KeysOfIs
  <2>4. Lasts(first) => first[1] # "ats"
    BY DEF Lasts
  <2> HIDE DEF first
  <2> QED
    BY <1>1, <1>4, <2>1, <2>2, <2>3, <2>4, FindIs
<1>13. FuzzyHit # None =>
           /\ job.kind = "vendor" /\ second \in KeysOf(Row)
           /\ FuzzyHit \in Ids
           /\ second \in DOMAIN keys => keys[second] = FuzzyHit
           /\ FuzzyHit \in DOMAIN clusters => Open(keys, FuzzyHit)
  <2> SUFFICES ASSUME FuzzyHit # None
               PROVE  /\ job.kind = "vendor" /\ second \in KeysOf(Row)
                      /\ FuzzyHit \in Ids
                      /\ second \in DOMAIN keys => keys[second] = FuzzyHit
                      /\ FuzzyHit \in DOMAIN clusters => Open(keys, FuzzyHit)
    OBVIOUS
  <2>1. second # None
    BY <1>4, <1>5
  <2>2. second \in KeysOf(Row)
    BY <1>3, <2>1, KeysOfIs
  <2>3. Row.id \notin Workday
    BY <1>3, <2>1, KeysOfIs
  <2>4. second[1] # "ats"
    BY <1>3, <2>2, <2>3, KeysOfIs
  <2>5. job.kind = "vendor"
    BY <1>3, <2>3
  <2> HIDE DEF second
  <2> QED
    BY <1>1, <1>4, <2>2, <2>4, <2>5, FindIs
<1>14. /\ ExactHit = None => first \notin DOMAIN keys
       /\ FuzzyHit = None => second \notin DOMAIN keys
  BY <1>1, <1>4, FindIs
<1> HIDE DEF first, second
<1>15. job'.pick \in Ids
  BY <1>6, <1>12, <1>13
<1>16. job'.pick \in DOMAIN clusters /\ job.kind = "vendor" => Open(keys, job'.pick)
  BY <1>6, <1>12, <1>13
<1>17. job'.at = "attach" => \A k \in KeysOf(Row) \cap DOMAIN keys : keys[k] = job'.pick
  BY <1>6, <1>11, <1>12, <1>13, <1>14
<1>18. Chosen'
  BY <1>1, <1>6, <1>7, <1>8, <1>15, <1>17 DEF Chosen, RowKeys, At
<1>19. Joining'
  <2>1. job'.at = "mergeKeys" =>
            \A k \in KeysOf(Row) \cap DOMAIN keys : keys[k] \in {job'.pick, job'.absorbed}
    BY <1>6, <1>11, <1>12, <1>13
  <2>2. job'.at = "mergeKeys" =>
            /\ job.kind = "vendor" /\ job'.absorbed \in Ids
            /\ job'.pick \in DOMAIN clusters => Lasting(keys, job'.pick)
            /\ job'.absorbed \in DOMAIN clusters => Open(keys, job'.absorbed)
    BY <1>6, <1>12, <1>13
  <2> QED
    BY <1>1, <1>6, <1>7, <1>8, <2>1, <2>2 DEF Joining, RowKeys, At, Merging
<1>20. Separate(postings, keys, {})
  BY <1>1 DEF ApartInv, Apart, Pending, At
<1>21. Apart'
  <2>1. \A c \in Pending' : c = job'.pick /\ job.kind = "vendor"
    BY <1>6 DEF Pending, At
  <2>2. \A c \in Ids : c \in Pending' => Open(keys, c) \/ NoTies(postings, keys, c)
    BY <1>16, <2>1, GoneNoTies DEF ApartInv
  <2>3. Separate(postings, keys, Pending')
    BY <1>20, <2>2, SeparateStays DEF Shared
  <2> QED
    BY <1>1, <2>3 DEF Apart
<1>22. WorkdayRun'
  <2> SUFFICES ASSUME job.kind = "workday", job'.at = "attach", job'.pick \in DOMAIN clusters
               PROVE  Own(job'.pick)
    BY <1>1, <1>2, <1>6, <1>7, <1>8, <1>13 DEF ApartInv, WorkdayRun, At, Own
  <2>1. first = <<"ats", Row.id>> /\ Row.id \in Workday
    BY <1>3, KeysOfIs DEF first
  <2>2. Claimed(keys, Row.id, job'.pick)
    BY <1>6, <1>12, <1>13, <2>1 DEF Claimed
  <2> QED
    BY <1>15, <1>20, <2>1, <2>2 DEF Own, Separate, ClaimsApart, ClaimsLast, Tied, Shared
<1>23. VendorRun'
  <2>1. job.at # "mergeDelete" /\ job.at # "mergePostings" /\ job'.at # "mergeDelete"
    BY <1>2, <1>7 DEF Repointed
  <2> QED
    BY <1>1, <1>2, <1>6, <2>1 DEF ApartInv, VendorRun, Kept, At
<1> QED
  BY <1>8, <1>9, <1>10, <1>18, <1>19, <1>21, <1>22, <1>23 DEF ApartInv

LEMMA PairIs ==
    ASSUME NEW x, NEW y, x # y
    PROVE  Cardinality({x, y}) = 2
<1>1. IsFiniteSet({x}) /\ Cardinality({x}) = 1
  BY FS_Singleton
<1>2. Cardinality({x} \cup {y}) = Cardinality({x}) + 1
  BY <1>1, FS_AddElement
<1>3. {x, y} = {x} \cup {y}
  OBVIOUS
<1> QED
  BY <1>1, <1>2, <1>3

\* Alone in its cluster is the only one in it.
LEMMA SoleIs ==
    ASSUME ApartInv, At("resolve"), Sole, NEW q \in Members(job.was, Prior)
    PROVE  q = Row.id /\ Prior \in Ids
<1>1. job.at \in Rowwise
  BY DEF At, Rowwise, Resolving
<1>2. DOMAIN job.was = DOMAIN postings /\ \A p \in DOMAIN job.was : job.was[p] \in Ids \cup {None}
  BY <1>1 DEF ApartInv, Staged, Rowwise
<1>3. Row.id \in Members(job.was, Prior) /\ Prior \in Ids
  BY <1>1, <1>2, RowIs DEF Members, Prior, Sole
<1>4. IsFiniteSet(Members(job.was, Prior))
  <2>1. Members(job.was, Prior) \subseteq Postings
    BY <1>2 DEF Members, ApartInv, Tables
  <2> QED
    BY <2>1, FS_Subset, TableAssumption
<1>5. Cardinality(Members(job.was, Prior)) <= 1
  BY DEF Sole
<1> SUFFICES ASSUME q # Row.id PROVE FALSE
  BY <1>3
<1>6. {q, Row.id} \subseteq Members(job.was, Prior)
  BY <1>3
<1>7. Cardinality({q, Row.id}) = 2
  BY PairIs
<1>8. Cardinality({q, Row.id}) <= Cardinality(Members(job.was, Prior))
  BY <1>4, <1>6, FS_Subset
<1>9. Cardinality(Members(job.was, Prior)) \in Nat
  BY <1>4, FS_CardinalityType
<1> QED
  BY <1>5, <1>7, <1>8, <1>9

\* A row without a key leaves nothing in the tables under its keys.
LEMMA NoMatchIs ==
    ASSUME ApartInv, NoMatch
    PROVE  At("resolve") /\ RowKeys = {}
<1>1. At("resolve") /\ ExactHit = None /\ FuzzyHit = None
  BY DEF NoMatch
<1>2. Row \in Listings
  BY <1>1, RowIs DEF At, Rowwise, Resolving
<1>3. /\ IdentityKeys(Row)[1] \notin DOMAIN keys
      /\ IdentityKeys(Row)[2] \notin DOMAIN keys
  BY <1>1, FindIs DEF ExactHit, FuzzyHit
<1> QED
  BY <1>1, <1>2, <1>3, KeysOfIs DEF RowKeys

LEMMA AdoptApart ==
    ASSUME ApartInv, DeletesEmpty', Adopt
    PROVE  ApartInv'
<1> DEFINE inferred(f) == {k \in KeysTo(f, {Prior}) : Fuzzy(k)}
<1>1. /\ NoMatch /\ Sole /\ At("resolve") /\ job.at = "resolve" /\ RowKeys = {}
      /\ UNCHANGED <<postings, clusters>>
      /\ keys' = Without(keys, inferred(keys))
  BY NoMatchIs DEF Adopt, At
<1>2. /\ job'.at = "attach" /\ job'.pick = Prior /\ job'.rows = job.rows /\ job'.kind = job.kind
      /\ job'.was = job.was /\ job'.got = job.got
      /\ job'.cache = Without(job.cache, inferred(job.cache))
  BY DEF Adopt, ApartInv, DeletesEmpty, Off
<1>3. /\ job.at \in Rowwise /\ job.at \in Resolving /\ job.at \notin Repointed
      /\ job'.at \in Rowwise /\ job'.at \in Resolving /\ job'.at \notin Repointed /\ job'.at \notin Merging
  BY <1>1, <1>2 DEF Rowwise, Resolving, Merging, Repointed
<1>4. Read' /\ Staged' /\ Row' = Row
  BY <1>1, <1>2, <1>3, BatchKept
<1>5. /\ Row \in Listings /\ (Row.id \in Workday <=> job.kind = "workday")
      /\ job.kind \in {"workday", "vendor"} /\ Row.id \in DOMAIN postings /\ Row.id \in Postings
  BY <1>3, RowIs
<1>6. /\ DOMAIN keys' = DOMAIN keys \ inferred(keys)
      /\ \A k \in DOMAIN keys' : keys'[k] = keys[k]
  <2> HIDE DEF inferred
  <2> QED
    BY <1>1 DEF Without
<1>7. /\ DOMAIN job'.cache = DOMAIN job.cache \ inferred(job.cache)
      /\ \A k \in DOMAIN job'.cache : job'.cache[k] = job.cache[k]
  <2> HIDE DEF inferred
  <2> QED
    BY <1>2 DEF Without
<1>8. /\ \A k \in inferred(keys) : k \in DOMAIN keys /\ keys[k] = Prior /\ k[1] = "fuzzy"
      /\ \A k \in DOMAIN keys : keys[k] = Prior /\ k[1] = "fuzzy" => k \in inferred(keys)
      /\ \A k \in DOMAIN job.cache : job.cache[k] = Prior /\ k[1] = "fuzzy" => k \in inferred(job.cache)
  BY DEF KeysTo, Fuzzy
<1> HIDE DEF inferred
<1>9. \A k \in DOMAIN keys : k[1] # "fuzzy" => k \in DOMAIN keys'
  BY <1>6, <1>8
<1>10. /\ \A p, c : Claimed(keys', p, c) <=> Claimed(keys, p, c)
       /\ \A c : Lasting(keys', c) <=> Lasting(keys, c)
  <2>1. \A p : <<"ats", p>>[1] # "fuzzy"
    OBVIOUS
  <2> QED
    BY <1>6, <1>9, <2>1 DEF Claimed, Lasting, Lasts
<1>11. /\ \A c : Open(keys', c) => Open(keys, c)
       /\ \A c : c # Prior /\ Open(keys, c) => Open(keys', c)
  <2>1. \A k \in DOMAIN keys : keys[k] # Prior => k \in DOMAIN keys'
    BY <1>6, <1>8
  <2> QED
    BY <1>6, <2>1 DEF Open
<1>12. Open(keys', Prior) => Lasting(keys', Prior)
  <2> SUFFICES ASSUME NEW k \in DOMAIN keys', keys'[k] = Prior, k[1] # "ats"
               PROVE  Lasts(k)
    BY DEF Open, Lasting
  <2>1. k[1] \in {"ats", "url", "posting", "fuzzy"} /\ k[1] # "fuzzy"
    BY <1>6, <1>8 DEF ApartInv, Tables
  <2> QED
    BY <2>1 DEF Lasts
<1>13. Tables'
  BY <1>1, <1>6 DEF ApartInv, Tables
<1>14. Prior \in Ids /\ Prior # None
  <2>1. Row.id \in Members(job.was, Prior)
    BY <1>3, <1>5 DEF Members, Prior, ApartInv, Staged
  <2> QED
    BY <1>1, <2>1, SoleIs, PostingAssumption
<1>15. \A q \in Members(job.was, Prior) : q = Row.id
  BY <1>1, SoleIs
<1>16. Separate(postings, keys, {})
  BY <1>1 DEF ApartInv, Apart, Pending, At
<1>17. ASSUME job.kind = "vendor", ~Open(keys, Prior), Prior \in DOMAIN clusters
       PROVE  NoTies(postings, keys, Prior)
  <2>1. job.was[Row.id] = Prior
    BY DEF Prior
  <2>2. /\ \A p \in DOMAIN postings : Kept(p)
        /\ DOMAIN job.was = DOMAIN postings
    BY <1>3, <1>17 DEF ApartInv, VendorRun, Staged
  <2>3. Holds(postings, Row.id, Prior)
    BY <1>1, <1>5, <1>17, <2>1, <2>2 DEF Kept, Holds, At
  <2>4. ~Lasting(keys, Prior)
    BY <1>17, LastingIsOpen
  <2>5. \A p \in Workday : ~Claimed(keys, p, Prior)
    <3>1. Row.id \in Vendor
      BY <1>5, <1>17 DEF Postings
    <3> QED
      BY <1>14, <1>16, <2>3, <2>4, <3>1 DEF Separate, ClaimsLast, NoVendor
  <2>6. \A p \in Workday : ~Holds(postings, p, Prior)
    <3> SUFFICES ASSUME NEW p \in Workday, p \in DOMAIN postings, postings[p] = Prior
                 PROVE  FALSE
      BY DEF Holds
    <3>1. job.was[p] = Prior
      BY <1>1, <1>14, <2>2, <2>4 DEF Kept, At
    <3>2. p = Row.id
      BY <1>15, <2>2, <3>1 DEF Members
    <3> QED
      BY <1>5, <1>17, <3>2
  <2> QED
    BY <2>5, <2>6 DEF NoTies, Tied
<1>18. Apart'
  <2>1. \A c \in Pending' : c = Prior /\ job.kind = "vendor"
    BY <1>2 DEF Pending, At
  <2>2. \A c \in Ids : Shared(keys', Pending', c) => Shared(keys, {}, c) \/ NoTies(postings, keys, c)
    BY <1>11, <1>17, <2>1, GoneNoTies DEF Shared, ApartInv
  <2>3. Separate(postings, keys', Pending')
    BY <1>10, <1>16, <2>2, SeparateStays DEF Tied
  <2> QED
    BY <1>1, <2>3 DEF Apart
<1>19. Remembered'
  BY <1>3, <1>6, <1>7 DEF ApartInv, Remembered, Now
<1>20. RememberedIds'
  BY <1>1, <1>2, <1>7, <1>9 DEF ApartInv, RememberedIds
<1>21. RememberedFinds'
  <2> SUFFICES ASSUME job.kind = "vendor", NEW k \in DOMAIN job'.cache, job.cache[k] \in DOMAIN clusters
               PROVE  /\ Lasts(k) => Lasting(keys', job.cache[k])
                      /\ Open(keys', job.cache[k])
    BY <1>1, <1>2, <1>3, <1>7 DEF ApartInv, RememberedFinds
  <2>1. /\ k[1] \in {"url", "posting", "fuzzy"}
        /\ Lasts(k) => Lasting(keys, job.cache[k])
        /\ Open(keys, job.cache[k])
    BY <1>3, <1>7 DEF ApartInv, RememberedFinds
  <2>2. CASE job.cache[k] # Prior
    BY <1>10, <1>11, <2>1, <2>2
  <2>3. CASE job.cache[k] = Prior
    <3>1. k[1] # "fuzzy"
      BY <1>7, <1>8, <2>3
    <3>2. Lasts(k)
      BY <2>1, <3>1 DEF Lasts
    <3> QED
      BY <1>10, <2>1, <3>2, LastingIsOpen
  <2> QED
    BY <2>2, <2>3
<1>22. Chosen'
  BY <1>1, <1>2, <1>3, <1>4, <1>6, <1>14 DEF Chosen, RowKeys, At
<1>23. Joining'
  BY <1>2, <1>3 DEF Joining, At
<1>24. WorkdayRun'
  <2> SUFFICES ASSUME job.kind = "workday"
               PROVE  /\ job.was = postings
                      /\ \A i \in DOMAIN job.got : Claimed(keys', job.rows[i].id, job.got[i])
                      /\ Own(job.pick)'
    BY <1>1, <1>2 DEF WorkdayRun
  <2>1. job.was = postings /\ \A i \in DOMAIN job.got : Claimed(keys, job.rows[i].id, job.got[i])
    BY <1>3 DEF ApartInv, WorkdayRun
  <2>2. Holds(postings, Row.id, Prior) /\ Row.id \in Workday
    BY <1>5, <2>1 DEF Holds, Prior
  <2>3. \A q : Holds(postings, q, Prior) => q = Row.id
    BY <1>15, <2>1 DEF Holds, Members
  <2>4. \A q \in Workday : Claimed(keys, q, Prior) => q = Row.id
    BY <1>14, <1>16, <2>2 DEF Separate, ClaimsApart, Tied
  <2>5. NoVendor(postings, Prior)
    BY <2>2, <2>3, PostingAssumption DEF NoVendor
  <2>6. Own(job.pick)'
    <3>1. \A q \in Workday \ {Row.id} : ~Tied(postings, keys', q, Prior)
      BY <1>10, <2>3, <2>4 DEF Tied
    <3>2. Tied(postings, keys', Row.id, Prior)
      BY <2>2 DEF Tied
    <3>3. Lasting(keys', Prior) \/ ~Open(keys', Prior)
      BY <1>12
    <3>4. job'.pick = Prior
      BY <1>2
    <3> QED
      BY <1>1, <1>4, <2>5, <3>1, <3>2, <3>3, <3>4 DEF Own
  <2> QED
    BY <1>10, <2>1, <2>6
<1>25. VendorRun'
  <2> SUFFICES ASSUME job.kind = "vendor"
               PROVE  (\A p \in DOMAIN postings : Kept(p)') /\ \A i \in DOMAIN job.got : Safe(keys', job.got[i])
    BY <1>1, <1>2 DEF VendorRun
  <2>1. (\A p \in DOMAIN postings : Kept(p)) /\ \A i \in DOMAIN job.got : Safe(keys, job.got[i])
    BY <1>3 DEF ApartInv, VendorRun
  <2>2. \A i \in DOMAIN job.got : Safe(keys', job.got[i])
    BY <1>10, <2>1 DEF Safe
  <2>3. ASSUME NEW p \in DOMAIN postings PROVE Kept(p)'
    BY <1>1, <1>2, <1>10, <2>1 DEF Kept, At
  <2> QED
    BY <2>2, <2>3
<1> QED
  BY <1>4, <1>13, <1>18, <1>19, <1>20, <1>21, <1>22, <1>23, <1>24, <1>25 DEF ApartInv

LEMMA CreateApart ==
    ASSUME ApartInv, DeletesEmpty', Create
    PROVE  ApartInv'
<1>1. /\ NoMatch /\ At("resolve") /\ job.at = "resolve" /\ RowKeys = {}
      /\ UNCHANGED <<postings, keys>>
  BY NoMatchIs DEF Create, At
<1>2. PICK c : /\ c \in Ids \ Used
               /\ clusters' = Put(clusters, [id \in {c} |-> None])
               /\ job' = [job EXCEPT !.at = "attach", !.pick = c]
  BY DEF Create
<1>3. /\ job'.at = "attach" /\ job'.pick = c /\ job'.rows = job.rows /\ job'.kind = job.kind
      /\ job'.was = job.was /\ job'.got = job.got /\ job'.cache = job.cache
  BY <1>2 DEF ApartInv, DeletesEmpty, Off
<1>4. /\ job.at \in Rowwise /\ job.at \in Resolving /\ job.at \notin Repointed
      /\ job'.at \in Rowwise /\ job'.at \in Resolving /\ job'.at \notin Repointed /\ job'.at \notin Merging
  BY <1>1, <1>3 DEF Rowwise, Resolving, Merging, Repointed
<1>5. Read' /\ Staged' /\ Row' = Row
  BY <1>1, <1>3, <1>4, BatchKept
<1>6. DOMAIN clusters' = DOMAIN clusters \cup {c}
  BY <1>2 DEF Put
<1>7. /\ c \in Ids /\ c \notin DOMAIN clusters
      /\ \A k \in DOMAIN job.cache : job.cache[k] # c
      /\ \A p \in DOMAIN job.was : job.was[p] # c
  BY <1>2 DEF Used
<1>8. Tables'
  BY <1>1, <1>6 DEF ApartInv, Tables
<1>9. /\ NoTies(postings, keys, c) /\ ~Open(keys, c)
      /\ \A p : ~Holds(postings, p, c)
  <2>1. ~Open(keys, c) /\ \A p : ~Holds(postings, p, c)
    BY <1>7, PostingAssumption DEF ApartInv, Tables, Open, Holds
  <2> QED
    BY <1>7, <2>1, GoneNoTies DEF ApartInv
<1>10. Separate(postings, keys, {})
  BY <1>1 DEF ApartInv, Apart, Pending, At
<1>11. Apart'
  <2>1. \A d \in Pending' : d = c
    BY <1>3 DEF Pending, At
  <2>2. Separate(postings, keys, Pending')
    BY <1>9, <1>10, <2>1, SeparateStays DEF Shared
  <2> QED
    BY <1>1, <2>2 DEF Apart
<1>12. Remembered'
  BY <1>1, <1>3, <1>4 DEF ApartInv, Remembered, Now
<1>13. RememberedIds' /\ RememberedFinds'
  BY <1>1, <1>3, <1>4, <1>6, <1>7 DEF ApartInv, RememberedIds, RememberedFinds
<1>14. Chosen'
  BY <1>1, <1>3, <1>4, <1>5, <1>7 DEF Chosen, RowKeys, At
<1>15. Joining'
  BY <1>3, <1>4 DEF Joining, At
<1>16. WorkdayRun'
  <2>1. Own(job.pick)'
    BY <1>1, <1>3, <1>5, <1>9 DEF Own, NoTies, NoVendor
  <2> QED
    BY <1>1, <1>3, <1>4, <2>1 DEF ApartInv, WorkdayRun
<1>17. VendorRun'
  <2> SUFFICES ASSUME job.kind = "vendor"
               PROVE  \A p \in DOMAIN postings : Kept(p)'
    BY <1>1, <1>3, <1>4 DEF ApartInv, VendorRun
  <2>1. DOMAIN job.was = DOMAIN postings /\ \A p \in DOMAIN postings : Kept(p)
    BY <1>4 DEF ApartInv, VendorRun, Staged
  <2>2. ASSUME NEW p \in DOMAIN postings PROVE Kept(p)'
    BY <1>1, <1>3, <1>6, <1>7, <2>1 DEF Kept, At
  <2> QED
    BY <2>2
<1> QED
  BY <1>5, <1>8, <1>11, <1>12, <1>13, <1>14, <1>15, <1>16, <1>17 DEF ApartInv

-----------------------------------------------------------------------------
(* A merge.                                                                *)

LEMMA MergeKeysApart ==
    ASSUME ApartInv, DeletesEmpty', MergeKeys
    PROVE  ApartInv'
<1> DEFINE c == job.pick
           d == job.absorbed
<1>1. /\ job.at = "mergeKeys" /\ At("mergeKeys") /\ c \in DOMAIN clusters
      /\ UNCHANGED <<postings, clusters>>
      /\ DOMAIN keys' = DOMAIN keys
      /\ \A k \in DOMAIN keys : keys'[k] = IF keys[k] = d THEN c ELSE keys[k]
  BY DEF MergeKeys, At
<1>2. /\ job'.at = "mergePostings" /\ job'.pick = c /\ job'.absorbed = d /\ job'.rows = job.rows
      /\ job'.kind = job.kind /\ job'.was = job.was /\ job'.got = job.got /\ job'.cache = job.cache
  BY DEF MergeKeys, ApartInv, DeletesEmpty, Off
<1>3. /\ job.at \in Rowwise /\ job.at \in Resolving /\ job.at \in Merging /\ job.at \notin Repointed
      /\ job'.at \in Rowwise /\ job'.at \in Resolving /\ job'.at \in Merging /\ job'.at \in Repointed
  BY <1>1, <1>2 DEF Rowwise, Resolving, Merging, Repointed
<1>4. Read' /\ Staged' /\ Row' = Row
  BY <1>1, <1>2, <1>3, BatchKept
<1>5. c \in Ids /\ d \in Ids /\ c # d /\ job.kind = "vendor" /\ Lasting(keys, c)
  BY <1>1, <1>3 DEF ApartInv, Chosen, Joining, DeletesEmpty
<1>6. Open(keys, d) \/ NoTies(postings, keys, d)
  BY <1>1, <1>5, GoneNoTies DEF ApartInv, Joining
<1>7. Separate(postings, keys, {})
  BY <1>1 DEF ApartInv, Apart, Pending, At
<1> HIDE DEF c, d
<1>8. /\ Separate(postings, keys', {d})
      /\ Lasting(keys', c)
      /\ \A e : e # d /\ Lasting(keys, e) => Lasting(keys', e)
      /\ \A e : e # d /\ Open(keys, e) => Open(keys', e)
      /\ \A e : Safe(keys, e) => Safe(keys', e)
  BY <1>1, <1>5, <1>6, <1>7, KeysMoved
<1>9. Apart'
  <2>1. Pending' = {d}
    BY <1>2 DEF Pending, At
  <2> QED
    BY <1>1, <1>8, <2>1 DEF Apart
<1>10. Tables'
  BY <1>1 DEF ApartInv, Tables
<1>11. Remembered'
  <2>1. \A e : Now(e)' = IF e = d THEN c ELSE e
    BY <1>2, <1>3 DEF Now
  <2>2. \A k \in DOMAIN job.cache :
            /\ k # None /\ job.cache[k] \in Ids
            /\ k \in DOMAIN keys => keys[k] = job.cache[k]
    BY <1>3 DEF ApartInv, Remembered, Now
  <2> QED
    BY <1>1, <1>2, <2>1, <2>2 DEF Remembered
<1>12. RememberedIds'
  BY <1>2, <1>5 DEF RememberedIds
<1>13. RememberedFinds'
  <2> SUFFICES ASSUME NEW k \in DOMAIN job.cache
               PROVE  /\ k[1] \in {"url", "posting", "fuzzy"}
                      /\ job.cache[k] \in DOMAIN clusters /\ job.cache[k] # d =>
                            (Lasts(k) => Lasting(keys', job.cache[k])) /\ Open(keys', job.cache[k])
    BY <1>1, <1>2, <1>3 DEF RememberedFinds
  <2> QED
    BY <1>3, <1>5, <1>8 DEF ApartInv, RememberedFinds
<1>14. \A k \in RowKeys : keys'[k] = c
  BY <1>1 DEF ApartInv, Joining, RowKeys, c, d
<1>15. Chosen'
  <2>1. RowKeys' = RowKeys
    BY <1>1, <1>4 DEF RowKeys
  <2> QED
    BY <1>2, <1>5, <1>14, <2>1 DEF Chosen, At
<1>16. Joining'
  <2>1. \A k \in DOMAIN keys : keys'[k] # d
    BY <1>1, <1>5
  <2> QED
    BY <1>1, <1>2, <1>5, <1>8, <2>1 DEF Joining, At, c
<1>17. WorkdayRun'
  BY <1>2, <1>5 DEF WorkdayRun
<1>18. VendorRun'
  <2>1. (\A p \in DOMAIN postings : Kept(p)) /\ \A i \in DOMAIN job.got : Safe(keys, job.got[i])
    BY <1>3, <1>5 DEF ApartInv, VendorRun
  <2>2. ASSUME NEW p \in DOMAIN postings PROVE Kept(p)'
    BY <1>1, <1>2, <1>8, <2>1 DEF Kept, At
  <2>3. \A i \in DOMAIN job.got : Safe(keys', job.got[i])
    BY <1>8, <2>1
  <2> QED
    BY <1>1, <1>2, <2>2, <2>3 DEF VendorRun
<1> QED
  BY <1>4, <1>9, <1>10, <1>11, <1>12, <1>13, <1>15, <1>16, <1>17, <1>18 DEF ApartInv

LEMMA MergePostingsApart ==
    ASSUME ApartInv, DeletesEmpty', MergePostings
    PROVE  /\ ApartInv'
           /\ \A p, q \in Workday : Holds(postings, p, job.absorbed) /\ Holds(postings, q, job.pick) => p = q
<1> DEFINE c == job.pick
           d == job.absorbed
<1>1. /\ job.at = "mergePostings" /\ At("mergePostings")
      /\ UNCHANGED <<clusters, keys>>
      /\ DOMAIN postings' = DOMAIN postings
      /\ \A p \in DOMAIN postings : postings'[p] = IF postings[p] = d THEN c ELSE postings[p]
  BY DEF MergePostings, At
<1>2. /\ job'.at = "mergeDelete" /\ job'.pick = c /\ job'.absorbed = d /\ job'.rows = job.rows
      /\ job'.kind = job.kind /\ job'.was = job.was /\ job'.got = job.got /\ job'.cache = job.cache
  BY DEF MergePostings, ApartInv, DeletesEmpty, Off
<1>3. /\ job.at \in Rowwise /\ job.at \in Resolving /\ job.at \in Merging /\ job.at \in Repointed
      /\ job'.at \in Rowwise /\ job'.at \in Resolving /\ job'.at \in Merging /\ job'.at \in Repointed
  BY <1>1, <1>2 DEF Rowwise, Resolving, Merging, Repointed
<1>4. Read' /\ Staged' /\ Row' = Row
  BY <1>1, <1>2, <1>3, BatchKept
<1>5. /\ c \in Ids /\ d \in Ids /\ c # d /\ job.kind = "vendor"
      /\ c \in DOMAIN clusters /\ Lasting(keys, c) /\ \A k \in DOMAIN keys : keys[k] # d
  BY <1>1, <1>3 DEF ApartInv, Chosen, Joining, DeletesEmpty
<1>6. Separate(postings, keys, {d})
  BY <1>1 DEF ApartInv, Apart, Pending, At
<1> HIDE DEF c, d
<1>7. /\ Separate(postings', keys, {})
      /\ \A p, q \in Workday : Holds(postings, p, d) /\ Holds(postings, q, c) => p = q
  BY <1>1, <1>5, <1>6, MembersMoved, PostingAssumption
<1>8. Apart'
  <2>1. Pending' = {}
    BY <1>2 DEF Pending, At
  <2> QED
    BY <1>1, <1>7, <2>1 DEF Apart
<1>9. Tables'
  BY <1>1, <1>5 DEF ApartInv, Tables
<1>10. Remembered' /\ RememberedIds' /\ RememberedFinds'
  BY <1>1, <1>2, <1>3 DEF ApartInv, Remembered, RememberedIds, RememberedFinds, Now, c, d
<1>11. RowKeys' = RowKeys
  BY <1>1, <1>4 DEF RowKeys
<1>12. Chosen'
  BY <1>1, <1>2, <1>3, <1>11 DEF ApartInv, Chosen, At, c
<1>13. Joining'
  BY <1>1, <1>2, <1>5 DEF Joining, At
<1>14. WorkdayRun'
  BY <1>2, <1>5 DEF WorkdayRun
<1>15. VendorRun'
  <2>1. (\A p \in DOMAIN postings : Kept(p)) /\ \A i \in DOMAIN job.got : Safe(keys, job.got[i])
    BY <1>3, <1>5 DEF ApartInv, VendorRun
  <2>2. ASSUME NEW p \in DOMAIN postings PROVE Kept(p)'
    BY <1>1, <1>2, <1>5, <2>1 DEF Kept, At, d
  <2> QED
    BY <1>1, <1>2, <2>1, <2>2 DEF VendorRun
<1>16. ApartInv'
  BY <1>4, <1>8, <1>9, <1>10, <1>12, <1>13, <1>14, <1>15 DEF ApartInv
<1> QED
  BY <1>7, <1>16 DEF c, d

\* A cluster goes with its keys.
LEMMA KeysWithout ==
    ASSUME NEW f, NEW gone
    PROVE  /\ \A k : k \in DOMAIN Without(f, KeysTo(f, gone)) <=> k \in DOMAIN f /\ f[k] \notin gone
           /\ \A k \in DOMAIN f : f[k] \notin gone => Without(f, KeysTo(f, gone))[k] = f[k]
<1>1. /\ DOMAIN Without(f, KeysTo(f, gone)) = DOMAIN f \ KeysTo(f, gone)
      /\ \A k \in DOMAIN f \ KeysTo(f, gone) : Without(f, KeysTo(f, gone))[k] = f[k]
  BY WithoutIs
<1>2. \A k : k \in KeysTo(f, gone) <=> k \in DOMAIN f /\ f[k] \in gone
  BY DEF KeysTo
<1> QED
  BY <1>1, <1>2

LEMMA KeysGone ==
    ASSUME NEW gone, NEW f, NEW f2,
           \A k : k \in DOMAIN f2 <=> k \in DOMAIN f /\ f[k] \notin gone,
           \A k \in DOMAIN f2 : f2[k] = f[k]
    PROVE  /\ \A p, c : Claimed(f2, p, c) <=> Claimed(f, p, c) /\ c \notin gone
           /\ \A c : Lasting(f2, c) <=> Lasting(f, c) /\ c \notin gone
           /\ \A c : Open(f2, c) <=> Open(f, c) /\ c \notin gone
<1>1. \A p, c : Claimed(f2, p, c) <=> Claimed(f, p, c) /\ c \notin gone
  BY DEF Claimed
<1>2. \A c : Lasting(f2, c) <=> Lasting(f, c) /\ c \notin gone
  BY DEF Lasting
<1>3. \A c : Open(f2, c) <=> Open(f, c) /\ c \notin gone
  BY DEF Open
<1> QED
  BY <1>1, <1>2, <1>3

\* Clusters without postings go.
LEMMA DeletedTables ==
    ASSUME ApartInv, NEW gone, DeleteClusters(gone), \A c \in gone : Members(postings, c) = {}
    PROVE  /\ Tables'
           /\ Separate(postings, keys, {}) => Separate(postings', keys', {})
           /\ DOMAIN clusters' = DOMAIN clusters \ gone
           /\ DOMAIN postings' = DOMAIN postings
           /\ \A p \in DOMAIN postings : postings'[p] = postings[p]
<1>1. /\ DOMAIN postings' = DOMAIN postings
      /\ \A p \in DOMAIN postings : postings'[p] = postings[p]
      /\ DOMAIN clusters' = DOMAIN clusters \ gone
  BY DeleteIs
<1>2. /\ \A k : k \in DOMAIN keys' <=> k \in DOMAIN keys /\ keys[k] \notin gone
      /\ \A k \in DOMAIN keys' : keys'[k] = keys[k]
  <2>1. keys' = Without(keys, KeysTo(keys, gone))
    BY DEF DeleteClusters
  <2> QED
    BY <2>1, KeysWithout
<1>3. /\ \A p, c : Claimed(keys', p, c) <=> Claimed(keys, p, c) /\ c \notin gone
      /\ \A c : Lasting(keys', c) <=> Lasting(keys, c) /\ c \notin gone
      /\ \A c : Open(keys', c) <=> Open(keys, c) /\ c \notin gone
  BY <1>2, KeysGone
<1>4. Tables'
  <2>1. \A p \in DOMAIN postings : postings[p] \notin gone
    BY DEF Members
  <2> QED
    BY <1>1, <1>2, <2>1 DEF ApartInv, Tables
<1>5. ASSUME Separate(postings, keys, {})
      PROVE  Separate(postings', keys', {})
  <2>1. \A p, c : Holds(postings', p, c) <=> Holds(postings, p, c)
    BY <1>1 DEF Holds
  <2> QED
    BY <1>3, <1>5, <2>1, SeparateStays DEF Tied, Shared
<1> QED
  BY <1>1, <1>4, <1>5

LEMMA MergeDeleteApart ==
    ASSUME ApartInv, DeletesEmpty', MergeDelete
    PROVE  ApartInv'
<1> DEFINE c == job.pick
           d == job.absorbed
<1>1. job.at = "mergeDelete" /\ At("mergeDelete") /\ DeleteClusters({d})
  BY DEF MergeDelete, At
<1>2. /\ job'.at = "attach" /\ job'.pick = c /\ job'.rows = job.rows
      /\ job'.kind = job.kind /\ job'.was = job.was /\ job'.got = job.got
      /\ DOMAIN job'.cache = DOMAIN job.cache
      /\ \A k \in DOMAIN job.cache : job'.cache[k] = IF job.cache[k] = d THEN c ELSE job.cache[k]
  BY DEF MergeDelete, ApartInv, DeletesEmpty, Off
<1>3. /\ job.at \in Rowwise /\ job.at \in Resolving /\ job.at \in Merging /\ job.at \in Repointed
      /\ job'.at \in Rowwise /\ job'.at \in Resolving /\ job'.at \notin Merging /\ job'.at \notin Repointed
  BY <1>1, <1>2 DEF Rowwise, Resolving, Merging, Repointed
<1>4. /\ c \in Ids /\ d \in Ids /\ c # d /\ job.kind = "vendor"
      /\ c \in DOMAIN clusters /\ Lasting(keys, c) /\ \A k \in DOMAIN keys : keys[k] # d
      /\ Members(postings, d) = {}
  BY <1>1, <1>3 DEF ApartInv, Chosen, Joining, DeletesEmpty
<1>5. Separate(postings, keys, {})
  BY <1>1 DEF ApartInv, Apart, Pending, At
<1>6. /\ Tables' /\ Separate(postings', keys', {})
      /\ DOMAIN clusters' = DOMAIN clusters \ {d}
      /\ DOMAIN postings' = DOMAIN postings
      /\ \A p \in DOMAIN postings : postings'[p] = postings[p]
  <2>1. \A e \in {d} : Members(postings, e) = {}
    BY <1>4
  <2> HIDE DEF d
  <2> QED
    BY <1>1, <1>5, <2>1, DeletedTables
<1>7. Read' /\ Staged' /\ Row' = Row
  BY <1>2, <1>3, <1>6, BatchKept
<1>8. /\ DOMAIN keys' = DOMAIN keys /\ \A k \in DOMAIN keys : keys'[k] = keys[k]
      /\ \A e : e # d => (Lasting(keys', e) <=> Lasting(keys, e)) /\ (Open(keys', e) <=> Open(keys, e))
      /\ \A e : Safe(keys, e) => Safe(keys', e)
  <2>1. keys' = Without(keys, KeysTo(keys, {d}))
    BY <1>1 DEF DeleteClusters
  <2> HIDE DEF d
  <2>2. /\ \A k : k \in DOMAIN keys' <=> k \in DOMAIN keys /\ keys[k] \notin {d}
        /\ \A k \in DOMAIN keys' : keys'[k] = keys[k]
    BY <2>1, KeysWithout
  <2>3. /\ \A p, e : Claimed(keys', p, e) <=> Claimed(keys, p, e) /\ e \notin {d}
        /\ \A e : Lasting(keys', e) <=> Lasting(keys, e) /\ e \notin {d}
        /\ \A e : Open(keys', e) <=> Open(keys, e) /\ e \notin {d}
    BY <2>2, KeysGone
  <2> QED
    BY <1>4, <2>2, <2>3 DEF Safe
<1> HIDE DEF c, d
<1>9. Lasting(keys', c) /\ Open(keys', c)
  BY <1>4, <1>8, LastingIsOpen
<1>10. Apart'
  <2>1. \A e \in Pending' : e = c
    BY <1>2 DEF Pending, At
  <2>2. Separate(postings', keys', Pending')
    BY <1>6, <1>9, <2>1, SeparateStays DEF Shared
  <2> QED
    BY <2>2 DEF Apart
<1>11. Remembered'
  <2>1. \A e : Now(e) = (IF e = d THEN c ELSE e) /\ Now(e)' = e
    BY <1>3 DEF Now, c, d
  <2> QED
    BY <1>2, <1>4, <1>8, <2>1 DEF ApartInv, Remembered
<1>12. RememberedIds'
  BY <1>2, <1>4 DEF RememberedIds
<1>13. RememberedFinds'
  <2> SUFFICES ASSUME NEW k \in DOMAIN job.cache
               PROVE  /\ k[1] \in {"url", "posting", "fuzzy"}
                      /\ job'.cache[k] \in DOMAIN clusters' =>
                            (Lasts(k) => Lasting(keys', job'.cache[k])) /\ Open(keys', job'.cache[k])
    BY <1>2, <1>3 DEF RememberedFinds
  <2>1. /\ k[1] \in {"url", "posting", "fuzzy"}
        /\ job.cache[k] \in DOMAIN clusters /\ job.cache[k] # d =>
              (Lasts(k) => Lasting(keys, job.cache[k])) /\ Open(keys, job.cache[k])
    BY <1>3, <1>4 DEF ApartInv, RememberedFinds, d
  <2>2. CASE job.cache[k] = d
    BY <1>2, <1>9, <2>1, <2>2
  <2>3. CASE job.cache[k] # d
    BY <1>2, <1>6, <1>8, <2>1, <2>3
  <2> QED
    BY <2>2, <2>3
<1>14. Chosen'
  <2>1. \A k \in RowKeys : keys[k] = c
    BY <1>3 DEF ApartInv, Chosen, c
  <2>2. \A k \in RowKeys' : keys'[k] = c
    BY <1>7, <1>8, <2>1 DEF RowKeys
  <2> QED
    BY <1>2, <1>4, <2>2 DEF Chosen, At
<1>15. Joining'
  BY <1>2, <1>3 DEF Joining, At
<1>16. WorkdayRun'
  BY <1>2, <1>4 DEF WorkdayRun
<1>17. VendorRun'
  <2>1. (\A p \in DOMAIN postings : Kept(p)) /\ \A i \in DOMAIN job.got : Safe(keys, job.got[i])
    BY <1>3, <1>4 DEF ApartInv, VendorRun
  <2>2. ASSUME NEW p \in DOMAIN postings PROVE Kept(p)'
    <3>1. postings[p] # d
      BY <1>4 DEF Members
    <3> QED
      BY <1>1, <1>2, <1>6, <1>8, <2>1, <3>1 DEF Kept, At, d
  <2> QED
    BY <1>2, <1>6, <1>8, <2>1, <2>2 DEF VendorRun
<1> QED
  BY <1>6, <1>7, <1>10, <1>11, <1>12, <1>13, <1>14, <1>15, <1>16, <1>17 DEF ApartInv

-----------------------------------------------------------------------------
(* A row gets its keys and its cluster.                                    *)

LEMMA AttachApart ==
    ASSUME ApartInv, DeletesEmpty', Attach
    PROVE  ApartInv'
<1> DEFINE c == job.pick
           led == [k \in KeysOf(Row) |-> c]
<1>1. /\ job.at = "attach" /\ At("attach") /\ c \in DOMAIN clusters
      /\ UNCHANGED <<postings, clusters>>
      /\ keys' = Put(led, keys)
  BY DEF Attach, At
<1>2. /\ job'.at = "canonical" /\ job'.pick = c /\ job'.rows = job.rows /\ job'.kind = job.kind
      /\ job'.was = job.was /\ job'.got = job.got /\ job'.cache = Put(led, job.cache)
  BY DEF Attach, ApartInv, DeletesEmpty, Off
<1>3. /\ job.at \in Rowwise /\ job.at \in Resolving /\ job.at \notin Repointed
      /\ job'.at \in Rowwise /\ job'.at \in Resolving /\ job'.at \notin Repointed /\ job'.at \notin Merging
  BY <1>1, <1>2 DEF Rowwise, Resolving, Merging, Repointed
<1>4. Read' /\ Staged' /\ Row' = Row
  BY <1>1, <1>2, <1>3, BatchKept
<1>5. /\ Row \in Listings /\ Row.id \in Postings
      /\ (Row.id \in Workday <=> job.kind = "workday") /\ job.kind \in {"workday", "vendor"}
  BY <1>3, RowIs
<1>6. /\ c \in Ids
      /\ \A k \in KeysOf(Row) \cap DOMAIN keys : keys[k] = c
  BY <1>1 DEF ApartInv, Chosen, RowKeys
<1>7. DOMAIN led = KeysOf(Row) /\ \A k \in KeysOf(Row) : led[k] = c
  OBVIOUS
<1>8. c = job.pick
  OBVIOUS
<1> HIDE DEF c, led
<1>9. /\ DOMAIN keys' = DOMAIN keys \cup KeysOf(Row)
      /\ \A k \in KeysOf(Row) : keys'[k] = c
      /\ \A k \in DOMAIN keys : keys'[k] = keys[k]
  BY <1>1, <1>6, <1>7 DEF Put
<1>10. /\ DOMAIN job'.cache = DOMAIN job.cache \cup KeysOf(Row)
       /\ \A k \in KeysOf(Row) : job'.cache[k] = c
       /\ \A k \in DOMAIN job.cache \ KeysOf(Row) : job'.cache[k] = job.cache[k]
  BY <1>2, <1>7 DEF Put
<1>11. \A k \in KeysOf(Row) : k # None
  BY <1>5, KeysOfIs
<1>12. job.kind = "workday" => KeysOf(Row) = {<<"ats", Row.id>>}
  BY <1>5, KeysOfIs
<1>13. job.kind = "vendor" => KeysOf(Row) # {} /\ \A k \in KeysOf(Row) : k[1] \in {"url", "posting", "fuzzy"}
  BY <1>5, KeysOfIs
<1>14. /\ \A e : Lasting(keys, e) => Lasting(keys', e)
       /\ \A p, e : Claimed(keys, p, e) => Claimed(keys', p, e)
  BY <1>9 DEF Lasting, Claimed
<1>15. \A e : Open(keys, e) => Open(keys', e)
  BY <1>9 DEF Open
<1>16. \A e : Open(keys', e) => Open(keys, e) \/ e = c
  BY <1>9 DEF Open
<1>17. ASSUME job.kind = "vendor"
       PROVE  \A p, e : Claimed(keys', p, e) => Claimed(keys, p, e)
  BY <1>9, <1>13, <1>17 DEF Claimed
<1>18. Tables'
  <2>1. \A k \in KeysOf(Row) : k[1] \in {"ats", "url", "posting", "fuzzy"}
    BY <1>5, <1>12, <1>13
  <2> QED
    BY <1>1, <1>9, <1>11, <2>1 DEF ApartInv, Tables
<1>19. Separate(postings, keys', {})
  <2>1. CASE job.kind = "vendor"
    <3>1. Separate(postings, keys, {c})
      BY <1>1, <1>8, <2>1 DEF ApartInv, Apart, Pending
    <3> QED
      BY <1>14, <1>16, <1>17, <2>1, <3>1, SeparateStays DEF Shared, Tied
  <2>2. CASE job.kind = "workday"
    <3>1. Separate(postings, keys, {})
      BY <1>1, <2>2 DEF ApartInv, Apart, Pending, At
    <3>2. Own(c) /\ Row.id \in Workday
      BY <1>1, <1>3, <1>5, <1>8, <2>2 DEF ApartInv, WorkdayRun
    <3>3. /\ DOMAIN keys' = DOMAIN keys \cup {<<"ats", Row.id>>}
          /\ keys'[<<"ats", Row.id>>] = c
      BY <1>9, <1>12, <2>2
    <3> QED
      BY <1>6, <1>9, <3>1, <3>2, <3>3, ClaimAdded DEF Own
  <2> QED
    BY <1>5, <2>1, <2>2
<1>20. Apart'
  <2>1. Pending' = {}
    BY <1>2 DEF Pending, At
  <2> QED
    BY <1>1, <1>19, <2>1 DEF Apart
<1>21. Remembered'
  <2> SUFFICES ASSUME NEW k \in DOMAIN job'.cache
               PROVE  k # None /\ job'.cache[k] \in Ids /\ (k \in DOMAIN keys' => keys'[k] = job'.cache[k])
    BY <1>3 DEF Remembered, Now
  <2>1. CASE k \in KeysOf(Row)
    BY <1>6, <1>9, <1>10, <1>11, <2>1
  <2>2. CASE k \notin KeysOf(Row)
    BY <1>3, <1>9, <1>10, <2>2 DEF ApartInv, Remembered, Now
  <2> QED
    BY <2>1, <2>2
<1>22. RememberedIds'
  <2> SUFFICES ASSUME job.kind = "workday", NEW k \in DOMAIN job'.cache
               PROVE  k[1] = "ats" /\ (job'.cache[k] \in DOMAIN clusters => k \in DOMAIN keys')
    BY <1>1, <1>2 DEF RememberedIds
  <2>1. CASE k \in KeysOf(Row)
    BY <1>9, <1>12, <2>1
  <2>2. CASE k \notin KeysOf(Row)
    BY <1>9, <1>10, <2>2 DEF ApartInv, RememberedIds
  <2> QED
    BY <2>1, <2>2
<1>23. RememberedFinds'
  <2> SUFFICES ASSUME job.kind = "vendor", NEW k \in DOMAIN job'.cache
               PROVE  /\ k[1] \in {"url", "posting", "fuzzy"}
                      /\ job'.cache[k] \in DOMAIN clusters =>
                            (Lasts(k) => Lasting(keys', job'.cache[k])) /\ Open(keys', job'.cache[k])
    BY <1>1, <1>2 DEF RememberedFinds
  <2>1. CASE k \in KeysOf(Row)
    <3>1. k \in DOMAIN keys' /\ keys'[k] = job'.cache[k] /\ k[1] \in {"url", "posting", "fuzzy"}
      BY <1>9, <1>10, <1>13, <2>1
    <3> QED
      BY <3>1 DEF Lasting, Open
  <2>2. CASE k \notin KeysOf(Row)
    BY <1>3, <1>10, <1>14, <1>15, <2>2 DEF ApartInv, RememberedFinds
  <2> QED
    BY <2>1, <2>2
<1>24. Chosen'
  <2>1. job.kind = "workday" => Claimed(keys', Row.id, c)
    BY <1>9, <1>12 DEF Claimed
  <2>2. ASSUME job.kind = "vendor" PROVE Safe(keys', c)
    <3>1. PICK k : k \in KeysOf(Row)
      BY <1>13, <2>2
    <3>2. Open(keys', c)
      BY <1>9, <1>13, <2>2, <3>1 DEF Open
    <3> QED
      BY <1>6, <1>19, <3>2 DEF Separate, ClaimsLast, Safe, Shared
  <2>3. IF job.kind = "workday" THEN Claimed(keys', Row.id, c) ELSE Safe(keys', c)
    BY <1>5, <2>1, <2>2
  <2> QED
    BY <1>2, <1>3, <1>4, <1>6, <2>3 DEF Chosen, At
<1>25. Joining'
  BY <1>2, <1>3 DEF Joining, At
<1>26. WorkdayRun'
  BY <1>1, <1>2, <1>3, <1>14 DEF ApartInv, WorkdayRun, At
<1>27. VendorRun'
  <2> SUFFICES ASSUME job.kind = "vendor"
               PROVE  (\A p \in DOMAIN postings : Kept(p)') /\ \A i \in DOMAIN job.got : Safe(keys', job.got[i])
    BY <1>1, <1>2 DEF VendorRun
  <2>1. (\A p \in DOMAIN postings : Kept(p)) /\ \A i \in DOMAIN job.got : Safe(keys, job.got[i])
    BY <1>3 DEF ApartInv, VendorRun
  <2>2. ASSUME NEW p \in DOMAIN postings PROVE Kept(p)'
    BY <1>1, <1>2, <1>14, <2>1 DEF Kept, At
  <2> QED
    BY <1>14, <1>17, <2>1, <2>2 DEF Safe
<1> QED
  BY <1>4, <1>18, <1>20, <1>21, <1>22, <1>23, <1>24, <1>25, <1>26, <1>27 DEF ApartInv

LEMMA SetCanonicalApart ==
    ASSUME ApartInv, DeletesEmpty', SetCanonical
    PROVE  ApartInv'
<1> DEFINE c == job.pick
           n == Len(job.got) + 1
<1>1. job.at = "canonical" /\ At("canonical") /\ UNCHANGED <<postings, keys>>
  BY DEF SetCanonical, At
<1>2. /\ job'.at = IF n = Len(job.rows) THEN "upsert" ELSE "resolve"
      /\ job'.got = Append(job.got, c) /\ job'.rows = job.rows /\ job'.kind = job.kind
      /\ job'.was = job.was /\ job'.cache = job.cache
  BY DEF SetCanonical, ApartInv, DeletesEmpty, Off
<1>3. DOMAIN clusters' = DOMAIN clusters
  BY DEF SetCanonical
<1>4. /\ job.at \in Rowwise /\ job.at \in Resolving /\ job.at \notin Repointed
      /\ job'.at \in Resolving /\ job'.at \notin Repointed /\ job'.at \notin Merging
      /\ job'.at \notin {"attach", "canonical", "off", "between", "stage"} \cup Collecting
  BY <1>1, <1>2 DEF Rowwise, Resolving, Merging, Repointed, Collecting
<1>5. /\ Len(job.got) \in Nat /\ Len(job.got) < Len(job.rows) /\ Row = job.rows[n]
      /\ job.kind \in {"workday", "vendor"}
  BY <1>4, RowIs
<1>6. /\ c \in Ids
      /\ job.kind = "workday" => Claimed(keys, Row.id, c)
      /\ job.kind = "vendor" => Safe(keys, c)
  BY <1>1 DEF ApartInv, Chosen
<1>7. job.got \in Seq(Ids)
  BY <1>4 DEF ApartInv, Staged
<1>8. /\ job'.got \in Seq(Ids) /\ Len(job'.got) = n
      /\ DOMAIN job'.got = DOMAIN job.got \cup {n}
      /\ \A i \in DOMAIN job.got : job'.got[i] = job.got[i]
      /\ job'.got[n] = c
  <2>1. Ids \cup {c} = Ids
    BY <1>6
  <2> QED
    BY <1>2, <1>7, <2>1, AppendIs
<1>9. Read'
  BY <1>2, <1>4 DEF ApartInv, Read
<1>10. Staged'
  <2>1. IF job'.at = "upsert" THEN Len(job'.got) = Len(job'.rows) ELSE Len(job'.got) < Len(job'.rows)
    <3>1. job.rows \in Seq(Listings)
      BY <1>4, PostingAssumption DEF ApartInv, Read
    <3>2. Len(job.rows) \in Nat
      BY <3>1
    <3> QED
      BY <1>2, <1>5, <1>8, <3>2
  <2> QED
    BY <1>1, <1>2, <1>4, <1>8, <2>1 DEF ApartInv, Staged, At
<1> HIDE DEF c, n
<1>11. Tables' /\ Remembered' /\ RememberedIds' /\ RememberedFinds'
  BY <1>1, <1>2, <1>3, <1>4 DEF ApartInv, Tables, Remembered, RememberedIds, RememberedFinds, Now
<1>12. Apart'
  <2>1. Pending = {} /\ Pending' = {}
    BY <1>1, <1>2 DEF Pending, At
  <2> QED
    BY <1>1, <2>1 DEF ApartInv, Apart
<1>13. Chosen' /\ Joining'
  BY <1>2, <1>4 DEF Chosen, Joining, At
<1>14. WorkdayRun'
  <2> SUFFICES ASSUME job.kind = "workday"
               PROVE  /\ job'.was = postings'
                      /\ \A i \in DOMAIN job'.got : Claimed(keys', job'.rows[i].id, job'.got[i])
    BY <1>2, <1>4 DEF WorkdayRun, At
  <2>1. /\ job.was = postings
        /\ \A i \in DOMAIN job.got : Claimed(keys, job.rows[i].id, job.got[i])
    BY <1>4 DEF ApartInv, WorkdayRun
  <2> QED
    BY <1>1, <1>2, <1>5, <1>6, <1>8, <2>1
<1>15. VendorRun'
  <2> SUFFICES ASSUME job.kind = "vendor"
               PROVE  (\A p \in DOMAIN postings : Kept(p)') /\ \A i \in DOMAIN job'.got : Safe(keys, job'.got[i])
    BY <1>1, <1>2 DEF VendorRun
  <2>1. (\A p \in DOMAIN postings : Kept(p)) /\ \A i \in DOMAIN job.got : Safe(keys, job.got[i])
    BY <1>4 DEF ApartInv, VendorRun
  <2>2. ASSUME NEW p \in DOMAIN postings PROVE Kept(p)'
    BY <1>1, <1>2, <1>3, <1>4, <2>1 DEF Kept, At
  <2> QED
    BY <1>6, <1>8, <2>1, <2>2
<1> QED
  BY <1>9, <1>10, <1>11, <1>12, <1>13, <1>14, <1>15 DEF ApartInv

-----------------------------------------------------------------------------
(* The batch is written.                                                   *)

\* What OneRequisition says of a step.
StayApart ==
    \A p, q \in Workday \cap DOMAIN postings' :
        p # q /\ postings'[p] # None /\ postings'[p] = postings'[q]
            => {p, q} \subseteq DOMAIN postings /\ postings[p] = postings[q]

LEMMA FirstRow ==
    ASSUME NEW n \in Nat, NEW I, I \subseteq 1 .. n, I # {}
    PROVE  Min(I) \in I
<1>1. I \subseteq Nat
  OBVIOUS
<1>2. PICK x \in I : \A y \in I : <<y, x>> \notin OpToRel(<, Nat)
  BY <1>1, NatLessThanWellFounded, WFMin
<1>3. \A y \in I : ~(y < x)
  BY <1>1, <1>2, Zenon DEF OpToRel
<1>4. \A y \in I : x <= y
  BY <1>1, <1>3
<1> QED
  BY <1>4 DEF Min

\* A posting is written with the cluster one of its rows got.
LEMMA ResolvedIs ==
    ASSUME ApartInv, job.at = "upsert", NEW p \in DOMAIN Resolved
    PROVE  \E i \in DOMAIN job.got : i \in DOMAIN job.rows /\ job.rows[i].id = p /\ Resolved[p] = job.got[i]
<1>1. /\ job.rows \in Batches /\ job.got \in Seq(Ids) /\ Len(job.got) = Len(job.rows)
  BY DEF ApartInv, Read, Staged, Resolving, At
<1>2. job.rows \in Seq(Listings)
  BY <1>1, PostingAssumption
<1>3. /\ DOMAIN job.rows = 1 .. Len(job.rows) /\ DOMAIN job.got = DOMAIN job.rows /\ Len(job.rows) \in Nat
  BY <1>1, <1>2
<1> DEFINE I == {i \in DOMAIN job.rows : job.rows[i].id = p}
<1>4. p \in {job.rows[i].id : i \in DOMAIN job.rows} /\ Resolved[p] = job.got[Min(I)]
  BY DEF Resolved
<1>5. I # {} /\ I \subseteq 1 .. Len(job.rows)
  BY <1>3, <1>4
<1>6. Min(I) \in I
  <2> HIDE DEF I
  <2> QED
    BY <1>3, <1>5, FirstRow
<1> QED
  BY <1>3, <1>4, <1>6

LEMMA UpsertApart ==
    ASSUME ApartInv, DeletesEmpty', Upsert
    PROVE  ApartInv' /\ StayApart
<1>1. /\ job.at = "upsert" /\ At("upsert") /\ Valid /\ UNCHANGED <<clusters, keys>>
      /\ postings' = Put(Resolved, postings)
  BY DEF Upsert, At
<1>2. /\ job'.at \in {"between", "drop"} /\ job'.kind = job.kind /\ job'.cache = job.cache
      /\ job'.at = "between" => job'.got = << >>
  <2>1. CASE Vacated = {}
    <3>1. job' = Between
      BY <2>1 DEF Upsert
    <3> QED
      BY <3>1 DEF Between, Off
  <2>2. CASE Vacated # {}
    BY <2>2 DEF Upsert, ApartInv, DeletesEmpty, Off
  <2> QED
    BY <2>1, <2>2
<1>3. job.at \in Resolving /\ job.at \notin Repointed /\ job'.at \notin Repointed
  BY <1>1, <1>2 DEF Resolving, Repointed
<1>4. /\ DOMAIN postings' = DOMAIN Resolved \cup DOMAIN postings
      /\ \A p \in DOMAIN Resolved : postings'[p] = Resolved[p]
      /\ \A p \in DOMAIN postings \ DOMAIN Resolved : postings'[p] = postings[p]
  BY <1>1 DEF Put
<1>5. /\ job.rows \in Batches /\ job.kind \in {"workday", "vendor"}
      /\ \A i \in DOMAIN job.rows : job.rows[i].id \in Workday <=> job.kind = "workday"
      /\ \A i \in DOMAIN job.rows : job.rows[i].id \in DOMAIN postings
  BY <1>3 DEF ApartInv, Read, Staged
<1>6. DOMAIN Resolved \subseteq DOMAIN postings
  BY <1>5 DEF Resolved
<1>7. \A p \in DOMAIN Resolved : Resolved[p] \in DOMAIN clusters /\ Resolved[p] \in Ids
  BY <1>1 DEF Valid, ApartInv, DeletesEmpty
<1>8. ASSUME NEW p \in DOMAIN Resolved
      PROVE  /\ p \in Workday <=> job.kind = "workday"
             /\ job.kind = "workday" => Claimed(keys, p, Resolved[p])
             /\ job.kind = "vendor" => Safe(keys, Resolved[p])
  <2>1. PICK i \in DOMAIN job.got : i \in DOMAIN job.rows /\ job.rows[i].id = p /\ Resolved[p] = job.got[i]
    BY <1>1, ResolvedIs
  <2>2. job.kind = "workday" => Claimed(keys, job.rows[i].id, job.got[i])
    BY <1>3 DEF ApartInv, WorkdayRun
  <2>3. job.kind = "vendor" => Safe(keys, job.got[i])
    BY <1>3 DEF ApartInv, VendorRun
  <2> QED
    BY <1>5, <2>1, <2>2, <2>3
<1>9. \A p \in Workday : \A c : Holds(postings', p, c) => Tied(postings, keys, p, c)
  <2> SUFFICES ASSUME NEW p \in Workday, NEW c, Holds(postings', p, c)
               PROVE  Tied(postings, keys, p, c)
    OBVIOUS
  <2>1. CASE p \in DOMAIN Resolved
    BY <1>4, <1>8, <2>1 DEF Holds, Tied
  <2>2. CASE p \notin DOMAIN Resolved
    BY <1>4, <2>2 DEF Holds, Tied
  <2> QED
    BY <2>1, <2>2
<1>10. \A v \in Vendor : \A c : Holds(postings', v, c) => Holds(postings, v, c) \/ Safe(keys, c)
  <2> SUFFICES ASSUME NEW v \in Vendor, NEW c, Holds(postings', v, c)
               PROVE  Holds(postings, v, c) \/ Safe(keys, c)
    OBVIOUS
  <2>1. CASE v \in DOMAIN Resolved
    <3>1. v \notin Workday
      BY PostingAssumption
    <3> QED
      BY <1>4, <1>5, <1>8, <2>1, <3>1 DEF Holds
  <2>2. CASE v \notin DOMAIN Resolved
    BY <1>4, <2>2 DEF Holds
  <2> QED
    BY <2>1, <2>2
<1>11. Separate(postings, keys, {})
  BY <1>1 DEF ApartInv, Apart, Pending, At
<1>12. Separate(postings', keys', {})
  <2>1. Separate(postings', keys, {})
    BY <1>9, <1>10, <1>11, SeparateStays DEF Tied
  <2> QED
    BY <1>1, <2>1
<1>13. Tables'
  BY <1>1, <1>4, <1>6, <1>7 DEF ApartInv, Tables
<1>14. Remembered' /\ RememberedIds' /\ RememberedFinds'
  BY <1>1, <1>2, <1>3 DEF ApartInv, Remembered, RememberedIds, RememberedFinds, Now
<1>15. Read'
  BY <1>2 DEF Read, Collecting, Resolving, Merging
<1>16. ApartInv'
  BY <1>2, <1>12, <1>13, <1>14, <1>15, QuietApart
<1>17. StayApart
  <2> SUFFICES ASSUME NEW p \in Workday, NEW q \in Workday, p \in DOMAIN postings', q \in DOMAIN postings',
                      p # q, postings'[p] # None, postings'[p] = postings'[q]
               PROVE  {p, q} \subseteq DOMAIN postings /\ postings[p] = postings[q]
    BY DEF StayApart
  <2> DEFINE c == postings'[p]
  <2>1. Tied(postings, keys, p, c) /\ Tied(postings, keys, q, c)
    BY <1>9 DEF Holds
  <2>2. c \in Ids
    BY <1>13 DEF Tables, DeletesEmpty
  <2>3. p \in DOMAIN Resolved => Claimed(keys, p, c)
    BY <1>4, <1>8
  <2>4. q \in DOMAIN Resolved => Claimed(keys, q, c)
    BY <1>4, <1>8
  <2>5. p \notin DOMAIN Resolved /\ q \notin DOMAIN Resolved
    BY <1>11, <2>1, <2>2, <2>3, <2>4 DEF Separate, ClaimsApart
  <2> QED
    BY <1>4, <2>5
<1> QED
  BY <1>16, <1>17

-----------------------------------------------------------------------------
(* What is deleted, and forgotten.                                         *)

LEMMA RememberedLess ==
    ASSUME ApartInv, NEW gone, job.at \notin Repointed, job'.at \notin Repointed, job'.kind = job.kind,
           \A k : k \in DOMAIN keys' <=> k \in DOMAIN keys /\ keys[k] \notin gone,
           \A k \in DOMAIN keys' : keys'[k] = keys[k],
           DOMAIN clusters' \subseteq DOMAIN clusters,
           \A k \in DOMAIN job'.cache :
               /\ k \in DOMAIN job.cache /\ job'.cache[k] = job.cache[k]
               /\ job.cache[k] \in DOMAIN clusters' => job.cache[k] \notin gone
    PROVE  Remembered' /\ RememberedIds' /\ RememberedFinds'
<1>1. /\ \A e : Lasting(keys', e) <=> Lasting(keys, e) /\ e \notin gone
      /\ \A e : Open(keys', e) <=> Open(keys, e) /\ e \notin gone
  BY KeysGone
<1>2. \A k \in DOMAIN job.cache :
          /\ k # None /\ job.cache[k] \in Ids
          /\ k \in DOMAIN keys => keys[k] = job.cache[k]
  BY DEF ApartInv, Remembered, Now
<1>3. Remembered'
  BY <1>2 DEF Remembered, Now
<1>4. RememberedIds'
  BY <1>2 DEF ApartInv, RememberedIds
<1>5. RememberedFinds'
  BY <1>1 DEF ApartInv, RememberedFinds
<1> QED
  BY <1>3, <1>4, <1>5

LEMMA DropApart ==
    ASSUME ApartInv, DeletesEmpty', Drop
    PROVE  ApartInv'
<1> DEFINE empty == {c \in job.drop : Members(postings, c) = {}}
<1>1. /\ job.at = "drop" /\ DeleteClusters(empty)
      /\ IF empty = {} THEN job' = Between ELSE job' = [job EXCEPT !.at = "dropKeys", !.drop = empty]
  BY DEF Drop, At
<1>2. \A c \in empty : Members(postings, c) = {}
  OBVIOUS
<1> HIDE DEF empty
<1>3. /\ job'.at \in {"between", "dropKeys"} /\ job'.kind = job.kind /\ job'.cache = job.cache
      /\ job'.at = "between" => job'.got = << >>
  <2>1. CASE empty = {}
    BY <1>1, <2>1 DEF Between, Off
  <2>2. CASE empty # {}
    BY <1>1, <2>2 DEF ApartInv, DeletesEmpty, Off
  <2> QED
    BY <2>1, <2>2
<1>4. Separate(postings, keys, {})
  BY <1>1 DEF ApartInv, Apart, Pending, At
<1>5. Tables' /\ Separate(postings, keys, {})' /\ DOMAIN clusters' = DOMAIN clusters \ empty
  BY <1>1, <1>2, <1>4, DeletedTables
<1>6. /\ \A k : k \in DOMAIN keys' <=> k \in DOMAIN keys /\ keys[k] \notin empty
      /\ \A k \in DOMAIN keys' : keys'[k] = keys[k]
  <2>1. keys' = Without(keys, KeysTo(keys, empty))
    BY <1>1 DEF DeleteClusters
  <2> QED
    BY <2>1, KeysWithout
<1>7. job.at \notin Repointed /\ job'.at \notin Repointed
  BY <1>1, <1>3 DEF Repointed
<1>8. Remembered' /\ RememberedIds' /\ RememberedFinds'
  BY <1>3, <1>5, <1>6, <1>7, RememberedLess
<1>9. Read'
  BY <1>3 DEF Read, Collecting, Resolving, Merging
<1> QED
  BY <1>3, <1>5, <1>8, <1>9, QuietApart

LEMMA DropKeysApart ==
    ASSUME ApartInv, DeletesEmpty', DropKeys
    PROVE  ApartInv'
<1> DEFINE gone == job.drop
<1>1. /\ job.at = "dropKeys" /\ UNCHANGED <<postings, clusters>>
      /\ keys' = Without(keys, KeysTo(keys, gone))
      /\ job' = [Between EXCEPT !.cache = Without(@, KeysTo(@, gone))]
  BY DEF DropKeys, At
<1>2. /\ job'.at = "between" /\ job'.kind = job.kind /\ job'.got = << >>
      /\ job'.cache = Without(job.cache, KeysTo(job.cache, gone))
  BY <1>1 DEF Between, Off
<1> HIDE DEF gone
<1>3. /\ \A k : k \in DOMAIN keys' <=> k \in DOMAIN keys /\ keys[k] \notin gone
      /\ \A k \in DOMAIN keys' : keys'[k] = keys[k]
  BY <1>1, KeysWithout
<1>4. \A k \in DOMAIN job'.cache :
          k \in DOMAIN job.cache /\ job'.cache[k] = job.cache[k] /\ job.cache[k] \notin gone
  BY <1>2, KeysWithout
<1>5. job.at \notin Repointed /\ job'.at \notin Repointed
  BY <1>1, <1>2 DEF Repointed
<1>6. Remembered' /\ RememberedIds' /\ RememberedFinds'
  BY <1>1, <1>2, <1>3, <1>4, <1>5, RememberedLess
<1>7. Tables'
  BY <1>1, <1>3 DEF ApartInv, Tables
<1>8. Separate(postings, keys, {})'
  <2>1. Separate(postings, keys, {})
    BY <1>1 DEF ApartInv, Apart, Pending, At
  <2>2. /\ \A p, c : Claimed(keys', p, c) <=> Claimed(keys, p, c) /\ c \notin gone
        /\ \A c : Lasting(keys', c) <=> Lasting(keys, c) /\ c \notin gone
        /\ \A c : Open(keys', c) <=> Open(keys, c) /\ c \notin gone
    BY <1>3, KeysGone
  <2>3. Separate(postings, keys', {})
    BY <2>1, <2>2, SeparateStays DEF Tied, Shared
  <2> QED
    BY <1>1, <2>3
<1>9. Read'
  BY <1>2 DEF Read, Collecting, Resolving, Merging
<1> QED
  BY <1>2, <1>6, <1>7, <1>8, <1>9, QuietApart

LEMMA GcApart ==
    ASSUME ApartInv, DeletesEmpty', Gc \/ GcKeys \/ GcClusters
    PROVE  ApartInv'
<1>1. /\ job.at \in {"off", "gcKeys", "gcClusters"}
      /\ job'.at \in {"off", "gcKeys", "gcClusters"}
      /\ job'.cache = << >>
      /\ job'.at = "off" => job'.got = << >>
  <2>1. CASE Gc
    BY <2>1 DEF Gc, At, Off
  <2>2. CASE GcKeys
    BY <2>2 DEF GcKeys, At, Off, ApartInv, DeletesEmpty, Read, Collecting
  <2>3. CASE GcClusters
    BY <2>3 DEF GcClusters, At, Off
  <2> QED
    BY <2>1, <2>2, <2>3
<1>2. DOMAIN job'.cache = {}
  BY <1>1
<1>3. Remembered' /\ RememberedIds' /\ RememberedFinds'
  BY <1>2 DEF Remembered, RememberedIds, RememberedFinds
<1>4. Read'
  BY <1>1 DEF Read, Collecting, Resolving, Merging
<1>5. Separate(postings, keys, {})
  BY <1>1 DEF ApartInv, Apart, Pending, At
<1>6. Tables' /\ Separate(postings, keys, {})'
  <2>1. CASE Gc
    BY <1>5, <2>1 DEF Gc, ApartInv, Tables
  <2>2. CASE GcKeys
    <3> DEFINE gone == job.drop
    <3>1. keys' = Without(keys, KeysTo(keys, gone)) /\ UNCHANGED <<postings, clusters>>
      BY <2>2 DEF GcKeys
    <3> HIDE DEF gone
    <3>2. /\ \A k : k \in DOMAIN keys' <=> k \in DOMAIN keys /\ keys[k] \notin gone
          /\ \A k \in DOMAIN keys' : keys'[k] = keys[k]
      BY <3>1, KeysWithout
    <3>3. /\ \A p, c : Claimed(keys', p, c) <=> Claimed(keys, p, c) /\ c \notin gone
          /\ \A c : Lasting(keys', c) <=> Lasting(keys, c) /\ c \notin gone
          /\ \A c : Open(keys', c) <=> Open(keys, c) /\ c \notin gone
      BY <3>2, KeysGone
    <3>4. Separate(postings, keys', {})
      BY <1>5, <3>3, SeparateStays DEF Tied, Shared
    <3> QED
      BY <3>1, <3>2, <3>4 DEF ApartInv, Tables
  <2>3. CASE GcClusters
    <3>1. DeleteClusters(job.drop) /\ \A c \in job.drop : Members(postings, c) = {}
      BY <2>3 DEF GcClusters, At, ApartInv, DeletesEmpty, Collecting
    <3> QED
      BY <1>5, <3>1, DeletedTables
  <2> QED
    BY <2>1, <2>2, <2>3
<1> QED
  BY <1>1, <1>3, <1>4, <1>6, QuietApart DEF Collecting

LEMMA NextApart == ApartInv /\ [Next]_vars => ApartInv'
<1> SUFFICES ASSUME ApartInv, [Next]_vars PROVE ApartInv'
  OBVIOUS
<1>1. DeletesEmpty'
  BY NextDeletesEmpty DEF ApartInv
<1>2. CASE UNCHANGED vars
  BY <1>2 DEF vars, ApartInv, DeletesEmpty, Members, Tables, Apart, Pending, Remembered, RememberedIds,
     RememberedFinds, Now, Read, Staged, Chosen, RowKeys, Row, Joining, WorkdayRun, Own, VendorRun, Kept, At
<1>3. CASE (\E b \in Batches : Take(b)) \/ Exit \/ Reject \/ Fail \/ Kill
  BY <1>1, <1>3, TakeApart, EndApart
<1>4. CASE Gc \/ GcKeys \/ GcClusters
  BY <1>1, <1>4, GcApart
<1>5. CASE Resolve
  BY <1>1, <1>5, MatchApart, AdoptApart, CreateApart, MergeKeysApart, MergePostingsApart, MergeDeleteApart,
     AttachApart, SetCanonicalApart DEF Resolve, Merge
<1>6. CASE Stage \/ Upsert \/ Drop \/ DropKeys
  BY <1>1, <1>6, StageApart, UpsertApart, DropApart, DropKeysApart
<1> QED
  BY <1>2, <1>3, <1>4, <1>5, <1>6 DEF Next, Work

\* Only the upsert and a merge give a posting another identity.
LEMMA StepKeepsApart == ApartInv /\ [Next]_vars => [StayApart]_vars
<1> SUFFICES ASSUME ApartInv, Next PROVE StayApart
  OBVIOUS
<1>1. DeletesEmpty /\ DeletesEmpty'
  BY NextDeletesEmpty DEF ApartInv
<1>2. CASE Upsert
  BY <1>1, <1>2, UpsertApart
<1>3. CASE MergePostings
  <2>1. \A p, q \in Workday : Holds(postings, p, job.absorbed) /\ Holds(postings, q, job.pick) => p = q
    BY <1>1, <1>3, MergePostingsApart
  <2>2. /\ DOMAIN postings' = DOMAIN postings
        /\ \A p \in DOMAIN postings :
              postings'[p] = IF postings[p] = job.absorbed THEN job.pick ELSE postings[p]
    BY <1>3 DEF MergePostings
  <2> QED
    BY <2>1, <2>2 DEF StayApart, Holds
<1>4. CASE ~Upsert /\ ~MergePostings
  <2> SUFFICES ASSUME NEW p \in DOMAIN postings', postings'[p] # None
               PROVE  p \in DOMAIN postings /\ postings'[p] = postings[p]
    BY DEF StayApart
  <2>1. CASE Stage
    BY <2>1 DEF Stage, Put
  <2>2. CASE MergeDelete \/ Drop \/ GcClusters
    <3>1. PICK gone : DeleteClusters(gone)
      BY <2>2 DEF MergeDelete, Drop, GcClusters
    <3> QED
      BY <3>1 DEF DeleteClusters
  <2>3. CASE ~Stage /\ ~MergeDelete /\ ~Drop /\ ~GcClusters
    <3>1. UNCHANGED postings
      BY <1>4, <2>3 DEF Next, Work, Resolve, Merge, Take, Exit, Gc, MatchExact, MatchFuzzy, Adopt, Create,
         MergeKeys, Attach, SetCanonical, DropKeys, GcKeys, Reject, Fail, Kill
    <3> QED
      BY <3>1
  <2> QED
    BY <2>1, <2>2, <2>3
<1> QED
  BY <1>2, <1>3, <1>4

\* No step brings two Workday requisitions together that were apart, over any
\* nights and wherever jobs are stopped.
THEOREM RequisitionsStayApart == Spec => OneRequisition
<1>1. ApartInv /\ [Next]_vars => [\A p, q \in Workday \cap DOMAIN postings' :
          p # q /\ postings'[p] # None /\ postings'[p] = postings'[q]
              => {p, q} \subseteq DOMAIN postings /\ postings[p] = postings[q]]_vars
  BY StepKeepsApart DEF StayApart
<1> QED
  BY InitApart, NextApart, <1>1, PTL DEF Spec, OneRequisition
=============================================================================
