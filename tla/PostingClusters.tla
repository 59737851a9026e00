-------------------------- MODULE PostingClusters --------------------------
(***************************************************************************)
(* The tables the job postings pipeline keeps (scripts/job_postings):      *)
(* postings, the clusters that stand for real jobs, and the identity keys  *)
(* that lead to a cluster.  The workflow runs one process at a time; a     *)
(* sweep stages a batch of listings, resolves the identity of each, writes *)
(* the identities and drops the clusters left empty, one call after the    *)
(* other without a transaction, and can be stopped between any two.        *)
(***************************************************************************)
EXTENDS Naturals, Sequences, FiniteSets, FiniteSetsExt

CONSTANTS
    None,
    Workday,    \* the postings that come from the employers' own feed
    Vendor,     \* the postings a vendor's search returns
    Boards,     \* the job ids of employers' boards that apply URLs carry
    Titles,     \* employer, title and locality, as a fuzzy key tells them apart
    Batches,    \* what one query may return: sequences of listings
    Legacy,     \* Workday postings that one fuzzy-keyed cluster holds at the start
    LegacyKey,  \* and that cluster's key
    Ids,        \* bound on the clusters there are at the same time
    MaxFaults   \* bound on the calls that fail and the jobs that are stopped

Postings == Workday \cup Vendor

\* ats is what the apply URL of a vendor's listing leads to.
Listings == [id : Postings, ats : Boards \cup {None}, title : Titles \cup {None}]

ASSUME PostingAssumption ==
    /\ Workday \cap Vendor = {}
    /\ Batches \subseteq Seq(Listings)
    /\ \A b \in Batches :
          /\ b # <<>>
          /\ \A i, j \in DOMAIN b : b[i].id \in Workday <=> b[j].id \in Workday
          /\ \A i, j \in DOMAIN b : b[i].id = b[j].id => b[i] = b[j]
    /\ Legacy \subseteq Workday
    /\ LegacyKey \in {"fuzzy"} \X Titles
    /\ 1 \in Ids /\ None \notin Ids /\ None \notin Postings
    /\ MaxFaults \in Nat

\* The tables are finite, and no key is null.
ASSUME TableAssumption ==
    /\ IsFiniteSet(Postings)
    /\ None \notin {"ats", "url", "fuzzy", "posting"} \X (Postings \cup Boards \cup Titles)

VARIABLES
    postings,  \* job_postings: posting -> its posting_identity or None
    clusters,  \* posting_clusters: id -> its canonical posting or None
    keys,      \* posting_identity_keys: key -> cluster
    job,       \* the process that runs: where it is and what it has read
    torn,      \* history: a batch has ended before its last step
    spared,    \* history: the clusters a repeated listing left without a member
    faults

vars == <<postings, clusters, keys, job, torn, spared, faults>>

-----------------------------------------------------------------------------
(* Identity keys. *)

\* Mutant: a Workday listing presents its title as well.
TitledKeys(l) ==
    <<IF l.id \in Workday THEN <<"ats", l.id>> ELSE None,
      IF l.title # None THEN <<"fuzzy", l.title>> ELSE <<"posting", l.id>>>>

\* The exact and the fuzzy key of a listing.  The key of a requisition is made
\* of its employer and its id, its row is known by the id: the requisition ids
\* of different employers are taken to differ.
IdentityKeys(l) ==
    IF l.id \in Workday THEN <<<<"ats", l.id>>, None>>
    ELSE <<IF l.ats # None THEN <<"url", l.ats>> ELSE None,
           IF l.title # None THEN <<"fuzzy", l.title>>
           ELSE IF l.ats = None THEN <<"posting", l.id>> ELSE None>>

KeysOf(l) == {IdentityKeys(l)[1], IdentityKeys(l)[2]} \ {None}

Fuzzy(k) == k[1] = "fuzzy"

-----------------------------------------------------------------------------
(* The job. *)

Off == [at |-> "off", kind |-> None, cache |-> << >>, rows |-> <<>>, was |-> << >>,
        got |-> <<>>, pick |-> None, absorbed |-> None, drop |-> {}]

At(where) == job.at = where

\* Between two batches only the kind of job and its cache matter.
Between == [Off EXCEPT !.at = "between", !.kind = job.kind, !.cache = job.cache]

Row == job.rows[Len(job.got) + 1]

Without(f, S) == [x \in DOMAIN f \ S |-> f[x]]

\* The rows of f, and those of g with other keys.
Put(f, g) == [x \in DOMAIN f \cup DOMAIN g |-> IF x \in DOMAIN f THEN f[x] ELSE g[x]]

KeysTo(f, S) == {k \in DOMAIN f : f[k] \in S}

Members(table, c) == {p \in DOMAIN table : table[p] = c}

\* A key is looked up in the cache of the process and then in the table.
Find(k) ==
    IF k \in DOMAIN job.cache THEN job.cache[k]
    ELSE IF k \in DOMAIN keys THEN keys[k] ELSE None

Looked == Put(job.cache, [k \in KeysOf(Row) \cap DOMAIN keys |-> keys[k]])

ExactHit == Find(IdentityKeys(Row)[1])
FuzzyHit == Find(IdentityKeys(Row)[2])

\* The cluster the posting was in when its batch was staged.
Prior == job.was[Row.id]

Used ==
    DOMAIN clusters \cup {job.cache[k] : k \in DOMAIN job.cache}
        \cup {job.was[p] : p \in DOMAIN job.was} \cup {job.got[i] : i \in DOMAIN job.got}

\* posting_clusters rows go: their keys with them, their postings lose the identity.
DeleteClusters(gone) ==
    /\ clusters' = Without(clusters, gone)
    /\ keys' = Without(keys, KeysTo(keys, gone))
    /\ postings' = [p \in DOMAIN postings |-> IF postings[p] \in gone THEN None ELSE postings[p]]
    /\ spared' = spared \ gone

\* An exception ends a vendor run, and of a Workday sweep the employer's batch.
Broken == IF job.kind = "workday" THEN Between ELSE Off

Init ==
    /\ postings = [p \in Legacy |-> 1]
    /\ clusters = IF Legacy = {} THEN << >> ELSE [c \in {1} |-> CHOOSE p \in Legacy : TRUE]
    /\ keys = IF Legacy = {} THEN << >> ELSE [k \in {LegacyKey} |-> 1]
    /\ job = Off
    /\ torn = FALSE
    /\ spared = {}
    /\ faults = 0

\* A run begins with a query, or goes on with one more of its kind.
Take(batch) ==
    LET kind == IF batch[1].id \in Workday THEN "workday" ELSE "vendor"
    IN /\ \/ At("off")
          \/ At("between") /\ job.kind = kind
       /\ job' = [job EXCEPT !.at = "stage", !.kind = kind, !.rows = batch]
       /\ UNCHANGED <<postings, clusters, keys, torn, spared, faults>>

Exit ==
    /\ At("between")
    /\ job' = Off
    /\ UNCHANGED <<postings, clusters, keys, torn, spared, faults>>

\* Mutant: the rows are first written with their identities.
StageLater ==
    /\ At("stage")
    /\ job' = [job EXCEPT !.at = "resolve",
                 !.was = Put(postings, [p \in {job.rows[i].id : i \in DOMAIN job.rows} |-> None])]
    /\ UNCHANGED <<postings, clusters, keys, torn, spared, faults>>

\* stage_postings, then the identities the batch had and the members of their clusters.
Stage ==
    /\ At("stage")
    /\ postings' = Put(postings, [p \in {job.rows[i].id : i \in DOMAIN job.rows} |-> None])
    /\ job' = [job EXCEPT !.at = "resolve", !.was = postings']
    /\ UNCHANGED <<clusters, keys, torn, spared, faults>>

-----------------------------------------------------------------------------
(* resolve_and_attach_identity, one row after the other. *)

\* An exact key is known; a fuzzy one that leads elsewhere means a merge.
MatchExact ==
    /\ At("resolve")
    /\ ExactHit # None
    /\ IF FuzzyHit \in {None, ExactHit}
       THEN job' = [job EXCEPT !.at = "attach", !.cache = Looked, !.pick = ExactHit]
       ELSE job' = [job EXCEPT !.at = "mergeKeys", !.cache = Looked, !.pick = ExactHit,
                               !.absorbed = FuzzyHit]
    /\ UNCHANGED <<postings, clusters, keys, torn, spared, faults>>

MatchFuzzy ==
    /\ At("resolve")
    /\ ExactHit = None /\ FuzzyHit # None
    /\ job' = [job EXCEPT !.at = "attach", !.cache = Looked, !.pick = FuzzyHit]
    /\ UNCHANGED <<postings, clusters, keys, torn, spared, faults>>

NoMatch == At("resolve") /\ ExactHit = None /\ FuzzyHit = None

Sole == Prior # None /\ Cardinality(Members(job.was, Prior)) <= 1

\* The posting was alone in its cluster: it keeps it, without its fuzzy keys.
Adopt ==
    /\ NoMatch /\ Sole
    /\ LET inferred(f) == {k \in KeysTo(f, {Prior}) : Fuzzy(k)}
       IN /\ keys' = Without(keys, inferred(keys))
          /\ job' = [job EXCEPT !.at = "attach", !.pick = Prior,
                                !.cache = Without(job.cache, inferred(job.cache))]
    /\ UNCHANGED <<postings, clusters, torn, spared, faults>>

Create ==
    /\ NoMatch /\ ~Sole
    /\ Ids \ Used # {}
    /\ LET c == CHOOSE id \in Ids \ Used : TRUE
       IN /\ clusters' = Put(clusters, [id \in {c} |-> None])
          /\ job' = [job EXCEPT !.at = "attach", !.pick = c]
    /\ UNCHANGED <<postings, keys, torn, spared, faults>>

MergeKeys ==
    /\ At("mergeKeys")
    /\ job.pick \in DOMAIN clusters
    /\ keys' = [k \in DOMAIN keys |-> IF keys[k] = job.absorbed THEN job.pick ELSE keys[k]]
    /\ job' = [job EXCEPT !.at = "mergePostings"]
    /\ UNCHANGED <<postings, clusters, torn, spared, faults>>

\* Mutant: the postings are left to the deletion of their cluster.
MergeNoPostings ==
    /\ At("mergePostings")
    /\ job' = [job EXCEPT !.at = "mergeDelete"]
    /\ UNCHANGED <<postings, clusters, keys, torn, spared, faults>>

MergePostings ==
    /\ At("mergePostings")
    /\ postings' = [p \in DOMAIN postings |->
                      IF postings[p] = job.absorbed THEN job.pick ELSE postings[p]]
    /\ job' = [job EXCEPT !.at = "mergeDelete"]
    /\ UNCHANGED <<clusters, keys, torn, spared, faults>>

MergeDelete ==
    /\ At("mergeDelete")
    /\ DeleteClusters({job.absorbed})
    /\ job' = [job EXCEPT !.at = "attach", !.absorbed = None,
                 !.cache = [k \in DOMAIN job.cache |->
                              IF job.cache[k] = job.absorbed THEN job.pick ELSE job.cache[k]]]
    /\ UNCHANGED <<torn, faults>>

Attach ==
    /\ At("attach")
    /\ job.pick \in DOMAIN clusters
    /\ keys' = Put([k \in KeysOf(Row) |-> job.pick], keys)
    /\ job' = [job EXCEPT !.at = "canonical",
                          !.cache = Put([k \in KeysOf(Row) |-> job.pick], job.cache)]
    /\ UNCHANGED <<postings, clusters, torn, spared, faults>>

\* A vendor's row never displaces another; with it the row is resolved.
SetCanonical ==
    /\ At("canonical")
    /\ clusters' = IF clusters[job.pick] # None /\ Row.id \in Vendor THEN clusters
                   ELSE [clusters EXCEPT ![job.pick] = Row.id]
    /\ job' = [job EXCEPT !.at = IF Len(job.got) + 1 = Len(job.rows) THEN "upsert" ELSE "resolve",
                          !.got = Append(@, job.pick), !.pick = None]
    /\ UNCHANGED <<postings, keys, torn, spared, faults>>

-----------------------------------------------------------------------------
(* The rest of _stage_resolve_upsert. *)

Rows(P(_)) == Cardinality({i \in DOMAIN job.rows : P(i)})

Was(i) == job.was[job.rows[i].id]

\* Rows of the batch that leave a cluster and rows that join it, the repeated
\* ones counted each time.
Leavers(c) == Rows(LAMBDA i : Was(i) = c /\ job.got[i] # c)

Joiners(c) == Rows(LAMBDA i : Was(i) # c /\ job.got[i] = c)

Priors == {Was(i) : i \in DOMAIN job.rows} \ {None}

\* Mutant: postings may leave a cluster only for a new one, by adoption.
NoneVacated == {}

\* What the counts say will have no member, by the members before the batch.
Vacated ==
    {c \in Priors : Leavers(c) > 0 /\ Cardinality(Members(job.was, c)) + Joiners(c) = Leavers(c)}

\* A listing that the batch repeats left the cluster or was put into it.
Repeated(c) ==
    \E i, j \in DOMAIN job.rows :
        i # j /\ job.rows[i].id = job.rows[j].id /\ c \in {Was(i), job.got[i]}

NowSpared(table) ==
    {c \in DOMAIN clusters : Members(table, c) = {} /\ (c \in spared \/ Repeated(c))}

\* Of rows with the same conflict key the first one is written.
Resolved ==
    [p \in {job.rows[i].id : i \in DOMAIN job.rows} |->
        job.got[Min({i \in DOMAIN job.rows : job.rows[i].id = p})]]

\* The identities refer to clusters that are there.
Valid == \A p \in DOMAIN Resolved : Resolved[p] \in DOMAIN clusters

\* Mutant: an update where the identity differs, which for null it does not.
UpsertChanged ==
    /\ At("upsert")
    /\ Valid
    /\ postings' = [p \in DOMAIN postings |->
                      IF p \in DOMAIN Resolved /\ postings[p] # None THEN Resolved[p] ELSE postings[p]]
    /\ job' = IF Vacated = {} THEN Between ELSE [job EXCEPT !.at = "drop", !.drop = Vacated]
    /\ spared' = NowSpared(postings')
    /\ UNCHANGED <<clusters, keys, torn, faults>>

Upsert ==
    /\ At("upsert")
    /\ Valid
    /\ postings' = Put(Resolved, postings)
    /\ job' = IF Vacated = {} THEN Between ELSE [job EXCEPT !.at = "drop", !.drop = Vacated]
    /\ spared' = NowSpared(postings')
    /\ UNCHANGED <<clusters, keys, torn, faults>>

\* drop_clusters reads the members again and skips a cluster that has one.
Drop ==
    /\ At("drop")
    /\ LET empty == {c \in job.drop : Members(postings, c) = {}}
       IN /\ DeleteClusters(empty)
          /\ job' = IF empty = {} THEN Between ELSE [job EXCEPT !.at = "dropKeys", !.drop = empty]
    /\ UNCHANGED <<torn, faults>>

DropKeys ==
    /\ At("dropKeys")
    /\ keys' = Without(keys, KeysTo(keys, job.drop))
    /\ job' = [Between EXCEPT !.cache = Without(@, KeysTo(@, job.drop))]
    /\ UNCHANGED <<postings, clusters, torn, spared, faults>>

-----------------------------------------------------------------------------
(* gc_clusters.py --live, and what goes wrong. *)

Gc ==
    /\ At("off")
    /\ LET empty == {c \in DOMAIN clusters : Members(postings, c) = {}}
       IN empty # {} /\ job' = [Off EXCEPT !.at = "gcKeys", !.drop = empty]
    /\ UNCHANGED <<postings, clusters, keys, torn, spared, faults>>

GcKeys ==
    /\ At("gcKeys")
    /\ keys' = Without(keys, KeysTo(keys, job.drop))
    /\ job' = [job EXCEPT !.at = "gcClusters"]
    /\ UNCHANGED <<postings, clusters, torn, spared, faults>>

GcClusters ==
    /\ At("gcClusters")
    /\ DeleteClusters(job.drop)
    /\ job' = Off
    /\ UNCHANGED <<torn, faults>>

\* A key, a merge or an identity refers to a cluster that is gone: the call is rejected.
Reject ==
    /\ \/ At("attach") /\ job.pick \notin DOMAIN clusters
       \/ At("mergeKeys") /\ job.pick \notin DOMAIN clusters
       \/ At("upsert") /\ ~Valid
    /\ torn' = TRUE
    /\ job' = Broken
    /\ UNCHANGED <<postings, clusters, keys, spared, faults>>

Busy == job.at \notin {"off", "between"}

\* A call fails; a failing drop_clusters ends no run.
Fail ==
    /\ Busy
    /\ faults < MaxFaults
    /\ faults' = faults + 1
    /\ torn' = TRUE
    /\ job' = IF At("drop") \/ At("dropKeys") THEN Between ELSE Broken
    /\ UNCHANGED <<postings, clusters, keys, spared>>

\* The job reaches its time limit or is cancelled.
Kill ==
    /\ Busy
    /\ faults < MaxFaults
    /\ faults' = faults + 1
    /\ torn' = TRUE
    /\ job' = Off
    /\ UNCHANGED <<postings, clusters, keys, spared>>

Merge == MergeKeys \/ MergePostings \/ MergeDelete

Resolve == MatchExact \/ MatchFuzzy \/ Adopt \/ Create \/ Merge \/ Attach \/ SetCanonical

Work == Stage \/ Resolve \/ Upsert \/ Drop \/ DropKeys \/ GcKeys \/ GcClusters \/ Reject

Next ==
    \/ \E b \in Batches : Take(b)
    \/ Exit \/ Gc \/ Work \/ Fail \/ Kill

Spec == Init /\ [][Next]_vars

Relinks(b) == \E i \in DOMAIN b : b[i].id \in DOMAIN postings /\ postings[b[i].id] = None

\* A job that runs goes on and ends; runs of both kinds come every night with
\* every query, so also with one that returns a posting without identity.
FairSpec ==
    /\ Spec
    /\ WF_vars(Work)
    /\ SF_vars(Exit)
    /\ SF_vars(\E b \in Batches : Relinks(b) /\ Take(b))

-----------------------------------------------------------------------------
(* Properties. *)

\* The tables refer to each other as their foreign keys have it.
TypeOK ==
    /\ DOMAIN postings \subseteq Postings
    /\ DOMAIN clusters \subseteq Ids
    /\ \A p \in DOMAIN postings : postings[p] \in DOMAIN clusters \cup {None}
    /\ \A c \in DOMAIN clusters : clusters[c] \in DOMAIN postings \cup {None}
    /\ \A k \in DOMAIN keys : keys[k] \in DOMAIN clusters
    /\ Len(job.got) <= Len(job.rows)
    /\ torn \in BOOLEAN
    /\ spared \subseteq DOMAIN clusters
    /\ faults \in 0 .. MaxFaults

\* As long as every batch ran to its end, between batches check_integrity finds
\* no null_posting_identity, no null_canonical, and as empty_clusters, and under
\* keys_to_missing_or_empty_clusters, only those the counting of a repeated
\* listing spared: whatever rows left, joined, merged and adopted meanwhile,
\* Vacated names every other cluster the batch has emptied.  The other three
\* assertions of evaluate do not follow from a finished batch: a canonical
\* posting stays behind when the posting moves (canonical_not_member), a
\* cluster is found by a link and a title (cluster_key_count_delta), and an old
\* title-keyed cluster holds several requisitions until they are listed again.
SweptClean ==
    ~torn /\ ~Busy =>
        /\ \A p \in DOMAIN postings : postings[p] # None
        /\ \A c \in DOMAIN clusters :
              /\ clusters[c] # None
              /\ Members(postings, c) = {} => c \in spared

\* No step, whatever is stopped where, takes away the identity a posting has:
\* a deleted cluster would set it null.
IdentityKept ==
    [][\A p \in DOMAIN postings : postings[p] # None => postings'[p] # None]_vars

\* No step brings two Workday requisitions together that were apart, over any
\* nights and wherever jobs are stopped.
OneRequisition ==
    [][\A p, q \in Workday \cap DOMAIN postings' :
          p # q /\ postings'[p] # None /\ postings'[p] = postings'[q]
              => {p, q} \subseteq DOMAIN postings /\ postings[p] = postings[q]]_vars

\* The postings a stopped job left without identity get one in a later sweep.
Unlinked == {p \in DOMAIN postings : postings[p] = None}

Healed == Unlinked # {} ~> Unlinked = {}

=============================================================================
