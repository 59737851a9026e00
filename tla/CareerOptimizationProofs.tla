---------------------- MODULE CareerOptimizationProofs ----------------------
(***************************************************************************)
(* What the coordinator promises about its flights and its answers, for    *)
(* any number of requests and keys, any time to live and any size of the   *)
(* cache: a Future in the table has exactly one owner, a thread never      *)
(* blocks on a Future nobody is going to set, an answer is as recent as    *)
(* the code promises, and an old batch never replaces a newer response.    *)
(***************************************************************************)
EXTENDS CareerOptimization, TLAPS

Places == Owning \cup {"idle", "look", "claim", "wait"}

\* The types the argument needs: a request in run has a key, and one that owns
\* or waits for a batch has a batch that was begun.
Typed ==
    /\ batches \in Seq(Batch)
    /\ inflight \in [Keys -> {None} \cup DOMAIN batches]
    /\ pc \in [Requests -> Places]
    /\ key \in [Requests -> Keys \cup {None}]
    /\ batch \in [Requests -> {None} \cup DOMAIN batches]
    /\ \A r \in Requests : pc[r] # "idle" => key[r] \in Keys
    /\ \A r \in Requests : pc[r] \in Owning \cup {"wait"} => batch[r] \in DOMAIN batches

\* An owner works on a batch of its key, and has settled it when it comes to
\* take the flight out.
OwnersWork ==
    \A r \in Requests : Owns(r) =>
        /\ batches[batch[r]].key = key[r]
        /\ pc[r] = "pop" => batches[batch[r]].done

\* WaitsForSomeone is not inductive alone: a request that joins needs to know
\* that the Future it found has an owner (FlightsOwned), and that an owner about
\* to leave has settled it (OwnersWork).
IInv == Typed /\ FlightsOwned /\ OwnersWork /\ WaitsForSomeone

-----------------------------------------------------------------------------

\* Beginning a batch appends it and leaves the others as they are.
LEMMA BeginBatch ==
    ASSUME batches \in Seq(Batch), NEW b \in Batch, batches' = Append(batches, b)
    PROVE  /\ batches' \in Seq(Batch)
           /\ Len(batches) + 1 \in DOMAIN batches'
           /\ batches'[Len(batches) + 1] = b
           /\ Len(batches) + 1 \notin DOMAIN batches
           /\ \A i \in DOMAIN batches : i \in DOMAIN batches' /\ batches'[i] = batches[i]
  OBVIOUS

\* Replacing one batch leaves the others as they are.
LEMMA ChangeBatch ==
    ASSUME batches \in Seq(Batch), NEW i \in DOMAIN batches, NEW b \in Batch,
           batches' = [batches EXCEPT ![i] = b]
    PROVE  /\ batches' \in Seq(Batch)
           /\ DOMAIN batches' = DOMAIN batches
           /\ batches'[i] = b
           /\ \A j \in DOMAIN batches : j # i => batches'[j] = batches[j]
  OBVIOUS

\* The index of a flight is never the value that says there is none.
LEMMA NoneIsNoBatch ==
    ASSUME batches \in Seq(Batch)
    PROVE  None \notin DOMAIN batches
  BY CoordinatorAssumption

\* Every request is idle at first and no Future is in the table.
LEMMA InitInv == Init => IInv
  BY CoordinatorAssumption
  DEF Init, IInv, Typed, Places, FlightsOwned, OwnersWork, WaitsForSomeone, Owns, Owning

-----------------------------------------------------------------------------
(* Steps that touch neither the flights nor an owner: they move a request that
   owns nothing. *)

\* An arrival, and a look into the cache.
LEMMA LookInv ==
    ASSUME IInv, NEW r \in Requests,
           \/ \E k \in Keys, force \in BOOLEAN : Arrive(r, k, force)
           \/ Hit(r)
           \/ Miss(r)
    PROVE  IInv'
<1>1. /\ pc[r] \in {"idle", "look"}
      /\ \E at \in {"idle", "look", "claim"} : pc' = [pc EXCEPT ![r] = at]
      /\ key' = [key EXCEPT ![r] = key'[r]]
      /\ key'[r] \in Keys \cup {None}
      /\ pc'[r] # "idle" => key'[r] \in Keys
      /\ batch' = [batch EXCEPT ![r] = batch'[r]]
      /\ batch'[r] \in {None} \cup DOMAIN batches
      /\ UNCHANGED <<inflight, batches>>
  BY DEF Arrive, Hit, Miss, Return, Goto, tableVars, IInv, Typed
<1>2. Typed'
  BY <1>1 DEF IInv, Typed, Places, Owning
<1>3. \A q \in Requests : q # r => pc'[q] = pc[q] /\ key'[q] = key[q] /\ batch'[q] = batch[q]
  BY <1>1 DEF IInv, Typed
<1>4. ~Owns(r) /\ ~Owns(r)' /\ pc'[r] # "wait"
  BY <1>1 DEF IInv, Typed, Owns, Owning
<1>5. FlightsOwned'
  BY <1>1, <1>3, <1>4 DEF IInv, FlightsOwned, Owns
<1>6. OwnersWork'
  BY <1>1, <1>3, <1>4 DEF IInv, OwnersWork, Owns
<1>7. WaitsForSomeone'
  BY <1>1, <1>3, <1>4 DEF IInv, WaitsForSomeone, Owns, Owning
<1> QED BY <1>2, <1>5, <1>6, <1>7 DEF IInv

\* A request that joins finds a Future with an owner; one that got its answer
\* leaves.
LEMMA JoinInv ==
    ASSUME IInv, NEW r \in Requests, Join(r) \/ Joined(r)
    PROVE  IInv'
<1>1. CASE Join(r)
  <2>1. PICK s \in Requests : Owns(s) /\ key[s] = key[r]
    BY <1>1 DEF Join, IInv, Typed, FlightsOwned
  <2>2. batch'[r] = batch[s] /\ batch[s] \in DOMAIN batches /\ s # r
    BY <1>1, <2>1 DEF Join, IInv, Typed, FlightsOwned, Owns, Owning
  <2>3. Typed'
    BY <1>1, <2>2 DEF Join, Goto, tableVars, IInv, Typed, Places, Owning
  <2>4. FlightsOwned' /\ OwnersWork'
    BY <1>1 DEF Join, Goto, tableVars, IInv, Typed, FlightsOwned, OwnersWork, Owns, Owning
  <2>5. batches[batch[s]].key = key[r]
        /\ (batches[batch[s]].done \/ pc[s] \in Owning \ {"pop"})
    BY <2>1 DEF IInv, OwnersWork, Owns
  <2>6. WaitsForSomeone'
    <3> SUFFICES ASSUME NEW q \in Requests, pc'[q] = "wait"
                 PROVE  /\ batches'[batch'[q]].key = key'[q]
                        /\ \/ batches'[batch'[q]].done
                           \/ \E o \in Requests : pc'[o] \in Owning \ {"pop"} /\ batch'[o] = batch'[q]
      BY DEF WaitsForSomeone
    <3>1. /\ UNCHANGED <<batches, key>>
          /\ \A o \in Requests : o # r => pc'[o] = pc[o] /\ batch'[o] = batch[o]
          /\ pc[r] \notin Owning
      BY <1>1 DEF Join, Goto, IInv, Typed, Owning
    <3>2. CASE q = r
      BY <2>1, <2>2, <2>5, <3>1, <3>2
    <3>3. CASE q # r
      BY <3>1, <3>3 DEF IInv, WaitsForSomeone
    <3> QED BY <3>2, <3>3
  <2> QED BY <2>3, <2>4, <2>6 DEF IInv
<1>2. CASE Joined(r)
  <2>1. /\ pc' = [pc EXCEPT ![r] = "idle"]
        /\ key' = [key EXCEPT ![r] = None]
        /\ batch' = [batch EXCEPT ![r] = None]
        /\ pc[r] = "wait"
        /\ UNCHANGED <<inflight, batches>>
    BY <1>2 DEF Joined, Return, Goto, tableVars
  <2>2. Typed'
    BY <2>1 DEF IInv, Typed, Places, Owning
  <2>3. \A q \in Requests : q # r => pc'[q] = pc[q] /\ key'[q] = key[q] /\ batch'[q] = batch[q]
    BY <2>1 DEF IInv, Typed
  <2>4. ~Owns(r) /\ ~Owns(r)' /\ pc'[r] # "wait"
    BY <2>1 DEF IInv, Typed, Owns, Owning
  <2>5. FlightsOwned' /\ OwnersWork'
    BY <2>1, <2>3, <2>4 DEF IInv, FlightsOwned, OwnersWork, Owns
  <2>6. WaitsForSomeone'
    BY <2>1, <2>3, <2>4 DEF IInv, WaitsForSomeone, Owns, Owning
  <2> QED BY <2>2, <2>5, <2>6 DEF IInv
<1> QED BY <1>1, <1>2

-----------------------------------------------------------------------------
(* The owner's steps. *)

\* A request claims a key for which the table has no Future, hence no owner:
\* the new flight is the only one for its key.
LEMMA ClaimInv ==
    ASSUME IInv, NEW r \in Requests, Claim(r)
    PROVE  IInv'
<1> DEFINE n == Len(batches) + 1
           b == [key |-> key[r], outcome |-> None, done |-> FALSE]
<1>1. /\ pc[r] = "claim" /\ inflight[key[r]] = None /\ key[r] \in Keys
      /\ batches' = Append(batches, b)
      /\ inflight' = [inflight EXCEPT ![key[r]] = n]
      /\ batch' = [batch EXCEPT ![r] = n]
      /\ pc' = [pc EXCEPT ![r] = "compute"]
      /\ key' = key
  BY DEF Claim, Goto, IInv, Typed
<1>2. b \in Batch
  BY <1>1 DEF Batch
<1> HIDE DEF b
<1>3. /\ batches' \in Seq(Batch) /\ n \in DOMAIN batches' /\ n \notin DOMAIN batches
      /\ batches'[n] = b
      /\ \A i \in DOMAIN batches : i \in DOMAIN batches' /\ batches'[i] = batches[i]
  BY <1>1, <1>2, BeginBatch DEF IInv, Typed
<1> HIDE DEF n
<1>4. Typed'
  BY <1>1, <1>3 DEF IInv, Typed, Places, Owning
<1>5. /\ \A q \in Requests : q # r => pc'[q] = pc[q] /\ batch'[q] = batch[q]
      /\ pc'[r] = "compute" /\ batch'[r] = n
      /\ ~Owns(r) /\ Owns(r)'
  BY <1>1 DEF IInv, Typed, Owns, Owning
<1>6. \A q \in Requests : Owns(q) => key[q] # key[r] /\ batch[q] \in DOMAIN batches
  BY <1>1, CoordinatorAssumption, NoneIsNoBatch DEF IInv, Typed, FlightsOwned, Owns
<1>7. FlightsOwned'
  BY <1>1, <1>5, <1>6 DEF IInv, Typed, FlightsOwned, Owns
<1>8. OwnersWork'
  <2> SUFFICES ASSUME NEW q \in Requests, Owns(q)'
               PROVE  /\ batches'[batch'[q]].key = key'[q]
                      /\ pc'[q] = "pop" => batches'[batch'[q]].done
    BY DEF OwnersWork
  <2>1. CASE q = r
    BY <1>1, <1>3, <1>5, <2>1 DEF b
  <2>2. CASE q # r
    BY <1>1, <1>3, <1>5, <1>6, <2>2 DEF IInv, OwnersWork, Owns
  <2> QED BY <2>1, <2>2
<1>9. WaitsForSomeone'
  BY <1>1, <1>3, <1>5 DEF IInv, Typed, WaitsForSomeone, Owning
<1> QED BY <1>4, <1>7, <1>8, <1>9 DEF IInv

\* The owner's batch ends, its response is kept, its Future is set: the flight
\* stays in the table and keeps its owner.
LEMMA WorkInv ==
    ASSUME IInv, NEW r \in Requests,
           NEW outcome \in {"OPTIMIZED", "PARTIAL", "raised"},
           Compute(r, outcome) \/ Store(r) \/ Settle(r)
    PROVE  IInv'
<1> DEFINE i == batch[r]
           b == batches'[i]
<1>1. /\ Owns(r) /\ pc[r] # "pop" /\ i \in DOMAIN batches /\ batches[i] \in Batch
      /\ UNCHANGED <<inflight, key, batch>>
  BY DEF Compute, Store, Settle, tableVars, Owns, Owning, IInv, Typed
<1>2. \E at \in {"store", "settle", "pop"} :
        /\ pc' = [pc EXCEPT ![r] = at]
        /\ at = "pop" => Settle(r)
  BY DEF Compute, Store, Settle, Goto
<1>3. /\ batches' \in Seq(Batch) /\ DOMAIN batches' = DOMAIN batches
      /\ batches'[i].key = batches[i].key
      /\ batches[i].done => batches'[i].done
      /\ Settle(r) => batches'[i].done
      /\ \A j \in DOMAIN batches : j # i => batches'[j] = batches[j]
  <2>1. CASE Compute(r, outcome)
    <3>1. batches' = [batches EXCEPT ![i] = [batches[i] EXCEPT !.outcome = outcome]]
      BY <2>1 DEF Compute
    <3>2. [batches[i] EXCEPT !.outcome = outcome] \in Batch
      BY <1>1 DEF Batch
    <3>3. ~Settle(r)
      BY <2>1 DEF Compute, Settle
    <3> QED BY <1>1, <3>1, <3>2, <3>3, ChangeBatch DEF IInv, Typed, Batch
  <2>2. CASE Store(r)
    BY <2>2 DEF Store, Settle, IInv, Typed
  <2>3. CASE Settle(r)
    <3>1. batches' = [batches EXCEPT ![i] = [batches[i] EXCEPT !.done = TRUE]]
      BY <2>3 DEF Settle
    <3>2. [batches[i] EXCEPT !.done = TRUE] \in Batch
      BY <1>1 DEF Batch
    <3> QED BY <1>1, <3>1, <3>2, ChangeBatch DEF IInv, Typed, Batch
  <2> QED BY <2>1, <2>2, <2>3
<1>4. Typed'
  BY <1>1, <1>2, <1>3 DEF IInv, Typed, Places, Owns, Owning
<1>5. /\ \A q \in Requests : q # r => pc'[q] = pc[q]
      /\ Owns(r)'
      /\ pc'[r] = "pop" => Settle(r)
      /\ pc'[r] # "wait"
  BY <1>2 DEF IInv, Typed, Owns, Owning
<1>6. FlightsOwned'
  BY <1>1, <1>5 DEF IInv, FlightsOwned, Owns
<1>7. /\ \A j \in DOMAIN batches : batches'[j].key = batches[j].key
      /\ \A j \in DOMAIN batches : batches[j].done => batches'[j].done
  BY <1>3
<1>8. OwnersWork'
  BY <1>1, <1>3, <1>5, <1>7 DEF IInv, Typed, OwnersWork, Owns
<1>9. WaitsForSomeone'
  <2> SUFFICES ASSUME NEW q \in Requests, pc'[q] = "wait"
               PROVE  /\ batches'[batch'[q]].key = key'[q]
                      /\ \/ batches'[batch'[q]].done
                         \/ \E o \in Requests : pc'[o] \in Owning \ {"pop"} /\ batch'[o] = batch'[q]
    BY DEF WaitsForSomeone
  <2>1. pc[q] = "wait" /\ batch[q] \in DOMAIN batches
    BY <1>5 DEF IInv, Typed
  <2>2. batches'[batch'[q]].key = key'[q]
    BY <1>1, <1>7, <2>1 DEF IInv, WaitsForSomeone
  <2>3. CASE batches[batch[q]].done
    BY <1>1, <1>7, <2>1, <2>2, <2>3
  <2>4. CASE ~batches[batch[q]].done
    <3>1. PICK o \in Requests : pc[o] \in Owning \ {"pop"} /\ batch[o] = batch[q]
      BY <2>1, <2>4 DEF IInv, WaitsForSomeone
    <3>2. CASE o # r
      BY <1>1, <1>5, <2>2, <3>1, <3>2
    <3>3. CASE o = r
      BY <1>1, <1>3, <1>5, <2>2, <3>1, <3>3 DEF Owns
    <3> QED BY <3>2, <3>3
  <2> QED BY <2>3, <2>4
<1> QED BY <1>4, <1>6, <1>8, <1>9 DEF IInv

\* The owner takes its flight out: nobody else owns one for that key, and who
\* still waits for the batch can see that it is settled.
LEMMA PopInv ==
    ASSUME IInv, NEW r \in Requests, Pop(r)
    PROVE  IInv'
<1>1. /\ pc[r] = "pop" /\ Owns(r) /\ key[r] \in Keys
      /\ inflight' = [inflight EXCEPT ![key[r]] = None]
      /\ pc' = [pc EXCEPT ![r] = "idle"]
      /\ key' = [key EXCEPT ![r] = None]
      /\ batch' = [batch EXCEPT ![r] = None]
      /\ batches' = batches
  BY DEF Pop, Return, Goto, IInv, Typed, Owns, Owning
<1>2. Typed'
  BY <1>1 DEF IInv, Typed, Places, Owning
<1>3. /\ \A q \in Requests : q # r => pc'[q] = pc[q] /\ key'[q] = key[q] /\ batch'[q] = batch[q]
      /\ ~Owns(r)' /\ pc'[r] # "wait"
  BY <1>1 DEF IInv, Typed, Owns, Owning
<1>4. \A q \in Requests : q # r /\ Owns(q) => key[q] # key[r] /\ key[q] \in Keys
  BY <1>1 DEF IInv, Typed, FlightsOwned, Owns, Owning
<1>5. FlightsOwned'
  BY <1>1, <1>3, <1>4 DEF IInv, Typed, FlightsOwned, Owns
<1>6. OwnersWork'
  BY <1>1, <1>3 DEF IInv, OwnersWork, Owns
<1>7. WaitsForSomeone'
  BY <1>1, <1>3 DEF IInv, WaitsForSomeone, Owning
<1> QED BY <1>2, <1>5, <1>6, <1>7 DEF IInv

-----------------------------------------------------------------------------

\* No step breaks the invariant.
LEMMA NextInv == IInv /\ [Next]_vars => IInv'
<1> SUFFICES ASSUME IInv, [Next]_vars
             PROVE  IInv'
  OBVIOUS
<1>1. CASE Tick
  BY <1>1 DEF Tick, tableVars, requestVars, IInv, Typed, Places, FlightsOwned,
    OwnersWork, WaitsForSomeone, Owns
<1>2. ASSUME NEW r \in Requests, NEW k \in Keys, NEW force \in BOOLEAN, Arrive(r, k, force)
      PROVE  IInv'
  BY <1>2, LookInv
<1>3. ASSUME NEW r \in Requests, Step(r)
      PROVE  IInv'
  <2>1. CASE Hit(r) \/ Miss(r)
    BY <2>1, LookInv
  <2>2. CASE Claim(r)
    BY <2>2, ClaimInv
  <2>3. CASE Join(r) \/ Joined(r)
    BY <2>3, JoinInv
  <2>4. CASE Store(r) \/ Settle(r)
    BY <2>4, WorkInv
  <2>5. ASSUME NEW outcome \in {"OPTIMIZED", "PARTIAL", "raised"}, Compute(r, outcome)
        PROVE  IInv'
    BY <2>5, WorkInv
  <2>6. CASE Pop(r)
    BY <2>6, PopInv
  <2> QED BY <1>3, <2>1, <2>2, <2>3, <2>4, <2>5, <2>6 DEF Step
<1>4. CASE UNCHANGED vars
  BY <1>4 DEF vars, tableVars, requestVars, IInv, Typed, Places, FlightsOwned,
    OwnersWork, WaitsForSomeone, Owns
<1> QED BY <1>1, <1>2, <1>3, <1>4 DEF Next

\* A Future in _inflight and the request that computes it are one and the same:
\* at most one request computes a key, its Future is the one others find, and no
\* Future is left behind by an exception.
THEOREM FlightsAreOwned == Spec => []FlightsOwned
<1>1. IInv => FlightsOwned
  BY DEF IInv
<1> QED BY InitInv, NextInv, <1>1, PTL DEF Spec

\* A thread blocked in future.result() waits for a batch of its own key, which
\* is settled or has an owner that has yet to settle it: no order of calls and
\* failures leaves it waiting for nobody.
THEOREM NobodyWaitsInVain == Spec => []WaitsForSomeone
<1>1. IInv => WaitsForSomeone
  BY DEF IInv
<1> QED BY InitInv, NextInv, <1>1, PTL DEF Spec

-----------------------------------------------------------------------------
(* What answers are made of: the invariant behind AnswersAreRecent and
   NewestKept. *)

\* What is kept is the complete response of a batch of that key.
Kept ==
    /\ DOMAIN cache = Keys
    /\ \A k \in Keys : cache[k] # None =>
          /\ cache[k].batch \in DOMAIN batches
          /\ batches[cache[k].batch].key = k
          /\ batches[cache[k].batch].outcome = "OPTIMIZED"

\* A request has met every batch of its key that is at work, the one it waits
\* for included, and one that looks in the cache did not ask for a refresh.
Meets ==
    /\ DOMAIN met = Requests
    /\ DOMAIN forced = Requests
    /\ \A r \in Requests : pc[r] = "look" => ~forced[r]
    /\ \A r \in Requests : pc[r] = "wait" => batch[r] \in met[r]
    /\ \A r, s \in Requests :
          pc[r] # "idle" /\ Owns(s) /\ key[s] = key[r] => batch[s] \in met[r]

\* Until an owner has stored its response, what is kept for its key is older;
\* and only a complete response is stored.
Newer ==
    /\ \A r \in Requests : pc[r] = "store" => batches[batch[r]].outcome = "OPTIMIZED"
    /\ \A r \in Requests : pc[r] \in {"compute", "store"} /\ cache[key[r]] # None
                              => cache[key[r]].batch < batch[r]

History == Kept /\ Meets /\ Newer

\* Only request r moves, and the others keep their keys, batches and flags.
Alone(r) ==
    \A q \in Requests : q # r =>
        /\ pc'[q] = pc[q] /\ key'[q] = key[q] /\ batch'[q] = batch[q]
        /\ forced'[q] = forced[q] /\ met'[q] = met[q]

\* A request that is answered takes nothing from the others.
LEMMA ReturnKeeps ==
    ASSUME IInv, History, NEW r \in Requests, Return(r), UNCHANGED <<cache, batches>>
    PROVE  History' /\ pc'[r] = "idle"
<1>1. Alone(r) /\ pc'[r] = "idle" /\ DOMAIN met' = Requests /\ DOMAIN forced' = Requests
  BY DEF Alone, Return, Goto, IInv, Typed, History, Meets
<1>2. Kept'
  BY DEF History, Kept
<1>3. Meets'
  BY <1>1 DEF Alone, History, Meets, Owns, Owning
<1>4. Newer'
  BY <1>1 DEF Alone, History, Newer
<1> QED
  BY <1>1, <1>2, <1>3, <1>4 DEF History

\* An arriving request meets the batches of its key that are at work.
LEMMA ArriveKeeps ==
    ASSUME IInv, History, NEW r \in Requests, NEW k \in Keys, NEW force \in BOOLEAN,
           Arrive(r, k, force)
    PROVE  History'
<1>1. /\ Alone(r) /\ DOMAIN met' = Requests /\ DOMAIN forced' = Requests
      /\ pc[r] = "idle" /\ pc'[r] = (IF force THEN "claim" ELSE "look")
      /\ key'[r] = k /\ forced'[r] = force
      /\ met'[r] = {batch[q] : q \in {o \in Requests : Owns(o) /\ key[o] = k}}
      /\ UNCHANGED <<cache, batches>>
  BY DEF Alone, Arrive, Goto, tableVars, IInv, Typed, History, Meets
<1>2. Kept'
  BY <1>1 DEF History, Kept
<1>3. Meets'
  <2>1. ~Owns(r) /\ ~Owns(r)'
    BY <1>1 DEF Owns, Owning
  <2>2. ASSUME NEW q \in Requests, NEW s \in Requests, pc'[q] # "idle", Owns(s)', key'[s] = key'[q]
        PROVE  batch'[s] \in met'[q]
    <3>1. s # r /\ Owns(s) /\ batch'[s] = batch[s] /\ key'[s] = key[s]
      BY <1>1, <2>1, <2>2 DEF Alone, Owns
    <3>2. CASE q = r
      BY <1>1, <2>2, <3>1, <3>2
    <3>3. CASE q # r
      BY <1>1, <2>2, <3>1, <3>3 DEF Alone, History, Meets
    <3> QED
      BY <3>2, <3>3
  <2>3. \A q \in Requests : pc'[q] = "look" => ~forced'[q]
    BY <1>1 DEF Alone, History, Meets
  <2>4. \A q \in Requests : pc'[q] = "wait" => batch'[q] \in met'[q]
    BY <1>1 DEF Alone, History, Meets
  <2> QED
    BY <1>1, <2>2, <2>3, <2>4 DEF Meets
<1>4. Newer'
  BY <1>1 DEF Alone, History, Newer
<1> QED
  BY <1>2, <1>3, <1>4 DEF History

\* An expired response is dropped and no other changes.
LEMMA MissKeeps ==
    ASSUME IInv, History, NEW r \in Requests, Miss(r)
    PROVE  History'
<1>1. /\ pc' = [pc EXCEPT ![r] = "claim"] /\ pc[r] = "look"
      /\ UNCHANGED <<batches, key, batch, forced, met>>
  BY DEF Miss, Goto
<1>2. DOMAIN cache' = Keys /\ \A k \in Keys : cache'[k] \in {cache[k], None}
  <2>1. cache' = cache \/ cache' = [cache EXCEPT ![key[r]] = None]
    BY DEF Miss
  <2> QED
    BY <2>1 DEF History, Kept
<1>3. Kept'
  BY <1>1, <1>2 DEF History, Kept
<1>4. Meets'
  BY <1>1 DEF History, Meets, Owns, Owning, IInv, Typed
<1>5. \A q \in Requests : pc'[q] \in {"compute", "store"} => pc'[q] = pc[q] /\ key[q] \in Keys
  BY <1>1 DEF IInv, Typed
<1>6. Newer'
  BY <1>1, <1>2, <1>5 DEF History, Newer
<1> QED
  BY <1>3, <1>4, <1>6 DEF History

\* A batch that is begun is met by every request for its key, and is newer
\* than what is kept.
LEMMA ClaimKeeps ==
    ASSUME IInv, History, NEW r \in Requests, Claim(r)
    PROVE  History'
<1> DEFINE n == Len(batches) + 1
           b == [key |-> key[r], outcome |-> None, done |-> FALSE]
<1>1. /\ pc[r] = "claim" /\ key[r] \in Keys
      /\ batches' = Append(batches, b)
      /\ batch' = [batch EXCEPT ![r] = n]
      /\ pc' = [pc EXCEPT ![r] = "compute"]
      /\ met' = [q \in Requests |-> IF key[q] = key[r] THEN met[q] \cup {n} ELSE met[q]]
      /\ UNCHANGED <<cache, key, forced>>
  BY DEF Claim, Goto, IInv, Typed
<1>2. b \in Batch
  BY <1>1 DEF Batch
<1> HIDE DEF b
<1>3. /\ \A i \in DOMAIN batches : i \in DOMAIN batches' /\ batches'[i] = batches[i]
      /\ \A i \in DOMAIN batches : i < n
  BY <1>1, <1>2, BeginBatch DEF IInv, Typed
<1> HIDE DEF n
<1>4. /\ \A q \in Requests : q # r => pc'[q] = pc[q] /\ batch'[q] = batch[q]
      /\ pc'[r] = "compute" /\ batch'[r] = n
  BY <1>1 DEF IInv, Typed
<1>5. Kept'
  BY <1>1, <1>3 DEF History, Kept
<1>6. Meets'
  <2>1. \A q \in Requests : met[q] \subseteq met'[q]
    BY <1>1
  <2>2. ASSUME NEW q \in Requests, NEW s \in Requests, pc'[q] # "idle", Owns(s)', key'[s] = key'[q]
        PROVE  batch'[s] \in met'[q]
    <3>1. CASE s = r
      BY <1>1, <1>4, <2>2, <3>1
    <3>2. CASE s # r
      <4>1. pc[q] # "idle" /\ Owns(s) /\ key[s] = key[q] /\ batch'[s] = batch[s]
        BY <1>1, <1>4, <2>2, <3>2 DEF Owns
      <4> QED
        BY <2>1, <4>1 DEF History, Meets
    <3> QED
      BY <3>1, <3>2
  <2>3. \A q \in Requests : pc'[q] = "look" => ~forced'[q]
    BY <1>1, <1>4 DEF History, Meets
  <2>4. \A q \in Requests : pc'[q] = "wait" => batch'[q] \in met'[q]
    BY <1>4, <2>1 DEF History, Meets
  <2> QED
    BY <1>1, <2>2, <2>3, <2>4 DEF History, Meets
<1>7. Newer'
  <2>1. \A q \in Requests : pc'[q] = "store" => batches'[batch'[q]].outcome = "OPTIMIZED"
    BY <1>3, <1>4 DEF History, Newer, IInv, Typed, Owning
  <2>2. cache[key[r]] # None => cache[key[r]].batch < n
    BY <1>1, <1>3 DEF History, Kept
  <2>3. \A q \in Requests : pc'[q] \in {"compute", "store"} /\ cache'[key'[q]] # None
                               => cache'[key'[q]].batch < batch'[q]
    BY <1>1, <1>4, <2>2 DEF History, Newer
  <2> QED
    BY <2>1, <2>3 DEF Newer
<1> QED
  BY <1>5, <1>6, <1>7 DEF History

\* The Future a request joins belongs to a batch it has met.
LEMMA JoinKeeps ==
    ASSUME IInv, History, NEW r \in Requests, Join(r)
    PROVE  History'
<1>1. /\ pc' = [pc EXCEPT ![r] = "wait"] /\ pc[r] = "claim"
      /\ batch' = [batch EXCEPT ![r] = inflight[key[r]]]
      /\ inflight[key[r]] # None /\ key[r] \in Keys
      /\ UNCHANGED <<cache, batches, key, forced, met>>
  BY DEF Join, Goto, tableVars, IInv, Typed
<1>2. PICK s \in Requests : Owns(s) /\ key[s] = key[r]
  BY <1>1 DEF IInv, FlightsOwned
<1>3. inflight[key[r]] \in met[r]
  BY <1>1, <1>2 DEF IInv, FlightsOwned, History, Meets
<1>4. /\ \A q \in Requests : q # r => pc'[q] = pc[q] /\ batch'[q] = batch[q]
      /\ pc'[r] = "wait" /\ batch'[r] = inflight[key[r]]
  BY <1>1 DEF IInv, Typed
<1>5. Kept'
  BY <1>1 DEF History, Kept
<1>6. Meets'
  BY <1>1, <1>3, <1>4 DEF History, Meets, Owns, Owning
<1>7. Newer'
  BY <1>1, <1>4 DEF History, Newer
<1> QED
  BY <1>5, <1>6, <1>7 DEF History

\* The outcome of a batch is written before its response is kept.
LEMMA ComputeKeeps ==
    ASSUME IInv, History, NEW r \in Requests,
           NEW outcome \in {"OPTIMIZED", "PARTIAL", "raised"}, Compute(r, outcome)
    PROVE  History'
<1>1. /\ pc[r] = "compute" /\ Owns(r) /\ batch[r] \in DOMAIN batches /\ key[r] \in Keys
      /\ batches' = [batches EXCEPT ![batch[r]].outcome = outcome]
      /\ pc' = [pc EXCEPT ![r] = IF outcome = "OPTIMIZED" THEN "store" ELSE "settle"]
      /\ UNCHANGED <<cache, key, forced, batch, met>>
  BY DEF Compute, Goto, tableVars, Owns, Owning, IInv, Typed
<1>2. /\ DOMAIN batches' = DOMAIN batches
      /\ \A i \in DOMAIN batches : i # batch[r] => batches'[i] = batches[i]
      /\ \A i \in DOMAIN batches : batches'[i].key = batches[i].key
      /\ batches'[batch[r]].outcome = outcome
  <2> DEFINE i == batch[r]
             b == [batches[i] EXCEPT !.outcome = outcome]
  <2>1. batches' = [batches EXCEPT ![i] = b]
    BY <1>1
  <2>2. i \in DOMAIN batches /\ batches[i] \in Batch
    BY <1>1 DEF IInv, Typed
  <2>3. b \in Batch /\ b.key = batches[i].key /\ b.outcome = outcome
    BY <2>2 DEF Batch
  <2> HIDE DEF b
  <2>4. /\ DOMAIN batches' = DOMAIN batches /\ batches'[i] = b
        /\ \A j \in DOMAIN batches : j # i => batches'[j] = batches[j]
    BY <2>1, <2>2, <2>3, ChangeBatch DEF IInv, Typed
  <2> QED
    BY <2>3, <2>4
<1>3. /\ \A q \in Requests : q # r => pc'[q] = pc[q]
      /\ pc'[r] = IF outcome = "OPTIMIZED" THEN "store" ELSE "settle"
  BY <1>1 DEF IInv, Typed
<1>4. \A k \in Keys : cache[k] # None => cache[k].batch # batch[r]
  <2> SUFFICES ASSUME NEW k \in Keys, cache[k] # None, cache[k].batch = batch[r]
               PROVE  FALSE
    OBVIOUS
  <2>1. k = key[r]
    BY <1>1 DEF History, Kept, IInv, OwnersWork
  <2>2. cache[k].batch < batch[r]
    BY <1>1, <2>1 DEF History, Newer
  <2> QED
    BY <1>1, <2>2 DEF IInv, Typed
<1>5. Kept'
  BY <1>1, <1>2, <1>4 DEF History, Kept
<1>6. Meets'
  BY <1>1, <1>3 DEF History, Meets, Owns, Owning
<1>7. Newer'
  <2>1. ASSUME NEW q \in Requests, q # r, pc[q] = "store"
        PROVE  batch[q] \in DOMAIN batches /\ batch[q] # batch[r]
    BY <1>1, <2>1 DEF IInv, Typed, FlightsOwned, OwnersWork, Owns, Owning
  <2>2. \A q \in Requests : pc'[q] = "store" => batches'[batch'[q]].outcome = "OPTIMIZED"
    BY <1>1, <1>2, <1>3, <2>1 DEF History, Newer
  <2>3. \A q \in Requests : pc'[q] \in {"compute", "store"} /\ cache'[key'[q]] # None
                               => cache'[key'[q]].batch < batch'[q]
    BY <1>1, <1>3 DEF History, Newer
  <2> QED
    BY <2>2, <2>3 DEF Newer
<1> QED
  BY <1>5, <1>6, <1>7 DEF History

\* What a store leaves for a key: what was kept, nothing, or for its own key
\* the response of its batch.
LEMMA StoreLeaves ==
    ASSUME IInv, History, NEW r \in Requests, Store(r)
    PROVE  /\ DOMAIN cache' = Keys
           /\ \A k \in Keys : k # key[r] => cache'[k] \in {cache[k], None}
           /\ cache'[key[r]] = None \/ cache'[key[r]].batch = batch[r]
<1> DEFINE used == Append(Remove(lru, key[r]), key[r])
           row == [batch |-> batch[r], expires |-> time + TTL]
           kept == [cache EXCEPT ![key[r]] = row]
<1>1. cache' = [kept EXCEPT ![Head(used)] = None] \/ cache' = kept
  BY DEF Store
<1>2. row.batch = batch[r]
  OBVIOUS
<1> HIDE DEF used, row
<1>3. key[r] \in Keys /\ DOMAIN cache = Keys
  BY DEF Store, IInv, Typed, History, Kept
<1> QED
  BY <1>1, <1>2, <1>3

LEMMA StoreKeeps ==
    ASSUME IInv, History, NEW r \in Requests, Store(r)
    PROVE  History'
<1>1. /\ pc[r] = "store" /\ Owns(r) /\ batch[r] \in DOMAIN batches /\ key[r] \in Keys
      /\ pc' = [pc EXCEPT ![r] = "settle"]
      /\ UNCHANGED <<batches, key, forced, batch, met>>
  BY DEF Store, Goto, Owns, Owning, IInv, Typed
<1>2. /\ \A q \in Requests : q # r => pc'[q] = pc[q]
      /\ pc'[r] = "settle"
  BY <1>1 DEF IInv, Typed
<1>3. batches[batch[r]].key = key[r] /\ batches[batch[r]].outcome = "OPTIMIZED"
  BY <1>1 DEF IInv, OwnersWork, History, Newer
<1>4. Kept'
  BY <1>1, <1>3, StoreLeaves DEF History, Kept
<1>5. Meets'
  BY <1>1, <1>2 DEF History, Meets, Owns, Owning
<1>6. Newer'
  <2>1. ASSUME NEW q \in Requests, pc'[q] \in {"compute", "store"}
        PROVE  q # r /\ pc[q] = pc'[q] /\ key[q] \in Keys /\ key[q] # key[r]
    BY <1>1, <1>2, <2>1 DEF IInv, Typed, FlightsOwned, Owns, Owning
  <2>2. \A q \in Requests : pc'[q] \in {"compute", "store"} => cache'[key[q]] \in {cache[key[q]], None}
    BY <2>1, StoreLeaves
  <2> QED
    BY <1>1, <2>1, <2>2 DEF History, Newer
<1> QED
  BY <1>4, <1>5, <1>6 DEF History

LEMMA SettleKeeps ==
    ASSUME IInv, History, NEW r \in Requests, Settle(r)
    PROVE  History'
<1>1. /\ pc[r] = "settle" /\ Owns(r) /\ batch[r] \in DOMAIN batches
      /\ batches' = [batches EXCEPT ![batch[r]].done = TRUE]
      /\ pc' = [pc EXCEPT ![r] = "pop"]
      /\ UNCHANGED <<cache, key, forced, batch, met>>
  BY DEF Settle, Goto, tableVars, Owns, Owning, IInv, Typed
<1>2. /\ DOMAIN batches' = DOMAIN batches
      /\ \A i \in DOMAIN batches : /\ batches'[i].key = batches[i].key
                                   /\ batches'[i].outcome = batches[i].outcome
  BY <1>1 DEF IInv, Typed, Batch
<1>3. /\ \A q \in Requests : q # r => pc'[q] = pc[q]
      /\ pc'[r] = "pop"
  BY <1>1 DEF IInv, Typed
<1>4. Kept'
  BY <1>1, <1>2 DEF History, Kept
<1>5. Meets'
  BY <1>1, <1>3 DEF History, Meets, Owns, Owning
<1>6. Newer'
  <2>1. \A q \in Requests : pc'[q] = "store" => pc[q] = "store" /\ batch[q] \in DOMAIN batches
    BY <1>3 DEF IInv, Typed, Owning
  <2> QED
    BY <1>1, <1>2, <1>3, <2>1 DEF History, Newer
<1> QED
  BY <1>4, <1>5, <1>6 DEF History

LEMMA NextKeepsHistory == IInv /\ History /\ [Next]_vars => History'
<1> SUFFICES ASSUME IInv, History, [Next]_vars
             PROVE  History'
  OBVIOUS
<1>1. CASE Tick \/ UNCHANGED vars
  BY <1>1 DEF Tick, vars, tableVars, requestVars, History, Kept, Meets, Newer, Owns
<1>2. ASSUME NEW r \in Requests, Step(r) PROVE History'
  <2>1. CASE Hit(r) \/ Joined(r) \/ Pop(r)
    BY <2>1, ReturnKeeps DEF Hit, Joined, Pop, tableVars
  <2>2. ASSUME NEW outcome \in {"OPTIMIZED", "PARTIAL", "raised"}, Compute(r, outcome)
        PROVE  History'
    BY <2>2, ComputeKeeps
  <2> QED
    BY <1>2, <2>1, <2>2, MissKeeps, ClaimKeeps, JoinKeeps, StoreKeeps, SettleKeeps DEF Step
<1> QED
  BY <1>1, <1>2, ArriveKeeps DEF Next

LEMMA InitHistory == Init => History
  BY DEF Init, History, Kept, Meets, Newer, Owns, Owning

\* An answer leaves a request in one of three ways.
LEMMA AnsweredBy ==
    ASSUME IInv, [Next]_vars, NEW r \in Requests, Answered(r)
    PROVE  Hit(r) \/ Joined(r) \/ Pop(r)
<1> DEFINE Moved(q) == \E at : at # "idle" /\ pc' = [pc EXCEPT ![q] = at]
<1>1. ASSUME NEW q \in Requests, Moved(q) PROVE FALSE
  BY <1>1 DEF Answered, IInv, Typed
<1>2. ASSUME NEW q \in Requests, NEW k \in Keys, NEW force \in BOOLEAN, Arrive(q, k, force)
      PROVE  FALSE
  <2>1. Moved(q)
    BY <1>2 DEF Arrive, Goto
  <2> QED
    BY <1>1, <2>1
<1>3. ASSUME NEW q \in Requests, Miss(q) \/ Claim(q) \/ Join(q) \/ Store(q) \/ Settle(q)
      PROVE  FALSE
  <2>1. Moved(q)
    BY <1>3 DEF Miss, Claim, Join, Store, Settle, Goto
  <2> QED
    BY <1>1, <2>1
<1>4. ASSUME NEW q \in Requests, NEW outcome \in {"OPTIMIZED", "PARTIAL", "raised"},
             Compute(q, outcome)
      PROVE  FALSE
  <2>1. Moved(q)
    BY <1>4 DEF Compute, Goto
  <2> QED
    BY <1>1, <2>1
<1>5. ASSUME NEW q \in Requests, Hit(q) \/ Joined(q) \/ Pop(q) PROVE q = r
  BY <1>5 DEF Answered, Hit, Joined, Pop, Return, Goto, IInv, Typed
<1>6. ~Tick /\ ~UNCHANGED vars
  BY DEF Answered, Tick, vars, requestVars
<1> HIDE DEF Moved
<1> QED
  BY <1>2, <1>3, <1>4, <1>5, <1>6 DEF Next, Step

\* run: what a request is given is a complete response that was still fresh
\* when it arrived, and not if it asked for a refresh, or the outcome of a
\* batch whose owner was in run after it arrived; in any order of the calls.
THEOREM AnswersKeepTheirPromise == Spec => AnswersAreRecent
<1>1. ASSUME IInv, History, [Next]_vars, NEW r \in Requests, Answered(r)
      PROVE  \/ /\ pc[r] = "look" /\ ~forced[r]
                /\ batches[cache[key[r]].batch].outcome = "OPTIMIZED"
                /\ batches[cache[key[r]].batch].key = key[r]
                /\ cache[key[r]].expires > now[r]
             \/ pc[r] # "look" /\ batch[r] \in met[r]
  <2>1. CASE Hit(r)
    BY <1>1, <2>1 DEF Hit, History, Kept, Meets, IInv, Typed
  <2>2. CASE Joined(r)
    BY <1>1, <2>2 DEF Joined, History, Meets
  <2>3. CASE Pop(r)
    BY <1>1, <2>3 DEF Pop, History, Meets, Owns, Owning
  <2> QED
    BY <1>1, <2>1, <2>2, <2>3, AnsweredBy
<1>2. IInv /\ History /\ [Next]_vars =>
        [\A r \in Requests : Answered(r) =>
            \/ /\ pc[r] = "look" /\ ~forced[r]
               /\ batches[cache[key[r]].batch].outcome = "OPTIMIZED"
               /\ batches[cache[key[r]].batch].key = key[r]
               /\ cache[key[r]].expires > now[r]
            \/ pc[r] # "look" /\ batch[r] \in met[r]]_vars
  BY <1>1
<1> QED
  BY <1>2, InitInv, NextInv, InitHistory, NextKeepsHistory, PTL DEF Spec, AnswersAreRecent

\* _store: a batch that took long never overwrites the response of one that
\* began after it, for there is none: its key has one flight at a time.
THEOREM OldBatchesNeverReturn == Spec => NewestKept
<1>1. ASSUME IInv, History, [Next]_vars, NEW k \in Keys, cache[k] # None, cache'[k] # None
      PROVE  cache'[k].batch >= cache[k].batch
  <2>1. cache[k].batch \in Nat
    BY <1>1 DEF History, Kept, IInv, Typed
  <2>2. ASSUME NEW r \in Requests, Store(r) PROVE cache'[k].batch >= cache[k].batch
    <3>1. CASE k # key[r]
      BY <1>1, <2>1, <2>2, <3>1, StoreLeaves
    <3>2. CASE k = key[r]
      <4>1. cache'[k].batch = batch[r] /\ pc[r] = "store"
        BY <1>1, <2>2, <3>2, StoreLeaves DEF Store
      <4>2. cache[k].batch < batch[r] /\ batch[r] \in Nat
        BY <1>1, <3>2, <4>1 DEF History, Newer, IInv, Typed, Owning
      <4> QED
        BY <2>1, <4>1, <4>2
    <3> QED
      BY <3>1, <3>2
  <2>3. ASSUME NEW r \in Requests, Miss(r) PROVE cache'[k] = cache[k]
    <3>1. cache' = cache \/ cache' = [cache EXCEPT ![key[r]] = None]
      BY <2>3 DEF Miss
    <3> QED
      BY <1>1, <3>1 DEF History, Kept
  <2>4. CASE cache' = cache
    BY <2>1, <2>4
  <2>5. Tick \/ UNCHANGED vars => cache' = cache
    BY DEF Tick, vars, tableVars
  <2>6. ASSUME NEW r \in Requests
        PROVE  /\ \A j \in Keys, force \in BOOLEAN : Arrive(r, j, force) => cache' = cache
               /\ Step(r) => cache' = cache \/ Miss(r) \/ Store(r)
    BY DEF Arrive, Step, Hit, Claim, Join, Joined, Compute, Settle, Pop, tableVars
  <2> QED
    BY <1>1, <2>1, <2>2, <2>3, <2>4, <2>5, <2>6 DEF Next
<1>2. IInv /\ History /\ [Next]_vars =>
        [\A k \in Keys : cache[k] # None /\ cache'[k] # None
                            => cache'[k].batch >= cache[k].batch]_vars
  BY <1>1
<1> QED
  BY <1>2, InitInv, NextInv, InitHistory, NextKeepsHistory, PTL DEF Spec, NewestKept
=============================================================================
