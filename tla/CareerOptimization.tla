------------------------- MODULE CareerOptimization -------------------------
(***************************************************************************)
(* CareerOptimizationCoordinator: a process-local result cache with time   *)
(* to live and LRU bound, in front of a single flight per fingerprint.  A  *)
(* request looks in the cache, then either joins the batch that is in      *)
(* flight for its key or begins one.  Its lock is released between the two *)
(* and around everything slow; each action is one critical section, or     *)
(* what one thread does between two.                                       *)
(***************************************************************************)
EXTENDS Naturals, FiniteSets, Sequences, SequencesExt

CONSTANTS
    Requests,    \* threads that serve a request
    Keys,        \* <<student_id, fingerprint>>
    TTL,         \* ttl_seconds
    MaxEntries,  \* max_entries
    MaxTime,     \* bound: where the clock stops
    MaxBatches,  \* bound: ranking batches of a behaviour
    None

ASSUME CoordinatorAssumption ==
    /\ TTL \in Nat \ {0}
    /\ MaxEntries \in Nat \ {0}
    /\ MaxTime \in Nat
    /\ MaxBatches \in Nat
    /\ None \notin Nat
    /\ None \notin Keys

VARIABLES
    time,      \* the monotonic clock
    cache,     \* _cache: the batch whose response is kept, and until when
    lru,       \* its order: the key used longest ago first
    inflight,  \* _inflight: the batch whose Future is there
    batches,   \* begun batches with their Future: outcome, and whether it is set
    pc,        \* where each request is
    key,       \* what it asks for
    forced,    \* force_refresh
    now,       \* the clock as it read it on arrival
    batch,     \* the batch it owns or waits for
    met        \* history: batches of its key at work since it arrived

tableVars == <<cache, lru, inflight>>
requestVars == <<pc, key, forced, now, batch, met>>
vars == <<time, tableVars, batches, requestVars>>

\* From the claim to the "finally" of run.
Owning == {"compute", "store", "settle", "pop"}

Owns(r) == pc[r] \in Owning

Init ==
    /\ time = 0
    /\ cache = [k \in Keys |-> None]
    /\ lru = <<>>
    /\ inflight = [k \in Keys |-> None]
    /\ batches = <<>>
    /\ pc = [r \in Requests |-> "idle"]
    /\ key = [r \in Requests |-> None]
    /\ forced = [r \in Requests |-> FALSE]
    /\ now = [r \in Requests |-> None]
    /\ batch = [r \in Requests |-> None]
    /\ met = [r \in Requests |-> {}]

Tick ==
    /\ time < MaxTime
    /\ time' = time + 1
    /\ UNCHANGED <<tableVars, batches, requestVars>>

-----------------------------------------------------------------------------

Goto(r, at) == pc' = [pc EXCEPT ![r] = at]

\* run returns or raises, and the thread is free for another request.
Return(r) ==
    /\ Goto(r, "idle")
    /\ key' = [key EXCEPT ![r] = None]
    /\ forced' = [forced EXCEPT ![r] = FALSE]
    /\ now' = [now EXCEPT ![r] = None]
    /\ batch' = [batch EXCEPT ![r] = None]
    /\ met' = [met EXCEPT ![r] = {}]

\* _cached reads the clock before it takes the lock; a forced request goes
\* straight to the table of flights.
Arrive(r, k, force) ==
    /\ pc[r] = "idle"
    /\ Len(batches) + Cardinality({q \in Requests : pc[q] \in {"look", "claim"}}) < MaxBatches
    /\ Goto(r, IF force THEN "claim" ELSE "look")
    /\ key' = [key EXCEPT ![r] = k]
    /\ forced' = [forced EXCEPT ![r] = force]
    /\ now' = [now EXCEPT ![r] = time]
    /\ met' = [met EXCEPT ![r] = {batch[q] : q \in {o \in Requests : Owns(o) /\ key[o] = k}}]
    /\ UNCHANGED <<time, tableVars, batches, batch>>

\* Mutant: the expiry of the kept response is not looked at.
HitAnyAge(r) ==
    /\ pc[r] = "look"
    /\ cache[key[r]] # None
    /\ lru' = Append(Remove(lru, key[r]), key[r])
    /\ Return(r)
    /\ UNCHANGED <<time, cache, inflight, batches>>

Hit(r) ==
    /\ pc[r] = "look"
    /\ cache[key[r]] # None
    /\ cache[key[r]].expires > now[r]
    /\ lru' = Append(Remove(lru, key[r]), key[r])
    /\ Return(r)
    /\ UNCHANGED <<time, cache, inflight, batches>>

\* Nothing is cached, or it has expired and is dropped.
Miss(r) ==
    /\ pc[r] = "look"
    /\ \/ cache[key[r]] = None /\ UNCHANGED <<cache, lru>>
       \/ /\ cache[key[r]] # None
          /\ cache[key[r]].expires <= now[r]
          /\ cache' = [cache EXCEPT ![key[r]] = None]
          /\ lru' = Remove(lru, key[r])
    /\ Goto(r, "claim")
    /\ UNCHANGED <<time, inflight, batches, key, forced, now, batch, met>>

\* Mutant: the flight of another request is not looked for.
ClaimAnyway(r) ==
    /\ pc[r] = "claim"
    /\ batches' = Append(batches, [key |-> key[r], outcome |-> None, done |-> FALSE])
    /\ inflight' = [inflight EXCEPT ![key[r]] = Len(batches) + 1]
    /\ batch' = [batch EXCEPT ![r] = Len(batches) + 1]
    /\ met' = [q \in Requests |-> IF key[q] = key[r] THEN met[q] \cup {Len(batches) + 1} ELSE met[q]]
    /\ Goto(r, "compute")
    /\ UNCHANGED <<time, cache, lru, key, forced, now>>

\* No flight for the key: this request owns a new one.
Claim(r) ==
    /\ pc[r] = "claim"
    /\ inflight[key[r]] = None
    /\ batches' = Append(batches, [key |-> key[r], outcome |-> None, done |-> FALSE])
    /\ inflight' = [inflight EXCEPT ![key[r]] = Len(batches) + 1]
    /\ batch' = [batch EXCEPT ![r] = Len(batches) + 1]
    /\ met' = [q \in Requests |-> IF key[q] = key[r] THEN met[q] \cup {Len(batches) + 1} ELSE met[q]]
    /\ Goto(r, "compute")
    /\ UNCHANGED <<time, cache, lru, key, forced, now>>

\* A flight exists: this request waits for its Future.
Join(r) ==
    /\ pc[r] = "claim"
    /\ inflight[key[r]] # None
    /\ batch' = [batch EXCEPT ![r] = inflight[key[r]]]
    /\ Goto(r, "wait")
    /\ UNCHANGED <<time, tableVars, batches, key, forced, now, met>>

\* future.result() returns, or raises what the owner raised.
Joined(r) ==
    /\ pc[r] = "wait"
    /\ batches[batch[r]].done
    /\ Return(r)
    /\ UNCHANGED <<time, tableVars, batches>>

-----------------------------------------------------------------------------
(* The owner. *)

\* compute() ends: every requirement ranked, a partial or fallback plan, or an
\* exception.
Compute(r, outcome) ==
    /\ pc[r] = "compute"
    /\ batches' = [batches EXCEPT ![batch[r]].outcome = outcome]
    /\ Goto(r, IF outcome = "OPTIMIZED" THEN "store" ELSE "settle")
    /\ UNCHANGED <<time, tableVars, key, forced, now, batch, met>>

\* Mutant: nothing makes room.
StoreUnbounded(r) ==
    /\ pc[r] = "store"
    /\ lru' = Append(Remove(lru, key[r]), key[r])
    /\ cache' = [cache EXCEPT ![key[r]] = [batch |-> batch[r], expires |-> time + TTL]]
    /\ Goto(r, "settle")
    /\ UNCHANGED <<time, inflight, batches, key, forced, now, batch, met>>

\* Only an OPTIMIZED response is kept; the key used longest ago makes room.
Store(r) ==
    LET used == Append(Remove(lru, key[r]), key[r])
        kept == [cache EXCEPT ![key[r]] = [batch |-> batch[r], expires |-> time + TTL]]
        full == Len(used) > MaxEntries
    IN  /\ pc[r] = "store"
        /\ lru' = IF full THEN Tail(used) ELSE used
        /\ cache' = IF full THEN [kept EXCEPT ![Head(used)] = None] ELSE kept
        /\ Goto(r, "settle")
        /\ UNCHANGED <<time, inflight, batches, key, forced, now, batch, met>>

\* Mutant: an exception leaves the Future unset.
SettleResultsOnly(r) ==
    /\ pc[r] = "settle"
    /\ batches' = IF batches[batch[r]].outcome = "raised" THEN batches
                  ELSE [batches EXCEPT ![batch[r]].done = TRUE]
    /\ Goto(r, "pop")
    /\ UNCHANGED <<time, tableVars, key, forced, now, batch, met>>

\* set_result or set_exception
Settle(r) ==
    /\ pc[r] = "settle"
    /\ batches' = [batches EXCEPT ![batch[r]].done = TRUE]
    /\ Goto(r, "pop")
    /\ UNCHANGED <<time, tableVars, key, forced, now, batch, met>>

\* Mutant: the flight is taken out only after a success.
PopUnlessRaised(r) ==
    /\ pc[r] = "pop"
    /\ inflight' = IF batches[batch[r]].outcome = "raised" THEN inflight
                   ELSE [inflight EXCEPT ![key[r]] = None]
    /\ Return(r)
    /\ UNCHANGED <<time, cache, lru, batches>>

\* The "finally" of run, which returns or raises.
Pop(r) ==
    /\ pc[r] = "pop"
    /\ inflight' = [inflight EXCEPT ![key[r]] = None]
    /\ Return(r)
    /\ UNCHANGED <<time, cache, lru, batches>>

-----------------------------------------------------------------------------

Step(r) ==
    \/ Hit(r) \/ Miss(r) \/ Claim(r) \/ Join(r) \/ Joined(r)
    \/ \E outcome \in {"OPTIMIZED", "PARTIAL", "raised"} : Compute(r, outcome)
    \/ Store(r) \/ Settle(r) \/ Pop(r)

Next ==
    \/ Tick
    \/ \E r \in Requests : \/ \E k \in Keys, force \in BOOLEAN : Arrive(r, k, force)
                           \/ Step(r)

Spec == Init /\ [][Next]_vars

\* A thread in run goes on; the model calls of compute() time out.
FairSpec == Spec /\ \A r \in Requests : WF_vars(Step(r))

-----------------------------------------------------------------------------

Batch == [key : Keys, outcome : {None, "OPTIMIZED", "PARTIAL", "raised"}, done : BOOLEAN]

\* Every variable holds what its declaration says, and the cache keeps at most
\* MaxEntries responses.
TypeOK ==
    /\ time \in 0..MaxTime
    /\ batches \in Seq(Batch)
    /\ cache \in [Keys -> {None} \cup [batch : DOMAIN batches, expires : Nat]]
    /\ lru \in Seq(Keys) /\ Len(lru) <= MaxEntries /\ IsInjective(lru)
    /\ Range(lru) = {k \in Keys : cache[k] # None}
    /\ inflight \in [Keys -> {None} \cup DOMAIN batches]
    /\ pc \in [Requests -> Owning \cup {"idle", "look", "claim", "wait"}]
    /\ key \in [Requests -> Keys \cup {None}]
    /\ forced \in [Requests -> BOOLEAN]
    /\ now \in [Requests -> Nat \cup {None}]
    /\ batch \in [Requests -> {None} \cup DOMAIN batches]
    /\ met \in [Requests -> SUBSET DOMAIN batches]

\* The flights and their owners are the same thing: a key has at most one
\* request at work on it, the one whose Future others find, and a Future found
\* has an owner that is going to set it.
FlightsOwned ==
    /\ \A r \in Requests : Owns(r) => inflight[key[r]] = batch[r]
    /\ \A r, s \in Requests : Owns(r) /\ Owns(s) /\ key[r] = key[s] => r = s
    /\ \A k \in Keys : inflight[k] # None =>
          \E r \in Requests : Owns(r) /\ key[r] = k

\* A waiting request waits for a batch of its own key, and never for one that
\* nobody will settle.
WaitsForSomeone ==
    \A r \in Requests : pc[r] = "wait" =>
        /\ batches[batch[r]].key = key[r]
        /\ \/ batches[batch[r]].done
           \/ \E s \in Requests : pc[s] \in Owning \ {"pop"} /\ batch[s] = batch[r]

\* Request r is answered by this step.
Answered(r) == pc[r] # "idle" /\ pc'[r] = "idle"

\* An answer is a complete response kept for less than the time to live when
\* the request arrived, unless it asked for a refresh; or it is the outcome of a
\* batch whose owner was still in run after the request arrived.  (Not of a
\* batch settled since: the owner settles before it takes the flight out, and a
\* request that comes in between gets the outcome of a batch already over.)
AnswersAreRecent ==
    [][\A r \in Requests : Answered(r) =>
          \/ /\ pc[r] = "look" /\ ~forced[r]
             /\ batches[cache[key[r]].batch].outcome = "OPTIMIZED"
             /\ batches[cache[key[r]].batch].key = key[r]
             /\ cache[key[r]].expires > now[r]
          \/ pc[r] # "look" /\ batch[r] \in met[r]]_vars

\* A slow batch never replaces the kept response of one that began later.
NewestKept ==
    [][\A k \in Keys : cache[k] # None /\ cache'[k] # None
                          => cache'[k].batch >= cache[k].batch]_vars

\* Every request is answered, if batches end.
EveryRequestAnswered == \A r \in Requests : pc[r] # "idle" ~> pc[r] = "idle"
=============================================================================
