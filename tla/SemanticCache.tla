---------------------------- MODULE SemanticCache ----------------------------
(***************************************************************************)
(* The semantic cache over Redis (app/cache/semantic_cache.py) as the      *)
(* uvicorn workers use it: lookup, a SCAN loop with one HGETALL per key;   *)
(* store, an HSET followed by an EXPIRE; and Redis itself, which drops an  *)
(* entry when its TTL is over.  Every Redis command is atomic, nothing     *)
(* else is: stores and expiries overtake a lookup between two commands.    *)
(*                                                                         *)
(* The embedding of main.py draws a vector from hash(text), which every    *)
(* process salts for itself: two embeddings are comparable only when one   *)
(* worker computed them.  Within a worker queries are points on a line and *)
(* the similarity falls with their distance, so that being similar is not  *)
(* transitive and several entries may pass the threshold.                  *)
(***************************************************************************)
EXTENDS Integers

CONSTANTS
    Workers,
    Lookups,        \* callers of lookup, one call after the other
    Stores,         \* calls of store; also the keys they write
    Queries,        \* positions of the queries
    NoEmbedding, NoEntry, NoKey,
    Exact,          \* the similarity of a query with itself
    Threshold,      \* settings.semantic_cache_similarity_threshold
    MaxCandidates,  \* max_candidates
    MaxScans        \* bound: SCAN calls until the cursor is back at 0

VARIABLES
    redis,      \* redis[k]: the hash under key k
    lookup,     \* lookup[l]: locals of the call of l, or what it returned
    store,      \* store[s]: locals of one store
    held,       \* history: entries that were in redis since the first SCAN of lookup l
    kept        \* history: keys that were in redis at every moment since then

vars == <<redis, lookup, store, held, kept>>

Embedding == [worker : Workers, at : Queries]
Entry == [embedding : Embedding, trajectory : Stores]

ASSUME CacheAssumption ==
    /\ Queries \subseteq Int
    /\ Exact \in Nat /\ Threshold \in 1..Exact
    /\ MaxCandidates \in Nat \ {0} /\ MaxScans \in Nat \ {0}
    /\ NoEntry \notin Entry

Distance(a, b) == IF a > b THEN a - b ELSE b - a

\* _cosine of the embeddings; vectors of two workers are as good as orthogonal.
Score(u, v) ==
    IF u.worker = v.worker /\ Distance(u.at, v.at) < Exact
    THEN Exact - Distance(u.at, v.at) ELSE 0

NoHash == [entry |-> NoEntry, ttl |-> FALSE]

Live == {k \in Stores : redis[k].entry # NoEntry}

\* A call of lookup that is over, with its result.
Returned(pc, e, cursor) ==
    [pc |-> pc, query |-> NoEmbedding, cursor |-> cursor, batch |-> {}, scanned |-> 0,
     returned |-> {}, best |-> e]

Init ==
    /\ redis = [k \in Stores |-> NoHash]
    /\ lookup = [l \in Lookups |-> Returned("idle", NoEntry, MaxScans)]
    /\ store = [s \in Stores |-> [pc |-> "idle", key |-> NoKey, query |-> NoEmbedding]]
    /\ held = [l \in Lookups |-> {}]
    /\ kept = [l \in Lookups |-> {}]

-----------------------------------------------------------------------------
(***************************************************************************)
(* lookup                                                                  *)
(***************************************************************************)
Open == {"scanning", "reading"}

\* embed_fn has answered and the loop is entered.
LookupBegins(l, q) ==
    /\ lookup[l].pc \notin Open
    /\ lookup' = [lookup EXCEPT ![l] =
                     [Returned("scanning", NoEntry, MaxScans) EXCEPT !.query = q]]
    /\ UNCHANGED <<redis, store>>

Better(r, e) == r.best = NoEntry \/ Score(r.query, e.embedding) > Score(r.query, r.best.embedding)

\* Mutant: the best entry is returned whatever its score.
VerdictAnyScore(r) ==
    IF r.best # NoEntry THEN Returned("hit", r.best, r.cursor)
    ELSE Returned("miss", NoEntry, r.cursor)

Verdict(r) ==
    IF r.best # NoEntry /\ Score(r.query, r.best.embedding) >= Threshold
    THEN Returned("hit", r.best, r.cursor) ELSE Returned("miss", NoEntry, r.cursor)

\* Mutant: `cursor == 0` is not tested.
AfterBatchOnlyLimit(r) ==
    IF r.batch # {} THEN [r EXCEPT !.pc = "reading"]
    ELSE IF r.scanned >= MaxCandidates THEN Verdict(r)
    ELSE [r EXCEPT !.pc = "scanning"]

\* Where locals r stand when the for loop may be over: the limit is tested only
\* between two batches.
AfterBatch(r) ==
    IF r.batch # {} THEN [r EXCEPT !.pc = "reading"]
    ELSE IF r.cursor = 0 \/ r.scanned >= MaxCandidates THEN Verdict(r)
    ELSE [r EXCEPT !.pc = "scanning"]

\* Locals r with the keys of one more SCAN.
Scanned(r, keys, back) ==
    [r EXCEPT !.batch = keys, !.returned = @ \cup keys,
              !.cursor = IF back THEN 0 ELSE @ - 1]

\* SCAN returns some of the keys, perhaps again; but when the cursor is back at 0
\* it has returned every key that was there all the time.
LookupScans(l) ==
    /\ lookup[l].pc = "scanning"
    /\ \E keys \in SUBSET Live, back \in BOOLEAN :
          /\ lookup[l].cursor = 1 => back
          /\ back => kept[l] \subseteq lookup[l].returned \cup keys
          /\ lookup' = [lookup EXCEPT ![l] = AfterBatch(Scanned(@, keys, back))]
    /\ UNCHANGED <<redis, store>>

\* Mutant: `break` instead of `continue` on a key that is gone.
LookupReadsUntilGone(l, k) ==
    /\ lookup[l].pc = "reading" /\ k \in lookup[l].batch
    /\ LET e == redis[k].entry
           r == [lookup[l] EXCEPT !.batch = IF e = NoEntry THEN {} ELSE @ \ {k}] IN
       lookup' = [lookup EXCEPT ![l] = AfterBatch(
                     IF e = NoEntry THEN r
                     ELSE IF Better(r, e)
                     THEN [r EXCEPT !.best = e, !.scanned = @ + 1]
                     ELSE [r EXCEPT !.scanned = @ + 1])]
    /\ UNCHANGED <<redis, store>>

\* One HGETALL: a key that expired since the SCAN is skipped and not counted.
LookupReads(l, k) ==
    /\ lookup[l].pc = "reading" /\ k \in lookup[l].batch
    /\ LET e == redis[k].entry
           r == [lookup[l] EXCEPT !.batch = @ \ {k}] IN
       lookup' = [lookup EXCEPT ![l] = AfterBatch(
                     IF e = NoEntry THEN r
                     ELSE IF Better(r, e)
                     THEN [r EXCEPT !.best = e, !.scanned = @ + 1]
                     ELSE [r EXCEPT !.scanned = @ + 1])]
    /\ UNCHANGED <<redis, store>>

\* Redis raises, or the caller is gone.
LookupBreaks(l) ==
    /\ lookup[l].pc \in Open
    /\ lookup' = [lookup EXCEPT ![l] = Returned("broken", NoEntry, MaxScans)]
    /\ UNCHANGED <<redis, store>>

-----------------------------------------------------------------------------
(***************************************************************************)
(* store                                                                   *)
(***************************************************************************)
\* The key holds the millisecond and the hash of the query: it is fresh, unless a
\* store of the same query by the same worker is under way in the same millisecond.
KeysFor(s, q) ==
    {s} \cup {store[o].key : o \in {p \in Stores : store[p].pc = "written" /\ store[p].query = q}}

\* HSET; it leaves the TTL of an existing key as it is.
StoreWrites(s, q, k) ==
    /\ store[s].pc = "idle"
    /\ k \in KeysFor(s, q)
    /\ redis' = [redis EXCEPT ![k].entry = [embedding |-> q, trajectory |-> s]]
    /\ store' = [store EXCEPT ![s] = [pc |-> "written", key |-> k, query |-> q]]
    /\ UNCHANGED lookup

\* Mutant: EXPIRE is not sent.
StoreForgetsExpire(s) ==
    /\ store[s].pc = "written"
    /\ store' = [store EXCEPT ![s].pc = "done"]
    /\ UNCHANGED <<redis, lookup>>

\* EXPIRE; on a key that is already gone it does nothing.
StoreExpires(s) ==
    /\ store[s].pc = "written"
    /\ redis' = [redis EXCEPT ![store[s].key].ttl = (@ \/ store[s].key \in Live)]
    /\ store' = [store EXCEPT ![s].pc = "done"]
    /\ UNCHANGED lookup

\* Redis raises or the worker dies between the two commands.
StoreBreaks(s) ==
    /\ store[s].pc = "written"
    /\ store' = [store EXCEPT ![s].pc = "broken"]
    /\ UNCHANGED <<redis, lookup>>

\* The TTL of key k is over.
Expires(k) ==
    /\ redis[k].ttl
    /\ redis' = [redis EXCEPT ![k] = NoHash]
    /\ UNCHANGED <<lookup, store>>

-----------------------------------------------------------------------------
Watch ==
    LET now == {k \in Stores : redis'[k].entry # NoEntry} IN
    /\ held' = [l \in Lookups |->
                   IF lookup'[l].pc \in Open
                   THEN held[l] \cup {redis'[k].entry : k \in now} ELSE {}]
    /\ kept' = [l \in Lookups |->
                   IF lookup'[l].pc \notin Open THEN {}
                   ELSE IF lookup[l].pc \in Open THEN kept[l] \cap now ELSE now]

LookupStep(l) == LookupScans(l) \/ \E k \in lookup[l].batch : LookupReads(l, k)

Next ==
    \/ \E l \in Lookups, q \in Embedding : LookupBegins(l, q) /\ Watch
    \/ \E l \in Lookups : (LookupStep(l) \/ LookupBreaks(l)) /\ Watch
    \/ \E s, k \in Stores, q \in Embedding : StoreWrites(s, q, k) /\ Watch
    \/ \E s \in Stores : (StoreExpires(s) \/ StoreBreaks(s)) /\ Watch
    \/ \E k \in Stores : Expires(k) /\ Watch

Spec == Init /\ [][Next]_vars

\* A coroutine runs on when Redis has answered, and Redis drops what has expired.
\* Requests and failures owe nothing.
FairSpec ==
    /\ Spec
    /\ \A l \in Lookups : WF_vars(LookupStep(l) /\ Watch)
    /\ \A s \in Stores : WF_vars(StoreExpires(s) /\ Watch)
    /\ \A k \in Stores : WF_vars(Expires(k) /\ Watch)

-----------------------------------------------------------------------------
(***************************************************************************)
(* Properties                                                              *)
(***************************************************************************)
TypeOK ==
    /\ redis \in [Stores -> [entry : Entry \cup {NoEntry}, ttl : BOOLEAN]]
    /\ \A k \in Stores : redis[k].ttl => k \in Live
    /\ lookup \in [Lookups ->
          [pc : Open \cup {"idle", "hit", "miss", "broken"},
           query : Embedding \cup {NoEmbedding}, cursor : 0..MaxScans,
           batch : SUBSET Stores, scanned : Int, returned : SUBSET Stores,
           best : Entry \cup {NoEntry}]]
    /\ \A l \in Lookups : lookup[l].pc = "reading" <=> lookup[l].pc \in Open /\ lookup[l].batch # {}
    /\ store \in [Stores -> [pc : {"idle", "written", "done", "broken"},
                             key : Stores \cup {NoKey}, query : Embedding \cup {NoEmbedding}]]
    /\ held \in [Lookups -> SUBSET Entry]
    /\ kept \in [Lookups -> SUBSET Stores]

\* lookup: a call that scanned to the end gives an answer at least as similar as any
\* entry that was in Redis all the while; so it misses only if none of those reaches
\* the threshold, whatever is stored or expires between its commands.
BestOfLive ==
    [][\A l \in Lookups :
          /\ lookup[l].pc \in Open
          /\ lookup'[l].pc \in {"hit", "miss"} /\ lookup'[l].cursor = 0
          => \A k \in kept[l] :
                LET score == Score(lookup[l].query, store[k].query)
                    best == lookup'[l].best IN
                score >= Threshold =>
                    /\ lookup'[l].pc = "hit"
                    /\ Score(lookup[l].query, best.embedding) >= score]_vars

CloseTo(q, e) == Score(q, e.embedding) >= Threshold

Contract == INSTANCE CacheContract WITH
    Keys <- Stores, Callers <- Lookups, Entries <- Entry, Questions <- Embedding,
    NoEntry <- NoEntry, NoQuestion <- NoEmbedding, Close <- CloseTo,
    contents <- [k \in Stores |-> redis[k].entry],
    call <- [l \in Lookups |-> [open |-> lookup[l].pc \in Open,
                                question |-> lookup[l].query,
                                answer |-> IF lookup[l].pc = "hit"
                                           THEN lookup[l].best ELSE NoEntry]],
    witnessed <- held

\* SemanticCache: a hit is similar enough and was in Redis during the call, also when
\* it was overwritten or has expired since.
ContractSpec == Contract!Spec

\* lookup ends, however Redis splits the key space; and an entry whose EXPIRE was not
\* lost with its store does go away.
CacheTurnsOver ==
    /\ \A l \in Lookups : lookup[l].pc = "scanning" ~> lookup[l].pc \notin Open
    /\ \A s \in Stores :
          store[s].pc = "written" ~> store[s].pc = "broken" \/ store[s].key \notin Live
=============================================================================
