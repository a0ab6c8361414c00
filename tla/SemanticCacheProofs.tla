-------------------------- MODULE SemanticCacheProofs --------------------------
(***************************************************************************)
(* The promises of SemanticCache for any number of workers, callers,       *)
(* stores and queries, any threshold and any limit on the scan.            *)
(*                                                                         *)
(* A lookup reads each hash at another moment, so its invariant speaks of  *)
(* what it has read so far: the best entry was in Redis since the call     *)
(* began, and it is at least as similar as every key read that has been in *)
(* Redis all the while.  That the similarity of a key does not change      *)
(* while a lookup is open needs the invariant of store: a key is written   *)
(* for one query only.                                                     *)
(***************************************************************************)
EXTENDS SemanticCache, TLAPS

LookRecord ==
    [pc : Open \cup {"idle", "hit", "miss", "broken"},
     query : Embedding \cup {NoEmbedding}, cursor : 0..MaxScans,
     batch : SUBSET Stores, scanned : Int, returned : SUBSET Stores,
     best : Entry \cup {NoEntry}]

StoreRecord ==
    [pc : {"idle", "written", "done", "broken"},
     key : Stores \cup {NoKey}, query : Embedding \cup {NoEmbedding}]

RedisInv ==
    /\ redis \in [Stores -> [entry : Entry \cup {NoEntry}, ttl : BOOLEAN]]
    /\ \A k \in Stores : redis[k].ttl => k \in Live

\* A key belongs to one query: that of the store it is named after.
StoreInv ==
    /\ store \in [Stores -> StoreRecord]
    /\ \A s \in Stores :
          store[s].pc # "idle" =>
             /\ store[s].query \in Embedding
             /\ store[s].key \in Stores
             /\ store[store[s].key].pc # "idle"
             /\ store[store[s].key].query = store[s].query
    /\ \A k \in Live :
          store[k].pc # "idle" /\ redis[k].entry.embedding = store[k].query

\* What the history variables record.
ViewInv ==
    /\ held \in [Lookups -> SUBSET Entry]
    /\ kept \in [Lookups -> SUBSET Stores]
    /\ \A l \in Lookups :
          IF lookup[l].pc \in Open
          THEN kept[l] \subseteq Live /\ \A k \in Live : redis[k].entry \in held[l]
          ELSE kept[l] = {} /\ held[l] = {}

\* The best entry of locals r outdoes the keys of kp that were read, by stores st.
Leads(r, kp, st) ==
    \A k \in kp \cap (r.returned \ r.batch) :
        r.best # NoEntry /\ Score(r.query, r.best.embedding) >= Score(r.query, st[k].query)

\* Locals r of an open call, before it is decided how to go on.
Locals(r, h, kp, st) ==
    /\ r \in LookRecord
    /\ r.query \in Embedding
    /\ r.best \in h \cup {NoEntry}
    /\ r.cursor = 0 => kp \subseteq r.returned
    /\ Leads(r, kp, st)

LookOk(r, h, kp, st) ==
    /\ r \in LookRecord
    /\ r.pc = "reading" <=> r.pc \in Open /\ r.batch # {}
    /\ r.pc = "scanning" => r.cursor # 0
    /\ IF r.pc \in Open THEN Locals(r, h, kp, st) ELSE r.query = NoEmbedding

LookInv ==
    /\ DOMAIN lookup = Lookups /\ lookup = [l \in Lookups |-> lookup[l]]
    /\ \A l \in Lookups : LookOk(lookup[l], held[l], kept[l], store)

IInv == RedisInv /\ StoreInv /\ ViewInv /\ LookInv

-----------------------------------------------------------------------------
(***************************************************************************)
(* Lemmas on the operators                                                 *)
(***************************************************************************)
LEMMA ScoreIsInt ==
    ASSUME CacheAssumption, NEW u \in Embedding, NEW v \in Embedding
    PROVE  Score(u, v) \in Int
<1>1. u.at \in Int /\ v.at \in Int /\ Exact \in Int
  <2>1. u.at \in Queries /\ v.at \in Queries
    BY DEF Embedding
  <2>2. Queries \subseteq Int /\ Exact \in Nat
    BY DEF CacheAssumption
  <2>3. u.at \in Int /\ v.at \in Int
    BY <2>1, <2>2, Zenon
  <2> QED
    BY <2>2, <2>3
<1>2. Distance(u.at, v.at) \in Int
  BY <1>1 DEF Distance
<1> QED
  BY <1>1, <1>2 DEF Score

\* A call that is over.
LEMMA ReturnedOk ==
    ASSUME NEW pc \in {"idle", "hit", "miss", "broken"}, NEW e \in Entry \cup {NoEntry},
           NEW n \in 0..MaxScans, NEW h, NEW kp, NEW st
    PROVE  /\ Returned(pc, e, n) \in LookRecord
           /\ Returned(pc, e, n).pc = pc
           /\ Returned(pc, e, n).query = NoEmbedding
           /\ Returned(pc, e, n).best = e
           /\ Returned(pc, e, n).cursor = n
           /\ LookOk(Returned(pc, e, n), h, kp, st)
<1>1. /\ Returned(pc, e, n) \in LookRecord
      /\ Returned(pc, e, n).pc = pc
      /\ Returned(pc, e, n).query = NoEmbedding
      /\ Returned(pc, e, n).best = e
      /\ Returned(pc, e, n).cursor = n
  BY DEF Returned, LookRecord
<1>2. pc \notin Open
  BY DEF Open
<1>3. LookOk(Returned(pc, e, n), h, kp, st)
  BY <1>1, <1>2 DEF LookOk, Open
<1> QED
  BY <1>1, <1>3

\* How a lookup goes on after a batch: it stays open with its locals, or it returns
\* the best entry if that is similar enough, and a miss otherwise.
LEMMA AfterBatchOk ==
    ASSUME NEW r, NEW h, NEW kp, NEW st, Locals(r, h, kp, st)
    PROVE  LET R == AfterBatch(r) IN
           /\ LookOk(R, h, kp, st)
           /\ R.pc \in Open => R.query = r.query
           /\ R.pc \notin Open =>
                 /\ R = Verdict(r)
                 /\ R.pc \in {"hit", "miss"}
                 /\ R.cursor = r.cursor
                 /\ r.batch = {}
           /\ R.pc = "hit" =>
                 R.best = r.best /\ r.best \in h /\ CloseTo(r.query, r.best)
           /\ R.pc = "miss" =>
                 R.best = NoEntry /\ (r.best = NoEntry \/ ~CloseTo(r.query, r.best))
<1>1. r \in LookRecord /\ r.cursor \in 0..MaxScans /\ r.best \in Entry \cup {NoEntry}
  BY DEF Locals, LookRecord
<1>2. CASE r.batch # {}
  <2> DEFINE R == [r EXCEPT !.pc = "reading"]
  <2>1. AfterBatch(r) = R
    BY <1>2 DEF AfterBatch
  <2>2. /\ R \in LookRecord /\ R.pc = "reading" /\ R.query = r.query /\ R.best = r.best
        /\ R.cursor = r.cursor /\ R.returned = r.returned /\ R.batch = r.batch
    BY <1>1 DEF LookRecord, Open
  <2> HIDE DEF R
  <2>3. Locals(R, h, kp, st)
    BY <2>2 DEF Locals, Leads
  <2> QED
    BY <1>2, <2>1, <2>2, <2>3 DEF LookOk, Open
<1>3. CASE r.batch = {} /\ (r.cursor = 0 \/ r.scanned >= MaxCandidates)
  <2>1. AfterBatch(r) = Verdict(r)
    BY <1>3 DEF AfterBatch
  <2>2. CASE r.best # NoEntry /\ CloseTo(r.query, r.best)
    <3>1. Verdict(r) = Returned("hit", r.best, r.cursor)
      BY <2>2 DEF Verdict, CloseTo
    <3>2. r.best \in h
      BY <2>2 DEF Locals
    <3> QED
      BY <1>1, <1>3, <2>1, <2>2, <3>1, <3>2, ReturnedOk DEF Open
  <2>3. CASE ~(r.best # NoEntry /\ CloseTo(r.query, r.best))
    <3>1. Verdict(r) = Returned("miss", NoEntry, r.cursor)
      BY <2>3 DEF Verdict, CloseTo
    <3> QED
      BY <1>1, <1>3, <2>1, <2>3, <3>1, ReturnedOk DEF Open
  <2> QED
    BY <2>2, <2>3
<1>4. CASE r.batch = {} /\ ~(r.cursor = 0 \/ r.scanned >= MaxCandidates)
  <2> DEFINE R == [r EXCEPT !.pc = "scanning"]
  <2>1. AfterBatch(r) = R
    BY <1>4 DEF AfterBatch
  <2>2. /\ R \in LookRecord /\ R.pc = "scanning" /\ R.query = r.query /\ R.best = r.best
        /\ R.cursor = r.cursor /\ R.returned = r.returned /\ R.batch = r.batch
    BY <1>1 DEF LookRecord, Open
  <2> HIDE DEF R
  <2>3. Locals(R, h, kp, st)
    BY <2>2 DEF Locals, Leads
  <2> QED
    BY <1>4, <2>1, <2>2, <2>3 DEF LookOk, Open
<1> QED
  BY <1>2, <1>3, <1>4

\* An open lookup's locals stay in order when more entries were seen, fewer keys have
\* been there all the while, and those keys are still the same stores'.
LEMMA LookWeakens ==
    ASSUME NEW R, NEW h, NEW kp, NEW st, NEW h2, NEW kp2, NEW st2,
           LookOk(R, h, kp, st),
           R.pc \in Open => /\ h \subseteq h2 /\ kp2 \subseteq kp
                            /\ \A k \in kp2 : st2[k].query = st[k].query
    PROVE  LookOk(R, h2, kp2, st2)
<1>1. CASE R.pc \in Open
  <2>1. Locals(R, h2, kp2, st2)
    BY <1>1 DEF LookOk, Locals, Leads
  <2> QED
    BY <1>1, <2>1 DEF LookOk
<1>2. CASE R.pc \notin Open
  BY <1>2 DEF LookOk
<1> QED
  BY <1>1, <1>2

-----------------------------------------------------------------------------
(***************************************************************************)
(* One step of a lookup                                                    *)
(***************************************************************************)
\* A call that is open, spelled out.
LEMMA OpenLookup ==
    ASSUME IInv, NEW l \in Lookups, lookup[l].pc \in Open
    PROVE  /\ Locals(lookup[l], held[l], kept[l], store)
           /\ lookup[l].pc = "scanning" => lookup[l].batch = {} /\ lookup[l].cursor # 0
           /\ kept[l] \subseteq Live
           /\ \A k \in Live : redis[k].entry \in held[l]
           /\ held[l] \subseteq Entry
BY DEF IInv, LookInv, LookOk, ViewInv, Open

LEMMA ScanLocals ==
    ASSUME CacheAssumption, IInv, NEW l \in Lookups, LookupScans(l)
    PROVE  \E r : /\ lookup' = [lookup EXCEPT ![l] = AfterBatch(r)]
                  /\ Locals(r, held[l], kept[l], store)
                  /\ r.query = lookup[l].query
<1>1. PICK keys \in SUBSET Live, back \in BOOLEAN :
         /\ lookup[l].cursor = 1 => back
         /\ back => kept[l] \subseteq lookup[l].returned \cup keys
         /\ lookup' = [lookup EXCEPT ![l] = AfterBatch(Scanned(lookup[l], keys, back))]
  BY DEF LookupScans
<1> DEFINE L == lookup[l]
           seen == L.returned \cup keys
           n == IF back THEN 0 ELSE L.cursor - 1
           r == Scanned(L, keys, back)
<1>2. L.pc = "scanning" /\ L.pc \in Open
  BY DEF LookupScans, Open
<1>3. Locals(L, held[l], kept[l], store) /\ L.batch = {} /\ L.cursor # 0
  BY <1>2, OpenLookup
<1>4. L \in LookRecord /\ L.cursor \in 0..MaxScans /\ MaxScans \in Nat
  BY <1>3 DEF Locals, LookRecord, CacheAssumption
<1>5. n \in 0..MaxScans /\ (n = 0 => kept[l] \subseteq seen)
  BY <1>1, <1>3, <1>4
<1>6. lookup' = [lookup EXCEPT ![l] = AfterBatch(r)]
  BY <1>1
<1>9. r = [L EXCEPT !.batch = keys, !.returned = seen, !.cursor = n]
  BY <1>4 DEF Scanned, LookRecord
<1> HIDE DEF n, r
<1>7. /\ r \in LookRecord /\ r.query = L.query /\ r.best = L.best
      /\ r.cursor = n /\ r.returned = seen /\ r.batch = keys
  BY <1>4, <1>5, <1>9 DEF LookRecord, Live
<1>8. Locals(r, held[l], kept[l], store)
  BY <1>3, <1>5, <1>7 DEF Locals, Leads
<1> QED
  BY <1>6, <1>7, <1>8

LEMMA ReadLocals ==
    ASSUME CacheAssumption, IInv, NEW l \in Lookups, NEW k \in lookup[l].batch, LookupReads(l, k)
    PROVE  \E r : /\ lookup' = [lookup EXCEPT ![l] = AfterBatch(r)]
                  /\ Locals(r, held[l], kept[l], store)
                  /\ r.query = lookup[l].query
<1> DEFINE L == lookup[l]
           e == redis[k].entry
           rest == L.batch \ {k}
           R == [L EXCEPT !.batch = rest]
           m == L.scanned + 1
           B == [L EXCEPT !.batch = rest, !.best = e, !.scanned = m]
           C == [L EXCEPT !.batch = rest, !.scanned = m]
<1>1. L.pc = "reading" /\ L.pc \in Open
  BY DEF LookupReads, Open
<1>2. /\ Locals(L, held[l], kept[l], store)
      /\ kept[l] \subseteq Live
      /\ held[l] \subseteq Entry
      /\ \A j \in Live : redis[j].entry \in held[l]
  BY <1>1, OpenLookup
<1>3. L \in LookRecord /\ k \in Stores /\ L.query \in Embedding /\ m \in Int
  <2>1. L \in LookRecord /\ L.query \in Embedding
    BY <1>2 DEF Locals
  <2>2. L.scanned \in Int /\ k \in Stores
    BY <2>1 DEF LookRecord
  <2> QED
    BY <2>1, <2>2
<1>4. CASE e = NoEntry
  <2>1. lookup' = [lookup EXCEPT ![l] = AfterBatch(R)]
    BY <1>4 DEF LookupReads
  <2>2. /\ R \in LookRecord /\ R.query = L.query /\ R.best = L.best
        /\ R.cursor = L.cursor /\ R.returned = L.returned /\ R.batch = rest
    BY <1>3 DEF LookRecord
  <2>3. k \notin kept[l]
    BY <1>2, <1>4 DEF Live
  <2> HIDE DEF R
  <2>4. Locals(R, held[l], kept[l], store)
    BY <1>2, <2>2, <2>3 DEF Locals, Leads
  <2> QED
    BY <2>1, <2>2, <2>4
<1>5. CASE e # NoEntry
  <2>1. k \in Live /\ e \in held[l] /\ e \in Entry
    BY <1>2, <1>3, <1>5 DEF Live
  <2>2. e.embedding = store[k].query /\ e.embedding \in Embedding
    BY <2>1 DEF IInv, StoreInv, Entry
  <2>3. L.best # NoEntry => L.best.embedding \in Embedding
    BY <1>3 DEF LookRecord, Entry
  <2>4. /\ Score(L.query, e.embedding) \in Int
        /\ L.best # NoEntry => Score(L.query, L.best.embedding) \in Int
    BY <1>3, <2>2, <2>3, ScoreIsInt
  <2>5. \A j \in kept[l] : Score(L.query, store[j].query) \in Int
    <3>1. ASSUME NEW j \in kept[l]
          PROVE  store[j].query \in Embedding
      BY <1>2, <3>1 DEF IInv, StoreInv, Live
    <3> QED
      BY <1>3, <3>1, ScoreIsInt
  <2>6. Leads(L, kept[l], store)
    BY <1>2 DEF Locals
  <2>7. CASE Better(R, e)
    <3>1. lookup' = [lookup EXCEPT ![l] = AfterBatch(B)]
      <4>1. B = [R EXCEPT !.best = e, !.scanned = @ + 1]
        BY <1>3 DEF LookRecord
      <4> QED
        BY <1>5, <2>7, <4>1 DEF LookupReads
    <3>2. /\ B \in LookRecord /\ B.query = L.query /\ B.best = e
          /\ B.cursor = L.cursor /\ B.returned = L.returned /\ B.batch = rest
      BY <1>3, <2>1 DEF LookRecord
    <3>3. L.best = NoEntry \/ Score(L.query, e.embedding) > Score(L.query, L.best.embedding)
      BY <1>3, <2>7 DEF Better, LookRecord
    <3>4. ASSUME NEW j \in kept[l] \cap (L.returned \ rest)
          PROVE  Score(L.query, e.embedding) >= Score(L.query, store[j].query)
      <4>1. CASE j = k
        BY <2>2, <2>4, <4>1
      <4>2. CASE j # k
        <5>1. L.best # NoEntry
              /\ Score(L.query, L.best.embedding) >= Score(L.query, store[j].query)
          BY <2>6, <3>4, <4>2 DEF Leads
        <5> QED
          BY <2>4, <2>5, <3>3, <3>4, <5>1
      <4> QED
        BY <4>1, <4>2
    <3> HIDE DEF B
    <3>5. Leads(B, kept[l], store)
      BY <1>5, <3>2, <3>4 DEF Leads
    <3>6. Locals(B, held[l], kept[l], store)
      BY <1>2, <2>1, <3>2, <3>5 DEF Locals
    <3> QED
      BY <3>1, <3>2, <3>6
  <2>8. CASE ~Better(R, e)
    <3>1. lookup' = [lookup EXCEPT ![l] = AfterBatch(C)]
      <4>1. C = [R EXCEPT !.scanned = @ + 1]
        BY <1>3 DEF LookRecord
      <4> QED
        BY <1>5, <2>8, <4>1 DEF LookupReads
    <3>2. /\ C \in LookRecord /\ C.query = L.query /\ C.best = L.best
          /\ C.cursor = L.cursor /\ C.returned = L.returned /\ C.batch = rest
      BY <1>3 DEF LookRecord
    <3>3. L.best # NoEntry /\ Score(L.query, L.best.embedding) >= Score(L.query, e.embedding)
      <4>1. R.best = L.best /\ R.query = L.query
        BY <1>3 DEF LookRecord
      <4> QED
        BY <2>4, <2>8, <4>1 DEF Better
    <3> HIDE DEF C
    <3>4. Leads(C, kept[l], store)
      BY <2>2, <2>6, <3>2, <3>3 DEF Leads
    <3>5. Locals(C, held[l], kept[l], store)
      BY <1>2, <3>2, <3>4 DEF Locals
    <3> QED
      BY <3>1, <3>2, <3>5
  <2> QED
    BY <2>7, <2>8
<1> QED
  BY <1>4, <1>5

\* Either way a lookup goes on from locals that are in order.
LEMMA StepLocals ==
    ASSUME CacheAssumption, IInv, NEW l \in Lookups, LookupStep(l)
    PROVE  /\ lookup[l].pc \in Open
           /\ UNCHANGED <<redis, store>>
           /\ \E r : /\ lookup' = [lookup EXCEPT ![l] = AfterBatch(r)]
                     /\ Locals(r, held[l], kept[l], store)
                     /\ r.query = lookup[l].query
BY ScanLocals, ReadLocals DEF LookupStep, LookupScans, LookupReads, Open

-----------------------------------------------------------------------------
(***************************************************************************)
(* The invariant, step by step                                             *)
(***************************************************************************)
LEMMA InitEstablishes == CacheAssumption /\ Init => IInv
<1> SUFFICES ASSUME CacheAssumption, Init PROVE IInv
  OBVIOUS
<1> USE DEF Init
<1>1. RedisInv
  BY DEF RedisInv, NoHash
<1>2. Live = {}
  BY DEF Live, NoHash
<1>3. StoreInv
  BY <1>2 DEF StoreInv, StoreRecord
<1>4. MaxScans \in 0..MaxScans
  BY DEF CacheAssumption
<1>5. \A l \in Lookups : lookup[l].pc = "idle" /\ LookOk(lookup[l], held[l], kept[l], store)
  BY <1>4, ReturnedOk
<1>6. ViewInv
  BY <1>5 DEF ViewInv, Open
<1>7. LookInv
  BY <1>5 DEF LookInv
<1> QED
  BY <1>1, <1>3, <1>6, <1>7 DEF IInv

\* What the history variables record stays true, and for a call that stays open it
\* only becomes more entries and fewer keys.
LEMMA WatchKeeps ==
    ASSUME IInv, RedisInv', Watch
    PROVE  /\ ViewInv'
           /\ \A l \in Lookups :
                 lookup[l].pc \in Open /\ lookup'[l].pc \in Open =>
                    held[l] \subseteq held'[l] /\ kept'[l] \subseteq kept[l]
<1> DEFINE now == {k \in Stores : redis'[k].entry # NoEntry}
           entries == {redis'[k].entry : k \in now}
<1>1. now = Live'
  BY DEF Live
<1>2. entries \subseteq Entry
  BY DEF RedisInv
<1>3. /\ held' = [l \in Lookups |-> IF lookup'[l].pc \in Open
                                    THEN held[l] \cup entries ELSE {}]
      /\ kept' = [l \in Lookups |-> IF lookup'[l].pc \notin Open THEN {}
                                    ELSE IF lookup[l].pc \in Open THEN kept[l] \cap now ELSE now]
  BY DEF Watch
<1>4. held \in [Lookups -> SUBSET Entry] /\ kept \in [Lookups -> SUBSET Stores]
  BY DEF IInv, ViewInv
<1>5. \A k \in now : redis'[k].entry \in entries
  OBVIOUS
<1> HIDE DEF entries, now
<1>6. ViewInv'
  <2>1. held' \in [Lookups -> SUBSET Entry]
    BY <1>2, <1>3, <1>4
  <2>2. kept' \in [Lookups -> SUBSET Stores]
    <3>1. now \subseteq Stores
      BY DEF now
    <3> QED
      BY <1>3, <1>4, <3>1
  <2>3. ASSUME NEW l \in Lookups
        PROVE  IF lookup'[l].pc \in Open
               THEN kept'[l] \subseteq now /\ \A k \in now : redis'[k].entry \in held'[l]
               ELSE kept'[l] = {} /\ held'[l] = {}
    BY <1>3, <1>5
  <2> QED
    BY <1>1, <2>1, <2>2, <2>3 DEF ViewInv
<1>7. ASSUME NEW l \in Lookups, lookup[l].pc \in Open, lookup'[l].pc \in Open
      PROVE  held[l] \subseteq held'[l] /\ kept'[l] \subseteq kept[l]
  BY <1>3, <1>7
<1> QED
  BY <1>6, <1>7

\* The stores that have written keep their query.
QueriesStay == \A k \in Stores : store[k].pc # "idle" => store'[k].query = store[k].query

\* A lookup that stands still stays in order while stores and Redis go on.
LEMMA OthersKeep ==
    ASSUME IInv, RedisInv', Watch, QueriesStay,
           NEW l \in Lookups, lookup'[l] = lookup[l]
    PROVE  LookOk(lookup'[l], held'[l], kept'[l], store')
<1>1. LookOk(lookup[l], held[l], kept[l], store)
  BY DEF IInv, LookInv
<1>2. CASE lookup[l].pc \in Open
  <2>1. held[l] \subseteq held'[l] /\ kept'[l] \subseteq kept[l]
    BY <1>2, WatchKeeps
  <2>2. \A k \in kept'[l] : store'[k].query = store[k].query
    <3>1. kept[l] \subseteq Live
      BY <1>2, OpenLookup
    <3> QED
      BY <2>1, <3>1 DEF QueriesStay, IInv, StoreInv, Live
  <2> QED
    BY <1>1, <2>1, <2>2, LookWeakens
<1>3. CASE lookup[l].pc \notin Open
  BY <1>1, <1>3, LookWeakens
<1> QED
  BY <1>2, <1>3

\* One lookup moves, to a state in order.
LEMMA LookMoves ==
    ASSUME IInv, Watch, UNCHANGED <<redis, store>>,
           NEW l \in Lookups, NEW R, lookup' = [lookup EXCEPT ![l] = R],
           LookOk(R, held'[l], kept'[l], store)
    PROVE  IInv'
<1>1. RedisInv' /\ StoreInv'
  BY DEF IInv, RedisInv, StoreInv, Live
<1>2. ViewInv'
  BY <1>1, WatchKeeps
<1>3. QueriesStay
  BY DEF QueriesStay
<1>4. lookup'[l] = R /\ \A m \in Lookups \ {l} : lookup'[m] = lookup[m]
  BY DEF IInv, LookInv
<1>5. \A m \in Lookups : LookOk(lookup'[m], held'[m], kept'[m], store')
  BY <1>1, <1>3, <1>4, OthersKeep
<1>6. LookInv'
  BY <1>5 DEF IInv, LookInv
<1> QED
  BY <1>1, <1>2, <1>6 DEF IInv

LEMMA LookupBeginsKeeps ==
    ASSUME CacheAssumption, IInv, NEW l \in Lookups, NEW q \in Embedding,
           LookupBegins(l, q), Watch
    PROVE  IInv'
<1> DEFINE R == [Returned("scanning", NoEntry, MaxScans) EXCEPT !.query = q]
<1>1. lookup' = [lookup EXCEPT ![l] = R] /\ UNCHANGED <<redis, store>>
  BY DEF LookupBegins
<1>2. MaxScans \in 0..MaxScans /\ MaxScans # 0
  BY DEF CacheAssumption
<1>3. /\ R \in LookRecord /\ R.pc = "scanning" /\ R.query = q /\ R.best = NoEntry
      /\ R.cursor = MaxScans /\ R.returned = {} /\ R.batch = {}
  BY <1>2 DEF Returned, LookRecord, Open
<1> HIDE DEF R
<1>4. Locals(R, held'[l], kept'[l], store)
  BY <1>2, <1>3 DEF Locals, Leads
<1>5. LookOk(R, held'[l], kept'[l], store)
  BY <1>2, <1>3, <1>4 DEF LookOk, Open
<1> QED
  BY <1>1, <1>5, LookMoves

LEMMA LookupStepKeeps ==
    ASSUME CacheAssumption, IInv, NEW l \in Lookups, LookupStep(l), Watch
    PROVE  IInv'
<1>1. PICK r : /\ lookup' = [lookup EXCEPT ![l] = AfterBatch(r)]
               /\ Locals(r, held[l], kept[l], store)
  BY StepLocals
<1>2. lookup[l].pc \in Open /\ UNCHANGED <<redis, store>>
  BY StepLocals
<1> DEFINE R == AfterBatch(r)
<1>3. LookOk(R, held[l], kept[l], store)
  BY <1>1, AfterBatchOk
<1>4. lookup'[l] = R
  BY <1>1 DEF IInv, LookInv
<1>5. RedisInv'
  BY <1>2 DEF IInv, RedisInv, Live
<1>6. R.pc \in Open => held[l] \subseteq held'[l] /\ kept'[l] \subseteq kept[l]
  BY <1>2, <1>4, <1>5, WatchKeeps
<1> HIDE DEF R
<1>7. LookOk(R, held'[l], kept'[l], store)
  BY <1>3, <1>6, LookWeakens
<1> QED
  BY <1>1, <1>2, <1>7, LookMoves DEF R

LEMMA LookupBreaksKeeps ==
    ASSUME CacheAssumption, IInv, NEW l \in Lookups, LookupBreaks(l), Watch
    PROVE  IInv'
<1> DEFINE R == Returned("broken", NoEntry, MaxScans)
<1>1. lookup' = [lookup EXCEPT ![l] = R] /\ UNCHANGED <<redis, store>>
  BY DEF LookupBreaks
<1>2. MaxScans \in 0..MaxScans
  BY DEF CacheAssumption
<1>3. LookOk(R, held'[l], kept'[l], store)
  BY <1>2, ReturnedOk
<1> HIDE DEF R
<1> QED
  BY <1>1, <1>3, LookMoves

\* Redis or the stores move, and no lookup.
LEMMA StoresMove ==
    ASSUME IInv, Watch, UNCHANGED lookup, RedisInv', StoreInv', QueriesStay
    PROVE  IInv'
<1>1. ViewInv'
  BY WatchKeeps
<1>2. \A m \in Lookups : LookOk(lookup'[m], held'[m], kept'[m], store')
  BY OthersKeep
<1>3. LookInv'
  BY <1>2 DEF IInv, LookInv
<1> QED
  BY <1>1, <1>3 DEF IInv

LEMMA StoreWritesKeeps ==
    ASSUME CacheAssumption, IInv, NEW s \in Stores, NEW k \in Stores, NEW q \in Embedding,
           StoreWrites(s, q, k), Watch
    PROVE  IInv'
<1> DEFINE e == [embedding |-> q, trajectory |-> s]
           hash == [redis[k] EXCEPT !.entry = e]
           R == [pc |-> "written", key |-> k, query |-> q]
<1>1. /\ store[s].pc = "idle" /\ k \in KeysFor(s, q)
      /\ redis' = [redis EXCEPT ![k] = hash]
      /\ store' = [store EXCEPT ![s] = R]
      /\ UNCHANGED lookup
  BY DEF StoreWrites, IInv, RedisInv
<1>2. e \in Entry /\ e # NoEntry /\ e.embedding = q /\ R \in StoreRecord
  BY DEF Entry, StoreRecord, CacheAssumption
<1> HIDE DEF e
<1>3. hash \in [entry : Entry \cup {NoEntry}, ttl : BOOLEAN] /\ hash.entry = e
  BY <1>2 DEF IInv, RedisInv
<1>4. redis'[k] = hash /\ \A j \in Stores \ {k} : redis'[j] = redis[j]
  BY <1>1 DEF IInv, RedisInv
<1> HIDE DEF hash
<1>5. RedisInv'
  <2>1. redis' \in [Stores -> [entry : Entry \cup {NoEntry}, ttl : BOOLEAN]]
    BY <1>1, <1>3 DEF IInv, RedisInv
  <2>2. \A j \in Stores : redis'[j].ttl => redis'[j].entry # NoEntry
    BY <1>2, <1>3, <1>4 DEF IInv, RedisInv, Live
  <2> QED
    BY <2>1, <2>2 DEF RedisInv, Live
<1>6. store'[s] = R /\ \A o \in Stores \ {s} : store'[o] = store[o]
  BY <1>1 DEF IInv, StoreInv
<1>7. k = s \/ (store[k].pc # "idle" /\ store[k].query = q)
  BY <1>1 DEF KeysFor, IInv, StoreInv
<1>8. store'[k].pc # "idle" /\ store'[k].query = q
  BY <1>1, <1>6, <1>7
<1>9. StoreInv'
  <2>1. store' \in [Stores -> StoreRecord]
    BY <1>1, <1>2 DEF IInv, StoreInv
  <2>2. ASSUME NEW o \in Stores, store'[o].pc # "idle"
        PROVE  /\ store'[o].query \in Embedding
               /\ store'[o].key \in Stores
               /\ store'[store'[o].key].pc # "idle"
               /\ store'[store'[o].key].query = store'[o].query
    <3>1. CASE o = s
      BY <1>6, <1>8, <3>1
    <3>2. CASE o # s
      BY <1>1, <1>6, <2>2, <3>2 DEF IInv, StoreInv
    <3> QED
      BY <3>1, <3>2
  <2>3. ASSUME NEW j \in Stores, redis'[j].entry # NoEntry
        PROVE  store'[j].pc # "idle" /\ redis'[j].entry.embedding = store'[j].query
    <3>1. CASE j = k
      BY <1>2, <1>3, <1>4, <1>8, <3>1
    <3>2. CASE j # k
      <4>1. j \in Live /\ redis'[j] = redis[j]
        BY <1>4, <2>3, <3>2 DEF Live
      <4> QED
        BY <1>1, <1>6, <4>1 DEF IInv, StoreInv
    <3> QED
      BY <3>1, <3>2
  <2> QED
    BY <2>1, <2>2, <2>3 DEF StoreInv, Live
<1>10. QueriesStay
  BY <1>1, <1>6 DEF QueriesStay
<1> QED
  BY <1>1, <1>5, <1>9, <1>10, StoresMove

LEMMA StoreEndsKeeps ==
    ASSUME IInv, NEW s \in Stores, StoreExpires(s) \/ StoreBreaks(s), Watch
    PROVE  IInv'
<1>1. PICK pc \in {"done", "broken"} : store' = [store EXCEPT ![s].pc = pc]
  BY DEF StoreExpires, StoreBreaks
<1>2. store[s].pc = "written" /\ UNCHANGED lookup
  BY DEF StoreExpires, StoreBreaks
<1>3. store[s].key \in Stores
  BY <1>2 DEF IInv, StoreInv
<1>4. /\ redis' \in [Stores -> [entry : Entry \cup {NoEntry}, ttl : BOOLEAN]]
      /\ \A k \in Stores : redis'[k].entry = redis[k].entry
      /\ \A k \in Stores : redis'[k].ttl => redis[k].ttl \/ k \in Live
  <2>1. CASE StoreExpires(s)
    <3> DEFINE k == store[s].key
               ttl == redis[k].ttl \/ k \in Live
               hash == [redis[k] EXCEPT !.ttl = ttl]
    <3>1. redis' = [redis EXCEPT ![k] = hash]
      BY <2>1 DEF StoreExpires, IInv, RedisInv
    <3>2. redis[k] \in [entry : Entry \cup {NoEntry}, ttl : BOOLEAN] /\ ttl \in BOOLEAN
      BY <1>3 DEF IInv, RedisInv
    <3> HIDE DEF ttl
    <3>3. /\ hash \in [entry : Entry \cup {NoEntry}, ttl : BOOLEAN]
          /\ hash.entry = redis[k].entry /\ hash.ttl = ttl
      BY <3>2
    <3> HIDE DEF hash
    <3>4. redis'[k] = hash /\ \A j \in Stores \ {k} : redis'[j] = redis[j]
      BY <1>3, <3>1 DEF IInv, RedisInv
    <3>5. redis' \in [Stores -> [entry : Entry \cup {NoEntry}, ttl : BOOLEAN]]
      BY <1>3, <3>1, <3>3 DEF IInv, RedisInv
    <3> QED
      BY <3>3, <3>4, <3>5 DEF ttl
  <2>2. CASE StoreBreaks(s)
    BY <2>2 DEF StoreBreaks, IInv, RedisInv
  <2> QED
    BY <2>1, <2>2
<1>5. Live' = Live
  BY <1>4 DEF Live
<1>6. RedisInv'
  BY <1>4, <1>5 DEF IInv, RedisInv
<1>7. /\ store' \in [Stores -> StoreRecord]
      /\ \A o \in Stores : /\ store'[o].query = store[o].query
                           /\ store'[o].key = store[o].key
                           /\ store'[o].pc = "idle" <=> store[o].pc = "idle"
  BY <1>1, <1>2 DEF IInv, StoreInv, StoreRecord
<1>8. StoreInv'
  <2>1. ASSUME NEW o \in Stores, store'[o].pc # "idle"
        PROVE  /\ store'[o].query \in Embedding
               /\ store'[o].key \in Stores
               /\ store'[store'[o].key].pc # "idle"
               /\ store'[store'[o].key].query = store'[o].query
    BY <1>7, <2>1 DEF IInv, StoreInv
  <2>2. \A k \in Live : store'[k].pc # "idle" /\ redis'[k].entry.embedding = store'[k].query
    BY <1>4, <1>7 DEF IInv, StoreInv, Live
  <2> QED
    BY <1>5, <1>7, <2>1, <2>2 DEF StoreInv
<1>9. QueriesStay
  BY <1>7 DEF QueriesStay
<1> QED
  BY <1>2, <1>6, <1>8, <1>9, StoresMove

LEMMA ExpiresKeeps ==
    ASSUME IInv, NEW k \in Stores, Expires(k), Watch
    PROVE  IInv'
<1>1. redis' = [redis EXCEPT ![k] = NoHash] /\ UNCHANGED <<lookup, store>>
  BY DEF Expires
<1>2. RedisInv' /\ Live' \subseteq Live /\ \A j \in Live' : redis'[j] = redis[j]
  BY <1>1 DEF IInv, RedisInv, Live, NoHash
<1>3. StoreInv'
  BY <1>1, <1>2 DEF IInv, StoreInv
<1>4. QueriesStay
  BY <1>1 DEF QueriesStay
<1> QED
  BY <1>1, <1>2, <1>3, <1>4, StoresMove

LEMMA StepKeeps == CacheAssumption /\ IInv /\ [Next]_vars => IInv'
<1> SUFFICES ASSUME CacheAssumption, IInv, [Next]_vars PROVE IInv'
  OBVIOUS
<1>1. CASE UNCHANGED vars
  <2>1. UNCHANGED <<redis, lookup, store, held, kept, Live>>
    BY <1>1 DEF vars, Live
  <2> QED
    BY <2>1 DEF IInv, RedisInv, StoreInv, ViewInv, LookInv
<1>2. ASSUME NEW l \in Lookups, (LookupStep(l) \/ LookupBreaks(l)) /\ Watch
      PROVE  IInv'
  BY <1>2, LookupStepKeeps, LookupBreaksKeeps
<1>3. ASSUME NEW s \in Stores, (StoreExpires(s) \/ StoreBreaks(s)) /\ Watch
      PROVE  IInv'
  BY <1>3, StoreEndsKeeps
<1> QED
  BY <1>1, <1>2, <1>3, LookupBeginsKeeps, StoreWritesKeeps, ExpiresKeeps DEF Next

\* The inductive invariant holds in every reachable state of the cache.
THEOREM Invariance == Spec => []IInv
BY InitEstablishes, StepKeeps, CacheAssumption, PTL DEF Spec

\* lookup and store keep their state in shape; above all, a TTL belongs to a live
\* entry, and the cursor never runs below the end of the scan.
THEOREM TypeCorrectness == Spec => []TypeOK
<1>1. ASSUME IInv
      PROVE  TypeOK
  <2>1. /\ \A l \in Lookups : lookup[l] \in LookRecord
        /\ \A l \in Lookups : lookup[l].pc = "reading" <=> lookup[l].pc \in Open /\ lookup[l].batch # {}
    BY <1>1 DEF IInv, LookInv, LookOk
  <2>2. lookup \in [Lookups -> LookRecord]
    BY <1>1, <2>1 DEF IInv, LookInv
  <2> QED
    BY <1>1, <2>1, <2>2 DEF TypeOK, IInv, RedisInv, StoreInv, ViewInv, LookRecord, StoreRecord
<1> QED
  BY <1>1, Invariance, PTL

-----------------------------------------------------------------------------
(***************************************************************************)
(* What a lookup answers                                                   *)
(***************************************************************************)
\* An answer after a complete scan is as good as every entry that was there all along.
LEMMA AnswerIsBest ==
    ASSUME CacheAssumption, IInv, [Next]_vars, NEW l \in Lookups,
           lookup[l].pc \in Open, lookup'[l].pc \in {"hit", "miss"}, lookup'[l].cursor = 0,
           NEW k \in kept[l], Score(lookup[l].query, store[k].query) >= Threshold
    PROVE  /\ lookup'[l].pc = "hit"
           /\ Score(lookup[l].query, lookup'[l].best.embedding)
                 >= Score(lookup[l].query, store[k].query)
<1>1. LookupStep(l)
  <2>1. lookup'[l] # lookup[l]
    BY DEF Open
  <2>2. ASSUME NEW m \in Lookups, NEW q \in Embedding, LookupBegins(m, q)
        PROVE  lookup'[l] = lookup[l]
    BY <2>2 DEF LookupBegins, IInv, LookInv
  <2>3. ASSUME NEW m \in Lookups, LookupBreaks(m)
        PROVE  lookup'[l] = lookup[l] \/ lookup'[l].pc = "broken"
    BY <2>3 DEF LookupBreaks, Returned, IInv, LookInv
  <2>4. ASSUME NEW m \in Lookups, m # l, LookupStep(m)
        PROVE  lookup'[l] = lookup[l]
    BY <2>4 DEF LookupStep, LookupScans, LookupReads, IInv, LookInv
  <2>5. (\E s, j \in Stores, q \in Embedding : StoreWrites(s, q, j))
        \/ (\E s \in Stores : StoreExpires(s) \/ StoreBreaks(s))
        \/ (\E j \in Stores : Expires(j)) \/ UNCHANGED vars
        => UNCHANGED lookup
    BY DEF StoreWrites, StoreExpires, StoreBreaks, Expires, vars
  <2> QED
    BY <2>1, <2>2, <2>3, <2>4, <2>5 DEF Next
<1>2. PICK r : /\ lookup' = [lookup EXCEPT ![l] = AfterBatch(r)]
               /\ Locals(r, held[l], kept[l], store)
               /\ r.query = lookup[l].query
  BY <1>1, StepLocals
<1> DEFINE R == AfterBatch(r)
<1>3. lookup'[l] = R
  BY <1>2 DEF IInv, LookInv
<1> HIDE DEF R
<1>4. /\ R.pc \notin Open => R.cursor = r.cursor /\ r.batch = {}
      /\ R.pc = "hit" => R.best = r.best
      /\ R.pc = "miss" => r.best = NoEntry \/ ~CloseTo(r.query, r.best)
  BY <1>2, AfterBatchOk DEF R
<1>5. R.pc \notin Open
  BY <1>3 DEF Open
<1>6. k \in r.returned \ r.batch
  BY <1>2, <1>3, <1>4, <1>5 DEF Locals
<1>7. r.best # NoEntry /\ Score(r.query, r.best.embedding) >= Score(r.query, store[k].query)
  BY <1>2, <1>6 DEF Locals, Leads
<1>8. CloseTo(r.query, r.best)
  <2>1. r.query \in Embedding /\ r.best.embedding \in Embedding
    BY <1>2, <1>7 DEF Locals, LookRecord, Entry
  <2>2. store[k].query \in Embedding
    BY OpenLookup DEF IInv, StoreInv, Live
  <2>3. Score(r.query, r.best.embedding) \in Int /\ Score(r.query, store[k].query) \in Int
    BY <2>1, <2>2, ScoreIsInt
  <2>4. Threshold \in Int
    BY DEF CacheAssumption
  <2> QED
    BY <1>2, <1>7, <2>3, <2>4 DEF CloseTo
<1> QED
  BY <1>2, <1>3, <1>4, <1>7, <1>8

\* lookup: whatever is stored or expires between its commands, a call that scanned to
\* the end answers at least as well as any entry that was in Redis all the while.
THEOREM BestTheorem == Spec => BestOfLive
<1>1. IInv /\ [Next]_vars =>
        [\A l \in Lookups :
          /\ lookup[l].pc \in Open
          /\ lookup'[l].pc \in {"hit", "miss"} /\ lookup'[l].cursor = 0
          => \A k \in kept[l] :
                LET score == Score(lookup[l].query, store[k].query)
                    best == lookup'[l].best IN
                score >= Threshold =>
                    /\ lookup'[l].pc = "hit"
                    /\ Score(lookup[l].query, best.embedding) >= score]_vars
  BY AnswerIsBest, CacheAssumption
<1> QED
  BY <1>1, Invariance, PTL DEF Spec, BestOfLive

-----------------------------------------------------------------------------
(***************************************************************************)
(* SemanticCache implements CacheContract                                  *)
(***************************************************************************)
Contents == [k \in Stores |-> redis[k].entry]

\* A call as its caller sees it.
Seen(r) == [open |-> r.pc \in Open, question |-> r.query,
            answer |-> IF r.pc = "hit" THEN r.best ELSE NoEntry]

CallView == [l \in Lookups |-> Seen(lookup[l])]

LEMMA ContractInit == CacheAssumption /\ Init => Contract!Init
<1> SUFFICES ASSUME CacheAssumption, Init PROVE Contract!Init
  OBVIOUS
<1> DEFINE R == Returned("idle", NoEntry, MaxScans)
<1>1. R.pc \notin Open /\ R.pc # "hit" /\ R.query = NoEmbedding
  BY DEF Returned, Open
<1> HIDE DEF R
<1>2. Seen(R) = [open |-> FALSE, question |-> NoEmbedding, answer |-> NoEntry]
  <2>1. (R.pc \in Open) = FALSE
    BY <1>1
  <2>2. (IF R.pc = "hit" THEN R.best ELSE NoEntry) = NoEntry
    BY <1>1
  <2> QED
    BY <1>1, <2>1, <2>2, Zenon DEF Seen
<1>3. CallView = [l \in Lookups |-> [open |-> FALSE, question |-> NoEmbedding, answer |-> NoEntry]]
  BY <1>2 DEF Init, CallView, R
<1>4. Contents = [k \in Stores |-> NoEntry]
  BY DEF Init, Contents, NoHash
<1> QED
  BY <1>3, <1>4 DEF Contract!Init, Contract!Ended, CallView, Contents, Seen, Init

\* The entries in Redis, as the contract and as Watch name them.
LEMMA HoldingIs ==
    /\ Contract!Holding(Contents) = {redis[k].entry : k \in Live}
    /\ Contract!Holding(Contents') = {redis'[k].entry : k \in Live'}
BY DEF Contract!Holding, Contents, Live

LEMMA HeldNext ==
    ASSUME Watch
    PROVE  held' = [l \in Lookups |-> IF lookup'[l].pc \in Open
                                      THEN held[l] \cup Contract!Holding(Contents') ELSE {}]
<1>1. {k \in Stores : redis'[k].entry # NoEntry} = Live'
  BY DEF Live
<1> QED
  BY <1>1, HoldingIs DEF Watch

\* A call that stays open, or stays over, while no entry comes has seen what it had.
LEMMA HeldStays ==
    ASSUME IInv, Watch, Contract!Holding(Contents') \subseteq Contract!Holding(Contents),
           NEW m \in Lookups, lookup'[m].pc \in Open <=> lookup[m].pc \in Open
    PROVE  held'[m] = held[m]
<1>1. lookup[m].pc \in Open => Contract!Holding(Contents') \subseteq held[m]
  BY HoldingIs DEF IInv, ViewInv
<1>2. lookup[m].pc \notin Open => held[m] = {}
  BY DEF IInv, ViewInv
<1> QED
  BY <1>1, <1>2, HeldNext

LEMMA AskStep ==
    ASSUME CacheAssumption, IInv, NEW l \in Lookups, NEW q \in Embedding,
           LookupBegins(l, q), Watch
    PROVE  Contract!Ask(l, q)
<1> DEFINE R == [Returned("scanning", NoEntry, MaxScans) EXCEPT !.query = q]
<1>1. /\ lookup[l].pc \notin Open
      /\ lookup'[l] = R
      /\ \A m \in Lookups \ {l} : lookup'[m] = lookup[m]
      /\ UNCHANGED redis
  BY DEF LookupBegins, IInv, LookInv
<1>2. R.pc = "scanning" /\ R.query = q /\ R.pc \in Open
  BY DEF Returned, Open
<1> HIDE DEF R
<1>3. Seen(R) = [open |-> TRUE, question |-> q, answer |-> NoEntry]
  BY <1>2 DEF Seen
<1>4. CallView' = [CallView EXCEPT ![l] = [open |-> TRUE, question |-> q, answer |-> NoEntry]]
  BY <1>1, <1>3 DEF CallView
<1>5. Contents' = Contents
  BY <1>1 DEF Contents
<1>6. held'[l] = Contract!Holding(Contents)
  <2>1. held[l] = {}
    BY <1>1 DEF IInv, ViewInv
  <2> QED
    BY <1>1, <1>2, <1>5, <2>1, HeldNext
<1>7. \A m \in Lookups \ {l} : held'[m] = held[m]
  BY <1>1, <1>5, HeldStays
<1>8. held' = [held EXCEPT ![l] = Contract!Holding(Contents)]
  <2>1. held \in [Lookups -> SUBSET Entry] /\ held' = [m \in Lookups |-> held'[m]]
    BY HeldNext DEF IInv, ViewInv
  <2> QED
    BY <1>6, <1>7, <2>1
<1>9. ~CallView[l].open
  BY <1>1 DEF CallView, Seen
<1> QED
  BY <1>4, <1>5, <1>8, <1>9 DEF Contract!Ask, CallView, Seen, Contents

\* A call ends with an answer that it saw and that is close, or with none.
LEMMA AnswerStep ==
    ASSUME IInv, Watch, UNCHANGED redis, NEW l \in Lookups, lookup[l].pc \in Open,
           NEW R, lookup' = [lookup EXCEPT ![l] = R],
           R.pc \notin Open, R.query = NoEmbedding,
           NEW e \in Entry \cup {NoEntry}, Seen(R).answer = e,
           e # NoEntry => e \in held[l] /\ CloseTo(lookup[l].query, e)
    PROVE  Contract!Answer(l, e)
<1>1. lookup'[l] = R /\ \A m \in Lookups \ {l} : lookup'[m] = lookup[m]
  BY DEF IInv, LookInv
<1> DEFINE ended == [open |-> FALSE, question |-> NoEmbedding, answer |-> e]
<1>2. Seen(R) = ended
  <2>1. (R.pc \in Open) = FALSE
    OBVIOUS
  <2>2. (IF R.pc = "hit" THEN R.best ELSE NoEntry) = e
    BY DEF Seen
  <2> QED
    BY <2>1, <2>2, Zenon DEF Seen
<1> HIDE DEF ended
<1>3. CallView' = [CallView EXCEPT ![l] = ended]
  <2>1. CallView' = [m \in Lookups |-> Seen(lookup'[m])]
    BY DEF CallView
  <2>2. Seen(lookup'[l]) = ended
    BY <1>1, <1>2
  <2>3. ASSUME NEW m \in Lookups \ {l}
        PROVE  Seen(lookup'[m]) = CallView[m]
    BY <1>1 DEF CallView
  <2>4. DOMAIN CallView = Lookups
    BY DEF CallView
  <2>5. CallView' = [m \in Lookups |-> IF m = l THEN ended ELSE CallView[m]]
    BY <2>1, <2>2, <2>3
  <2> QED
    BY <2>4, <2>5 DEF CallView
<1>4. Contents' = Contents
  BY DEF Contents
<1>5. held' = [held EXCEPT ![l] = {}]
  <2>1. held'[l] = {}
    BY <1>1, HeldNext
  <2>2. \A m \in Lookups \ {l} : held'[m] = held[m]
    BY <1>1, <1>4, HeldStays
  <2>3. held \in [Lookups -> SUBSET Entry] /\ held' = [m \in Lookups |-> held'[m]]
    BY HeldNext DEF IInv, ViewInv
  <2> QED
    BY <2>1, <2>2, <2>3
<1>6. CallView[l].open /\ CallView[l].question = lookup[l].query
  BY DEF CallView, Seen
<1>7. ended = Contract!Ended(e)
  BY DEF ended, Contract!Ended
<1> QED
  BY <1>3, <1>4, <1>5, <1>6, <1>7 DEF Contract!Answer, CallView, Seen, Contents

LEMMA LookupContract ==
    ASSUME CacheAssumption, IInv, NEW l \in Lookups, LookupStep(l) \/ LookupBreaks(l), Watch
    PROVE  UNCHANGED Contract!contractVars \/ \E e \in Entry \cup {NoEntry} : Contract!Answer(l, e)
<1>1. CASE LookupStep(l)
  <2>1. PICK r : /\ lookup' = [lookup EXCEPT ![l] = AfterBatch(r)]
                 /\ Locals(r, held[l], kept[l], store)
                 /\ r.query = lookup[l].query
    BY <1>1, StepLocals
  <2>2. lookup[l].pc \in Open /\ UNCHANGED redis
    BY <1>1, StepLocals
  <2> DEFINE R == AfterBatch(r)
  <2>3. /\ LookOk(R, held[l], kept[l], store)
        /\ R.pc \in Open => R.query = r.query
        /\ R.pc \notin Open => R.pc \in {"hit", "miss"}
        /\ R.pc = "hit" => R.best \in held[l] /\ CloseTo(r.query, R.best)
    BY <2>1, AfterBatchOk
  <2>4. lookup' = [lookup EXCEPT ![l] = R]
    BY <2>1
  <2>5. lookup'[l] = R /\ \A m \in Lookups \ {l} : lookup'[m] = lookup[m]
    BY <2>4 DEF IInv, LookInv
  <2> HIDE DEF R
  <2>6. CASE R.pc \in Open
    <3>1. Seen(R) = Seen(lookup[l])
      BY <2>1, <2>2, <2>3, <2>6 DEF Seen, Open
    <3>2. CallView' = CallView
      BY <2>5, <3>1 DEF CallView
    <3>3. Contents' = Contents
      BY <2>2 DEF Contents
    <3>4. \A m \in Lookups : held'[m] = held[m]
      BY <2>2, <2>5, <2>6, <3>3, HeldStays
    <3>5. held' = held
      <4>1. held \in [Lookups -> SUBSET Entry] /\ held' = [m \in Lookups |-> held'[m]]
        BY HeldNext DEF IInv, ViewInv
      <4> QED
        BY <3>4, <4>1
    <3> QED
      BY <3>2, <3>3, <3>5 DEF Contract!contractVars, CallView, Seen, Contents
  <2>7. CASE R.pc \notin Open
    <3>1. PICK e \in Entry \cup {NoEntry} : e = Seen(R).answer
      BY <2>3, <2>7, OpenLookup, <2>2 DEF Seen
    <3>2. e # NoEntry => e \in held[l] /\ CloseTo(lookup[l].query, e)
      BY <2>1, <2>3, <3>1 DEF Seen
    <3>3. R.query = NoEmbedding
      BY <2>3, <2>7 DEF LookOk
    <3>4. Contract!Answer(l, e)
      BY <2>2, <2>4, <2>7, <3>1, <3>2, <3>3, AnswerStep
    <3> QED
      BY <3>4
  <2> QED
    BY <2>6, <2>7
<1>2. CASE LookupBreaks(l)
  <2> DEFINE R == Returned("broken", NoEntry, MaxScans)
  <2>1. /\ lookup[l].pc \in Open /\ lookup' = [lookup EXCEPT ![l] = R] /\ UNCHANGED redis
    BY <1>2 DEF LookupBreaks
  <2>2. R.pc \notin Open /\ R.query = NoEmbedding /\ Seen(R).answer = NoEntry
    BY DEF Returned, Seen, Open
  <2> HIDE DEF R
  <2>3. Contract!Answer(l, NoEntry)
    BY <2>1, <2>2, AnswerStep
  <2> QED
    BY <2>3
<1> QED
  BY <1>1, <1>2

\* What stores and Redis do to one key.
LEMMA ChangeStep ==
    ASSUME IInv, Watch, UNCHANGED lookup, NEW k \in Stores, NEW e,
           Contents' = [Contents EXCEPT ![k] = e]
    PROVE  Contract!Change(k, e)
<1>1. CallView' = CallView
  BY DEF CallView
<1>2. held' = [m \in Lookups |-> IF CallView[m].open
                                 THEN held[m] \cup Contract!Holding(Contents') ELSE held[m]]
  <2>1. \A m \in Lookups : lookup[m].pc \notin Open => held[m] = {}
    BY DEF IInv, ViewInv
  <2>2. \A m \in Lookups : CallView[m].open <=> lookup[m].pc \in Open
    BY DEF CallView, Seen
  <2> QED
    BY <2>1, <2>2, HeldNext
<1> QED
  BY <1>1, <1>2 DEF Contract!Change, CallView, Seen, Contents

LEMMA ContractStep ==
    CacheAssumption /\ IInv /\ IInv' /\ [Next]_vars => [Contract!Next]_(Contract!contractVars)
<1> SUFFICES ASSUME CacheAssumption, IInv, IInv', [Next]_vars
             PROVE  Contract!Next \/ UNCHANGED Contract!contractVars
  BY DEF Contract!contractVars
<1>1. CASE UNCHANGED vars
  BY <1>1 DEF vars, Contract!contractVars
<1>2. ASSUME NEW l \in Lookups, NEW q \in Embedding, LookupBegins(l, q) /\ Watch
      PROVE  Contract!Next
  BY <1>2, AskStep DEF Contract!Next
<1>3. ASSUME NEW l \in Lookups, (LookupStep(l) \/ LookupBreaks(l)) /\ Watch
      PROVE  Contract!Next \/ UNCHANGED Contract!contractVars
  BY <1>3, LookupContract DEF Contract!Next
<1>4. ASSUME NEW s \in Stores, NEW k \in Stores, NEW q \in Embedding,
             StoreWrites(s, q, k) /\ Watch
      PROVE  Contract!Next
  <2> DEFINE e == [embedding |-> q, trajectory |-> s]
  <2>1. e \in Entry
    BY DEF Entry
  <2>2. Contents' = [Contents EXCEPT ![k] = e]
    BY <1>4 DEF StoreWrites, Contents, IInv, RedisInv
  <2> HIDE DEF e
  <2>3. Contract!Change(k, e)
    BY <1>4, <2>2, ChangeStep DEF StoreWrites
  <2> QED
    BY <2>1, <2>3 DEF Contract!Next
<1>5. ASSUME NEW s \in Stores, (StoreExpires(s) \/ StoreBreaks(s)) /\ Watch
      PROVE  Contract!Next
  <2>1. store[s].key \in Stores
    BY <1>5 DEF StoreExpires, StoreBreaks, IInv, StoreInv
  <2> DEFINE k == store[s].key
             e == Contents[k]
  <2>2. e \in Entry \cup {NoEntry}
    BY <2>1 DEF Contents, IInv, RedisInv
  <2>3. Contents' = [Contents EXCEPT ![k] = e]
    <3>1. Contents' = Contents
      BY <1>5, <2>1 DEF StoreExpires, StoreBreaks, Contents, IInv, RedisInv
    <3> QED
      BY <3>1 DEF Contents
  <2>4. PICK d \in Entry \cup {NoEntry}, j \in Stores : d = e /\ j = k
    BY <2>1, <2>2
  <2>5. Contract!Change(j, d)
    BY <1>5, <2>3, <2>4, ChangeStep DEF StoreExpires, StoreBreaks
  <2> QED
    BY <2>5 DEF Contract!Next
<1>6. ASSUME NEW k \in Stores, Expires(k) /\ Watch
      PROVE  Contract!Next
  <2>1. Contents' = [Contents EXCEPT ![k] = NoEntry]
    BY <1>6 DEF Expires, Contents, NoHash, IInv, RedisInv
  <2>2. Contract!Change(k, NoEntry)
    BY <1>6, <2>1, ChangeStep DEF Expires
  <2> QED
    BY <2>2 DEF Contract!Next
<1> QED
  BY <1>1, <1>2, <1>3, <1>4, <1>5, <1>6 DEF Next

\* SemanticCache: a hit is similar enough to its query and was in Redis during the call,
\* also when it was overwritten or has expired since.
THEOREM ContractTheorem == Spec => ContractSpec
<1>1. CacheAssumption /\ Init => Contract!Init
  BY ContractInit
<1> QED
  BY <1>1, ContractStep, Invariance, CacheAssumption, PTL DEF Spec, ContractSpec, Contract!Spec
=============================================================================
