------------------------- MODULE KnowledgeBaseProofs -------------------------
(***************************************************************************)
(* KnowledgeBase for any number of ingests of any chunk ids, in any order  *)
(* of their embeddings, and for every query with every scores.             *)
(*                                                                         *)
(* IndexesAgree is inductive with the types of the indexes, and with the   *)
(* id of a call that is embedding: what is appended to the dense index is  *)
(* its last document, and it is what the sparse index was given.           *)
(*                                                                         *)
(* AnswerIsBest needs no more of the indexes than that, but lemmas on what *)
(* a query is made of: a cut of a ranking is a part of it whose scores no  *)
(* other reaches beyond, and the places that the stable sort gives are a   *)
(* permutation.                                                            *)
(***************************************************************************)
EXTENDS KnowledgeBase, FiniteSetTheorems, SequenceTheorems, TLAPS

Document == [chunk : ChunkIds, text : Ingests]

IngestInv ==
    \A i \in Ingests : ingest[i].pc = "embedding" => ingest[i].chunk \in ChunkIds

\* What is indexed has a first document, the one that get returns.
FirstInv ==
    \A c \in ChunkIds :
        PositionsOf(c) # {} => \E i \in PositionsOf(c) : \A j \in PositionsOf(c) : i <= j

IndexInv ==
    /\ documents \in Seq(Document)
    /\ sparse \in [ChunkIds -> Ingests \cup {NoText}]
    /\ FirstInv
    /\ IndexesAgree

AnswerType ==
    /\ answer.k \in 0 .. MaxTopK
    /\ answer.chunks \in Seq(Chunk)
    /\ Len(answer.chunks) <= answer.k

IngestType ==
    ingest \in [Ingests -> [pc : {"idle", "embedding", "done", "raised"},
                            chunk : ChunkIds \cup {NoChunk}]]

IInv == IngestType /\ IngestInv /\ IndexInv /\ AnswerType /\ AnswerIsBest

-----------------------------------------------------------------------------
(***************************************************************************)
(* What Append does to the dense index                                     *)
(***************************************************************************)
LEMMA DocumentPlaces ==
    ASSUME NEW docs \in Seq(Document)
    PROVE  DOMAIN docs = 1 .. Len(docs) /\ Len(docs) \in Nat
BY LenProperties

LEMMA Appended ==
    ASSUME documents \in Seq(Document), NEW d \in Document,
           documents' = Append(documents, d)
    PROVE  /\ documents' \in Seq(Document)
           /\ documents'[Len(documents) + 1] = d
           /\ \A i \in DOMAIN documents : documents'[i] = documents[i]
           /\ DOMAIN documents' = DOMAIN documents \cup {Len(documents) + 1}
<1>1. DOMAIN documents = 1 .. Len(documents) /\ Len(documents) \in Nat
  BY DocumentPlaces
<1> DEFINE docs == Append(documents, d)
<1>2. /\ docs \in Seq(Document) /\ Len(docs) = Len(documents) + 1
      /\ docs[Len(documents) + 1] = d
      /\ \A i \in 1 .. Len(documents) : docs[i] = documents[i]
  BY AppendProperties
<1> HIDE DEF docs
<1>3. DOMAIN docs = 1 .. Len(documents) + 1
  BY <1>2, DocumentPlaces
<1>4. documents' = docs
  BY DEF docs
<1> QED
  BY <1>1, <1>2, <1>3, <1>4

-----------------------------------------------------------------------------
(***************************************************************************)
(* What slices and sorts return                                            *)
(***************************************************************************)
LEMMA PrefixHolds ==
    ASSUME NEW S, NEW s \in Seq(S), NEW n \in Nat
    PROVE  /\ Prefix(s, n) \in Seq(S)
           /\ Len(Prefix(s, n)) = IF n < Len(s) THEN n ELSE Len(s)
           /\ \A i \in 1 .. Len(Prefix(s, n)) : Prefix(s, n)[i] = s[i]
<1>1. Len(s) \in Nat /\ \A i \in 1 .. Len(s) : s[i] \in S
  BY ElementOfSeq, LenProperties
<1> DEFINE m == IF n < Len(s) THEN n ELSE Len(s)
<1>2. m = IF n < Len(s) THEN n ELSE Len(s)
  OBVIOUS
<1>3. m \in Nat /\ m <= Len(s) /\ Prefix(s, n) = SubSeq(s, 1, m)
  BY <1>1 DEF Prefix
<1> HIDE DEF m
<1>4. \A i \in 1 .. m : s[i] \in S
  BY <1>1, <1>3
<1>5. /\ SubSeq(s, 1, m) \in Seq(S)
      /\ Len(SubSeq(s, 1, m)) = IF 1 <= m THEN m - 1 + 1 ELSE 0
      /\ \A i \in 1 .. m - 1 + 1 : SubSeq(s, 1, m)[i] = s[1 + i - 1]
  BY <1>3, <1>4, SubSeqProperties
<1>6. Len(SubSeq(s, 1, m)) = m /\ \A i \in 1 .. m : SubSeq(s, 1, m)[i] = s[i]
  BY <1>3, <1>5
<1> QED
  BY <1>2, <1>3, <1>5, <1>6

LEMMA FirstNumbers ==
    ASSUME NEW n \in Nat
    PROVE  IsFiniteSet(1 .. n) /\ Cardinality(1 .. n) = n
<1>1. IsFiniteSet(1 .. n) /\ Cardinality(1 .. n) = IF 1 > n THEN 0 ELSE n - 1 + 1
  BY FS_Interval
<1> QED
  BY <1>1

LEMMA StrictSubset ==
    ASSUME NEW S, IsFiniteSet(S), NEW T, T \subseteq S, T # S
    PROVE  IsFiniteSet(T) /\ Cardinality(T) < Cardinality(S)
<1>1. /\ IsFiniteSet(T) /\ Cardinality(T) <= Cardinality(S)
      /\ Cardinality(S) # Cardinality(T)
  BY FS_Subset
<1>2. Cardinality(S) \in Nat /\ Cardinality(T) \in Nat
  BY <1>1, FS_CardinalityType
<1> QED
  BY <1>1, <1>2

\* What has smaller places goes before, and no two share one.
LEMMA PlacesDiffer ==
    ASSUME NEW D, NEW final \in [D -> Int], NEW ids \in Seq(D)
    PROVE  /\ \A i \in DOMAIN ids : Place(final, ids, i) \in DOMAIN ids
           /\ \A i, j \in DOMAIN ids :
                 GoesBefore(final, ids, i, j) =>
                    Place(final, ids, i) < Place(final, ids, j)
<1> DEFINE Behind(i) == {j \in DOMAIN ids : GoesBefore(final, ids, j, i)}
<1>1. DOMAIN ids = 1 .. Len(ids) /\ Len(ids) \in Nat /\ \A i \in DOMAIN ids : ids[i] \in D
  BY ElementOfSeq, LenProperties
<1>2. IsFiniteSet(DOMAIN ids) /\ Cardinality(DOMAIN ids) = Len(ids)
  <2>1. PICK n \in Nat : n = Len(ids)
    BY <1>1
  <2> QED
    BY <1>1, <2>1, FirstNumbers
<1>3. \A i \in DOMAIN ids : final[ids[i]] \in Int /\ i \in Int
  BY <1>1
<1>4. ASSUME NEW i \in DOMAIN ids
      PROVE  /\ IsFiniteSet(Behind(i)) /\ Cardinality(Behind(i)) \in Nat
             /\ Cardinality(Behind(i)) < Len(ids)
             /\ Place(final, ids, i) = Cardinality(Behind(i)) + 1
             /\ i \notin Behind(i)
  <2>1. i \notin Behind(i)
    BY <1>3 DEF GoesBefore
  <2>2. Behind(i) \subseteq DOMAIN ids /\ Behind(i) # DOMAIN ids
    BY <2>1
  <2>3. IsFiniteSet(Behind(i)) /\ Cardinality(Behind(i)) < Cardinality(DOMAIN ids)
    BY <1>2, <2>2, StrictSubset
  <2>4. Cardinality(Behind(i)) \in Nat
    BY <2>3, FS_CardinalityType
  <2> QED
    BY <1>2, <2>1, <2>3, <2>4 DEF Place
<1>5. ASSUME NEW i \in DOMAIN ids, NEW j \in DOMAIN ids, GoesBefore(final, ids, i, j)
      PROVE  Cardinality(Behind(i)) < Cardinality(Behind(j))
  <2>1. ASSUME NEW n \in Behind(i) PROVE n \in Behind(j)
    BY <1>3, <1>5 DEF GoesBefore
  <2>2. i \in Behind(j) /\ i \notin Behind(i)
    BY <1>4, <1>5
  <2>3. Behind(i) \subseteq Behind(j) /\ Behind(i) # Behind(j)
    BY <2>1, <2>2
  <2> QED
    BY <1>4, <2>3, StrictSubset
<1> HIDE DEF Behind
<1>6. \A i \in DOMAIN ids : Place(final, ids, i) \in DOMAIN ids
  BY <1>1, <1>4
<1> QED
  BY <1>4, <1>5, <1>6

LEMMA PlacesAreAll ==
    ASSUME NEW D, NEW final \in [D -> Int], NEW ids \in Seq(D)
    PROVE  \A n \in DOMAIN ids : \E i \in DOMAIN ids : Place(final, ids, i) = n
<1> DEFINE places == [i \in DOMAIN ids |-> Place(final, ids, i)]
<1>1. DOMAIN ids = 1 .. Len(ids) /\ Len(ids) \in Nat /\ \A i \in DOMAIN ids : ids[i] \in D
  BY ElementOfSeq, LenProperties
<1>2. IsFiniteSet(DOMAIN ids)
  <2>1. PICK n \in Nat : n = Len(ids)
    BY <1>1
  <2> QED
    BY <1>1, <2>1, FirstNumbers
<1>3. /\ \A i \in DOMAIN ids : Place(final, ids, i) \in DOMAIN ids
      /\ \A i, j \in DOMAIN ids :
            GoesBefore(final, ids, i, j) => Place(final, ids, i) < Place(final, ids, j)
  BY PlacesDiffer
<1>4. \A i, j \in DOMAIN ids :
          i # j => GoesBefore(final, ids, i, j) \/ GoesBefore(final, ids, j, i)
  <2>1. \A i \in DOMAIN ids : final[ids[i]] \in Int /\ i \in Int
    BY <1>1
  <2> QED
    BY <2>1 DEF GoesBefore
<1>5. \A i \in DOMAIN ids : Place(final, ids, i) \in Int
  BY <1>1, <1>3
<1>6. ASSUME NEW i \in DOMAIN ids, NEW j \in DOMAIN ids,
             Place(final, ids, i) = Place(final, ids, j)
      PROVE  i = j
  <2>1. Place(final, ids, i) \in Int
    BY <1>5
  <2>2. ~ GoesBefore(final, ids, i, j)
    BY <1>3, <1>6, <2>1
  <2>3. ~ GoesBefore(final, ids, j, i)
    BY <1>3, <1>6, <2>1
  <2> QED
    BY <1>4, <2>2, <2>3
<1>7. places \in Injection(DOMAIN ids, DOMAIN ids)
  BY <1>3, <1>6 DEF Injection, IsInjective
<1>8. places \in Surjection(DOMAIN ids, DOMAIN ids)
  BY <1>2, <1>7, FS_Injection
<1> QED
  BY <1>8 DEF Surjection

\* A stable sort: a permutation of the places, which leaves no greater score behind.
LEMMA SortPermutes ==
    ASSUME NEW D, NEW final \in [D -> Int], NEW ids \in Seq(D)
    PROVE  \E q \in [DOMAIN ids -> DOMAIN ids] :
              /\ \A i \in DOMAIN ids : \E n \in DOMAIN ids : q[n] = i
              /\ \A m, n \in DOMAIN ids : q[m] = q[n] => m = n
              /\ SortedBy(final, ids) = [n \in DOMAIN ids |-> ids[q[n]]]
              /\ \A m, n \in DOMAIN ids : m < n => final[ids[q[m]]] >= final[ids[q[n]]]
<1> DEFINE q == [n \in DOMAIN ids |->
                    CHOOSE i \in DOMAIN ids : Place(final, ids, i) = n]
<1>1. DOMAIN ids = 1 .. Len(ids) /\ Len(ids) \in Nat /\ \A i \in DOMAIN ids : ids[i] \in D
  BY ElementOfSeq, LenProperties
<1>2. \A n \in DOMAIN ids : q[n] \in DOMAIN ids /\ Place(final, ids, q[n]) = n
  BY PlacesAreAll
<1>3. SortedBy(final, ids) = [n \in DOMAIN ids |-> ids[q[n]]]
  BY DEF SortedBy
<1>4. q \in [DOMAIN ids -> DOMAIN ids]
  BY <1>2
<1> HIDE DEF q
<1>5. /\ \A i \in DOMAIN ids : Place(final, ids, i) \in DOMAIN ids
      /\ \A i, j \in DOMAIN ids :
            GoesBefore(final, ids, i, j) => Place(final, ids, i) < Place(final, ids, j)
  BY PlacesDiffer
<1>6. \A i \in DOMAIN ids : final[ids[i]] \in Int /\ i \in Int
  BY <1>1
<1>7. \A i, j \in DOMAIN ids :
          i # j => GoesBefore(final, ids, i, j) \/ GoesBefore(final, ids, j, i)
  BY <1>6 DEF GoesBefore
<1>8. \A m, n \in DOMAIN ids : q[m] = q[n] => m = n
  BY <1>2
<1>9. \A i, j \in DOMAIN ids : Place(final, ids, i) = Place(final, ids, j) => i = j
  BY <1>1, <1>5, <1>7
<1>10. \A i \in DOMAIN ids : \E n \in DOMAIN ids : q[n] = i
  BY <1>2, <1>5, <1>9
<1>11. ASSUME NEW m \in DOMAIN ids, NEW n \in DOMAIN ids, m < n
       PROVE  final[ids[q[m]]] >= final[ids[q[n]]]
  <2>1. ~ GoesBefore(final, ids, q[n], q[m])
    BY <1>2, <1>5, <1>6, <1>11
  <2>2. ~ (final[ids[q[n]]] > final[ids[q[m]]])
    BY <2>1 DEF GoesBefore
  <2>3. final[ids[q[n]]] \in Int /\ final[ids[q[m]]] \in Int
    BY <1>2, <1>6
  <2> QED
    BY <2>2, <2>3
<1> QED
  BY <1>3, <1>4, <1>8, <1>10, <1>11

LEMMA SortedHolds ==
    ASSUME NEW D, NEW final \in [D -> Int], NEW part \in Seq(D),
           NEW ids, ids = SortedBy(final, part)
    PROVE  /\ ids \in Seq(D) /\ Len(ids) = Len(part) /\ DOMAIN ids = DOMAIN part
           /\ ToSet(ids) = ToSet(part)
           /\ IsInjective(part) => IsInjective(ids)
           /\ \A m, n \in DOMAIN ids : m < n => final[ids[m]] >= final[ids[n]]
<1>1. PICK q \in [DOMAIN part -> DOMAIN part] :
          /\ \A i \in DOMAIN part : \E n \in DOMAIN part : q[n] = i
          /\ \A m, n \in DOMAIN part : q[m] = q[n] => m = n
          /\ ids = [n \in DOMAIN part |-> part[q[n]]]
          /\ \A m, n \in DOMAIN part : m < n => final[part[q[m]]] >= final[part[q[n]]]
  BY SortPermutes
<1>2. DOMAIN part = 1 .. Len(part) /\ Len(part) \in Nat /\ \A i \in DOMAIN part : part[i] \in D
  BY ElementOfSeq, LenProperties
<1>3. \A n \in DOMAIN part : q[n] \in DOMAIN part
  BY <1>1
<1>4. DOMAIN ids = DOMAIN part /\ \A n \in DOMAIN part : ids[n] = part[q[n]]
  BY <1>1
<1>5. ids \in Seq(D) /\ Len(ids) = Len(part)
  <2>1. \A n \in DOMAIN part : ids[n] \in D
    BY <1>2, <1>3, <1>4
  <2>2. PICK n \in Nat : n = Len(part) /\ DOMAIN part = 1 .. n
    BY <1>2
  <2>3. ids = [i \in 1 .. n |-> ids[i]]
    BY <1>1, <2>2
  <2>4. ids \in [1 .. n -> D]
    BY <2>1, <2>2, <2>3
  <2>5. ids \in Seq(D) /\ Len(ids) = n
    BY <2>4
  <2> QED
    BY <2>2, <2>5
<1>6. ToSet(ids) = ToSet(part)
  <2>1. \A n \in DOMAIN part : ids[n] \in ToSet(part)
    BY <1>3, <1>4 DEF ToSet
  <2>2. ASSUME NEW i \in DOMAIN part PROVE part[i] \in ToSet(ids)
    <3>1. PICK n \in DOMAIN part : q[n] = i
      BY <1>1
    <3>2. ids[n] = part[i] /\ n \in DOMAIN ids
      BY <1>4, <3>1
    <3> QED
      BY <3>2 DEF ToSet
  <2> QED
    BY <1>4, <2>1, <2>2 DEF ToSet
<1>7. IsInjective(part) => IsInjective(ids)
  BY <1>1, <1>3, <1>4 DEF IsInjective
<1>8. \A m, n \in DOMAIN ids : m < n => final[ids[m]] >= final[ids[n]]
  BY <1>1, <1>4
<1> QED
  BY <1>4, <1>5, <1>6, <1>7, <1>8

\* What AnswerIsBest asks of the ids of an answer.
BestOf(D, ids, k, fused, final) ==
    /\ ids \in Seq(D) /\ Len(ids) <= k
    /\ Cardinality(ToSet(ids)) = Len(ids)
    /\ Len(ids) = k \/ ToSet(ids) = D
    /\ \A x \in ToSet(ids), y \in D \ ToSet(ids) : fused[x] >= fused[y]
    /\ \A m, n \in DOMAIN ids : m < n => final[ids[m]] >= final[ids[n]]

\* It holds of what is cut from a ranking of D and then sorted.
LEMMA BestAreKept ==
    ASSUME NEW D, IsFiniteSet(D), NEW fused \in [D -> Int], NEW final \in [D -> Int],
           NEW ranked \in Rankings(fused), NEW k \in Nat \ {0}, Overfetch \in Nat \ {0},
           NEW ids, ids = Chunks(ranked, final, k)
    PROVE  BestOf(D, ids, k, fused, final)
<1>1. PICK size \in Nat : size = Cardinality(D) /\ DOMAIN fused = D
  BY FS_CardinalityType
<1>2. /\ ranked \in [1 .. size -> D]
      /\ \A i, j \in 1 .. size : ranked[i] = ranked[j] => i = j
      /\ \A c \in D : \E i \in 1 .. size : ranked[i] = c
      /\ \A i, j \in 1 .. size : i < j => fused[ranked[i]] >= fused[ranked[j]]
  BY <1>1 DEF Rankings, Bijection, Injection, Surjection, IsInjective
<1>3. ranked \in Seq(D) /\ Len(ranked) = size
  BY <1>2
<1>4. k * Overfetch \in Nat /\ k <= k * Overfetch
  OBVIOUS
<1>5. PICK fetched : fetched = Prefix(ranked, k * Overfetch)
  OBVIOUS
<1>6. /\ fetched \in Seq(D)
      /\ Len(fetched) = IF k * Overfetch < size THEN k * Overfetch ELSE size
      /\ \A i \in 1 .. Len(fetched) : fetched[i] = ranked[i]
  BY <1>3, <1>4, <1>5, PrefixHolds
<1>7. PICK part : part = Prefix(fetched, k)
  OBVIOUS
<1>8. /\ part \in Seq(D)
      /\ Len(part) = IF k < Len(fetched) THEN k ELSE Len(fetched)
      /\ \A i \in 1 .. Len(part) : part[i] = fetched[i]
  BY <1>6, <1>7, PrefixHolds
<1>9. PICK long \in Nat : long = Len(part) /\ DOMAIN part = 1 .. long
  BY <1>8, LenProperties
<1>10. long <= Len(fetched) /\ long <= size /\ long <= k /\ (long = k \/ long = size)
  <2>1. Len(fetched) \in Nat
    BY <1>6, LenProperties
  <2> QED
    BY <1>4, <1>6, <1>8, <1>9, <2>1
<1>11. \A i \in 1 .. long : i \in 1 .. size /\ part[i] = ranked[i]
  <2>1. Len(fetched) \in Nat
    BY <1>6, LenProperties
  <2>2. \A i \in 1 .. long : i \in 1 .. size /\ i \in 1 .. Len(fetched)
    BY <1>10, <2>1
  <2> QED
    BY <1>6, <1>8, <1>9, <2>2
<1>12. ids = SortedBy(final, part)
  BY <1>5, <1>7 DEF Chunks
<1>13. /\ ids \in Seq(D) /\ Len(ids) = long /\ DOMAIN ids = DOMAIN part
       /\ ToSet(ids) = ToSet(part)
       /\ IsInjective(part) => IsInjective(ids)
       /\ \A m, n \in DOMAIN ids : m < n => final[ids[m]] >= final[ids[n]]
  <2>1. part \in Seq(D) /\ final \in [D -> Int]
    BY <1>8
  <2>2. /\ ids \in Seq(D) /\ Len(ids) = Len(part) /\ DOMAIN ids = DOMAIN part
        /\ ToSet(ids) = ToSet(part)
        /\ IsInjective(part) => IsInjective(ids)
        /\ \A m, n \in DOMAIN ids : m < n => final[ids[m]] >= final[ids[n]]
    BY <1>12, <2>1, SortedHolds
  <2> QED
    BY <1>9, <2>2
<1>14. DOMAIN ids = 1 .. long
  BY <1>9, <1>13
<1>15. IsInjective(ids)
  <2>1. \A i, j \in DOMAIN part : part[i] = part[j] => i = j
    BY <1>2, <1>9, <1>11
  <2> QED
    BY <1>13, <2>1 DEF IsInjective
<1>16. Cardinality(ToSet(ids)) = long
  <2>1. ids \in [1 .. long -> ToSet(ids)]
    BY <1>13, <1>14 DEF ToSet
  <2>2. ids \in Bijection(1 .. long, ToSet(ids))
    BY <1>14, <1>15, <2>1 DEF ToSet, Bijection, Injection, Surjection
  <2>3. IsFiniteSet(1 .. long) /\ Cardinality(1 .. long) = long
    BY FirstNumbers
  <2> QED
    BY <2>2, <2>3, FS_Bijection DEF ExistsBijection
<1>17. \A x : x \in ToSet(ids) <=> \E i \in 1 .. long : x = ranked[i]
  BY <1>9, <1>11, <1>13 DEF ToSet
<1>18. long = size => ToSet(ids) = D
  <2>1. ToSet(ids) \subseteq D
    BY <1>2, <1>11, <1>17
  <2> QED
    BY <1>2, <1>17, <2>1
<1>19. ASSUME NEW x \in ToSet(ids), NEW y \in D \ ToSet(ids)
       PROVE  fused[x] >= fused[y]
  <2>1. PICK i \in 1 .. long : x = ranked[i]
    BY <1>17
  <2>2. PICK j \in 1 .. size : y = ranked[j]
    BY <1>2
  <2>3. i \in 1 .. size /\ i < j
    BY <1>11, <1>17, <2>2
  <2> QED
    BY <1>2, <2>1, <2>2, <2>3
<1> QED
  BY <1>10, <1>13, <1>16, <1>18, <1>19 DEF BestOf

-----------------------------------------------------------------------------
(***************************************************************************)
(* What a query is given by the indexes                                    *)
(***************************************************************************)
LEMMA IndexedFew ==
    ASSUME IndexInv
    PROVE  IsFiniteSet(Indexed) /\ Indexed \subseteq ChunkIds
<1>1. PICK n \in Nat : DOMAIN documents = 1 .. n
  BY LenProperties DEF IndexInv
<1>2. \A i \in 1 .. n : documents[i] \in Document
  BY <1>1, ElementOfSeq, LenProperties DEF IndexInv
<1> DEFINE idOf == [i \in 1 .. n |-> documents[i].chunk]
<1>3. idOf \in Surjection(1 .. n, Indexed)
  BY <1>1 DEF Indexed, Surjection
<1>4. IsFiniteSet(1 .. n)
  BY FirstNumbers
<1>5. IsFiniteSet(Indexed)
  BY <1>3, <1>4, FS_Surjection
<1>6. Indexed \subseteq ChunkIds
  BY <1>1, <1>2 DEF Indexed, Document
<1> QED
  BY <1>5, <1>6

LEMMA GetReturns ==
    ASSUME IndexInv, NEW c \in Indexed
    PROVE  Get(c).text \in Ingests
<1>1. PositionsOf(c) # {} /\ c \in ChunkIds
  BY IndexedFew DEF Indexed, PositionsOf
<1>2. \E i \in PositionsOf(c) : \A j \in PositionsOf(c) : i <= j
  BY <1>1 DEF IndexInv, FirstInv
<1>3. PICK i \in PositionsOf(c) : Get(c) = documents[i]
  BY <1>2 DEF Get
<1>4. documents[i] \in Document
  BY <1>3, ElementOfSeq, LenProperties DEF PositionsOf, IndexInv
<1> QED
  BY <1>3, <1>4 DEF Document

LEMMA DenseScores ==
    ASSUME IndexInv, NEW sim \in Similarities, NEW c \in Indexed
    PROVE  DenseScore(sim, c) \in 0 .. MaxScore
<1>1. PositionsOf(c) # {} /\ c \in ChunkIds
  BY IndexedFew DEF Indexed, PositionsOf
<1>2. \E i \in PositionsOf(c) : \A j \in PositionsOf(c) : j <= i
  BY <1>1 DEF IndexInv, IndexesAgree
<1>3. \E i \in PositionsOf(c) : \A j \in PositionsOf(c) : i >= j
  <2>1. \A i \in PositionsOf(c) : i \in Int
    BY DocumentPlaces DEF PositionsOf, IndexInv
  <2> QED
    BY <1>2, <2>1
<1>4. PICK i \in PositionsOf(c) : DenseScore(sim, c) = sim[i]
  BY <1>3 DEF DenseScore
<1> QED
  BY <1>4 DEF Similarities, PositionsOf

LEMMA FusedScores ==
    ASSUME KBAssumption, IndexInv, NEW sim \in Similarities, NEW bm25 \in SparseScores,
           NEW w \in Weights
    PROVE  Fused(w, sim, bm25) \in [Indexed -> 0 .. 2 * MaxScore]
<1> SUFFICES ASSUME NEW c \in Indexed
             PROVE  w.dense * DenseScore(sim, c) + w.sparse * bm25[c] \in 0 .. 2 * MaxScore
  BY DEF Fused
<1>1. PICK d, s \in 0 .. MaxScore : d = DenseScore(sim, c) /\ s = bm25[c]
  BY DenseScores DEF SparseScores
<1>2. w.dense = 1 /\ w.sparse \in {0, 1} /\ MaxScore \in Nat
  BY DEF Weights, KBAssumption
<1>3. w.dense * d + w.sparse * s \in 0 .. 2 * MaxScore
  BY <1>2
<1> QED
  BY <1>1, <1>3

-----------------------------------------------------------------------------
(***************************************************************************)
(* A query                                                                 *)
(***************************************************************************)
\* The answer to one query has its type and is the best of what is indexed.
LEMMA AnswerOfIsBest ==
    ASSUME KBAssumption, IInv, NEW k \in 1 .. MaxTopK,
           NEW fused \in [Indexed -> 0 .. 2 * MaxScore],
           NEW final \in [Indexed -> 0 .. 2 * MaxScore],
           NEW ranked \in Rankings(fused), answer' = AnswerOf(k, fused, final, ranked)
    PROVE  AnswerType' /\ AnswerIsBest'
<1>1. PICK ids, chunks :
        /\ ids = Chunks(ranked, final, k)
        /\ chunks = [n \in DOMAIN ids |->
                       [chunk |-> ids[n], text |-> Get(ids[n]).text, score |-> final[ids[n]]]]
        /\ answer' = [k |-> k, fused |-> fused, chunks |-> chunks]
  BY DEF AnswerOf
<1>2. /\ k \in Nat \ {0} /\ k \in 0 .. MaxTopK
      /\ MaxScore \in Nat \ {0} /\ Overfetch \in Nat \ {0}
  BY DEF KBAssumption
<1>3. IsFiniteSet(Indexed) /\ Indexed \subseteq ChunkIds
  BY IndexedFew DEF IInv
<1>4. fused \in [Indexed -> Int] /\ final \in [Indexed -> Int]
  BY <1>2
<1>5. /\ ids \in Seq(Indexed) /\ Len(ids) <= k
      /\ Cardinality(ToSet(ids)) = Len(ids)
      /\ Len(ids) = k \/ ToSet(ids) = Indexed
      /\ \A x \in ToSet(ids), y \in Indexed \ ToSet(ids) : fused[x] >= fused[y]
      /\ \A m, n \in DOMAIN ids : m < n => final[ids[m]] >= final[ids[n]]
  <2>1. ids = Chunks(ranked, final, k)
    BY <1>1
  <2>2. IsFiniteSet(Indexed) /\ k \in Nat \ {0} /\ Overfetch \in Nat \ {0}
    BY <1>2, <1>3
  <2>3. BestOf(Indexed, ids, k, fused, final)
    BY <1>4, <2>1, <2>2, BestAreKept
  <2> QED
    BY <2>3 DEF BestOf
<1>6. DOMAIN ids = 1 .. Len(ids) /\ Len(ids) \in Nat
  BY <1>5, LenProperties
<1>7. \A n \in DOMAIN ids : ids[n] \in Indexed
  BY <1>5, <1>6, ElementOfSeq
<1>8. /\ DOMAIN chunks = DOMAIN ids
      /\ \A n \in DOMAIN ids : chunks[n].chunk = ids[n] /\ chunks[n].score = final[ids[n]]
  BY <1>1
<1>9. chunks \in Seq(Chunk) /\ Len(chunks) = Len(ids)
  <2>1. ASSUME NEW n \in DOMAIN ids
        PROVE  [chunk |-> ids[n], text |-> Get(ids[n]).text, score |-> final[ids[n]]] \in Chunk
    <3>1. ids[n] \in ChunkIds /\ final[ids[n]] \in 0 .. 2 * MaxScore
      BY <1>3, <1>7
    <3>2. Get(ids[n]).text \in Ingests
      BY <1>7, GetReturns DEF IInv
    <3> QED
      BY <3>1, <3>2 DEF Chunk
  <2>2. chunks \in [DOMAIN ids -> Chunk]
    BY <1>1, <2>1
  <2>3. chunks \in [1 .. Len(ids) -> Chunk]
    BY <1>6, <2>2
  <2> QED
    BY <1>6, <2>3
<1>10. answer'.k = k /\ answer'.fused = fused /\ answer'.chunks = chunks /\ DOMAIN fused = Indexed
  BY <1>1
<1>11. AnswerType'
  BY <1>2, <1>5, <1>9, <1>10 DEF AnswerType
<1>12. [n \in DOMAIN chunks |-> chunks[n].chunk] = ids
  <2>1. ids = [n \in DOMAIN ids |-> ids[n]]
    BY <1>5
  <2> QED
    BY <1>8, <2>1
<1>13. \A m, n \in DOMAIN ids : m < n => chunks[m].score >= chunks[n].score
  BY <1>5, <1>8
<1>14. AnswerIsBest'
  <2> SUFFICES /\ Cardinality(ToSet(ids)) = Len(ids)
               /\ Len(ids) = k \/ ToSet(ids) = DOMAIN fused
               /\ \A x \in ToSet(ids), y \in DOMAIN fused \ ToSet(ids) : fused[x] >= fused[y]
               /\ \A m, n \in DOMAIN ids : m < n => chunks[m].score >= chunks[n].score
    BY <1>10, <1>12 DEF AnswerIsBest
  <2> QED
    BY <1>5, <1>10, <1>13
<1> QED
  BY <1>11, <1>14

LEMMA QueryIsBest ==
    ASSUME KBAssumption, IInv, NEW k \in 1 .. MaxTopK, NEW w \in Weights,
           NEW use_reranker \in BOOLEAN, QueryAnswers(k, w, use_reranker)
    PROVE  AnswerType' /\ AnswerIsBest'
<1>1. PICK sim \in Similarities, bm25 \in SparseScores, overlap \in Overlaps :
        \E ranked \in Rankings(Fused(w, sim, bm25)) :
           answer' = AnswerOf(k, Fused(w, sim, bm25),
                              IF use_reranker THEN overlap ELSE Fused(w, sim, bm25), ranked)
  BY DEF QueryAnswers
<1>2. PICK fused : fused = Fused(w, sim, bm25)
  OBVIOUS
<1>3. fused \in [Indexed -> 0 .. 2 * MaxScore]
  BY <1>2, FusedScores DEF IInv
<1>4. overlap \in [Indexed -> 0 .. 2 * MaxScore]
  BY DEF Overlaps, KBAssumption
<1>5. CASE use_reranker
  BY <1>1, <1>2, <1>3, <1>4, <1>5, AnswerOfIsBest
<1>6. CASE ~ use_reranker
  BY <1>1, <1>2, <1>3, <1>6, AnswerOfIsBest
<1> QED
  BY <1>5, <1>6

LEMMA NoQueryIsBest ==
    ASSUME KBAssumption, answer' = NoQuery
    PROVE  AnswerType' /\ AnswerIsBest'
<1>1. <<>> \in Seq(Chunk) /\ Len(<<>>) = 0 /\ MaxTopK \in Nat
  BY DEF KBAssumption
<1>2. answer'.k = 0 /\ answer'.chunks = <<>>
  BY DEF NoQuery
<1> QED
  BY <1>1, <1>2 DEF AnswerType, AnswerIsBest

-----------------------------------------------------------------------------
(***************************************************************************)
(* The steps                                                               *)
(***************************************************************************)
LEMMA InitInv == KBAssumption /\ Init => IInv
<1> SUFFICES ASSUME KBAssumption, Init PROVE IInv
  OBVIOUS
<1>1. documents \in Seq(Document) /\ DOMAIN documents = {}
  BY DEF Init
<1>2. sparse \in [ChunkIds -> Ingests \cup {NoText}] /\ \A c \in ChunkIds : sparse[c] = NoText
  BY DEF Init
<1>3. IndexInv
  BY <1>1, <1>2 DEF IndexInv, FirstInv, IndexesAgree, PositionsOf
<1>4. IngestType /\ IngestInv
  BY DEF Init, IngestType, IngestInv
<1>5. AnswerType /\ AnswerIsBest
  <2>1. answer.k = 0 /\ answer.chunks = <<>>
    BY DEF Init, NoQuery
  <2>2. <<>> \in Seq(Chunk) /\ Len(<<>>) = 0 /\ MaxTopK \in Nat
    BY DEF KBAssumption
  <2> QED
    BY <2>1, <2>2 DEF AnswerType, AnswerIsBest
<1> QED
  BY <1>3, <1>4, <1>5 DEF IInv

LEMMA AddsInv ==
    ASSUME KBAssumption, IInv, NEW i \in Ingests, IngestAdds(i)
    PROVE  IInv'
<1>1. PICK c \in ChunkIds : c = ingest[i].chunk
  BY DEF IngestAdds, IInv, IngestInv
<1>2. PICK last : last = Len(documents) + 1
  OBVIOUS
<1>3. /\ documents' \in Seq(Document)
      /\ documents'[last] = [chunk |-> c, text |-> i]
      /\ \A n \in DOMAIN documents : documents'[n] = documents[n]
      /\ DOMAIN documents' = DOMAIN documents \cup {last}
  <2>1. [chunk |-> c, text |-> i] \in Document
    BY DEF Document
  <2>2. documents' = Append(documents, [chunk |-> c, text |-> i])
    BY <1>1 DEF IngestAdds
  <2> QED
    BY <1>2, <2>1, <2>2, Appended DEF IInv, IndexInv
<1>4. /\ last \in Int /\ \A n \in DOMAIN documents : n \in Int /\ n <= last
  BY <1>2, DocumentPlaces DEF IInv, IndexInv
<1>5. /\ sparse' \in [ChunkIds -> Ingests \cup {NoText}]
      /\ sparse'[c] = i /\ \A d \in ChunkIds \ {c} : sparse'[d] = sparse[d]
  BY <1>1 DEF IngestAdds, IInv, IndexInv
<1>6. IngestType' /\ IngestInv'
  BY DEF IngestAdds, IInv, IngestType, IngestInv
<1>7. PositionsOf(c)' = PositionsOf(c) \cup {last}
  BY <1>3 DEF PositionsOf
<1>8. ASSUME NEW d \in ChunkIds \ {c}
      PROVE  /\ PositionsOf(d)' = PositionsOf(d)
             /\ \A n \in PositionsOf(d) : documents'[n] = documents[n]
  BY <1>3, <1>8 DEF PositionsOf
<1>9. i # NoText /\ IndexesAgree
  BY DEF KBAssumption, IInv, IndexInv
\* The document just appended is the last one of its id, and is what sparse holds.
<1>10. /\ ~(sparse'[c] = NoText) /\ ~((PositionsOf(c) \cup {last}) = {})
       /\ documents'[last].text = sparse'[c]
       /\ \A n \in PositionsOf(c) \cup {last} : n <= last
  BY <1>3, <1>4, <1>5, <1>9 DEF PositionsOf
<1>11. ASSUME NEW d \in ChunkIds
       PROVE  /\ sparse'[d] = NoText <=> PositionsOf(d)' = {}
              /\ sparse'[d] # NoText =>
                    \E n \in PositionsOf(d)' :
                        /\ documents'[n].text = sparse'[d]
                        /\ \A m \in PositionsOf(d)' : m <= n
  <2>1. CASE d = c
    BY <1>7, <1>10, <2>1
  <2>2. CASE d # c
    BY <1>5, <1>8, <1>9, <2>2 DEF IndexesAgree
  <2> QED
    BY <2>1, <2>2
<1>12. IndexesAgree'
  BY <1>11 DEF IndexesAgree
<1>13. FirstInv'
  <2>1. ASSUME NEW d \in ChunkIds, PositionsOf(d)' # {}
        PROVE  \E n \in PositionsOf(d)' : \A m \in PositionsOf(d)' : n <= m
    <3>1. CASE PositionsOf(d) = {}
      <4>1. PositionsOf(d)' = {last}
        BY <1>7, <1>8, <2>1, <3>1
      <4> QED
        BY <1>4, <4>1
    <3>2. CASE PositionsOf(d) # {}
      <4>1. PICK n \in PositionsOf(d) : \A m \in PositionsOf(d) : n <= m
        BY <3>2 DEF IInv, IndexInv, FirstInv
      <4>2. PositionsOf(d)' \subseteq PositionsOf(d) \cup {last} /\ n \in PositionsOf(d)'
        BY <1>7, <1>8
      <4>3. n <= last
        BY <1>4 DEF PositionsOf
      <4> QED
        BY <4>1, <4>2, <4>3
    <3> QED
      BY <3>1, <3>2
  <2> QED
    BY <2>1 DEF FirstInv
<1>14. AnswerType' /\ AnswerIsBest'
  BY NoQueryIsBest DEF IngestAdds
<1>15. IndexInv'
  BY <1>3, <1>5, <1>12, <1>13 DEF IndexInv
<1> QED
  BY <1>6, <1>14, <1>15 DEF IInv

LEMMA NextInv == KBAssumption /\ IInv /\ [Next]_vars => IInv'
<1> SUFFICES ASSUME KBAssumption, IInv, [Next]_vars PROVE IInv'
  OBVIOUS
<1>1. ASSUME UNCHANGED <<documents, sparse>> PROVE IndexInv'
  BY <1>1 DEF IInv, IndexInv, FirstInv, IndexesAgree, PositionsOf
<1>2. ASSUME UNCHANGED answer PROVE AnswerType' /\ AnswerIsBest'
  BY <1>2 DEF IInv, AnswerType, AnswerIsBest
<1>3. ASSUME UNCHANGED ingest PROVE IngestType' /\ IngestInv'
  BY <1>3 DEF IInv, IngestType, IngestInv
<1>4. ASSUME NEW i \in Ingests, NEW c \in ChunkIds, IngestBegins(i, c) PROVE IInv'
  <2>1. IngestType' /\ IngestInv'
    BY <1>4 DEF IngestBegins, IInv, IngestType, IngestInv
  <2> QED
    BY <1>1, <1>2, <1>4, <2>1 DEF IngestBegins, IInv
<1>5. ASSUME NEW i \in Ingests, IngestAdds(i) PROVE IInv'
  BY <1>5, AddsInv
<1>6. ASSUME NEW i \in Ingests, IngestFails(i) PROVE IInv'
  <2>1. IngestType' /\ IngestInv'
    BY <1>6 DEF IngestFails, IInv, IngestType, IngestInv
  <2> QED
    BY <1>1, <1>2, <1>6, <2>1 DEF IngestFails, IInv
<1>7. ASSUME NEW k \in 1 .. MaxTopK, NEW w \in Weights, NEW b \in BOOLEAN,
             QueryAnswers(k, w, b)
      PROVE  IInv'
  <2>1. UNCHANGED <<documents, sparse, ingest>>
    BY <1>7 DEF QueryAnswers
  <2>2. AnswerType' /\ AnswerIsBest'
    BY <1>7, QueryIsBest
  <2> QED
    BY <1>1, <1>3, <2>1, <2>2 DEF IInv
<1>8. CASE UNCHANGED vars
  BY <1>1, <1>2, <1>3, <1>8 DEF vars, IInv
<1> QED
  BY <1>4, <1>5, <1>6, <1>7, <1>8 DEF Next

-----------------------------------------------------------------------------
(***************************************************************************)
(* The theorems                                                            *)
(***************************************************************************)
\* Every reachable state satisfies the inductive invariant.
THEOREM Invariance == Spec => []IInv
<1>1. Init => IInv
  BY InitInv, KBAssumption
<1>2. IInv /\ [Next]_vars => IInv'
  BY NextInv, KBAssumption
<1> QED
  BY <1>1, <1>2, PTL DEF Spec

\* The indexes, the ingests and the answers have the types that the code gives them,
\* and an answer has at most top_k chunks.
THEOREM TypeTheorem == Spec => []TypeOK
<1>1. IInv => TypeOK
  BY DEF IInv, IndexInv, IngestType, AnswerType, TypeOK, Document
<1> QED
  BY <1>1, Invariance, PTL

\* HybridKnowledgeBase.ingest: however many ingests overtake each other, the sparse
\* index scores the text whose embedding the dense index scores.
THEOREM IndexTheorem == Spec => []IndexesAgree
<1>1. IInv => IndexesAgree
  BY DEF IInv, IndexInv
<1> QED
  BY <1>1, Invariance, PTL

\* HybridKnowledgeBase.query: whatever the scores, the ties and the order they fall
\* in, the answer holds the top_k chunks of the fused ranking, each once, sorted by
\* the final score, and nothing that was left out has a better fused score.
THEOREM AnswerTheorem == Spec => []AnswerIsBest
<1>1. IInv => AnswerIsBest
  BY DEF IInv
<1> QED
  BY <1>1, Invariance, PTL
=============================================================================
