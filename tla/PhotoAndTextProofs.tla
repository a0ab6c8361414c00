------------------------- MODULE PhotoAndTextProofs -------------------------
(***************************************************************************)
(* The safety properties of the two components that look at what a         *)
(* customer sent: VisionService at the photo, for any number of calls and  *)
(* any granularity of the probabilities, and PiiSanitizer at the text, for *)
(* texts, numbers and payloads of any size.                                *)
(*                                                                         *)
(* The inductive invariant of VisionService adds to the properties that a  *)
(* load is under way only while its call holds the lock and no model       *)
(* exists: this is what the second test of _model, under the lock, is for. *)
(*                                                                         *)
(* PiiSanitizer makes one call, so its properties are about what recursive *)
(* functions compute.  That such a function exists, and what it computes,  *)
(* is proved by induction over the length of a number, the entities of a   *)
(* text, the depth of a payload and the steps of a path.                   *)
(***************************************************************************)
EXTENDS VisionService, PiiSanitizer, FiniteSetTheorems, SequenceTheorems,
        WellFoundedInduction, TLAPS

Known == {"idle", "waiting", "loading", "inferring", "done", "raised", "cancelled"}

\* A call that looks like R is consistent with the lock and the model.
CallOk(c, R, holder, m) ==
    /\ R.pc \in Known
    /\ R.photo \in BOOLEAN
    /\ R.model \in Scores \cup {NoModel}
    /\ R.model # NoModel => R.model = m
    /\ R.pc = "loading" => holder = c /\ m = NoModel
    /\ R.pc = "inferring" => R.model # NoModel
    /\ R.verdict # NoVerdict => R.model # NoModel /\ R.verdict = Verdict(R.model)

IInv ==
    /\ model \in Scores \cup {NoModel}
    /\ lock \in Calls \cup {NoCall}
    /\ DOMAIN call = Calls /\ call = [c \in Calls |-> call[c]]
    /\ \A c \in Calls : CallOk(c, call[c], lock, model)

-----------------------------------------------------------------------------
(***************************************************************************)
(* The verdict                                                             *)
(***************************************************************************)
\* Of the first n scores there is a first greatest one.
First(f, n, i) == \A j \in 1..n : f[j] <= f[i] /\ (j < i => f[j] < f[i])

LEMMA FirstGreatestStep ==
    ASSUME NEW f, \A i \in 1..6 : f[i] \in Int, NEW n \in 1..5, \E i \in 1..n : First(f, n, i)
    PROVE  \E i \in 1..(n + 1) : First(f, n + 1, i)
<1>1. PICK i \in 1..n : First(f, n, i)
  OBVIOUS
<1>2. CASE f[n + 1] <= f[i]
  <2>1. First(f, n + 1, i) /\ i \in 1..(n + 1)
    BY <1>1, <1>2 DEF First
  <2> QED
    BY <2>1
<1>3. CASE f[n + 1] > f[i]
  <2>1. \A j \in 1..n : f[j] < f[n + 1]
    BY <1>1, <1>3 DEF First
  <2>2. First(f, n + 1, n + 1) /\ n + 1 \in 1..(n + 1)
    BY <2>1 DEF First
  <2> QED
    BY <2>2
<1> QED
  BY <1>1, <1>2, <1>3

LEMMA FirstGreatest ==
    ASSUME NEW f, \A i \in 1..6 : f[i] \in Int
    PROVE  \E i \in 1..6 : First(f, 6, i)
<1>1. \E i \in 1..1 : First(f, 1, i)
  BY DEF First
<1>2. \E i \in 1..2 : First(f, 2, i)
  BY <1>1, FirstGreatestStep
<1>3. \E i \in 1..3 : First(f, 3, i)
  BY <1>2, FirstGreatestStep
<1>4. \E i \in 1..4 : First(f, 4, i)
  BY <1>3, FirstGreatestStep
<1>5. \E i \in 1..5 : First(f, 5, i)
  BY <1>4, FirstGreatestStep
<1> QED
  BY <1>5, FirstGreatestStep

LEMMA ClassNames ==
    /\ DOMAIN DEFECT_CLASSES = 1..6
    /\ Classes = {"no_defect", "surface_scratch", "crack_or_fracture",
                  "discoloration_or_stain", "missing_component", "packaging_damage"}
    /\ \A i \in 1..6 : DEFECT_CLASSES[i] \in Classes
BY DEF DEFECT_CLASSES, Classes, Severity

\* max() is defined for what softmax gives.
LEMMA PredictedIsClass ==
    ASSUME VisionAssumption, NEW p \in Scores
    PROVE  Predicted(p) \in Classes
<1> DEFINE f == [i \in 1..6 |-> p[DEFECT_CLASSES[i]]]
<1>1. \A i \in 1..6 : f[i] \in Int
  BY ClassNames DEF Scores, VisionAssumption
<1>2. PICK i \in 1..6 : First(f, 6, i)
  BY <1>1, FirstGreatest
<1>3. \A j \in 1..6 : /\ p[DEFECT_CLASSES[j]] <= p[DEFECT_CLASSES[i]]
                      /\ j < i => p[DEFECT_CLASSES[j]] < p[DEFECT_CLASSES[i]]
  BY <1>2 DEF First
<1> QED
  BY <1>3, ClassNames DEF Predicted

LEMMA VerdictType ==
    ASSUME VisionAssumption, NEW p \in Scores
    PROVE  /\ Predicted(p) \in Classes
           /\ p[Predicted(p)] \in 0..Whole
           /\ Verdict(p) \in [class : Classes, confidence : 0..Whole, review : BOOLEAN]
<1>1. Predicted(p) \in Classes
  BY PredictedIsClass
<1>2. p[Predicted(p)] \in 0..Whole
  BY <1>1 DEF Scores
<1> QED
  BY <1>1, <1>2 DEF Verdict

\* What needs no review is neither a crack nor a missing part, and the threshold's
\* share of the probability is spent on what it is.
LEMMA NoReview ==
    ASSUME VisionAssumption, NEW p \in Scores, ~Verdict(p).review
    PROVE  p.crack_or_fracture + p.missing_component <= Whole - ConfidenceThreshold
<1> DEFINE class == Predicted(p)
<1>1. class \in Classes /\ p[class] \in 0..Whole
  BY VerdictType
<1>2. p[class] >= ConfidenceThreshold /\ ~(Severity[class] >= 7)
  <2> DEFINE doubt == p[class] < ConfidenceThreshold \/ Severity[class] >= 7
  <2>1. Verdict(p).review = doubt
    BY Zenon DEF Verdict
  <2>2. ~doubt
    BY <2>1
  <2>3. ConfidenceThreshold \in Int /\ p[class] \in Int
    BY <1>1 DEF VisionAssumption
  <2> QED
    BY <2>2, <2>3
<1>3. class \in {"no_defect", "surface_scratch", "discoloration_or_stain", "packaging_damage"}
  <2>1. Severity["crack_or_fracture"] = 9 /\ Severity["missing_component"] = 7
    BY DEF Severity
  <2> QED
    BY <1>1, <1>2, <2>1, ClassNames
<1>4. /\ p["no_defect"] \in Nat /\ p["surface_scratch"] \in Nat
      /\ p["crack_or_fracture"] \in Nat /\ p["discoloration_or_stain"] \in Nat
      /\ p["missing_component"] \in Nat /\ p["packaging_damage"] \in Nat
  BY ClassNames DEF Scores, VisionAssumption
<1>5. p["no_defect"] + p["surface_scratch"] + p["crack_or_fracture"]
        + p["discoloration_or_stain"] + p["missing_component"] + p["packaging_damage"] = Whole
  BY DEF Scores
<1> HIDE DEF class
<1> QED
  BY <1>2, <1>3, <1>4, <1>5 DEF VisionAssumption

-----------------------------------------------------------------------------
(***************************************************************************)
(* The steps                                                               *)
(***************************************************************************)
LEMMA InitInv == VisionAssumption /\ Init => IInv
<1> SUFFICES ASSUME VisionAssumption, Init PROVE IInv
  OBVIOUS
<1> DEFINE R == [pc |-> "idle", photo |-> TRUE, model |-> NoModel, verdict |-> NoVerdict]
<1>1. R.pc = "idle" /\ R.photo \in BOOLEAN /\ R.model = NoModel /\ R.verdict = NoVerdict
  OBVIOUS
<1>2. call = [c \in Calls |-> R]
  BY DEF Init
<1> HIDE DEF R
<1>3. \A c \in Calls : CallOk(c, R, lock, model)
  BY <1>1 DEF CallOk, Known
<1> QED
  BY <1>2, <1>3 DEF Init, IInv

\* An action that changes one call, its lock and the model.
LEMMA OneCallChanges ==
    ASSUME IInv, NEW c \in Calls, NEW R, call' = [call EXCEPT ![c] = R],
           model' \in Scores \cup {NoModel}, lock' \in Calls \cup {NoCall},
           CallOk(c, R, lock', model'),
           \A d \in Calls \ {c} : CallOk(d, call[d], lock', model')
    PROVE  IInv'
<1>1. /\ DOMAIN call' = Calls /\ call' = [d \in Calls |-> call'[d]]
      /\ call'[c] = R /\ \A d \in Calls \ {c} : call'[d] = call[d]
  BY DEF IInv
<1>2. \A d \in Calls : CallOk(d, call'[d], lock', model')
  BY <1>1
<1> QED
  BY <1>1, <1>2 DEF IInv

LEMMA ClassifyInv ==
    ASSUME VisionAssumption, IInv, NEW c \in Calls, NEW photo \in BOOLEAN, Classify(c, photo)
    PROVE  IInv'
<1> DEFINE R == [call[c] EXCEPT !.pc = IF model # NoModel THEN "inferring" ELSE "waiting",
                                !.photo = photo, !.model = model]
<1>1. call' = [call EXCEPT ![c] = R] /\ UNCHANGED <<model, lock>>
  BY DEF Classify, IInv
<1>2. CallOk(c, call[c], lock, model)
  BY DEF IInv
<1>3. CallOk(c, R, lock, model)
  BY <1>2 DEF CallOk, Known, IInv
<1> HIDE DEF R
<1> QED
  BY <1>1, <1>3, OneCallChanges DEF IInv

LEMMA EntersLockInv ==
    ASSUME VisionAssumption, IInv, NEW c \in Calls, EntersLock(c)
    PROVE  IInv'
<1>1. CallOk(c, call[c], lock, model)
  BY DEF IInv
<1>2. CASE model = NoModel
  <2> DEFINE R == [call[c] EXCEPT !.pc = "loading"]
  <2>1. call' = [call EXCEPT ![c] = R] /\ lock' = c /\ model' = model /\ lock = NoCall
    BY <1>2 DEF EntersLock, IInv
  <2>2. CallOk(c, R, c, model)
    BY <1>1, <1>2 DEF CallOk, Known
  \* Nobody else was loading: the lock was free.
  <2>3. \A d \in Calls \ {c} : CallOk(d, call[d], c, model)
    BY <2>1 DEF CallOk, IInv, VisionAssumption
  <2> HIDE DEF R
  <2> QED
    BY <2>1, <2>2, <2>3, OneCallChanges DEF IInv
<1>3. CASE model # NoModel
  <2> DEFINE R == [call[c] EXCEPT !.pc = "inferring", !.model = model]
  <2>1. call' = [call EXCEPT ![c] = R] /\ UNCHANGED <<model, lock>> /\ call[c].pc = "waiting"
    BY <1>3 DEF EntersLock, IInv
  <2>2. CallOk(c, R, lock, model)
    BY <1>1, <1>3, <2>1 DEF CallOk, Known, IInv
  <2> HIDE DEF R
  <2> QED
    BY <2>1, <2>2, OneCallChanges DEF IInv
<1> QED
  BY <1>2, <1>3

LEMMA LoadReturnsInv ==
    ASSUME VisionAssumption, IInv, NEW c \in Calls, LoadReturns(c)
    PROVE  IInv'
<1>1. PICK scores \in Scores :
          /\ model' = scores
          /\ call' = [call EXCEPT ![c].pc = "inferring", ![c].model = scores]
  BY DEF LoadReturns
<1> DEFINE R == [call[c] EXCEPT !.pc = "inferring", !.model = scores]
<1>2. call' = [call EXCEPT ![c] = R]
  BY <1>1 DEF IInv
<1>3. call[c].pc = "loading" /\ lock' = NoCall /\ scores # NoModel
  BY DEF LoadReturns, VisionAssumption
<1>4. CallOk(c, call[c], lock, model)
  BY DEF IInv
<1>5. model = NoModel /\ lock = c /\ call[c].model = NoModel /\ call[c].verdict = NoVerdict
  BY <1>3, <1>4 DEF CallOk
<1>6. CallOk(c, R, NoCall, scores)
  BY <1>3, <1>4, <1>5 DEF CallOk, Known
\* No call has had a model yet, and no other is loading.
<1>7. \A d \in Calls \ {c} : CallOk(d, call[d], NoCall, scores)
  BY <1>5 DEF CallOk, IInv
<1> HIDE DEF R
<1> QED
  BY <1>1, <1>2, <1>3, <1>6, <1>7, OneCallChanges

\* An action of a call that only ends it, and leaves the lock or releases it.
LEMMA EndingInv ==
    ASSUME VisionAssumption, IInv, NEW c \in Calls, NEW pc \in {"raised", "cancelled"},
           call' = [call EXCEPT ![c].pc = pc], UNCHANGED model,
           lock' = lock \/ (lock = c /\ lock' = NoCall)
    PROVE  IInv'
<1> DEFINE R == [call[c] EXCEPT !.pc = pc]
<1>1. call' = [call EXCEPT ![c] = R]
  BY DEF IInv
<1>2. CallOk(c, call[c], lock, model)
  BY DEF IInv
<1>3. CallOk(c, R, lock', model)
  BY <1>2 DEF CallOk, Known
<1>4. \A d \in Calls \ {c} : CallOk(d, call[d], lock', model)
  BY DEF CallOk, IInv
<1> HIDE DEF R
<1> QED
  BY <1>1, <1>3, <1>4, OneCallChanges DEF IInv

LEMMA InfersInv ==
    ASSUME VisionAssumption, IInv, NEW c \in Calls, Infers(c)
    PROVE  IInv'
<1>1. CallOk(c, call[c], lock, model) /\ call[c].pc = "inferring"
  BY DEF IInv, Infers
<1>2. UNCHANGED <<model, lock>>
  BY DEF Infers
<1>3. CASE call[c].photo
  <2> DEFINE R == [call[c] EXCEPT !.pc = "done", !.verdict = Verdict(call[c].model)]
  <2>1. call' = [call EXCEPT ![c] = R]
    BY <1>3 DEF Infers, IInv
  <2>2. CallOk(c, R, lock, model)
    BY <1>1 DEF CallOk, Known
  <2> HIDE DEF R
  <2> QED
    BY <1>2, <2>1, <2>2, OneCallChanges DEF IInv
<1>4. CASE ~call[c].photo
  <2>1. call' = [call EXCEPT ![c].pc = "raised"]
    BY <1>4 DEF Infers, IInv
  <2> QED
    BY <1>2, <2>1, EndingInv
<1> QED
  BY <1>3, <1>4

LEMMA NextInv == VisionAssumption /\ IInv /\ [Next]_vars => IInv'
<1> SUFFICES ASSUME VisionAssumption, IInv, [Next]_vars PROVE IInv'
  OBVIOUS
<1>1. ASSUME NEW c \in Calls, NEW photo \in BOOLEAN, Classify(c, photo) PROVE IInv'
  BY <1>1, ClassifyInv
<1>2. ASSUME NEW c \in Calls, EntersLock(c) PROVE IInv'
  BY <1>2, EntersLockInv
<1>3. ASSUME NEW c \in Calls, LoadReturns(c) PROVE IInv'
  BY <1>3, LoadReturnsInv
<1>4. ASSUME NEW c \in Calls, LoadRaises(c) PROVE IInv'
  <2>1. CallOk(c, call[c], lock, model)
    BY DEF IInv
  <2>2. lock = c
    BY <1>4, <2>1 DEF LoadRaises, CallOk
  <2> QED
    BY <1>4, <2>2, EndingInv DEF LoadRaises
<1>5. ASSUME NEW c \in Calls, Infers(c) PROVE IInv'
  BY <1>5, InfersInv
<1>6. ASSUME NEW c \in Calls, Cancelled(c) PROVE IInv'
  BY <1>6, EndingInv DEF Cancelled
<1>7. CASE UNCHANGED vars
  BY <1>7 DEF vars, IInv
<1> QED
  BY <1>1, <1>2, <1>3, <1>4, <1>5, <1>6, <1>7 DEF Next, Progress

-----------------------------------------------------------------------------
(***************************************************************************)
(* The theorems                                                            *)
(***************************************************************************)
\* Every reachable state satisfies the inductive invariant.
THEOREM Invariance == Spec => []IInv
<1>1. Init => IInv
  BY InitInv, VisionAssumption
<1>2. IInv /\ [Next]_vars => IInv'
  BY NextInv, VisionAssumption
<1> QED
  BY <1>1, <1>2, PTL DEF Spec

\* _ensure_loaded and classify keep their state well typed, with any number of calls.
THEOREM TypeCorrectness == Spec => []TypeOK
<1>1. ASSUME IInv, NEW c \in Calls
      PROVE  call[c].verdict \in {NoVerdict} \cup
                [class : Classes, confidence : 0..Whole, review : BOOLEAN]
  <2>1. CallOk(c, call[c], lock, model)
    BY <1>1 DEF IInv
  <2>2. CASE call[c].verdict = NoVerdict
    BY <2>2
  <2>3. CASE call[c].verdict # NoVerdict
    BY <2>1, <2>3, VerdictType, VisionAssumption DEF CallOk
  <2> QED
    BY <2>2, <2>3
<1>2. IInv => TypeOK
  BY <1>1 DEF IInv, CallOk, Known, TypeOK
<1> QED
  BY <1>2, Invariance, PTL

\* All calls of a process are judged by one model, however often the load is cancelled,
\* fails and is repeated.
THEOREM OneModelTheorem == Spec => []OneModel
<1>1. IInv => OneModel
  BY DEF IInv, CallOk, OneModel
<1> QED
  BY <1>1, Invariance, PTL

\* An image that need not be reviewed is, within the threshold, neither broken nor
\* incomplete.
THEOREM ReviewTheorem == Spec => []SevereIsReviewed
<1>1. ASSUME IInv, NEW c \in Calls, call[c].verdict # NoVerdict, ~call[c].verdict.review
      PROVE  call[c].model.crack_or_fracture + call[c].model.missing_component
                <= Whole - ConfidenceThreshold
  <2>1. CallOk(c, call[c], lock, model)
    BY <1>1 DEF IInv
  <2>2. call[c].model \in Scores /\ call[c].verdict = Verdict(call[c].model)
    BY <1>1, <2>1 DEF CallOk
  <2> QED
    BY <1>1, <2>2, NoReview, VisionAssumption
<1>2. IInv => SevereIsReviewed
  BY <1>1 DEF SevereIsReviewed
<1> QED
  BY <1>2, Invariance, PTL

-----------------------------------------------------------------------------
(***************************************************************************)
(* Induction over the numbers up to a bound                                *)
(* Stated with sets: a lemma on an operator could not be instantiated.     *)
(***************************************************************************)

\* A set of natural numbers that is not empty has a least element.
LEMMA LeastNat ==
    ASSUME NEW T, T \subseteq Nat, T # {}
    PROVE  \E n \in T : \A m \in T : n <= m
<1>1. PICK R : R = OpToRel(<, Nat)
  OBVIOUS
<1>2. IsWellFoundedOn(R, Nat)
  BY <1>1, NatLessThanWellFounded
<1>3. PICK n \in T : \A m \in T : <<m, n>> \notin R
  BY <1>2, WFMin
<1>4. \A m \in T : ~(m < n)
  <2>1. ASSUME NEW m \in T, m < n PROVE <<m, n>> \in OpToRel(<, Nat)
    BY <2>1 DEF OpToRel
  <2> QED
    BY <1>1, <1>3, <2>1
<1> QED
  BY <1>4

\* What holds of 0, and of n + 1 if of n, holds up to any bound.
LEMMA UpTo ==
    ASSUME NEW N \in Nat, NEW T, 0 \in T, \A n \in 0..(N - 1) : n \in T => n + 1 \in T
    PROVE  \A n \in 0..N : n \in T
<1> DEFINE Out == {n \in 0..N : n \notin T}
<1> SUFFICES ASSUME Out # {} PROVE FALSE
  OBVIOUS
<1>1. Out \subseteq Nat /\ Out # {}
  OBVIOUS
<1>2. PICK n \in Out : \A m \in Out : n <= m
  <2> HIDE DEF Out
  <2> QED
    BY <1>1, LeastNat
<1>3. n # 0 /\ n \in 0..N /\ n \notin T
  OBVIOUS
<1>4. n - 1 \in 0..(N - 1) /\ n - 1 \in 0..N /\ ~(n <= n - 1) /\ (n - 1) + 1 = n
  BY <1>3
<1>5. n - 1 \notin Out
  BY <1>2, <1>4
<1>6. n - 1 \in T
  BY <1>4, <1>5
<1>7. (n - 1) + 1 \in T
  BY <1>4, <1>6
<1> QED
  BY <1>3, <1>4, <1>7

-----------------------------------------------------------------------------
(***************************************************************************)
(* PiiSanitizer: _luhn_check                                               *)
(* The sums are given by their partial sums.                               *)
(***************************************************************************)

\* The equation of the recursion in Sum.
IsPartial(p, s) == p = [n \in 0..Len(s) |-> IF n = 0 THEN 0 ELSE p[n - 1] + s[n]]

\* A recursive function is the one that satisfies its equation.
LEMMA SumDef == \A s : Sum(s) = (CHOOSE p : IsPartial(p, s))[Len(s)]
BY DEF Sum, IsPartial

\* The first m partial sums of s.
Sums(p, s, m) == p[0] = 0 /\ \A n \in 1..m : p[n] = p[n - 1] + s[n]

\* The partial sums of a sequence exist, so the recursion in Sum has a solution.
LEMMA Partials ==
    ASSUME NEW s \in Seq(Int)
    PROVE  \E p \in [0..Len(s) -> Int] : Sums(p, s, Len(s))
<1>1. Len(s) \in Nat /\ \A n \in 1..Len(s) : s[n] \in Int
  OBVIOUS
<1> DEFINE Holds(m) == \E p \in [0..m -> Int] : Sums(p, s, m)
           T == {m \in 0..Len(s) : Holds(m)}
<1>2. 0 \in T
  <2>1. [n \in 0..0 |-> 0] \in [0..0 -> Int] /\ Sums([n \in 0..0 |-> 0], s, 0)
    BY DEF Sums
  <2>2. Holds(0)
    BY <2>1
  <2> QED
    BY <1>1, <2>2
<1>3. ASSUME NEW m \in 0..(Len(s) - 1), m \in T PROVE m + 1 \in T
  <2>1. PICK p \in [0..m -> Int] : Sums(p, s, m)
    BY <1>3
  <2> DEFINE q == [n \in 0..(m + 1) |-> IF n = m + 1 THEN p[m] + s[m + 1] ELSE p[n]]
  <2>2. m \in Nat /\ m + 1 \in 1..Len(s) /\ m \in 0..m /\ m + 1 \in 0..Len(s) /\ 0 \in 0..m
    BY <1>1
  <2>3. q \in [0..(m + 1) -> Int]
    <3>1. p[m] + s[m + 1] \in Int
      BY <1>1, <2>2
    <3>2. ASSUME NEW n \in 0..(m + 1), n # m + 1 PROVE p[n] \in Int
      <4>1. n \in 0..m
        BY <2>2, <3>2
      <4> QED
        BY <4>1
    <3> QED
      BY <3>1, <3>2
  <2>4. q[0] = 0
    BY <2>1, <2>2 DEF Sums
  <2>5. ASSUME NEW n \in 1..(m + 1) PROVE q[n] = q[n - 1] + s[n]
    <3>1. n \in 0..(m + 1) /\ n - 1 \in 0..(m + 1) /\ n - 1 # m + 1
      BY <2>2
    <3>2. q[n - 1] = p[n - 1]
      BY <3>1
    <3>3. CASE n = m + 1
      BY <2>2, <3>1, <3>2, <3>3
    <3>4. CASE n # m + 1
      <4>1. n \in 1..m
        BY <2>2, <3>4
      <4>2. q[n] = p[n]
        BY <3>1, <3>4
      <4> QED
        BY <2>1, <3>2, <4>1, <4>2 DEF Sums
    <3> QED
      BY <3>3, <3>4
  <2> HIDE DEF q
  <2>6. Sums(q, s, m + 1)
    BY <2>4, <2>5 DEF Sums
  <2>7. Holds(m + 1)
    BY <2>3, <2>6
  <2> QED
    BY <2>2, <2>7
<1> HIDE DEF T
<1>4. \A m \in 0..Len(s) : m \in T
  BY <1>1, <1>2, <1>3, UpTo
<1>5. Len(s) \in T
  BY <1>1, <1>4
<1> QED
  BY <1>5 DEF T

\* Whatever satisfies the equations of the partial sums gives the sum.
LEMMA SumIs ==
    ASSUME NEW s \in Seq(Int), NEW p \in [0..Len(s) -> Int], Sums(p, s, Len(s))
    PROVE  Sum(s) = p[Len(s)]
<1>1. Len(s) \in Nat
  OBVIOUS
<1>2. IsPartial(p, s)
  <2>1. \A n \in 0..Len(s) : p[n] = IF n = 0 THEN 0 ELSE p[n - 1] + s[n]
    BY <1>1 DEF Sums
  <2>2. p = [n \in 0..Len(s) |-> p[n]]
    OBVIOUS
  <2> QED
    BY <2>1, <2>2 DEF IsPartial
<1>3. PICK q : q = CHOOSE f : IsPartial(f, s)
  OBVIOUS
<1>4. IsPartial(q, s)
  BY <1>2, <1>3
<1>5. Sums(q, s, Len(s))
  <2>1. PICK g : g = [n \in 0..Len(s) |-> IF n = 0 THEN 0 ELSE q[n - 1] + s[n]]
    OBVIOUS
  <2>2. q = g
    BY <1>4, <2>1 DEF IsPartial
  <2>3. g[0] = 0 /\ \A n \in 1..Len(s) : g[n] = q[n - 1] + s[n]
    BY <1>1, <2>1
  <2> QED
    BY <2>2, <2>3 DEF Sums
<1> DEFINE T == {n \in 0..Len(s) : q[n] = p[n]}
<1>6. 0 \in T
  BY <1>1, <1>5 DEF Sums
<1>7. ASSUME NEW n \in 0..(Len(s) - 1), n \in T PROVE n + 1 \in T
  <2>1. n + 1 \in 1..Len(s) /\ n + 1 - 1 = n /\ n + 1 \in 0..Len(s)
    BY <1>1
  <2>2. q[n + 1] = q[n] + s[n + 1] /\ p[n + 1] = p[n] + s[n + 1]
    BY <1>5, <2>1 DEF Sums
  <2> QED
    BY <1>7, <2>1, <2>2
<1> HIDE DEF T
<1>8. \A n \in 0..Len(s) : n \in T
  BY <1>1, <1>6, <1>7, UpTo
<1>9. q[Len(s)] = p[Len(s)]
  <2>1. Len(s) \in T
    BY <1>1, <1>8
  <2> QED
    BY <2>1 DEF T
<1> QED
  BY <1>3, <1>9, SumDef

\* The sum of a sequence is that of the reversed one.
LEMMA SumReversed ==
    ASSUME NEW s \in Seq(Int)
    PROVE  Sum([i \in 1..Len(s) |-> s[Len(s) + 1 - i]]) = Sum(s)
<1>1. PICK L \in Nat : L = Len(s)
  OBVIOUS
<1>2. PICK t : t = [i \in 1..L |-> s[L + 1 - i]]
  OBVIOUS
<1>3. \A n \in 1..L : s[n] \in Int
  BY <1>1
<1>4. PICK p \in [0..L -> Int] : Sums(p, s, L)
  BY <1>1, Partials
<1>5. t \in Seq(Int) /\ Len(t) = L
  <2>1. \A i \in 1..L : L + 1 - i \in 1..L
    BY <1>1
  <2> QED
    BY <1>2, <1>3, <2>1
<1>6. PICK q : q = [n \in 0..L |-> p[L] - p[L - n]]
  OBVIOUS
<1>7. \A n \in 0..L : L - n \in 0..L
  OBVIOUS
<1>8. \A n \in 0..L : p[n] \in Int
  OBVIOUS
<1>9. q \in [0..L -> Int]
  BY <1>6, <1>7, <1>8
<1>10. \A n \in 0..L : q[n] = p[L] - p[L - n]
  BY <1>6
<1>11. ASSUME NEW n \in 1..L PROVE q[n] = q[n - 1] + t[n]
  <2>1. PICK m \in 1..L : m = L + 1 - n
    OBVIOUS
  <2>2. n \in 0..L /\ n - 1 \in 0..L /\ L - (n - 1) = m /\ L - n = m - 1
        /\ m \in 0..L /\ m - 1 \in 0..L /\ L \in 0..L
    BY <2>1
  <2>3. p[m] = p[m - 1] + s[m]
    BY <1>4 DEF Sums
  <2>4. q[n] = p[L] - p[m - 1] /\ q[n - 1] = p[L] - p[m]
    BY <1>10, <2>2
  <2>5. t[n] = s[m]
    BY <1>2, <2>1
  <2>6. p[L] \in Int /\ p[m - 1] \in Int /\ s[m] \in Int
    BY <1>3, <1>8, <2>2
  <2>7. p[L] - p[m - 1] = (p[L] - (p[m - 1] + s[m])) + s[m]
    BY <2>6
  <2> QED
    BY <2>3, <2>4, <2>5, <2>6, <2>7
<1>12. q[0] = 0 /\ q[L] = p[L]
  <2>1. 0 \in 0..L /\ L \in 0..L /\ L - 0 = L /\ L - L = 0
    OBVIOUS
  <2>2. p[L] \in Int /\ p[0] = 0
    BY <1>4, <1>8, <2>1 DEF Sums
  <2>3. q[0] = p[L] - p[L] /\ q[L] = p[L] - p[0]
    BY <1>10, <2>1
  <2> QED
    BY <2>2, <2>3
<1>13. Sums(q, t, Len(t))
  BY <1>5, <1>11, <1>12 DEF Sums
<1>14. Sum(t) = q[L]
  BY <1>5, <1>9, <1>13, SumIs
<1>15. Sum(s) = p[L]
  BY <1>1, <1>4, SumIs
<1> QED
  BY <1>1, <1>2, <1>12, <1>14, <1>15

\* Changing one of the terms changes the sum by as much.
LEMMA SumChanged ==
    ASSUME NEW s \in Seq(Int), NEW t \in Seq(Int), Len(t) = Len(s), NEW k \in 1..Len(s),
           \A n \in 1..Len(s) : n # k => t[n] = s[n]
    PROVE  Sum(t) = Sum(s) + (t[k] - s[k])
<1>1. PICK L \in Nat : L = Len(s)
  OBVIOUS
<1>2. \A n \in 1..L : s[n] \in Int /\ t[n] \in Int
  BY <1>1
<1>3. k \in 1..L /\ Len(t) = L /\ \A n \in 1..L : n # k => t[n] = s[n]
  BY <1>1
<1>4. PICK p \in [0..L -> Int] : Sums(p, s, L)
  BY <1>1, Partials
<1>5. \A n \in 0..L : p[n] \in Int
  OBVIOUS
<1>6. PICK d \in Int : d = t[k] - s[k]
  <2>1. t[k] \in Int /\ s[k] \in Int
    BY <1>2, <1>3
  <2>2. t[k] - s[k] \in Int
    BY <2>1
  <2> QED
    BY <2>2
<1>7. PICK q : q = [n \in 0..L |-> IF n < k THEN p[n] ELSE p[n] + d]
  OBVIOUS
<1>8. q \in [0..L -> Int]
  BY <1>5, <1>7
<1>9. \A n \in 0..L : q[n] = IF n < k THEN p[n] ELSE p[n] + d
  BY <1>7
<1>10. ASSUME NEW n \in 1..L PROVE q[n] = q[n - 1] + t[n]
  <2>1. n \in 0..L /\ n - 1 \in 0..L
    OBVIOUS
  <2>2. p[n] = p[n - 1] + s[n]
    BY <1>4 DEF Sums
  <2>3. p[n - 1] \in Int /\ s[n] \in Int /\ t[n] \in Int
    BY <1>2, <1>5, <2>1
  <2>4. CASE n < k
    <3>1. k \in Int /\ n - 1 < k /\ n # k
      BY <1>3, <2>4
    <3>2. q[n] = p[n] /\ q[n - 1] = p[n - 1]
      BY <1>9, <2>1, <2>4, <3>1
    <3>3. t[n] = s[n]
      BY <1>3, <3>1
    <3> QED
      BY <2>2, <3>2, <3>3
  <2>5. CASE n = k
    <3>1. k \in Int /\ n - 1 < k /\ ~(n < k)
      BY <1>3, <2>5
    <3>2. q[n] = p[n] + d /\ q[n - 1] = p[n - 1]
      BY <1>9, <2>1, <3>1
    <3>3. d = t[n] - s[n]
      BY <1>6, <2>5
    <3>4. PICK a, b, c \in Int : a = p[n - 1] /\ b = s[n] /\ c = t[n]
      BY <2>3
    <3>5. d = c - b /\ q[n] = (a + b) + d /\ q[n - 1] = a
      BY <2>2, <3>2, <3>3, <3>4
    <3>6. q[n] = a + c
      BY <3>5
    <3> QED
      BY <3>4, <3>5, <3>6
  <2>6. CASE n > k
    <3>1. k \in Int /\ ~(n - 1 < k) /\ ~(n < k) /\ n # k
      BY <1>3, <2>6
    <3>2. q[n] = p[n] + d /\ q[n - 1] = p[n - 1] + d
      BY <1>9, <2>1, <3>1
    <3>3. t[n] = s[n]
      BY <1>3, <3>1
    <3>4. PICK a, b \in Int : a = p[n - 1] /\ b = s[n]
      BY <2>3
    <3>5. q[n] = (a + b) + d /\ q[n - 1] = a + d /\ t[n] = b
      BY <2>2, <3>2, <3>3, <3>4
    <3>6. (a + b) + d = (a + d) + b
      OBVIOUS
    <3> QED
      BY <3>5, <3>6
  <2> QED
    BY <1>3, <2>4, <2>5, <2>6
<1>11. q[0] = 0 /\ q[L] = p[L] + d
  BY <1>3, <1>4, <1>9 DEF Sums
<1>12. Sums(q, t, Len(t))
  BY <1>3, <1>10, <1>11 DEF Sums
<1>13. Sum(t) = q[L]
  BY <1>3, <1>8, <1>12, SumIs
<1>14. Sum(s) = p[L]
  BY <1>1, <1>4, SumIs
<1> QED
  BY <1>6, <1>11, <1>13, <1>14

\* What _luhn_check adds up.
Terms(s) == [i \in DOMAIN s |-> IF (i - 1) % 2 = Len(s) % 2 THEN Doubled(s[i]) ELSE s[i]]

\* The doubling of a digit is a permutation of the digits.
LEMMA DoubledIs ==
    \A a \in 0..9 : Doubled(a) \in 0..9 /\ \A b \in 0..9 : Doubled(a) = Doubled(b) => a = b
BY DEF Doubled

LEMMA DigitPlaces ==
    ASSUME NEW s \in Seq(0..9)
    PROVE  DOMAIN s = 1..Len(s) /\ Len(s) \in Nat /\ \A i \in 1..Len(s) : s[i] \in 0..9
OBVIOUS

\* What the check adds up, one digit for each digit.
LEMMA TermsAre ==
    ASSUME NEW s \in Seq(0..9)
    PROVE  /\ Terms(s) \in Seq(Int) /\ Len(Terms(s)) = Len(s)
           /\ \A i \in 1..Len(s) :
                 /\ Terms(s)[i] \in 0..9
                 /\ Terms(s)[i] = IF (i - 1) % 2 = Len(s) % 2 THEN Doubled(s[i]) ELSE s[i]
<1>1. DOMAIN s = 1..Len(s) /\ Len(s) \in Nat /\ \A i \in 1..Len(s) : s[i] \in 0..9
  BY DigitPlaces
<1>2. \A i \in 1..Len(s) :
         Terms(s)[i] = IF (i - 1) % 2 = Len(s) % 2 THEN Doubled(s[i]) ELSE s[i]
  BY <1>1 DEF Terms
<1>3. \A i \in 1..Len(s) : Terms(s)[i] \in 0..9
  BY <1>1, <1>2, DoubledIs
<1>4. Terms(s) = [i \in 1..Len(s) |-> Terms(s)[i]]
  BY <1>1 DEF Terms
<1>5. Terms(s) \in [1..Len(s) -> Int]
  BY <1>3, <1>4
<1>6. Terms(s) \in Seq(Int) /\ Len(Terms(s)) = Len(s)
  BY <1>1, <1>5
<1> QED
  BY <1>2, <1>3, <1>6

LEMMA CheckIs ==
    ASSUME NEW s \in Seq(0..9)
    PROVE  LuhnCheck(s) <=> Len(s) >= 13 /\ Sum(Terms(s)) % 10 = 0
BY DEF LuhnCheck, Terms

\* Counted from the left as the code does or from the right: the same digits are doubled.
LEMMA Parity == \A n \in Nat : \A i \in 1..n : (n + 1 - i - 1) % 2 = n % 2 <=> i % 2 = 0
OBVIOUS

\* Luhn's algorithm adds up the same terms in the other order.
LEMMA StandardIs ==
    ASSUME NEW s \in Seq(0..9)
    PROVE  StandardLuhn(s) <=> Sum(Terms(s)) % 10 = 0
<1>1. DOMAIN s = 1..Len(s) /\ Len(s) \in Nat /\ \A i \in 1..Len(s) : s[i] \in 0..9
  BY DigitPlaces
<1>2. PICK t : t = [i \in DOMAIN s |->
                      IF i % 2 = 0 THEN Doubled(Reverse(s)[i]) ELSE Reverse(s)[i]]
  OBVIOUS
<1>3. StandardLuhn(s) <=> Sum(t) % 10 = 0
  BY <1>2 DEF StandardLuhn
<1>4. ASSUME NEW i \in 1..Len(s) PROVE t[i] = Terms(s)[Len(s) + 1 - i]
  <2>1. PICK m \in 1..Len(s) : m = Len(s) + 1 - i
    <3>1. Len(s) + 1 - i \in 1..Len(s)
      BY <1>1
    <3> QED
      BY <3>1
  <2>2. Reverse(s)[i] = s[m]
    <3>1. (Len(s) - i) + 1 = m
      BY <1>1, <2>1
    <3> QED
      BY <3>1 DEF Reverse
  <2>3. t[i] = IF i % 2 = 0 THEN Doubled(s[m]) ELSE s[m]
    BY <1>1, <1>2, <2>2
  <2>4. (m - 1) % 2 = Len(s) % 2 <=> i % 2 = 0
    BY <1>1, <2>1, Parity
  <2>5. Terms(s)[m] = IF (m - 1) % 2 = Len(s) % 2 THEN Doubled(s[m]) ELSE s[m]
    BY TermsAre
  <2> QED
    BY <2>1, <2>3, <2>4, <2>5
<1>5. t = [i \in 1..Len(s) |-> Terms(s)[Len(s) + 1 - i]]
  <2>1. t = [i \in 1..Len(s) |-> t[i]]
    BY <1>1, <1>2
  <2> QED
    BY <1>4, <2>1
<1>6. Sum(t) = Sum(Terms(s))
  BY <1>5, TermsAre, SumReversed
<1> QED
  BY <1>3, <1>6

\* Another digit in one place changes one term, by less than 10, and so the last digit of
\* the sum.
LEMMA OneWrongDigit ==
    ASSUME NEW s \in Seq(0..9), LuhnCheck(s), NEW k \in DOMAIN s, NEW d \in 0..9 \ {s[k]}
    PROVE  ~LuhnCheck([s EXCEPT ![k] = d])
<1>1. DOMAIN s = 1..Len(s) /\ Len(s) \in Nat /\ \A i \in 1..Len(s) : s[i] \in 0..9
  BY DigitPlaces
<1>2. PICK r : r = [s EXCEPT ![k] = d]
  OBVIOUS
<1>3. r \in Seq(0..9) /\ Len(r) = Len(s)
  BY <1>2
<1>4. r[k] = d /\ \A i \in 1..Len(s) : i # k => r[i] = s[i]
  BY <1>1, <1>2
<1>5. ASSUME NEW i \in 1..Len(s), i # k PROVE Terms(r)[i] = Terms(s)[i]
  <2>1. r[i] = s[i] /\ i \in 1..Len(r)
    BY <1>3, <1>4, <1>5
  <2>2. Terms(r)[i] = IF (i - 1) % 2 = Len(r) % 2 THEN Doubled(r[i]) ELSE r[i]
    BY <1>3, <2>1, TermsAre
  <2>3. Terms(s)[i] = IF (i - 1) % 2 = Len(s) % 2 THEN Doubled(s[i]) ELSE s[i]
    BY TermsAre
  <2> QED
    BY <1>3, <2>1, <2>2, <2>3
<1>6. PICK a, b \in 0..9 : a = Terms(s)[k] /\ b = Terms(r)[k]
  BY <1>1, <1>3, TermsAre
<1>7. a # b
  <2>1. /\ a = IF (k - 1) % 2 = Len(s) % 2 THEN Doubled(s[k]) ELSE s[k]
        /\ b = IF (k - 1) % 2 = Len(s) % 2 THEN Doubled(d) ELSE d
    BY <1>1, <1>3, <1>4, <1>6, TermsAre
  <2>2. s[k] \in 0..9 /\ d \in 0..9 /\ d # s[k]
    BY <1>1
  <2> QED
    BY <2>1, <2>2, DoubledIs
<1>8. Sum(Terms(r)) = Sum(Terms(s)) + (b - a)
  <2>1. Terms(s) \in Seq(Int) /\ Terms(r) \in Seq(Int)
        /\ Len(Terms(s)) = Len(s) /\ Len(Terms(r)) = Len(s)
    BY <1>3, TermsAre
  <2>2. Sum(Terms(r)) = Sum(Terms(s)) + (Terms(r)[k] - Terms(s)[k])
    BY <1>1, <1>5, <2>1, SumChanged
  <2> QED
    BY <1>6, <2>2
<1>9. PICK x \in Int : x = Sum(Terms(s))
  <2>1. Terms(s) \in Seq(Int)
    BY TermsAre
  <2>2. PICK p \in [0..Len(Terms(s)) -> Int] : Sums(p, Terms(s), Len(Terms(s)))
    BY <2>1, Partials
  <2>3. Sum(Terms(s)) = p[Len(Terms(s))] /\ Len(Terms(s)) \in 0..Len(Terms(s))
    BY <2>1, <2>2, SumIs
  <2> QED
    BY <2>2, <2>3
<1>10. x % 10 = 0
  BY <1>9, CheckIs
<1>11. (x + (b - a)) % 10 # 0
  <2>1. \A y \in -9..9 : y # 0 => (x + y) % 10 # 0
    BY <1>10
  <2>2. b - a \in -9..9 /\ b - a # 0
    BY <1>7
  <2> QED
    BY <2>1, <2>2
<1> QED
  BY <1>2, <1>3, <1>8, <1>9, <1>11, CheckIs

LEMMA NumberIs ==
    ASSUME NEW n \in CardLengths, NEW p, NEW q, NEW a \in 0..9, NEW b \in 0..9
    PROVE  Number(n, p, q, a, b) \in Seq(0..9)
<1>1. n \in Nat
  BY SanitizerAssumption DEF SanitizerAssumption
<1>2. Number(n, p, q, a, b) \in [1..n -> 0..9]
  BY DEF Number
<1> QED
  BY <1>1, <1>2

\* Whatever its length and digits, a number is taken for a card exactly if it has 13
\* digits and Luhn's algorithm, in its usual words, accepts it; never with one wrong
\* digit (_luhn_check).
THEOREM AnyNumber ==
    ASSUME NEW s \in Seq(0..9)
    PROVE  /\ LuhnCheck(s) <=> Len(s) >= 13 /\ StandardLuhn(s)
           /\ LuhnCheck(s) =>
                 \A i \in DOMAIN s : \A d \in 0..9 \ {s[i]} :
                    ~LuhnCheck([s EXCEPT ![i] = d])
<1>1. LuhnCheck(s) <=> Len(s) >= 13 /\ StandardLuhn(s)
  BY CheckIs, StandardIs
<1>2. LuhnCheck(s) =>
         \A i \in DOMAIN s : \A d \in 0..9 \ {s[i]} : ~LuhnCheck([s EXCEPT ![i] = d])
  BY OneWrongDigit
<1> QED
  BY <1>1, <1>2

LEMMA LuhnOf ==
    ASSUME NEW s \in Seq(0..9),
           sanitizer' = [fn |-> "luhn_check", digits |-> s, valid |-> LuhnCheck(s)]
    PROVE  LuhnIsStandard'
<1>1. sanitizer'.digits = s /\ sanitizer'.valid = LuhnCheck(s)
  OBVIOUS
<1> QED
  BY <1>1, AnyNumber DEF LuhnIsStandard

\* What the behaviours of the model show of AnyNumber: each number that is checked is
\* judged as Luhn's algorithm does, and none with one wrong digit passes (_luhn_check).
THEOREM LuhnTheorem == SanitizerSpec => []LuhnIsStandard
<1>1. SanitizerInit => LuhnIsStandard
  BY DEF SanitizerInit, Idle, LuhnIsStandard
<1>2. LuhnIsStandard /\ [SanitizerNext]_sanitizer => LuhnIsStandard'
  <2>1. ASSUME ChecksCard PROVE LuhnIsStandard'
    <3>1. PICK n \in CardLengths : \E p \in 1..n : \E q \in p..n, a, b \in 0..9 :
             sanitizer' = [fn |-> "luhn_check", digits |-> Number(n, p, q, a, b),
                           valid |-> LuhnCheck(Number(n, p, q, a, b))]
      BY <2>1 DEF ChecksCard
    <3>2. PICK s \in Seq(0..9) :
             sanitizer' = [fn |-> "luhn_check", digits |-> s, valid |-> LuhnCheck(s)]
      BY <3>1, NumberIs
    <3> QED
      BY <3>2, LuhnOf
  <2>2. Sanitizes => LuhnIsStandard'
    BY DEF Sanitizes, LuhnIsStandard
  <2>3. SanitizesPayload => LuhnIsStandard'
    BY DEF SanitizesPayload, LuhnIsStandard
  <2>4. LuhnIsStandard /\ UNCHANGED sanitizer => LuhnIsStandard'
    BY DEF LuhnIsStandard
  <2> QED
    BY <2>1, <2>2, <2>3, <2>4 DEF SanitizerNext
<1> QED
  BY <1>1, <1>2, PTL DEF SanitizerSpec

-----------------------------------------------------------------------------
(***************************************************************************)
(* PiiSanitizer: occurrences of a text in a text                           *)
(***************************************************************************)

Cell == Letters \cup {"secret", "regex", "ner"}

\* What SubSeq(s, a, a + n - 1) holds.
Piece(p, s, a) == \A i \in 1..Len(p) : p[i] = s[a + i - 1]

\* What SubSeq returns.
LEMMA Pieces ==
    ASSUME NEW s \in Seq(Cell), NEW a \in Nat \ {0}, NEW b \in Nat, b <= Len(s), a <= b
    PROVE  /\ SubSeq(s, a, b) \in Seq(Cell)
           /\ Len(SubSeq(s, a, b)) = b - a + 1
           /\ Piece(SubSeq(s, a, b), s, a)
<1>1. \A i \in a..b : s[i] \in Cell
  <2>1. \A i \in a..b : i \in 1..Len(s)
    OBVIOUS
  <2> QED
    BY <2>1
<1>2. /\ SubSeq(s, a, b) \in Seq(Cell)
      /\ Len(SubSeq(s, a, b)) = IF a <= b THEN b - a + 1 ELSE 0
      /\ \A i \in 1..(b - a + 1) : SubSeq(s, a, b)[i] = s[a + i - 1]
  BY <1>1, SubSeqProperties
<1> QED
  BY <1>2 DEF Piece

\* An occurrence is a piece.
LEMMA SamePiece ==
    ASSUME NEW s \in Seq(Cell), NEW p \in Seq(Cell), NEW a \in Nat \ {0}, Len(p) >= 1,
           a + Len(p) - 1 <= Len(s)
    PROVE  SubSeq(s, a, a + Len(p) - 1) = p <=> Piece(p, s, a)
<1>1. PICK L \in Nat : L = Len(p) /\ L >= 1
  OBVIOUS
<1>2. PICK b \in Nat : b = a + L - 1 /\ b <= Len(s) /\ a <= b
  <2>1. a + L - 1 \in Nat
    BY <1>1
  <2> QED
    BY <1>1, <2>1
<1>3. PICK t \in Seq(Cell) : t = SubSeq(s, a, b) /\ Len(t) = L /\ Piece(t, s, a)
  <2>1. b - a + 1 = L
    BY <1>1, <1>2
  <2> QED
    BY <1>2, <2>1, Pieces
<1>4. t = p <=> \A i \in 1..L : t[i] = p[i]
  <2>1. t = [i \in 1..L |-> t[i]] /\ p = [i \in 1..L |-> p[i]]
    BY <1>1, <1>3
  <2> QED
    BY <2>1
<1>5. (\A i \in 1..L : t[i] = p[i]) <=> Piece(p, s, a)
  BY <1>1, <1>3 DEF Piece
<1> QED
  BY <1>1, <1>2, <1>3, <1>4, <1>5

\* Two pieces of one text of which the second begins inside the first and ends beyond it.
LEMMA Crossing ==
    ASSUME NEW s, NEW p \in Seq(Cell), NEW q \in Seq(Cell), NEW a \in Nat, NEW b \in Nat,
           Piece(p, s, a), Piece(q, s, b),
           a < b, b < a + Len(p), a + Len(p) < b + Len(q)
    PROVE  MayCross(p, q)
<1>1. PICK k \in Nat, l \in Nat : k = Len(p) /\ l = Len(q)
  OBVIOUS
<1>2. PICK n \in Nat : n = a + k - b
  <2>1. a + k - b \in Nat
    BY <1>1
  <2> QED
    BY <2>1
<1>3. n \in 1..(k - 1) /\ n < l /\ n <= l
  BY <1>1, <1>2
<1>4. PICK u : u = SubSeq(p, k - n + 1, k)
  OBVIOUS
<1>5. PICK c \in Nat \ {0} : c = k - n + 1
  <2>1. k - n + 1 \in Nat \ {0}
    BY <1>3
  <2> QED
    BY <2>1
<1>6. u \in Seq(Cell) /\ Len(u) = n /\ Piece(u, p, k - n + 1)
  <2>1. c <= k /\ k - c + 1 = n /\ k <= Len(p)
    BY <1>1, <1>3, <1>5
  <2> QED
    BY <1>4, <1>5, <2>1, Pieces
<1>7. PICK v : v = SubSeq(q, 1, n)
  OBVIOUS
<1>8. v \in Seq(Cell) /\ Len(v) = n /\ Piece(v, q, 1)
  <2>1. 1 <= n /\ n - 1 + 1 = n /\ n <= Len(q)
    BY <1>1, <1>3
  <2> QED
    BY <1>7, <2>1, Pieces
<1>9. ASSUME NEW i \in 1..n PROVE u[i] = v[i]
  <2>1. PICK j \in 1..k : j = k - n + 1 + i - 1
    <3>1. k - n + 1 + i - 1 \in 1..k
      BY <1>3
    <3> QED
      BY <3>1
  <2>2. u[i] = p[j]
    BY <1>6, <2>1 DEF Piece
  <2>3. p[j] = s[a + j - 1]
    BY <1>1 DEF Piece
  <2>4. v[i] = q[i]
    <3>1. 1 + i - 1 = i
      OBVIOUS
    <3> QED
      BY <1>8, <3>1 DEF Piece
  <2>5. q[i] = s[b + i - 1]
    BY <1>1, <1>3 DEF Piece
  <2>6. a + j - 1 = b + i - 1
    BY <1>2, <2>1
  <2> QED
    BY <2>2, <2>3, <2>4, <2>5, <2>6
<1>10. u = v
  <2>1. u = [i \in 1..n |-> u[i]] /\ v = [i \in 1..n |-> v[i]]
    BY <1>6, <1>8
  <2> QED
    BY <1>9, <2>1
<1> QED
  BY <1>1, <1>3, <1>4, <1>7, <1>10 DEF MayCross

-----------------------------------------------------------------------------
(***************************************************************************)
(* PiiSanitizer: what result.replace does                                  *)
(***************************************************************************)
\* An occurrence begins at i that is replaced if just those of st before it are.
Begins(st, text, part, i) ==
    /\ Occurs(text, part, i)
    /\ \A j \in 1..(i - 1) : j + Len(part) > i => ~st[j]

IsStarts(st, text, part) ==
    st = [i \in 1..Len(text) |->
            /\ Occurs(text, part, i)
            /\ \A j \in 1..(i - 1) : j + Len(part) > i => ~st[j]]

Starts(st, text, part, m) == \A i \in 1..m : st[i] = Begins(st, text, part, i)

\* The recursion in Replaced has a solution.
LEMMA StartsExist ==
    ASSUME NEW text, NEW part, Len(text) \in Nat
    PROVE  \E st \in [1..Len(text) -> BOOLEAN] : Starts(st, text, part, Len(text))
<1> DEFINE Holds(m) == \E st \in [1..m -> BOOLEAN] : Starts(st, text, part, m)
           T == {m \in 0..Len(text) : Holds(m)}
<1>1. 0 \in T
  <2>1. /\ [i \in 1..0 |-> TRUE] \in [1..0 -> BOOLEAN]
        /\ Starts([i \in 1..0 |-> TRUE], text, part, 0)
    BY DEF Starts
  <2>2. Holds(0)
    BY <2>1
  <2>3. 0 \in 0..Len(text)
    OBVIOUS
  <2> HIDE DEF Holds
  <2> QED
    BY <2>2, <2>3
<1>2. ASSUME NEW m \in 0..(Len(text) - 1), m \in T PROVE m + 1 \in T
  <2>1. PICK st \in [1..m -> BOOLEAN] : Starts(st, text, part, m)
    BY <1>2
  <2>2. PICK new \in BOOLEAN : new = Begins(st, text, part, m + 1)
    BY DEF Begins
  <2>3. PICK next : next = [i \in 1..(m + 1) |-> IF i = m + 1 THEN new ELSE st[i]]
    OBVIOUS
  <2>4. m \in Nat /\ m + 1 \in 0..Len(text) /\ m + 1 \in 1..(m + 1)
    OBVIOUS
  <2>5. \A i \in 1..m : i \in 1..(m + 1) /\ i # m + 1 /\ next[i] = st[i]
    BY <2>3, <2>4
  <2>6. next[m + 1] = new
    BY <2>3, <2>4
  <2>7. next \in [1..(m + 1) -> BOOLEAN]
    <3>1. \A i \in 1..(m + 1) : i = m + 1 \/ i \in 1..m
      BY <2>4
    <3>2. \A i \in 1..m : st[i] \in BOOLEAN
      OBVIOUS
    <3> QED
      BY <2>3, <3>1, <3>2
  <2>8. ASSUME NEW i \in 1..(m + 1)
        PROVE  Begins(next, text, part, i) = Begins(st, text, part, i)
    <3>1. \A j \in 1..(i - 1) : next[j] = st[j]
      <4>1. \A j \in 1..(i - 1) : j \in 1..m
        BY <2>4
      <4> QED
        BY <2>5, <4>1
    <3> QED
      BY <3>1 DEF Begins
  <2>9. ASSUME NEW i \in 1..(m + 1) PROVE next[i] = Begins(next, text, part, i)
    <3>1. CASE i = m + 1
      BY <2>2, <2>6, <2>8, <3>1
    <3>2. CASE i # m + 1
      <4>1. i \in 1..m
        BY <2>4, <3>2
      <4> QED
        BY <2>1, <2>5, <2>8, <4>1 DEF Starts
    <3> QED
      BY <3>1, <3>2
  <2>10. Starts(next, text, part, m + 1)
    BY <2>9 DEF Starts
  <2>11. Holds(m + 1)
    BY <2>7, <2>10
  <2> QED
    BY <2>4, <2>11
<1> HIDE DEF T
<1>3. \A m \in 0..Len(text) : m \in T
  BY <1>1, <1>2, UpTo
<1>4. Len(text) \in T
  BY <1>3
<1> QED
  BY <1>4 DEF T

\* What Replaced computes: the occurrences that no earlier replaced one runs into.
LEMMA ReplacedIs ==
    ASSUME NEW text, NEW part, Len(text) \in Nat
    PROVE  \A i \in 1..Len(text) :
              Replaced(text, part)[i] <=> Begins(Replaced(text, part), text, part, i)
<1>1. Replaced(text, part) = CHOOSE st : IsStarts(st, text, part)
  BY DEF Replaced, IsStarts
<1>2. PICK st \in [1..Len(text) -> BOOLEAN] : Starts(st, text, part, Len(text))
  BY StartsExist
<1>3. IsStarts(st, text, part)
  <2>1. \A i \in 1..Len(text) : st[i] = (/\ Occurs(text, part, i)
                                         /\ \A j \in 1..(i - 1) : j + Len(part) > i => ~st[j])
    BY <1>2 DEF Starts, Begins
  <2>2. st = [i \in 1..Len(text) |-> st[i]]
    OBVIOUS
  <2> QED
    BY <2>1, <2>2 DEF IsStarts
<1>4. PICK f : f = Replaced(text, part)
  OBVIOUS
<1>5. IsStarts(f, text, part)
  BY <1>1, <1>3, <1>4
<1>6. \A i \in 1..Len(text) : f[i] <=> Begins(f, text, part, i)
  <2>1. PICK g : g = [i \in 1..Len(text) |-> Begins(f, text, part, i)]
    OBVIOUS
  <2>2. f = g
    BY <1>5, <2>1 DEF IsStarts, Begins
  <2>3. \A i \in 1..Len(text) : g[i] = Begins(f, text, part, i)
    BY <2>1
  <2> QED
    BY <2>2, <2>3
<1> QED
  BY <1>4, <1>6

-----------------------------------------------------------------------------
(***************************************************************************)
(* PiiSanitizer: the passes over the entities                              *)
(***************************************************************************)

\* The results of the first m replacements.
Passed(f, text, order, m) ==
    f[0] = text /\ \A n \in 1..m : f[n] = Redacted(f[n - 1], TextOf(text, order[n]))

IsPassed(f, text, order) ==
    f = [n \in 0..Len(order) |->
            IF n = 0 THEN text ELSE Redacted(f[n - 1], TextOf(text, order[n]))]

\* The recursion in NerPass has a solution.
LEMMA PassesExist ==
    ASSUME NEW text, NEW order, Len(order) \in Nat
    PROVE  \E f : IsPassed(f, text, order)
<1> DEFINE Holds(m) == \E f : Passed(f, text, order, m)
           T == {m \in 0..Len(order) : Holds(m)}
<1>1. 0 \in T
  <2>1. Passed([n \in 0..0 |-> text], text, order, 0)
    BY DEF Passed
  <2>2. Holds(0)
    BY <2>1
  <2>3. 0 \in 0..Len(order)
    OBVIOUS
  <2> HIDE DEF Holds
  <2> QED
    BY <2>2, <2>3
<1>2. ASSUME NEW m \in 0..(Len(order) - 1), m \in T PROVE m + 1 \in T
  <2>1. PICK f : Passed(f, text, order, m)
    BY <1>2
  <2>2. PICK g : g = [n \in 0..(m + 1) |->
                        IF n = m + 1 THEN Redacted(f[m], TextOf(text, order[m + 1]))
                        ELSE f[n]]
    OBVIOUS
  <2>3. \A n \in 0..m : g[n] = f[n]
    BY <2>2
  <2>4. g[m + 1] = Redacted(f[m], TextOf(text, order[m + 1]))
    BY <2>2
  <2>5. g[0] = text
    BY <2>1, <2>3 DEF Passed
  <2>6. ASSUME NEW n \in 1..(m + 1)
        PROVE  g[n] = Redacted(g[n - 1], TextOf(text, order[n]))
    <3>1. n - 1 \in 0..m
      OBVIOUS
    <3>2. CASE n = m + 1
      <4>1. n - 1 = m
        BY <3>2
      <4> QED
        BY <2>3, <2>4, <3>1, <3>2, <4>1
    <3>3. CASE n # m + 1
      <4>1. n \in 1..m /\ n \in 0..m
        BY <3>3
      <4> QED
        BY <2>1, <2>3, <3>1, <4>1 DEF Passed
    <3> QED
      BY <3>2, <3>3
  <2>7. Passed(g, text, order, m + 1)
    BY <2>5, <2>6 DEF Passed
  <2>8. Holds(m + 1) /\ m + 1 \in 0..Len(order)
    BY <2>7
  <2> HIDE DEF Holds
  <2> QED
    BY <2>8
<1> HIDE DEF T
<1>3. \A m \in 0..Len(order) : m \in T
  BY <1>1, <1>2, UpTo
<1>4. Len(order) \in T
  BY <1>3
<1>5. PICK f : Passed(f, text, order, Len(order))
  BY <1>4 DEF T
<1>6. PICK g : g = [n \in 0..Len(order) |-> f[n]]
  OBVIOUS
<1>7. \A n \in 0..Len(order) : g[n] = f[n]
  BY <1>6
<1>8. \A n \in 0..Len(order) :
         g[n] = IF n = 0 THEN text ELSE Redacted(g[n - 1], TextOf(text, order[n]))
  <2>1. \A n \in 1..Len(order) : n \in 0..Len(order) /\ n - 1 \in 0..Len(order)
    OBVIOUS
  <2>2. \A n \in 1..Len(order) : g[n] = Redacted(g[n - 1], TextOf(text, order[n]))
    BY <1>5, <1>7, <2>1 DEF Passed
  <2>3. g[0] = text
    BY <1>5, <1>7 DEF Passed
  <2> QED
    BY <2>2, <2>3
<1>9. IsPassed(g, text, order)
  BY <1>6, <1>8 DEF IsPassed
<1> QED
  BY <1>9

\* What NerPass computes: one Redacted for each entity, in order.
LEMMA NerPassIs ==
    ASSUME NEW text, NEW order, Len(order) \in Nat
    PROVE  \E f : Passed(f, text, order, Len(order)) /\ NerPass(text, order) = f[Len(order)]
<1>1. PICK f : f = CHOOSE h : IsPassed(h, text, order)
  OBVIOUS
<1>2. IsPassed(f, text, order)
  BY <1>1, PassesExist
<1>3. Passed(f, text, order, Len(order))
  <2>1. PICK g : g = [n \in 0..Len(order) |->
                        IF n = 0 THEN text ELSE Redacted(f[n - 1], TextOf(text, order[n]))]
    OBVIOUS
  <2>2. f = g
    BY <1>2, <2>1 DEF IsPassed
  <2>3. g[0] = text
    BY <2>1
  <2>4. \A n \in 1..Len(order) : g[n] = Redacted(f[n - 1], TextOf(text, order[n]))
    BY <2>1
  <2> QED
    BY <2>2, <2>3, <2>4 DEF Passed
<1>4. NerPass(text, order) = (CHOOSE h : IsPassed(h, text, order))[Len(order)]
  BY DEF NerPass, IsPassed
<1> QED
  BY <1>1, <1>3, <1>4

AllNer(r, x) == \A i \in x[1]..x[2] : r[i] = "ner"
Untouched(r, text, x) == \A i \in x[1]..x[2] : r[i] = text[i]

\* After the turns of the first k entities these are replaced, and each of the others is
\* replaced or untouched: what an earlier, longer text takes from it, it takes as a whole.
Cells(r, text, order, k) ==
    /\ r \in Seq(Cell) /\ Len(r) = Len(text)
    /\ \A m \in 1..Len(order) :
          /\ m <= k => AllNer(r, order[m])
          /\ m > k => AllNer(r, order[m]) \/ Untouched(r, text, order[m])

\* What a sequence of entities in the order of _ner_pass satisfies.
Ordered(text, order) ==
    /\ Len(order) \in Nat
    /\ \A m \in 1..Len(order) : order[m] \in Spans(Len(text))
    /\ \A m, n \in 1..Len(order) : m < n => Size(order[m]) >= Size(order[n])

NoneCross(text, order) ==
    \A m, n \in 1..Len(order) : ~MayCross(TextOf(text, order[m]), TextOf(text, order[n]))

LEMMA RedactedIs ==
    ASSUME NEW r \in Seq(Cell), NEW part
    PROVE  /\ Redacted(r, part) \in Seq(Cell)
           /\ Len(Redacted(r, part)) = Len(r)
           /\ \A i \in 1..Len(r) :
                 Redacted(r, part)[i] =
                    IF \E j \in 1..i : j + Len(part) > i /\ Replaced(r, part)[j] THEN "ner"
                    ELSE r[i]
<1>1. PICK L \in Nat : L = Len(r) /\ DOMAIN r = 1..L /\ \A i \in 1..L : r[i] \in Cell
  OBVIOUS
<1>2. Redacted(r, part) = [i \in 1..L |->
         IF \E j \in 1..i : j + Len(part) > i /\ Replaced(r, part)[j] THEN "ner" ELSE r[i]]
  BY <1>1 DEF Redacted
<1>3. \A i \in 1..L :
         Redacted(r, part)[i] =
            IF \E j \in 1..i : j + Len(part) > i /\ Replaced(r, part)[j] THEN "ner"
            ELSE r[i]
  BY <1>2
<1>4. \A i \in 1..L : Redacted(r, part)[i] \in Cell
  BY <1>1, <1>3 DEF Cell
<1>5. Redacted(r, part) = [i \in 1..L |-> Redacted(r, part)[i]]
  BY <1>2
<1>6. Redacted(r, part) \in [1..L -> Cell]
  BY <1>4, <1>5
<1>7. Redacted(r, part) \in Seq(Cell) /\ Len(Redacted(r, part)) = L
  BY <1>6
<1> QED
  BY <1>1, <1>3, <1>7

\* An entity's text, as a piece of a text that was not touched there.
LEMMA TextIs ==
    ASSUME NEW text \in Seq(Cell), NEW x \in Spans(Len(text))
    PROVE  /\ x[1] \in 1..Len(text) /\ x[2] \in 1..Len(text) /\ x[1] <= x[2]
           /\ TextOf(text, x) \in Seq(Cell)
           /\ Len(TextOf(text, x)) = Size(x) /\ Size(x) \in Nat \ {0}
           /\ x[1] + Size(x) - 1 = x[2]
           /\ \A r : Untouched(r, text, x) => Piece(TextOf(text, x), r, x[1])
<1>1. PICK a, b \in 1..Len(text) : a = x[1] /\ b = x[2] /\ a <= b
  BY DEF Spans
<1>2. /\ TextOf(text, x) \in Seq(Cell)
      /\ Len(TextOf(text, x)) = b - a + 1
      /\ Piece(TextOf(text, x), text, a)
  BY <1>1, Pieces DEF TextOf
<1>3. Size(x) = b - a + 1 /\ Size(x) \in Nat \ {0}
  BY <1>1 DEF Size
<1>4. ASSUME NEW r, Untouched(r, text, x) PROVE Piece(TextOf(text, x), r, a)
  <2>1. ASSUME NEW i \in 1..(b - a + 1) PROVE r[a + i - 1] = text[a + i - 1]
    <3>1. a + i - 1 \in a..b
      BY <1>1
    <3> QED
      BY <1>1, <1>4, <3>1 DEF Untouched
  <2> QED
    BY <1>2, <2>1 DEF Piece
<1>5. a + Size(x) - 1 = b
  BY <1>1, <1>3
<1> QED
  BY <1>1, <1>2, <1>3, <1>4, <1>5

\* An occurrence that was found is a piece of the text.
LEMMA FoundPiece ==
    ASSUME NEW r \in Seq(Cell), NEW part \in Seq(Cell), Len(part) >= 1,
           NEW j \in 1..Len(r), Replaced(r, part)[j]
    PROVE  Piece(part, r, j) /\ j + Len(part) - 1 <= Len(r)
<1>1. Len(r) \in Nat /\ j \in Nat \ {0}
  OBVIOUS
<1>2. Begins(Replaced(r, part), r, part, j)
  BY <1>1, ReplacedIs
<1>3. j + Len(part) - 1 <= Len(r) /\ SubSeq(r, j, j + Len(part) - 1) = part
  BY <1>2 DEF Begins, Occurs
<1> QED
  BY <1>1, <1>3, SamePiece

\* An entity whose turn it is, and of which nothing was replaced, is replaced.
LEMMA OwnTurn ==
    ASSUME NEW text \in Seq(Cell), NEW r \in Seq(Cell), Len(r) = Len(text),
           NEW x \in Spans(Len(text)), Untouched(r, text, x),
           ~MayCross(TextOf(text, x), TextOf(text, x))
    PROVE  AllNer(Redacted(r, TextOf(text, x)), x)
<1>1. PICK part : part = TextOf(text, x)
  OBVIOUS
<1>2. PICK L \in Nat \ {0} : L = Len(part)
  BY <1>1, TextIs
<1>3. PICK a, b \in 1..Len(r) : a = x[1] /\ b = x[2] /\ a + L - 1 = b
  BY <1>1, <1>2, TextIs
<1>4. part \in Seq(Cell) /\ Piece(part, r, a)
  BY <1>1, <1>3, TextIs
<1>5. Occurs(r, part, a)
  <2>1. a + Len(part) - 1 <= Len(r) /\ a \in Nat \ {0} /\ Len(part) >= 1
    BY <1>2, <1>3
  <2>2. SubSeq(r, a, a + Len(part) - 1) = part
    BY <1>4, <2>1, SamePiece
  <2> QED
    BY <2>1, <2>2 DEF Occurs
<1>6. ASSUME NEW j \in 1..(a - 1), j + Len(part) > a, Replaced(r, part)[j]
      PROVE  FALSE
  <2>1. j \in 1..Len(r) /\ j \in Nat /\ a \in Nat /\ j < a
    BY <1>3
  <2>2. Piece(part, r, j)
    BY <1>2, <1>4, <1>6, <2>1, FoundPiece
  <2>3. j + Len(part) < a + Len(part)
    BY <1>2, <2>1
  <2>4. MayCross(part, part)
    BY <1>4, <1>6, <2>1, <2>2, <2>3, Crossing
  <2> QED
    BY <1>1, <2>4
<1>7. Replaced(r, part)[a]
  <2>1. Len(r) \in Nat
    OBVIOUS
  <2>2. Begins(Replaced(r, part), r, part, a)
    BY <1>5, <1>6 DEF Begins
  <2> QED
    BY <1>3, <2>1, <2>2, ReplacedIs
<1>8. ASSUME NEW i \in a..b PROVE Redacted(r, part)[i] = "ner"
  <2>1. i \in 1..Len(r) /\ a \in 1..i /\ a + Len(part) > i
    BY <1>2, <1>3
  <2> QED
    BY <1>7, <2>1, RedactedIs
<1> QED
  BY <1>1, <1>3, <1>8 DEF AllNer

\* Another one, that is no longer, is replaced within an occurrence or not at all.
LEMMA OtherTurn ==
    ASSUME NEW text \in Seq(Cell), NEW r \in Seq(Cell), Len(r) = Len(text),
           NEW x \in Spans(Len(text)), NEW y \in Spans(Len(text)), Size(y) >= Size(x),
           Untouched(r, text, x),
           ~MayCross(TextOf(text, x), TextOf(text, y)),
           ~MayCross(TextOf(text, y), TextOf(text, x))
    PROVE  \/ AllNer(Redacted(r, TextOf(text, y)), x)
           \/ Untouched(Redacted(r, TextOf(text, y)), text, x)
<1>1. PICK part : part = TextOf(text, y)
  OBVIOUS
<1>2. PICK own : own = TextOf(text, x)
  OBVIOUS
<1>3. PICK L, M \in Nat \ {0} : L = Len(part) /\ M = Len(own) /\ L >= M
  BY <1>1, <1>2, TextIs
<1>4. PICK a, b \in 1..Len(r) : a = x[1] /\ b = x[2] /\ a + M - 1 = b
  BY <1>2, <1>3, TextIs
<1>5. part \in Seq(Cell) /\ own \in Seq(Cell) /\ Piece(own, r, a)
  BY <1>1, <1>2, <1>4, TextIs
<1>6. CASE \E i \in a..b : \E j \in 1..i : j + Len(part) > i /\ Replaced(r, part)[j]
  <2>1. PICK i \in a..b : \E j \in 1..i : j + L > i /\ Replaced(r, part)[j]
    BY <1>3, <1>6
  <2>2. PICK j \in 1..i : j + L > i /\ Replaced(r, part)[j]
    BY <2>1
  <2>3. j \in 1..Len(r) /\ j \in Nat /\ a \in Nat
    BY <1>4
  <2>4. Piece(part, r, j)
    BY <1>3, <1>5, <2>2, <2>3, FoundPiece
  <2>5. L \in Nat /\ M \in Nat /\ L >= M
    BY <1>3
  <2>6. j <= a + M - 1
    BY <1>4, <2>3
  <2>7. a < j + L
    BY <2>2, <2>3, <2>5
  <2>8. ~(a < j)
    <3> SUFFICES ASSUME a < j PROVE FALSE
      OBVIOUS
    <3>1. j < a + M /\ a + M < j + L
      BY <2>3, <2>5, <2>6
    <3>2. MayCross(own, part)
      BY <1>3, <1>5, <2>3, <2>4, <3>1, Crossing
    <3> QED
      BY <1>1, <1>2, <3>2
  <2>9. ~(j + L < a + M)
    <3> SUFFICES ASSUME j + L < a + M PROVE FALSE
      OBVIOUS
    <3>1. j < a /\ a < j + L
      BY <2>3, <2>5, <2>7
    <3>2. MayCross(part, own)
      BY <1>3, <1>5, <2>3, <2>4, <3>1, Crossing
    <3> QED
      BY <1>1, <1>2, <3>2
  <2>10. ASSUME NEW n \in a..b PROVE Redacted(r, part)[n] = "ner"
    <3>1. n \in 1..Len(r) /\ n \in Nat /\ a <= n /\ n <= a + M - 1
      BY <1>4
    <3>2. j <= a /\ a + M <= j + L
      BY <2>3, <2>8, <2>9, <1>3
    <3>3. j \in 1..n
      BY <2>3, <3>1, <3>2
    <3>4. j + Len(part) > n
      BY <1>3, <2>3, <3>1, <3>2
    <3> QED
      BY <1>5, <2>2, <3>1, <3>3, <3>4, RedactedIs
  <2> QED
    BY <1>1, <1>4, <2>10 DEF AllNer
<1>7. CASE ~\E i \in a..b : \E j \in 1..i : j + Len(part) > i /\ Replaced(r, part)[j]
  <2>1. ASSUME NEW i \in a..b PROVE Redacted(r, part)[i] = text[i]
    <3>1. i \in 1..Len(r) /\ i \in x[1]..x[2]
      BY <1>4
    <3>2. Redacted(r, part)[i] = r[i]
      BY <1>7, <3>1, RedactedIs
    <3> QED
      BY <3>1, <3>2 DEF Untouched
  <2> QED
    BY <1>1, <1>4, <2>1 DEF Untouched
<1> QED
  BY <1>6, <1>7

\* What was replaced stays replaced.
LEMMA NerStays ==
    ASSUME NEW text \in Seq(Cell), NEW r \in Seq(Cell), Len(r) = Len(text),
           NEW x \in Spans(Len(text)), AllNer(r, x), NEW part
    PROVE  AllNer(Redacted(r, part), x)
<1>1. ASSUME NEW i \in x[1]..x[2] PROVE Redacted(r, part)[i] = "ner"
  <2>1. i \in 1..Len(r)
    BY TextIs
  <2>2. r[i] = "ner"
    BY DEF AllNer
  <2> QED
    BY <2>1, <2>2, RedactedIs
<1> QED
  BY <1>1 DEF AllNer

\* Cells is kept by the turn of one more entity.
LEMMA OnePass ==
    ASSUME NEW text \in Seq(Cell), NEW order, Ordered(text, order), NoneCross(text, order),
           NEW k \in 0..(Len(order) - 1), NEW r, Cells(r, text, order, k)
    PROVE  Cells(Redacted(r, TextOf(text, order[k + 1])), text, order, k + 1)
<1>1. PICK N \in Nat : N = Len(order)
  BY DEF Ordered
<1>2. k + 1 \in 1..N /\ k \in Nat
  BY <1>1
<1>3. PICK y \in Spans(Len(text)) : y = order[k + 1]
  BY <1>1, <1>2 DEF Ordered
<1>4. PICK s : s = Redacted(r, TextOf(text, y))
  OBVIOUS
<1>5. r \in Seq(Cell) /\ Len(r) = Len(text)
  BY DEF Cells
<1>6. s \in Seq(Cell) /\ Len(s) = Len(text)
  BY <1>4, <1>5, RedactedIs
<1>7. ASSUME NEW m \in 1..N
      PROVE  /\ m <= k + 1 => AllNer(s, order[m])
             /\ m > k + 1 => AllNer(s, order[m]) \/ Untouched(s, text, order[m])
  <2>1. PICK x \in Spans(Len(text)) : x = order[m]
    BY <1>1 DEF Ordered
  <2>2. /\ ~MayCross(TextOf(text, x), TextOf(text, y))
        /\ ~MayCross(TextOf(text, y), TextOf(text, x))
        /\ ~MayCross(TextOf(text, y), TextOf(text, y))
    BY <1>1, <1>2, <1>3, <2>1 DEF NoneCross
  <2>3. CASE AllNer(r, x)
    BY <1>4, <1>5, <2>1, <2>3, NerStays
  <2>4. CASE ~AllNer(r, x)
    <3>1. m > k /\ Untouched(r, text, x)
      BY <1>1, <1>2, <2>1, <2>4 DEF Cells
    <3>2. CASE m = k + 1
      <4>1. x = y
        BY <1>3, <2>1, <3>2
      <4>2. AllNer(s, x)
        BY <1>4, <1>5, <2>2, <3>1, <4>1, OwnTurn
      <4> QED
        BY <2>1, <4>2
    <3>3. CASE m # k + 1
      <4>1. m > k + 1
        BY <1>2, <3>1, <3>3
      <4>2. Size(y) >= Size(x)
        BY <1>1, <1>2, <1>3, <2>1, <4>1 DEF Ordered
      <4>3. AllNer(s, x) \/ Untouched(s, text, x)
        BY <1>4, <1>5, <2>2, <3>1, <4>2, OtherTurn
      <4> QED
        BY <1>2, <2>1, <4>1, <4>3
    <3> QED
      BY <3>2, <3>3
  <2> QED
    BY <2>3, <2>4
<1> QED
  BY <1>1, <1>3, <1>4, <1>6, <1>7 DEF Cells

\* After the turns of all of them every entity has been replaced.
LEMMA AllPasses ==
    ASSUME NEW text \in Seq(Cell), NEW order, Ordered(text, order), NoneCross(text, order)
    PROVE  \A m \in 1..Len(order) : AllNer(NerPass(text, order), order[m])
<1>1. PICK N \in Nat : N = Len(order)
  BY DEF Ordered
<1>2. PICK f : Passed(f, text, order, N) /\ NerPass(text, order) = f[N]
  BY <1>1, NerPassIs
<1>3. PICK T : T = {k \in 0..N : Cells(f[k], text, order, k)}
  OBVIOUS
<1>4. 0 \in T
  <2>1. f[0] = text
    BY <1>2 DEF Passed
  <2>2. Cells(text, text, order, 0)
    BY DEF Cells, Untouched
  <2> QED
    BY <1>3, <2>1, <2>2
<1>5. ASSUME NEW k \in 0..(N - 1), k \in T PROVE k + 1 \in T
  <2>1. Cells(f[k], text, order, k)
    BY <1>3, <1>5
  <2>2. f[k + 1] = Redacted(f[k], TextOf(text, order[k + 1]))
    <3>1. k + 1 \in 1..N /\ k + 1 - 1 = k
      OBVIOUS
    <3> QED
      BY <1>2, <3>1 DEF Passed
  <2>3. Cells(f[k + 1], text, order, k + 1)
    BY <1>1, <2>1, <2>2, OnePass
  <2> QED
    BY <1>3, <2>3
<1>6. \A k \in 0..N : k \in T
  BY <1>4, <1>5, UpTo
<1>7. Cells(f[N], text, order, N)
  BY <1>3, <1>6
<1> QED
  BY <1>1, <1>2, <1>7 DEF Cells

LEMMA EntitiesAre ==
    ASSUME NEW N \in Nat, NEW ents \in Entities(N)
    PROVE  ents \subseteq Spans(N) /\ Cardinality(ents) \in Nat
<1>1. ents \subseteq Spans(N) /\ Spans(N) \subseteq (1..N) \X (1..N)
  BY DEF Entities, Spans
<1>2. IsFiniteSet(1..N)
  BY FS_Interval
<1>3. IsFiniteSet((1..N) \X (1..N))
  BY <1>2, FS_Product
<1>4. IsFiniteSet(ents)
  BY <1>1, <1>3, FS_Subset
<1> QED
  BY <1>1, <1>4, FS_CardinalityType

\* LongestFirst orders all the entities, none after a shorter one.
LEMMA OrderIs ==
    ASSUME NEW text, Len(text) \in Nat, NEW ents \in Entities(Len(text)),
           NEW order \in LongestFirst(ents)
    PROVE  Ordered(text, order) /\ \A x \in ents : \E m \in 1..Len(order) : order[m] = x
<1>1. PICK K \in Nat : K = Cardinality(ents)
  BY EntitiesAre
<1>2. order \in Bijection(1..K, ents)
      /\ \A m, n \in DOMAIN order : m < n =>
            \/ Size(order[m]) > Size(order[n])
            \/ Size(order[m]) = Size(order[n]) /\ order[m][1] < order[n][1]
  BY <1>1 DEF LongestFirst, Orders
<1>3. order \in [1..K -> ents] /\ \A x \in ents : \E m \in 1..K : order[m] = x
  BY <1>2 DEF Bijection, Injection, Surjection
<1>4. Len(order) = K /\ DOMAIN order = 1..K
  BY <1>3
<1>5. \A m \in 1..K : order[m] \in Spans(Len(text))
  BY <1>3, EntitiesAre
<1>6. \A m \in 1..K : Size(order[m]) \in Int
  BY <1>5 DEF Size, Spans
<1>7. \A m, n \in 1..K : m < n => Size(order[m]) >= Size(order[n])
  BY <1>2, <1>4, <1>6
<1> QED
  BY <1>3, <1>4, <1>5, <1>7 DEF Ordered

LEMMA CleanedIs ==
    ASSUME NEW text \in BoundedSeq(Letters \cup {"secret"}, MaxLength)
    PROVE  /\ RegexPass(text) \in Seq(Cell)
           /\ Len(RegexPass(text)) = Len(text) /\ Len(text) \in Nat
<1>1. PICK m \in Nat : text \in [1..m -> Letters \cup {"secret"}]
  BY SanitizerAssumption DEF SanitizerAssumption, BoundedSeq, SeqOf
<1>2. Len(text) = m /\ DOMAIN text = 1..m
  BY <1>1
<1>3. RegexPass(text) \in [1..m -> Cell]
  BY <1>1, <1>2 DEF RegexPass, Cell
<1> QED
  BY <1>2, <1>3

LEMMA SanitizeOf ==
    ASSUME Sanitizes
    PROVE  EntitiesRedacted'
<1>1. PICK text \in BoundedSeq(Letters \cup {"secret"}, MaxLength) :
         \E ents \in Entities(Len(text)) : \E order \in LongestFirst(ents) :
             sanitizer' = [fn |-> "sanitize", cleaned |-> RegexPass(text), ents |-> ents,
                           result |-> NerPass(RegexPass(text), order)]
  BY DEF Sanitizes
<1>2. PICK clean : clean = RegexPass(text)
  OBVIOUS
<1>3. clean \in Seq(Cell) /\ Len(clean) \in Nat /\ Len(clean) = Len(text)
  BY <1>2, CleanedIs
<1>4. PICK ents \in Entities(Len(clean)) : \E order \in LongestFirst(ents) :
         sanitizer' = [fn |-> "sanitize", cleaned |-> clean, ents |-> ents,
                       result |-> NerPass(clean, order)]
  BY <1>1, <1>2, <1>3
<1>5. PICK order \in LongestFirst(ents) :
         sanitizer' = [fn |-> "sanitize", cleaned |-> clean, ents |-> ents,
                       result |-> NerPass(clean, order)]
  BY <1>4
<1>6. Ordered(clean, order) /\ \A x \in ents : \E m \in 1..Len(order) : order[m] = x
  BY <1>3, <1>5, OrderIs
<1>7. /\ sanitizer'.cleaned = clean /\ sanitizer'.ents = ents
      /\ sanitizer'.result = NerPass(clean, order)
  BY <1>5
<1>8. ASSUME \A x, y \in {TextOf(clean, x) : x \in ents} : ~MayCross(x, y)
      PROVE  \A span \in ents : \A i \in span[1]..span[2] :
                NerPass(clean, order)[i] \notin Letters
  <2>1. \A m \in 1..Len(order) : order[m] \in ents
    BY <1>3, <1>5, EntitiesAre DEF LongestFirst, Orders, Bijection, Injection
  <2>2. NoneCross(clean, order)
    BY <1>8, <2>1 DEF NoneCross
  <2>3. \A m \in 1..Len(order) : AllNer(NerPass(clean, order), order[m])
    BY <1>3, <1>6, <2>2, AllPasses
  <2>4. "ner" \notin Letters
    BY SanitizerAssumption DEF SanitizerAssumption
  <2> QED
    BY <1>6, <2>3, <2>4 DEF AllNer
<1> QED
  BY <1>7, <1>8 DEF EntitiesRedacted

\* No letter of an entity that the model recognised is left in what sanitize returns,
\* whatever the length of the text, unless two of the entities' texts can cross (_ner_pass).
THEOREM EntitiesTheorem == SanitizerSpec => []EntitiesRedacted
<1>1. SanitizerInit => EntitiesRedacted
  BY DEF SanitizerInit, Idle, EntitiesRedacted
<1>2. EntitiesRedacted /\ [SanitizerNext]_sanitizer => EntitiesRedacted'
  <2>1. ChecksCard => EntitiesRedacted'
    BY DEF ChecksCard, EntitiesRedacted
  <2>2. Sanitizes => EntitiesRedacted'
    BY SanitizeOf
  <2>3. SanitizesPayload => EntitiesRedacted'
    BY DEF SanitizesPayload, EntitiesRedacted
  <2>4. EntitiesRedacted /\ UNCHANGED sanitizer => EntitiesRedacted'
    BY DEF EntitiesRedacted
  <2> QED
    BY <2>1, <2>2, <2>3, <2>4 DEF SanitizerNext
<1> QED
  BY <1>1, <1>2, PTL DEF SanitizerSpec

-----------------------------------------------------------------------------
(***************************************************************************)
(* PiiSanitizer: paths into a value                                        *)
(***************************************************************************)

\* What the first m indexes of a path lead to.
Leads(f, v, path, m) == f[0] = v /\ \A n \in 1..m : f[n] = f[n - 1].items[path[n]]

IsBelow(f, v, path) ==
    f = [n \in 0..Len(path) |-> IF n = 0 THEN v ELSE f[n - 1].items[path[n]]]

\* The recursion in Below has a solution.
LEMMA BelowExists ==
    ASSUME NEW v, NEW path, Len(path) \in Nat
    PROVE  \E f : IsBelow(f, v, path)
<1> DEFINE Holds(m) == \E f : Leads(f, v, path, m)
           T == {m \in 0..Len(path) : Holds(m)}
<1>1. 0 \in T
  <2>1. Leads([n \in 0..0 |-> v], v, path, 0)
    BY DEF Leads
  <2>2. Holds(0)
    BY <2>1
  <2>3. 0 \in 0..Len(path)
    OBVIOUS
  <2> HIDE DEF Holds
  <2> QED
    BY <2>2, <2>3
<1>2. ASSUME NEW m \in 0..(Len(path) - 1), m \in T PROVE m + 1 \in T
  <2>1. PICK f : Leads(f, v, path, m)
    BY <1>2
  <2>2. PICK g : g = [n \in 0..(m + 1) |->
                        IF n = m + 1 THEN f[m].items[path[m + 1]] ELSE f[n]]
    OBVIOUS
  <2>3. \A n \in 0..m : g[n] = f[n]
    BY <2>2
  <2>4. g[m + 1] = f[m].items[path[m + 1]]
    BY <2>2
  <2>5. g[0] = v
    BY <2>1, <2>3 DEF Leads
  <2>6. ASSUME NEW n \in 1..(m + 1) PROVE g[n] = g[n - 1].items[path[n]]
    <3>1. n - 1 \in 0..m
      OBVIOUS
    <3>2. CASE n = m + 1
      <4>1. n - 1 = m
        BY <3>2
      <4> QED
        BY <2>3, <2>4, <3>1, <3>2, <4>1
    <3>3. CASE n # m + 1
      <4>1. n \in 1..m /\ n \in 0..m
        BY <3>3
      <4> QED
        BY <2>1, <2>3, <3>1, <4>1 DEF Leads
    <3> QED
      BY <3>2, <3>3
  <2>7. Leads(g, v, path, m + 1)
    BY <2>5, <2>6 DEF Leads
  <2>8. Holds(m + 1) /\ m + 1 \in 0..Len(path)
    BY <2>7
  <2> HIDE DEF Holds
  <2> QED
    BY <2>8
<1> HIDE DEF T
<1>3. \A m \in 0..Len(path) : m \in T
  BY <1>1, <1>2, UpTo
<1>4. Len(path) \in T
  BY <1>3
<1>5. PICK f : Leads(f, v, path, Len(path))
  BY <1>4 DEF T
<1>6. PICK g : g = [n \in 0..Len(path) |-> f[n]]
  OBVIOUS
<1>7. \A n \in 0..Len(path) : g[n] = f[n]
  BY <1>6
<1>8. \A n \in 0..Len(path) : g[n] = IF n = 0 THEN v ELSE g[n - 1].items[path[n]]
  <2>1. \A n \in 1..Len(path) : n \in 0..Len(path) /\ n - 1 \in 0..Len(path)
    OBVIOUS
  <2>2. \A n \in 1..Len(path) : g[n] = g[n - 1].items[path[n]]
    BY <1>5, <1>7, <2>1 DEF Leads
  <2>3. g[0] = v
    BY <1>5, <1>7 DEF Leads
  <2> QED
    BY <2>2, <2>3
<1>9. IsBelow(g, v, path)
  BY <1>6, <1>8 DEF IsBelow
<1> QED
  BY <1>9

\* What Below computes, step by step.
LEMMA BelowIs ==
    ASSUME NEW v, NEW path, Len(path) \in Nat
    PROVE  \E f : Leads(f, v, path, Len(path)) /\ Below(v, path) = f[Len(path)]
<1>1. PICK f : f = CHOOSE h : IsBelow(h, v, path)
  OBVIOUS
<1>2. IsBelow(f, v, path)
  BY <1>1, BelowExists
<1>3. Leads(f, v, path, Len(path))
  <2>1. PICK g : g = [n \in 0..Len(path) |-> IF n = 0 THEN v ELSE f[n - 1].items[path[n]]]
    OBVIOUS
  <2>2. f = g
    BY <1>2, <2>1 DEF IsBelow
  <2>3. g[0] = v
    <3>1. 0 \in 0..Len(path)
      OBVIOUS
    <3> QED
      BY <2>1, <3>1
  <2>4. ASSUME NEW n \in 1..Len(path) PROVE g[n] = f[n - 1].items[path[n]]
    <3>1. n \in 0..Len(path) /\ n # 0
      OBVIOUS
    <3> QED
      BY <2>1, <3>1
  <2> QED
    BY <2>2, <2>3, <2>4 DEF Leads
<1>4. Below(v, path) = (CHOOSE h : IsBelow(h, v, path))[Len(path)]
  BY DEF Below, IsBelow
<1> QED
  BY <1>1, <1>3, <1>4

\* What the prefixes of a path lead to.
LEMMA PrefixesLead ==
    ASSUME NEW v, NEW path \in Seq(Nat)
    PROVE  \E f : /\ Leads(f, v, path, Len(path))
                  /\ \A n \in 0..Len(path) : Below(v, SubSeq(path, 1, n)) = f[n]
                  /\ Below(v, path) = f[Len(path)]
<1>1. PICK L \in Nat : L = Len(path)
  OBVIOUS
<1>2. PICK f : Leads(f, v, path, L) /\ Below(v, path) = f[L]
  BY <1>1, BelowIs
<1>3. ASSUME NEW n \in 0..L PROVE Below(v, SubSeq(path, 1, n)) = f[n]
  <2>1. PICK q : q = SubSeq(path, 1, n)
    OBVIOUS
  <2>2. Len(q) = n /\ \A i \in 1..n : q[i] = path[i]
    <3>1. \A i \in 1..n : path[i] \in Nat
      BY <1>1
    <3>2. /\ Len(q) = IF 1 <= n THEN n - 1 + 1 ELSE 0
          /\ \A i \in 1..(n - 1 + 1) : q[i] = path[1 + i - 1]
      BY <2>1, <3>1, SubSeqProperties
    <3>3. n - 1 + 1 = n /\ \A i \in 1..n : 1 + i - 1 = i
      OBVIOUS
    <3>4. Len(q) = n
      BY <3>2
    <3> QED
      BY <3>2, <3>3, <3>4
  <2>3. PICK g : Leads(g, v, q, n) /\ Below(v, q) = g[n]
    BY <2>2, BelowIs
  <2>4. PICK T : T = {k \in 0..n : g[k] = f[k]}
    OBVIOUS
  <2>5. 0 \in T
    BY <1>2, <2>3, <2>4 DEF Leads
  <2>6. ASSUME NEW k \in 0..(n - 1), k \in T PROVE k + 1 \in T
    <3>1. k + 1 \in 1..n /\ k + 1 \in 1..L /\ k + 1 - 1 = k /\ k + 1 \in 0..n
      OBVIOUS
    <3>2. g[k + 1] = g[k].items[q[k + 1]]
      BY <2>3, <3>1 DEF Leads
    <3>3. f[k + 1] = f[k].items[path[k + 1]]
      BY <1>2, <3>1 DEF Leads
    <3> QED
      BY <2>2, <2>4, <2>6, <3>1, <3>2, <3>3
  <2>7. \A k \in 0..n : k \in T
    BY <2>5, <2>6, UpTo
  <2>8. g[n] = f[n]
    BY <2>4, <2>7
  <2> QED
    BY <2>1, <2>3, <2>8
<1> QED
  BY <1>1, <1>2, <1>3

-----------------------------------------------------------------------------
(***************************************************************************)
(* PiiSanitizer: the values of each depth                                  *)
(***************************************************************************)
Nested(values) == [kind : {"dict", "list"}, items : Items(values)]

IsValues(f) ==
    f = [depth \in 0..(MaxDepth + 1) |->
            {Str, Other} \cup IF depth = 0 THEN {} ELSE Nested(f[depth - 1])]

\* The values of the first m depths.
Leveled(f, m) ==
    \A d \in 0..m : f[d] = {Str, Other} \cup IF d = 0 THEN {} ELSE Nested(f[d - 1])

\* The recursion in Values has a solution.
LEMMA ValuesExist == \E f : IsValues(f)
<1>1. PICK D \in Nat : D = MaxDepth + 1
  <2>1. MaxDepth + 1 \in Nat
    BY SanitizerAssumption DEF SanitizerAssumption
  <2> QED
    BY <2>1
<1> DEFINE Holds(m) == \E f : Leveled(f, m)
           T == {m \in 0..D : Holds(m)}
<1>2. 0 \in T
  <2>1. Leveled([n \in 0..0 |-> {Str, Other}], 0)
    BY DEF Leveled
  <2>2. Holds(0)
    BY <2>1
  <2>3. 0 \in 0..D
    OBVIOUS
  <2> HIDE DEF Holds
  <2> QED
    BY <2>2, <2>3
<1>3. ASSUME NEW m \in 0..(D - 1), m \in T PROVE m + 1 \in T
  <2>1. PICK f : Leveled(f, m)
    BY <1>3
  <2>2. PICK g : g = [n \in 0..(m + 1) |->
                        IF n = m + 1 THEN {Str, Other} \cup Nested(f[m]) ELSE f[n]]
    OBVIOUS
  <2>3. \A n \in 0..m : g[n] = f[n]
    BY <2>2
  <2>4. g[m + 1] = {Str, Other} \cup Nested(f[m])
    BY <2>2
  <2>5. ASSUME NEW n \in 0..(m + 1)
        PROVE  g[n] = {Str, Other} \cup IF n = 0 THEN {} ELSE Nested(g[n - 1])
    <3>1. CASE n = m + 1
      <4>1. n - 1 = m /\ m \in 0..m /\ n # 0
        BY <3>1
      <4> QED
        BY <2>3, <2>4, <3>1, <4>1
    <3>2. CASE n # m + 1
      <4>1. n \in 0..m /\ (n # 0 => n - 1 \in 0..m)
        BY <3>2
      <4>2. f[n] = {Str, Other} \cup IF n = 0 THEN {} ELSE Nested(f[n - 1])
        BY <2>1, <4>1 DEF Leveled
      <4> QED
        BY <2>3, <4>1, <4>2
    <3> QED
      BY <3>1, <3>2
  <2>6. Leveled(g, m + 1)
    BY <2>5 DEF Leveled
  <2>7. Holds(m + 1) /\ m + 1 \in 0..D
    BY <2>6
  <2> HIDE DEF Holds
  <2> QED
    BY <2>7
<1> HIDE DEF T
<1>4. \A m \in 0..D : m \in T
  BY <1>2, <1>3, UpTo
<1>5. D \in T
  BY <1>4
<1>6. PICK f : Leveled(f, D)
  BY <1>5 DEF T
<1>7. PICK g : g = [n \in 0..D |-> f[n]]
  OBVIOUS
<1>8. \A n \in 0..D : g[n] = {Str, Other} \cup IF n = 0 THEN {} ELSE Nested(g[n - 1])
  <2>1. \A n \in 0..D : g[n] = f[n]
    BY <1>7
  <2>2. \A n \in 0..D : n # 0 => n - 1 \in 0..D
    OBVIOUS
  <2> QED
    BY <1>6, <2>1, <2>2 DEF Leveled
<1>9. IsValues(g)
  BY <1>1, <1>7, <1>8 DEF IsValues
<1> QED
  BY <1>9

\* What Values computes, depth by depth.
LEMMA ValuesAre ==
    /\ Values[0] = {Str, Other}
    /\ \A d \in 1..(MaxDepth + 1) : Values[d] = {Str, Other} \cup Nested(Values[d - 1])
<1>1. Values = CHOOSE f : IsValues(f)
  BY DEF Values, IsValues, Nested
<1>2. PICK f : f = Values
  OBVIOUS
<1>3. IsValues(f)
  BY <1>1, <1>2, ValuesExist
<1>4. PICK D \in Nat : D = MaxDepth + 1
  <2>1. MaxDepth + 1 \in Nat
    BY SanitizerAssumption DEF SanitizerAssumption
  <2> QED
    BY <2>1
<1>5. \A d \in 0..D : f[d] = {Str, Other} \cup IF d = 0 THEN {} ELSE Nested(f[d - 1])
  <2>1. PICK g : g = [d \in 0..D |->
                        {Str, Other} \cup IF d = 0 THEN {} ELSE Nested(f[d - 1])]
    OBVIOUS
  <2>2. f = g
    BY <1>3, <1>4, <2>1 DEF IsValues
  <2>3. \A d \in 0..D : g[d] = {Str, Other} \cup IF d = 0 THEN {} ELSE Nested(f[d - 1])
    BY <2>1
  <2> QED
    BY <2>2, <2>3
<1>6. f[0] = {Str, Other}
  BY <1>5
<1>7. \A d \in 1..D : f[d] = {Str, Other} \cup Nested(f[d - 1])
  BY <1>5
<1> QED
  BY <1>2, <1>4, <1>6, <1>7

\* A value whose items are members of a set.
Over(v, values) ==
    /\ v = [kind |-> v.kind, items |-> v.items]
    /\ v.kind \in {"str", "other", "dict", "list"}
    /\ v.kind \in {"str", "other"} => v.items = <<>>
    /\ \E n \in 0..MaxItems : v.items \in [1..n -> values]

LEMMA FlatAre ==
    ASSUME NEW s \in BoundedSeq({Str, Other}, MaxItems - 1)
    PROVE  \E n \in 0..(MaxItems - 1) : s \in [1..n -> {Str, Other}]
BY DEF BoundedSeq, SeqOf

Flat == BoundedSeq({Str, Other}, MaxItems - 1)

LEMMA ItemsAre ==
    ASSUME NEW values, NEW t
    PROVE  t \in Items(values)
           <=> t \in Flat \/ \E u \in values : \E s \in Flat : t = Append(s, u)
<1>1. \A u : t \in {Append(s, u) : s \in Flat} <=> \E s \in Flat : t = Append(s, u)
  OBVIOUS
<1>2. t \in UNION {{Append(s, u) : s \in Flat} : u \in values}
      <=> \E u \in values : t \in {Append(s, u) : s \in Flat}
  BY Zenon
<1>3. Items(values) = Flat \cup UNION {{Append(s, u) : s \in Flat} : u \in values}
  BY DEF Items, Flat
<1> QED
  BY <1>1, <1>2, <1>3

\* A dict or list has up to MaxItems of the given values.
LEMMA NestedOver ==
    ASSUME NEW values, {Str, Other} \subseteq values, NEW v \in Nested(values)
    PROVE  Over(v, values)
<1>1. MaxItems \in Nat
  BY SanitizerAssumption DEF SanitizerAssumption
<1>2. v = [kind |-> v.kind, items |-> v.items] /\ v.kind \in {"dict", "list"}
      /\ v.items \in Items(values)
  BY DEF Nested
<1>3. v.items \in Flat \/ \E u \in values : \E s \in Flat : v.items = Append(s, u)
  BY <1>2, ItemsAre
<1>4. CASE v.items \in Flat
  <2>1. PICK n \in 0..(MaxItems - 1) : v.items \in [1..n -> {Str, Other}]
    BY <1>4, FlatAre DEF Flat
  <2>2. v.items \in [1..n -> values] /\ n \in 0..MaxItems
    BY <1>1, <2>1
  <2> QED
    BY <1>2, <2>2 DEF Over
<1>5. CASE \E u \in values : \E s \in Flat : v.items = Append(s, u)
  <2>1. PICK u \in values : \E s \in Flat : v.items = Append(s, u)
    BY <1>5
  <2>2. PICK s \in Flat : v.items = Append(s, u)
    BY <2>1
  <2>3. PICK n \in 0..(MaxItems - 1) : s \in [1..n -> {Str, Other}]
    BY FlatAre DEF Flat
  <2>4. s \in [1..n -> values] /\ n \in Nat
    BY <1>1, <2>3
  <2>5. s \in Seq(values) /\ Len(s) = n
    BY <2>4
  <2>6. v.items \in Seq(values) /\ Len(v.items) = n + 1
    BY <2>2, <2>5
  <2>7. v.items \in [1..(n + 1) -> values] /\ n + 1 \in 0..MaxItems
    BY <1>1, <2>3, <2>6
  <2> QED
    BY <1>2, <2>7 DEF Over
<1> QED
  BY <1>3, <1>4, <1>5

LEMMA NestedGrows ==
    ASSUME NEW A, NEW B, A \subseteq B
    PROVE  Nested(A) \subseteq Nested(B)
<1>1. \A t \in Items(A) : t \in Items(B)
  BY ItemsAre
<1> QED
  BY <1>1 DEF Nested

LEMMA FlatOver ==
    ASSUME NEW values, NEW v \in {Str, Other}
    PROVE  Over(v, values)
<1>1. /\ v.items = <<>> /\ v.kind \in {"str", "other"}
      /\ v = [kind |-> v.kind, items |-> v.items]
  BY DEF Str, Other
<1>2. v.items \in [1..0 -> values] /\ 0 \in 0..MaxItems
  BY <1>1, SanitizerAssumption DEF SanitizerAssumption
<1> QED
  BY <1>1, <1>2 DEF Over

\* What is of one depth is of the next.
LEMMA ValuesGrow == \A d \in 0..MaxDepth : Values[d] \subseteq Values[d + 1]
<1>1. PICK M \in Nat : M = MaxDepth
  BY SanitizerAssumption DEF SanitizerAssumption
<1>2. PICK T : T = {d \in 0..M : Values[d] \subseteq Values[d + 1]}
  OBVIOUS
<1>3. \A d \in 1..(M + 1) : Values[d] = {Str, Other} \cup Nested(Values[d - 1])
  BY <1>1, ValuesAre
<1>4. 0 \in T
  <2>1. 0 + 1 \in 1..(M + 1)
    OBVIOUS
  <2>2. Values[0] = {Str, Other}
    BY ValuesAre
  <2>3. Values[0] \subseteq Values[0 + 1]
    BY <1>3, <2>1, <2>2
  <2> QED
    BY <1>2, <2>3
<1>5. ASSUME NEW d \in 0..(M - 1), d \in T PROVE d + 1 \in T
  <2>1. Values[d] \subseteq Values[d + 1]
    BY <1>2, <1>5
  <2>2. /\ d + 1 \in 1..(M + 1) /\ d + 1 - 1 = d
        /\ (d + 1) + 1 \in 1..(M + 1) /\ (d + 1) + 1 - 1 = d + 1
    OBVIOUS
  <2>3. /\ Values[d + 1] = {Str, Other} \cup Nested(Values[d])
        /\ Values[(d + 1) + 1] = {Str, Other} \cup Nested(Values[d + 1])
    BY <1>3, <2>2
  <2>4. Nested(Values[d]) \subseteq Nested(Values[d + 1])
    BY <2>1, NestedGrows
  <2>5. d + 1 \in 0..M
    OBVIOUS
  <2> QED
    BY <1>2, <2>3, <2>4, <2>5
<1>6. \A d \in 0..M : d \in T
  BY <1>4, <1>5, UpTo
<1> QED
  BY <1>1, <1>2, <1>6

\* The items of a value of one level are of the level below.
LEMMA LevelOver ==
    /\ \A v \in Values[0] : Over(v, {})
    /\ \A d \in 0..MaxDepth : \A v \in Values[d + 1] : Over(v, Values[d])
<1>1. PICK M \in Nat : M = MaxDepth
  BY SanitizerAssumption DEF SanitizerAssumption
<1>2. \A v \in Values[0] : Over(v, {})
  BY FlatOver, ValuesAre
<1>3. ASSUME NEW d \in 0..M, NEW v \in Values[d + 1] PROVE Over(v, Values[d])
  <2>1. d + 1 \in 1..(M + 1) /\ d + 1 - 1 = d
    OBVIOUS
  <2>2. Values[d + 1] = {Str, Other} \cup Nested(Values[d])
    BY <1>1, <2>1, ValuesAre
  <2>3. {Str, Other} \subseteq Values[d]
    <3>1. CASE d = 0
      BY <3>1, ValuesAre
    <3>2. CASE d # 0
      <4>1. d \in 1..(M + 1)
        BY <3>2
      <4> QED
        BY <1>1, <4>1, ValuesAre
    <3> QED
      BY <3>1, <3>2
  <2> QED
    BY <2>2, <2>3, FlatOver, NestedOver
<1> QED
  BY <1>1, <1>2, <1>3

Top == Values[MaxDepth + 1]

\* The items of a value of the greatest depth are again of that depth, at most.
LEMMA TopOver == \A v \in Top : Over(v, Top)
<1>1. PICK M \in Nat : M = MaxDepth /\ M \in 0..MaxDepth
  BY SanitizerAssumption DEF SanitizerAssumption
<1>2. Values[M] \subseteq Values[M + 1]
  BY <1>1, ValuesGrow
<1>3. ASSUME NEW v \in Top PROVE Over(v, Top)
  <2>1. Over(v, Values[M])
    BY <1>1, LevelOver DEF Top
  <2> QED
    BY <1>1, <1>2, <2>1 DEF Over, Top
<1> QED
  BY <1>3

-----------------------------------------------------------------------------
(***************************************************************************)
(* PiiSanitizer: sanitize_payload                                          *)
(***************************************************************************)

CleanDict(f, v) ==
    [v EXCEPT !.items = [i \in DOMAIN v.items |-> CleanItem(f, v.items[i])]]

IsClean(f) == f = [dict \in Top |-> CleanDict(f, dict)]

LEMMA OverPlaces ==
    ASSUME NEW values, NEW v, Over(v, values), NEW i \in DOMAIN v.items
    PROVE  v.items[i] \in values
BY DEF Over

\* The result for a dict depends on those for its items only.
LEMMA SameDict ==
    ASSUME NEW values, NEW v, Over(v, values), NEW f, NEW g, \A u \in values : f[u] = g[u]
    PROVE  CleanDict(f, v) = CleanDict(g, v)
<1>1. \A i \in DOMAIN v.items : CleanItem(f, v.items[i]) = CleanItem(g, v.items[i])
  BY OverPlaces DEF CleanItem
<1>2. [i \in DOMAIN v.items |-> CleanItem(f, v.items[i])]
      = [i \in DOMAIN v.items |-> CleanItem(g, v.items[i])]
  BY <1>1
<1> QED
  BY <1>2 DEF CleanDict

\* f is what sanitize_payload returns for the values of a depth.
CleanUpTo(f, d) == \A v \in Values[d] : f[v] = CleanDict(f, v)

\* The recursion in SanitizePayload has a solution, by induction over the depth.
LEMMA CleanExists == \E f : IsClean(f)
<1>1. PICK M \in Nat : M = MaxDepth
  BY SanitizerAssumption DEF SanitizerAssumption
<1>2. PICK T : T = {d \in 0..(M + 1) : \E f : CleanUpTo(f, d)}
  OBVIOUS
<1>3. 0 \in T
  <2>1. PICK any : any = <<>>
    OBVIOUS
  <2>2. PICK f : f = [v \in Values[0] |-> CleanDict(any, v)]
    OBVIOUS
  <2>3. ASSUME NEW v \in Values[0] PROVE f[v] = CleanDict(f, v)
    <3>1. Over(v, {})
      BY LevelOver
    <3>2. CleanDict(any, v) = CleanDict(f, v)
      BY <3>1, SameDict
    <3> QED
      BY <2>2, <3>2
  <2>4. CleanUpTo(f, 0)
    BY <2>3 DEF CleanUpTo
  <2>5. 0 \in 0..(M + 1)
    OBVIOUS
  <2> QED
    BY <1>2, <2>4, <2>5
<1>4. ASSUME NEW d \in 0..M, d \in T PROVE d + 1 \in T
  <2>1. PICK f : CleanUpTo(f, d)
    BY <1>2, <1>4
  <2>2. PICK g : g = [v \in Values[d + 1] |-> CleanDict(f, v)]
    OBVIOUS
  <2>3. ASSUME NEW v \in Values[d] PROVE g[v] = f[v]
    <3>1. v \in Values[d + 1]
      BY <1>1, ValuesGrow
    <3> QED
      BY <2>1, <2>2, <3>1 DEF CleanUpTo
  <2>4. ASSUME NEW v \in Values[d + 1] PROVE g[v] = CleanDict(g, v)
    <3>1. Over(v, Values[d])
      BY <1>1, LevelOver
    <3>2. CleanDict(f, v) = CleanDict(g, v)
      BY <2>3, <3>1, SameDict
    <3> QED
      BY <2>2, <3>2
  <2>5. CleanUpTo(g, d + 1)
    BY <2>4 DEF CleanUpTo
  <2>6. d + 1 \in 0..(M + 1)
    OBVIOUS
  <2> QED
    BY <1>2, <2>5, <2>6
<1>5. M + 1 \in Nat /\ M + 1 - 1 = M
  OBVIOUS
<1>6. \A d \in 0..(M + 1) : d \in T
  BY <1>3, <1>4, <1>5, UpTo
<1>7. M + 1 \in T
  BY <1>6
<1>8. PICK f : CleanUpTo(f, M + 1)
  BY <1>2, <1>7
<1>9. PICK g : g = [v \in Top |-> f[v]]
  OBVIOUS
<1>10. \A v \in Top : g[v] = f[v]
  BY <1>9
<1>11. ASSUME NEW v \in Top PROVE f[v] = CleanDict(g, v)
  <2>1. Over(v, Top)
    BY TopOver
  <2>2. CleanDict(f, v) = CleanDict(g, v)
    BY <1>10, <2>1, SameDict
  <2> QED
    BY <1>1, <1>8, <2>2 DEF CleanUpTo, Top
<1>12. [v \in Top |-> f[v]] = [v \in Top |-> CleanDict(g, v)]
  BY <1>11
<1>13. IsClean(g)
  BY <1>9, <1>12 DEF IsClean
<1> QED
  BY <1>13

\* What sanitize_payload does with one value of a dict.
Image(u) ==
    CASE u.kind = "str"  -> Clean
      [] u.kind = "dict" -> SanitizePayload(u)
      [] u.kind = "list" -> CleanList(u)
      [] OTHER           -> u

ListImage(u) == IF u.kind = "str" THEN Clean ELSE u

\* What SanitizePayload computes for a dict, given what it computes for its items.
LEMMA PayloadIs ==
    ASSUME NEW v \in Top
    PROVE  SanitizePayload(v) =
              [v EXCEPT !.items = [i \in DOMAIN v.items |-> Image(v.items[i])]]
<1>1. PICK f : f = CHOOSE g : IsClean(g)
  OBVIOUS
<1>2. IsClean(f)
  BY <1>1, CleanExists
<1>3. \A u : SanitizePayload(u) = (CHOOSE g : IsClean(g))[u]
  BY DEF SanitizePayload, IsClean, CleanDict, Top
<1>4. \A u : SanitizePayload(u) = f[u]
  BY <1>1, <1>3
<1>5. f[v] = CleanDict(f, v)
  <2>1. PICK g : g = [dict \in Top |-> CleanDict(f, dict)]
    OBVIOUS
  <2>2. f = g
    BY <1>2, <2>1 DEF IsClean
  <2> QED
    BY <2>1, <2>2
<1>6. \A i \in DOMAIN v.items : CleanItem(f, v.items[i]) = Image(v.items[i])
  BY <1>4 DEF CleanItem, Image
<1>7. [i \in DOMAIN v.items |-> CleanItem(f, v.items[i])]
      = [i \in DOMAIN v.items |-> Image(v.items[i])]
  BY <1>6
<1> QED
  BY <1>4, <1>5, <1>7 DEF CleanDict

\* Kind and items of an image.
LEMMA DictImage ==
    ASSUME NEW v \in Top, v.kind = "dict"
    PROVE  /\ Image(v).kind = "dict"
           /\ DOMAIN Image(v).items = DOMAIN v.items
           /\ \A i \in DOMAIN v.items : Image(v).items[i] = Image(v.items[i])
<1>1. Image(v) = SanitizePayload(v)
  BY DEF Image
<1>2. v = [kind |-> v.kind, items |-> v.items]
  BY TopOver DEF Over
<1>3. PICK its : its = [i \in DOMAIN v.items |-> Image(v.items[i])]
  OBVIOUS
<1>4. Image(v) = [v EXCEPT !.items = its]
  BY <1>1, <1>3, PayloadIs
<1>5. Image(v).kind = "dict" /\ Image(v).items = its
  BY <1>2, <1>4
<1>6. DOMAIN its = DOMAIN v.items /\ \A i \in DOMAIN v.items : its[i] = Image(v.items[i])
  BY <1>3
<1> QED
  BY <1>5, <1>6

\* Kind and items of a list's image.
LEMMA ListIs ==
    ASSUME NEW v \in Top, v.kind = "list"
    PROVE  /\ Image(v).kind = "list"
           /\ DOMAIN Image(v).items = DOMAIN v.items
           /\ \A i \in DOMAIN v.items : Image(v).items[i] = ListImage(v.items[i])
<1>1. Image(v) = CleanList(v)
  BY DEF Image
<1>2. v = [kind |-> v.kind, items |-> v.items]
  BY TopOver DEF Over
<1>3. PICK its : its = [i \in DOMAIN v.items |-> ListImage(v.items[i])]
  OBVIOUS
<1>4. Image(v) = [v EXCEPT !.items = its]
  BY <1>1, <1>3 DEF CleanList, ListImage
<1>5. Image(v).kind = "list" /\ Image(v).items = its
  BY <1>2, <1>4
<1>6. /\ DOMAIN its = DOMAIN v.items
      /\ \A i \in DOMAIN v.items : its[i] = ListImage(v.items[i])
  BY <1>3
<1> QED
  BY <1>5, <1>6

\* Kinds, and the images that are no containers.
LEMMA LeafIs ==
    ASSUME NEW v \in Top
    PROVE  /\ v.kind \in {"str", "other", "dict", "list"}
           /\ v.kind = "str" => Image(v) = Clean /\ ListImage(v) = Clean
           /\ v.kind = "other" => Image(v) = v
           /\ v.kind # "str" => ListImage(v) = v
           /\ v.kind \in {"str", "other"} => DOMAIN v.items = {}
           /\ Clean.kind = "clean" /\ DOMAIN Clean.items = {}
<1>1. /\ v.kind \in {"str", "other", "dict", "list"}
      /\ v.kind \in {"str", "other"} => v.items = <<>>
  BY TopOver DEF Over
<1>2. DOMAIN <<>> = {}
  OBVIOUS
<1>3. Clean.kind = "clean" /\ Clean.items = <<>>
  BY DEF Clean
<1>4. v.kind = "str" => Image(v) = Clean /\ ListImage(v) = Clean
  BY DEF Image, ListImage
<1>5. v.kind = "other" => Image(v) = v
  BY DEF Image
<1>6. v.kind # "str" => ListImage(v) = v
  BY DEF ListImage
<1> QED
  BY <1>1, <1>2, <1>3, <1>4, <1>5, <1>6

\* path is one of a value, as far as its first n steps; seen[m] is what m of them lead to.
Valid(seen, path, n) == \A m \in 1..n : path[m] \in DOMAIN seen[m - 1].items

\* There is a list before the container that the last of n steps is into.
ListBefore(seen, n) == \E m \in 0..(n - 2) : seen[m].kind = "list"

\* What n steps lead to in the copy, got, given what they lead to in the payload.
Copied(got, seen, n) ==
    /\ ListBefore(seen, n) => got[n] = seen[n]
    /\ ~ListBefore(seen, n) /\ n >= 1 /\ seen[n - 1].kind = "list"
          => got[n] = ListImage(seen[n])
    /\ ~ListBefore(seen, n) /\ ~(n >= 1 /\ seen[n - 1].kind = "list")
          => got[n] = Image(seen[n])

\* The copy can be entered where the payload can.
LEMMA CopiedPlaces ==
    ASSUME NEW got, NEW seen, NEW n \in Nat, seen[n] \in Top, Copied(got, seen, n)
    PROVE  DOMAIN got[n].items = DOMAIN seen[n].items
<1>1. got[n] = seen[n] \/ got[n] = ListImage(seen[n]) \/ got[n] = Image(seen[n])
  BY DEF Copied
<1>2. DOMAIN ListImage(seen[n]).items = DOMAIN seen[n].items
  BY LeafIs
<1>3. DOMAIN Image(seen[n]).items = DOMAIN seen[n].items
  BY LeafIs, DictImage, ListIs
<1> QED
  BY <1>1, <1>2, <1>3

\* The kind of what a path leads to in the copy.
LEMMA CopiedKind ==
    ASSUME NEW got, NEW seen, NEW n \in Nat, seen[n] \in Top, Copied(got, seen, n)
    PROVE  got[n].kind = IF seen[n].kind = "str" /\ ~ListBefore(seen, n) THEN "clean"
                         ELSE seen[n].kind
<1>1. Image(seen[n]).kind = IF seen[n].kind = "str" THEN "clean" ELSE seen[n].kind
  BY LeafIs, DictImage, ListIs
<1>2. ListImage(seen[n]).kind = IF seen[n].kind = "str" THEN "clean" ELSE seen[n].kind
  BY LeafIs
<1> QED
  BY <1>1, <1>2 DEF Copied

\* One more step of a path.
LEMMA CopiedStep ==
    ASSUME NEW got, NEW seen, NEW n \in Nat, NEW i,
           seen[n] \in Top, i \in DOMAIN seen[n].items, Copied(got, seen, n),
           seen[n + 1] = seen[n].items[i], got[n + 1] = got[n].items[i]
    PROVE  seen[n + 1] \in Top /\ Copied(got, seen, n + 1)
<1>1. seen[n + 1] \in Top
  BY TopOver, OverPlaces
<1>2. seen[n].kind \in {"dict", "list"}
  BY LeafIs
<1>3. (n + 1) - 1 = n /\ n + 1 >= 1 /\ (n + 1) - 2 = n - 1
  OBVIOUS
<1>4. ListBefore(seen, n + 1) <=> \E m \in 0..(n - 1) : seen[m].kind = "list"
  BY <1>3 DEF ListBefore
<1>5. ListBefore(seen, n + 1)
      <=> ListBefore(seen, n) \/ (n >= 1 /\ seen[n - 1].kind = "list")
  <2>1. \A m \in 0..(n - 1) : m \in 0..(n - 2) \/ (m = n - 1 /\ n >= 1)
    OBVIOUS
  <2>2. \A m \in 0..(n - 2) : m \in 0..(n - 1)
    OBVIOUS
  <2>3. n >= 1 => n - 1 \in 0..(n - 1)
    OBVIOUS
  <2> QED
    BY <1>4, <2>1, <2>2, <2>3 DEF ListBefore
<1>6. CASE ListBefore(seen, n + 1)
  <2>1. got[n] = seen[n]
    BY <1>2, <1>5, <1>6, LeafIs DEF Copied
  <2>2. got[n + 1] = seen[n + 1]
    BY <2>1
  <2> QED
    BY <1>1, <1>6, <2>2 DEF Copied
<1>7. CASE ~ListBefore(seen, n + 1)
  <2>1. got[n] = Image(seen[n])
    BY <1>5, <1>7 DEF Copied
  <2>2. CASE seen[n].kind = "dict"
    <3>1. got[n + 1] = Image(seen[n + 1])
      BY <2>1, <2>2, DictImage
    <3>2. seen[n].kind # "list"
      BY <2>2
    <3> QED
      BY <1>1, <1>3, <1>7, <3>1, <3>2 DEF Copied
  <2>3. CASE seen[n].kind = "list"
    <3>1. got[n + 1] = ListImage(seen[n + 1])
      BY <2>1, <2>3, ListIs
    <3> QED
      BY <1>1, <1>3, <1>7, <2>3, <3>1 DEF Copied
  <2> QED
    BY <1>2, <2>2, <2>3
<1> QED
  BY <1>6, <1>7

\* Payload and copy have the same paths, and Copied holds all along one.
LEMMA Shape ==
    ASSUME NEW payload \in Top, payload.kind = "dict", NEW path, NEW L \in Nat,
           NEW seen, Leads(seen, payload, path, L),
           NEW got, Leads(got, SanitizePayload(payload), path, L)
    PROVE  /\ Valid(got, path, L) <=> Valid(seen, path, L)
           /\ Valid(seen, path, L) => seen[L] \in Top /\ Copied(got, seen, L)
<1> DEFINE Same(n) == /\ Valid(got, path, n) <=> Valid(seen, path, n)
                      /\ Valid(seen, path, n) => seen[n] \in Top /\ Copied(got, seen, n)
<1>1. PICK T : T = {n \in 0..L : Same(n)}
  OBVIOUS
<1>2. 0 \in T
  <2>1. seen[0] = payload /\ got[0] = SanitizePayload(payload)
    BY DEF Leads
  <2>2. got[0] = Image(seen[0])
    BY <2>1 DEF Image
  <2>3. Copied(got, seen, 0)
    BY <2>2 DEF Copied, ListBefore
  <2>4. Valid(got, path, 0) /\ Valid(seen, path, 0)
    BY DEF Valid
  <2>5. Same(0)
    BY <2>1, <2>3, <2>4
  <2> HIDE DEF Same
  <2> QED
    BY <1>1, <2>5
<1>3. ASSUME NEW n \in 0..(L - 1), n \in T PROVE n + 1 \in T
  <2>1. Same(n)
    BY <1>1, <1>3
  <2>2. n \in Nat /\ n + 1 \in 1..L /\ n + 1 \in 0..L /\ (n + 1) - 1 = n
    OBVIOUS
  <2>3. /\ seen[n + 1] = seen[n].items[path[n + 1]]
        /\ got[n + 1] = got[n].items[path[n + 1]]
    BY <2>2 DEF Leads
  <2>4. \A f : Valid(f, path, n + 1)
               <=> Valid(f, path, n) /\ path[n + 1] \in DOMAIN f[n].items
    <3>1. \A m \in 1..(n + 1) : m \in 1..n \/ m = n + 1
      BY <2>2
    <3>2. \A m \in 1..n : m \in 1..(n + 1)
      BY <2>2
    <3>3. n + 1 \in 1..(n + 1)
      BY <2>2
    <3> QED
      BY <2>2, <3>1, <3>2, <3>3 DEF Valid
  <2>5. Valid(got, path, n + 1) <=> Valid(seen, path, n + 1)
    <3>1. Valid(seen, path, n) => DOMAIN got[n].items = DOMAIN seen[n].items
      BY <2>1, <2>2, CopiedPlaces
    <3> QED
      BY <2>1, <2>4, <3>1
  <2>6. ASSUME Valid(seen, path, n + 1)
        PROVE  seen[n + 1] \in Top /\ Copied(got, seen, n + 1)
    <3>1. Valid(seen, path, n) /\ path[n + 1] \in DOMAIN seen[n].items
      BY <2>4, <2>6
    <3>2. seen[n] \in Top /\ Copied(got, seen, n)
      BY <2>1, <3>1
    <3> QED
      BY <2>2, <2>3, <3>1, <3>2, CopiedStep
  <2>7. Same(n + 1)
    BY <2>5, <2>6
  <2> HIDE DEF Same
  <2> QED
    BY <1>1, <2>2, <2>7
<1>4. \A n \in 0..L : n \in T
  BY <1>2, <1>3, UpTo
<1>5. Same(L)
  BY <1>1, <1>4
<1> QED
  BY <1>5

LEMMA PathIs ==
    ASSUME NEW path \in BoundedSeq(1..MaxItems, MaxDepth + 1)
    PROVE  path \in Seq(Nat)
<1>1. MaxDepth + 1 \in Nat
  BY SanitizerAssumption DEF SanitizerAssumption
<1>2. PICK m \in Nat : path \in [1..m -> 1..MaxItems]
  BY <1>1 DEF BoundedSeq, SeqOf
<1>3. path \in [1..m -> Nat]
  BY <1>2
<1> QED
  BY <1>3

\* Paths in terms of what the prefixes lead to.
LEMMA PathValid ==
    ASSUME NEW v, NEW path \in Seq(Nat), NEW seen,
           \A n \in 0..Len(path) : Below(v, SubSeq(path, 1, n)) = seen[n]
    PROVE  (\A n \in 1..Len(path) :
               path[n] \in DOMAIN Below(v, SubSeq(path, 1, n - 1)).items)
           <=> Valid(seen, path, Len(path))
<1>1. \A n \in 1..Len(path) : n - 1 \in 0..Len(path)
  OBVIOUS
<1>2. \A n \in 1..Len(path) : Below(v, SubSeq(path, 1, n - 1)) = seen[n - 1]
  BY <1>1
<1> QED
  BY <1>2 DEF Valid

\* What the code makes of the value at one path: with a list above its container even a
\* string is passed on.
LEMMA OnePath ==
    ASSUME NEW payload \in Top, payload.kind = "dict",
           NEW path \in BoundedSeq(1..MaxItems, MaxDepth + 1)
    PROVE  /\ path \in Paths(SanitizePayload(payload)) <=> path \in Paths(payload)
           /\ path \in Paths(payload) =>
                 Below(SanitizePayload(payload), path).kind =
                    IF Below(payload, path).kind = "str"
                       /\ ~\E n \in 0..(Len(path) - 2) :
                              Below(payload, SubSeq(path, 1, n)).kind = "list"
                    THEN "clean" ELSE Below(payload, path).kind
<1>1. path \in Seq(Nat)
  BY PathIs
<1>2. PICK L \in Nat : L = Len(path)
  BY <1>1
<1>3. PICK copy : copy = SanitizePayload(payload)
  OBVIOUS
<1>4. PICK seen : /\ Leads(seen, payload, path, L)
                  /\ \A n \in 0..L : Below(payload, SubSeq(path, 1, n)) = seen[n]
                  /\ Below(payload, path) = seen[L]
  BY <1>1, <1>2, PrefixesLead
<1>5. PICK got : /\ Leads(got, copy, path, L)
                 /\ \A n \in 0..L : Below(copy, SubSeq(path, 1, n)) = got[n]
                 /\ Below(copy, path) = got[L]
  BY <1>1, <1>2, PrefixesLead
<1>6. /\ Valid(got, path, L) <=> Valid(seen, path, L)
      /\ Valid(seen, path, L) => seen[L] \in Top /\ Copied(got, seen, L)
  BY <1>3, <1>4, <1>5, Shape
<1>7. path \in Paths(payload) <=> Valid(seen, path, L)
  BY <1>1, <1>2, <1>4, PathValid DEF Paths
<1>8. path \in Paths(copy) <=> Valid(got, path, L)
  BY <1>1, <1>2, <1>5, PathValid DEF Paths
<1>9. ListBefore(seen, L)
      <=> \E n \in 0..(L - 2) : Below(payload, SubSeq(path, 1, n)).kind = "list"
  <2>1. \A n \in 0..(L - 2) : n \in 0..L
    OBVIOUS
  <2> QED
    BY <1>4, <2>1 DEF ListBefore
<1>10. ASSUME path \in Paths(payload)
       PROVE  got[L].kind = IF seen[L].kind = "str" /\ ~ListBefore(seen, L) THEN "clean"
                            ELSE seen[L].kind
  BY <1>6, <1>7, <1>10, CopiedKind
<1>11. path \in Paths(copy) <=> path \in Paths(payload)
  BY <1>6, <1>7, <1>8
<1> QED
  BY <1>2, <1>3, <1>4, <1>5, <1>9, <1>10, <1>11

LEMMA PayloadOf == SanitizesPayload => PayloadSanitized'
<1> SUFFICES ASSUME SanitizesPayload PROVE PayloadSanitized'
  OBVIOUS
<1>1. PICK payload \in Payloads :
         sanitizer' = [fn |-> "sanitize_payload", payload |-> payload,
                       clean |-> SanitizePayload(payload)]
  BY DEF SanitizesPayload
<1>2. payload \in Top /\ payload.kind = "dict"
  BY DEF Payloads, Top
<1>3. PICK copy : copy = SanitizePayload(payload)
  OBVIOUS
<1>4. sanitizer'.payload = payload /\ sanitizer'.clean = copy
  BY <1>1, <1>3
<1>5. \A v : Paths(v) \subseteq BoundedSeq(1..MaxItems, MaxDepth + 1)
  BY DEF Paths
<1>6. Paths(copy) = Paths(payload)
  BY <1>2, <1>3, <1>5, OnePath
<1>7. ASSUME NEW path \in Paths(payload)
      PROVE  Below(copy, path).kind =
                  IF Below(payload, path).kind = "str"
                     /\ ~\E n \in 0..(Len(path) - 2) :
                            Below(payload, SubSeq(path, 1, n)).kind = "list"
                  THEN "clean" ELSE Below(payload, path).kind
  BY <1>2, <1>3, <1>5, OnePath
<1>8. ASSUME NEW path \in Paths(payload)
      PROVE  LET v == Below(payload, path)
                 w == Below(copy, path)
                 leftOpen == \E n \in 0..(Len(path) - 2) :
                                Below(payload, SubSeq(path, 1, n)).kind = "list" IN
             /\ v.kind = "str" => w.kind = "clean" \/ leftOpen
             /\ v.kind # w.kind => v.kind = "str" /\ w.kind = "clean"
  BY <1>7
<1> QED
  BY <1>4, <1>6, <1>8 DEF PayloadSanitized

\* For any width and depth the copy has the shape of the payload, only strings are replaced
\* in it, and every string is that no list holds inside another container
\* (sanitize_payload).
THEOREM PayloadTheorem == SanitizerSpec => []PayloadSanitized
<1>1. SanitizerInit => PayloadSanitized
  BY DEF SanitizerInit, Idle, PayloadSanitized
<1>2. PayloadSanitized /\ [SanitizerNext]_sanitizer => PayloadSanitized'
  <2>1. ChecksCard => PayloadSanitized'
    BY DEF ChecksCard, PayloadSanitized
  <2>2. Sanitizes => PayloadSanitized'
    BY DEF Sanitizes, PayloadSanitized
  <2>3. PayloadSanitized /\ UNCHANGED sanitizer => PayloadSanitized'
    BY DEF PayloadSanitized
  <2> QED
    BY <2>1, <2>2, <2>3, PayloadOf DEF SanitizerNext
<1> QED
  BY <1>1, <1>2, PTL DEF SanitizerSpec
=============================================================================
