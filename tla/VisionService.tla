---------------------------- MODULE VisionService ----------------------------
(***************************************************************************)
(* The defect classifier behind the visual_inspection node                 *)
(* (app/vision/defect_classifier.py, app/tools/vision_inspection.py): the  *)
(* model is loaded lazily by the first call, in a thread and under an      *)
(* asyncio lock that is tested twice; then each call runs its inference in *)
(* a thread and turns the probabilities into a verdict.                    *)
(*                                                                         *)
(* Of a model only the probabilities matter that it gives to one photo.    *)
(* Without trained weights they are different at every load.  A thread     *)
(* whose caller was cancelled goes on, but nobody takes its result.        *)
(***************************************************************************)
EXTENDS Integers

CONSTANTS
    Calls,                  \* calls of classify
    NoCall, NoModel, NoVerdict,
    Whole,                  \* probability 1, in units of its 1/Whole-th part
    ConfidenceThreshold     \* confidence_threshold in the same unit

VARIABLES
    model,      \* _model: the scores it gives to the photo
    lock,       \* the call that is inside `async with self._lock`
    call        \* call[c]: its image, the model _ensure_loaded gave it, its result

vars == <<model, lock, call>>

DEFECT_CLASSES ==
    <<"no_defect", "surface_scratch", "crack_or_fracture", "discoloration_or_stain",
      "missing_component", "packaging_damage">>

\* _SEVERITY_BY_CLASS, in tenths.
Severity ==
    [no_defect |-> 0, surface_scratch |-> 3, crack_or_fracture |-> 9,
     discoloration_or_stain |-> 3, missing_component |-> 7, packaging_damage |-> 4]

Classes == DOMAIN Severity

\* What softmax gives: it sums to 1.
Scores ==
    {p \in [Classes -> 0..Whole] :
        p.no_defect + p.surface_scratch + p.crack_or_fracture + p.discoloration_or_stain
            + p.missing_component + p.packaging_damage = Whole}

ASSUME VisionAssumption ==
    /\ NoCall \notin Calls
    /\ NoModel \notin Scores
    /\ Whole \in Nat \ {0}
    /\ ConfidenceThreshold \in 0..Whole

Init ==
    /\ model = NoModel
    /\ lock = NoCall
    /\ call = [c \in Calls |-> [pc |-> "idle", photo |-> TRUE, model |-> NoModel,
                                verdict |-> NoVerdict]]

-----------------------------------------------------------------------------
(***************************************************************************)
(* _ensure_loaded                                                          *)
(***************************************************************************)
\* The first test of _model, without the lock.
Classify(c, photo) ==
    /\ call[c].pc = "idle"
    /\ call' = [call EXCEPT ![c].pc = IF model # NoModel THEN "inferring" ELSE "waiting",
                            ![c].photo = photo, ![c].model = model]
    /\ UNCHANGED <<model, lock>>

\* Mutant: _model is not tested again under the lock.
EntersLockBlindly(c) ==
    /\ call[c].pc = "waiting" /\ lock = NoCall
    /\ call' = [call EXCEPT ![c].pc = "loading"]
    /\ lock' = c
    /\ UNCHANGED model

\* Mutant: `async with self._lock` is missing.
EntersUnlocked(c) ==
    /\ call[c].pc = "waiting"
    /\ call' = [call EXCEPT ![c].pc = IF model = NoModel THEN "loading" ELSE "inferring",
                            ![c].model = model]
    /\ lock' = IF model = NoModel THEN c ELSE lock
    /\ UNCHANGED model

\* The lock is granted and _model tested again; who has waited for a load leaves at
\* once.
EntersLock(c) ==
    /\ call[c].pc = "waiting" /\ lock = NoCall
    /\ IF model = NoModel
       THEN /\ call' = [call EXCEPT ![c].pc = "loading"]
            /\ lock' = c
       ELSE /\ call' = [call EXCEPT ![c].pc = "inferring", ![c].model = model]
            /\ UNCHANGED lock
    /\ UNCHANGED model

\* _load_sync returns a model with the weights of the file or with random ones.
LoadReturns(c) ==
    /\ call[c].pc = "loading"
    /\ \E scores \in Scores :
          /\ model' = scores
          /\ call' = [call EXCEPT ![c].pc = "inferring", ![c].model = scores]
    /\ lock' = NoCall

\* The weights file cannot be read or does not fit; the next call tries again.
LoadRaises(c) ==
    /\ call[c].pc = "loading"
    /\ call' = [call EXCEPT ![c].pc = "raised"]
    /\ lock' = NoCall
    /\ UNCHANGED model

-----------------------------------------------------------------------------
(***************************************************************************)
(* classify                                                                *)
(***************************************************************************)
\* max(scores, key=scores.get): of equal scores the first in DEFECT_CLASSES.
Predicted(scores) ==
    DEFECT_CLASSES[CHOOSE i \in DOMAIN DEFECT_CLASSES :
        \A j \in DOMAIN DEFECT_CLASSES :
            /\ scores[DEFECT_CLASSES[j]] <= scores[DEFECT_CLASSES[i]]
            /\ j < i => scores[DEFECT_CLASSES[j]] < scores[DEFECT_CLASSES[i]]]

\* Mutant: `>` for `>=`.
VerdictAbove(scores) ==
    LET class == Predicted(scores) IN
    [class |-> class, confidence |-> scores[class],
     review |-> scores[class] < ConfidenceThreshold \/ Severity[class] > 7]

Verdict(scores) ==
    LET class == Predicted(scores) IN
    [class |-> class, confidence |-> scores[class],
     review |-> scores[class] < ConfidenceThreshold \/ Severity[class] >= 7]

\* _run_inference: an image that cannot be decoded raises.
Infers(c) ==
    /\ call[c].pc = "inferring"
    /\ call' = [call EXCEPT ![c] =
                   IF @.photo
                   THEN [@ EXCEPT !.pc = "done", !.verdict = Verdict(call[c].model)]
                   ELSE [@ EXCEPT !.pc = "raised"]]
    /\ UNCHANGED <<model, lock>>

\* Mutant: the lock is released by the last statement instead of `async with`.
CancelledKeepsLock(c) ==
    /\ call[c].pc \in {"waiting", "loading", "inferring"}
    /\ call' = [call EXCEPT ![c].pc = "cancelled"]
    /\ UNCHANGED <<model, lock>>

\* The turn is over: its client is gone.  Leaving `async with` releases the lock
\* while the load may still be running in its thread.
Cancelled(c) ==
    /\ call[c].pc \in {"waiting", "loading", "inferring"}
    /\ call' = [call EXCEPT ![c].pc = "cancelled"]
    /\ lock' = IF lock = c THEN NoCall ELSE lock
    /\ UNCHANGED model

-----------------------------------------------------------------------------
Progress(c) == EntersLock(c) \/ LoadReturns(c) \/ LoadRaises(c) \/ Infers(c)

Next ==
    \/ \E c \in Calls, photo \in BOOLEAN : Classify(c, photo)
    \/ \E c \in Calls : Progress(c) \/ Cancelled(c)

Spec == Init /\ [][Next]_vars

\* A coroutine runs on when its thread is done or the lock is passed to it; a load
\* and an inference end.  Callers owe nothing.
FairSpec == Spec /\ \A c \in Calls : WF_vars(Progress(c))

-----------------------------------------------------------------------------
(***************************************************************************)
(* Properties                                                              *)
(***************************************************************************)
TypeOK ==
    /\ model \in Scores \cup {NoModel}
    /\ lock \in Calls \cup {NoCall}
    /\ \A c \in Calls :
          /\ call[c].pc \in {"idle", "waiting", "loading", "inferring", "done", "raised",
                             "cancelled"}
          /\ call[c].photo \in BOOLEAN
          /\ call[c].model \in Scores \cup {NoModel}
          /\ call[c].verdict \in {NoVerdict} \cup
                [class : Classes, confidence : 0..Whole, review : BOOLEAN]
          /\ call[c].pc = "loading" => lock = c
          /\ call[c].pc = "inferring" => call[c].model # NoModel

\* _ensure_loaded: loads may be cancelled, fail and be repeated while calls wait, yet
\* all calls of a process are judged by one model: the one later calls will use.
OneModel ==
    \A c \in Calls :
        /\ call[c].model # NoModel => call[c].model = model
        /\ call[c].verdict # NoVerdict => call[c].verdict = Verdict(model)

\* classify: an image that need not be reviewed by a human leaves no more doubt than
\* the threshold allows that the product is broken or incomplete, on ties too.
SevereIsReviewed ==
    \A c \in Calls :
        call[c].verdict # NoVerdict /\ ~call[c].verdict.review =>
            call[c].model.crack_or_fracture + call[c].model.missing_component
                <= Whole - ConfidenceThreshold

\* classify: every call ends, also behind loads that fail or lose their caller.
CallsEnd ==
    \A c \in Calls :
        call[c].pc = "waiting" ~> call[c].pc \in {"done", "raised", "cancelled"}
=============================================================================
