---------------------------- MODULE CacheContract ----------------------------
(***************************************************************************)
(* What a caller of the semantic cache may rely on: an answer it is given  *)
(* is close enough to its query, and it was in the cache at some moment of *)
(* the call.  A miss is always allowed, and entries come and go; a caller  *)
(* may call again.                                                         *)
(***************************************************************************)
CONSTANTS
    Keys, Callers, Entries, Questions, NoEntry, NoQuestion,
    Close(_, _)     \* Close(q, e): entry e is similar enough to question q

VARIABLES
    contents,   \* contents[k]: the entry under key k
    call,       \* call[c]: the question of the call of c under way, or its answer
    witnessed   \* witnessed[c]: entries that were in the cache during that call

contractVars == <<contents, call, witnessed>>

Ended(e) == [open |-> FALSE, question |-> NoQuestion, answer |-> e]

Init ==
    /\ contents = [k \in Keys |-> NoEntry]
    /\ call = [c \in Callers |-> Ended(NoEntry)]
    /\ witnessed = [c \in Callers |-> {}]

Holding(f) == {f[k] : k \in Keys} \ {NoEntry}

Change(k, e) ==
    /\ contents' = [contents EXCEPT ![k] = e]
    /\ witnessed' = [c \in Callers |->
                        IF call[c].open
                        THEN witnessed[c] \cup Holding(contents') ELSE witnessed[c]]
    /\ UNCHANGED call

Ask(c, q) ==
    /\ ~call[c].open
    /\ call' = [call EXCEPT ![c] = [open |-> TRUE, question |-> q, answer |-> NoEntry]]
    /\ witnessed' = [witnessed EXCEPT ![c] = Holding(contents)]
    /\ UNCHANGED contents

Answer(c, e) ==
    /\ call[c].open
    /\ e # NoEntry => e \in witnessed[c] /\ Close(call[c].question, e)
    /\ call' = [call EXCEPT ![c] = Ended(e)]
    /\ witnessed' = [witnessed EXCEPT ![c] = {}]
    /\ UNCHANGED contents

Next ==
    \/ \E k \in Keys, e \in Entries \cup {NoEntry} : Change(k, e)
    \/ \E c \in Callers, q \in Questions : Ask(c, q)
    \/ \E c \in Callers, e \in Entries \cup {NoEntry} : Answer(c, e)

Spec == Init /\ [][Next]_contractVars
=============================================================================
