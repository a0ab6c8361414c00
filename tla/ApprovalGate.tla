----------------------------- MODULE ApprovalGate -----------------------------
(***************************************************************************)
(* What human-in-the-loop governance promises at its strongest in this     *)
(* code: a tool is only ever invoked on a thread under a reviewer request  *)
(* that approved something for that thread, and each such request is good  *)
(* for at most one invocation.                                             *)
(***************************************************************************)
EXTENDS Sequences

CONSTANTS Reviewers, Threads

VARIABLES
    granted,    \* <<reviewer request, thread>> pairs with a committed approval
    log         \* <<reviewer request, thread>> of every tool invocation, in order

gateVars == <<granted, log>>

Init == granted = {} /\ log = <<>>

Grant(d, t) ==
    /\ \A u \in Threads : <<d, u>> \notin granted
    /\ granted' = granted \cup {<<d, t>>}
    /\ UNCHANGED log

Invoke(d, t) ==
    /\ <<d, t>> \in granted
    /\ \A i \in DOMAIN log : log[i][1] # d
    /\ log' = Append(log, <<d, t>>)
    /\ UNCHANGED granted

Next == \E d \in Reviewers, t \in Threads : Grant(d, t) \/ Invoke(d, t)

Spec == Init /\ [][Next]_gateVars
=============================================================================
