--------------------------- MODULE McpClientProofs ---------------------------
(***************************************************************************)
(* The invariants of McpClient for any number of callers, tools and        *)
(* servers of either kind and any stop condition of the retry.             *)
(*                                                                         *)
(* Over the two safety properties the inductive invariant says that a      *)
(* frame waits only at the server its call is routed to (so that what is   *)
(* outstanding is counted in the right place), that an invocation which    *)
(* may send again has a send left, and that a child process which does not *)
(* live has nothing to read.                                               *)
(***************************************************************************)
EXTENDS McpClient, FiniteSetTheorems, SequenceTheorems, TLAPS

Rpc ==
    [pc : {"idle", "ready", "draining", "awaiting", "stderr", "answered", "failed", "raised",
           "cancelled"},
     server : Servers \cup {NoServer},
     sends : 0 .. MaxSends,
     answer : Rpcs \cup {Nobody}]

RpcOk(R) ==
    /\ R \in Rpc
    /\ R.pc = "idle" => R.sends = 0
    /\ R.pc = "ready" => R.sends < MaxSends
    /\ R.pc \in {"ready", "awaiting"} => R.server \in Servers
    /\ R.pc \in {"draining", "stderr"} => R.server \in StdioServers

RpcInv ==
    /\ DOMAIN rpc = Rpcs /\ rpc = [c \in Rpcs |-> rpc[c]]
    /\ \A c \in Rpcs : RpcOk(rpc[c])

StartInv ==
    /\ startup \in [pc : Methods \cup {"serving", "crashed"}, todo : SUBSET Servers]
    /\ registry \in [Tools -> Servers \cup {NoServer}]

\* What the pipes hold when nobody gave up on the process: nothing, or the frame
\* of the lock's holder, before or after the server.
Exchange(holder, requests, responses) ==
    \/ requests = <<>> /\ responses = <<>>
    \/ holder # Nobody /\ requests = <<holder>> /\ responses = <<>>
    \/ holder # Nobody /\ requests = <<>> /\ responses = <<holder>>

PipeTypes ==
    /\ lock \in [StdioServers -> Rpcs \cup {Nobody}]
    /\ process \in [StdioServers -> {"none", "alive", "closed", "exited", "reaped"}]
    /\ stdin \in [StdioServers -> Seq(Rpcs)]
    /\ stdout \in [StdioServers -> Seq(Rpcs)]
    /\ abandoned \in [StdioServers -> BOOLEAN]

PipeInv ==
    /\ PipeTypes
    /\ \A s \in StdioServers :
          /\ process[s] \notin {"alive", "closed"} => stdin[s] = <<>>
          /\ ~abandoned[s] => Exchange(lock[s], stdin[s], stdout[s])

Posts(c, w) == {p \in w : p[1] = c}

\* Frames of call c, which looks like R, wait only where c was sent to.
Placed(c, R, pipes, w) ==
    /\ \A s \in StdioServers :
          \A i \in DOMAIN pipes[s] : pipes[s][i] = c => R.server = s /\ R.pc # "idle"
    /\ \A p \in Posts(c, w) : R.server \notin StdioServers /\ R.pc # "idle"

Waiting(c, R, pipes, w) ==
    IF R.server \in StdioServers THEN Frames(c, pipes[R.server]) ELSE Cardinality(Posts(c, w))

CallInv ==
    /\ executed \in [Calls -> Nat]
    /\ wire \subseteq Calls \X (1 .. MaxSends)
    /\ \A c \in Calls :
          /\ IsFiniteSet(Posts(c, wire))
          /\ Placed(c, rpc[c], stdin, wire)
          /\ executed[c] + Waiting(c, rpc[c], stdin, wire) <= rpc[c].sends

IInv == RpcInv /\ StartInv /\ PipeInv /\ CallInv

-----------------------------------------------------------------------------
(***************************************************************************)
(* Counting frames                                                         *)
(***************************************************************************)
\* The places of a frame in a pipe are finitely many.
LEMMA FramesCount ==
    ASSUME NEW S, NEW q \in Seq(S), NEW c
    PROVE  /\ IsFiniteSet({i \in DOMAIN q : q[i] = c})
           /\ Frames(c, q) \in Nat
<1>1. DOMAIN q = 1 .. Len(q) /\ Len(q) \in Nat
  BY LenProperties
<1>2. IsFiniteSet(1 .. Len(q))
  BY <1>1, FS_Interval
<1>3. IsFiniteSet({i \in DOMAIN q : q[i] = c})
  BY <1>1, <1>2, FS_Subset
<1> QED
  BY <1>3, FS_CardinalityType DEF Frames

\* A call that is not in the pipe has no frames there.
LEMMA FramesNone ==
    ASSUME NEW q, NEW c, \A i \in DOMAIN q : q[i] # c
    PROVE  Frames(c, q) = 0
<1>1. {i \in DOMAIN q : q[i] = c} = {}
  OBVIOUS
<1> QED
  BY <1>1, FS_EmptySet DEF Frames

\* A pipe with one frame.
LEMMA FramesOne ==
    ASSUME NEW c, NEW d
    PROVE  Frames(c, <<d>>) = IF d = c THEN 1 ELSE 0
<1> DEFINE places == {i \in DOMAIN <<d>> : <<d>>[i] = c}
<1>1. places = IF d = c THEN {1} ELSE {}
  OBVIOUS
<1>2. Frames(c, <<d>>) = Cardinality(places)
  BY Zenon DEF Frames
<1> HIDE DEF places
<1> QED
  BY <1>1, <1>2, FS_EmptySet, FS_Singleton

\* A write adds one frame to the writer and none to the others.
LEMMA FramesAppend ==
    ASSUME NEW S, NEW q \in Seq(S), NEW c, NEW d \in S
    PROVE  Frames(c, Append(q, d)) = Frames(c, q) + (IF d = c THEN 1 ELSE 0)
<1> DEFINE old == {i \in DOMAIN q : q[i] = c}
           q2 == Append(q, d)
           new == {i \in DOMAIN q2 : q2[i] = c}
<1>1. /\ DOMAIN q = 1 .. Len(q) /\ Len(q) \in Nat
      /\ DOMAIN q2 = 1 .. Len(q) + 1
      /\ \A i \in 1 .. Len(q) : q2[i] = q[i]
      /\ q2[Len(q) + 1] = d
  BY LenProperties, AppendProperties
<1>2. IsFiniteSet(old) /\ Cardinality(old) \in Nat
  BY FramesCount, FS_CardinalityType
<1>3. Frames(c, q) = Cardinality(old) /\ Frames(c, q2) = Cardinality(new)
  BY Zenon DEF Frames
<1> HIDE DEF q2
<1>4. CASE d = c
  <2>1. new = old \cup {Len(q) + 1} /\ Len(q) + 1 \notin old
    BY <1>1, <1>4
  <2> HIDE DEF old, new
  <2>2. Cardinality(new) = Cardinality(old) + 1
    BY <1>2, <2>1, FS_AddElement
  <2> QED
    BY <1>3, <1>4, <2>2 DEF q2
<1>5. CASE d # c
  <2>1. new = old
    BY <1>1, <1>5
  <2> HIDE DEF old, new
  <2> QED
    BY <1>2, <1>3, <1>5, <2>1 DEF q2
<1> QED
  BY <1>4, <1>5

\* A read takes one frame from the first call in the pipe and none from the others.
LEMMA FramesTail ==
    ASSUME NEW S, NEW q \in Seq(S), q # <<>>, NEW c
    PROVE  Frames(c, q) = Frames(c, Tail(q)) + (IF Head(q) = c THEN 1 ELSE 0)
<1> DEFINE T == Tail(q)
           old == {i \in DOMAIN q : q[i] = c}
           new == {i \in DOMAIN T : T[i] = c}
           later == old \ {1}
           Shift == [i \in later |-> i - 1]
<1>1. /\ DOMAIN q = 1 .. Len(q) /\ Len(q) \in Nat /\ Len(q) # 0
      /\ DOMAIN T = 1 .. Len(q) - 1
      /\ \A i \in 1 .. Len(q) - 1 : T[i] = q[i + 1]
      /\ Head(q) = q[1]
      /\ T \in Seq(S)
  BY LenProperties, HeadTailProperties
<1>2. IsFiniteSet(old) /\ IsFiniteSet(new)
  <2>1. IsFiniteSet(old)
    BY FramesCount, Zenon
  <2>2. IsFiniteSet(new)
    BY <1>1, FramesCount, Zenon
  <2> QED
    BY <2>1, <2>2
<1>3. Frames(c, q) = Cardinality(old) /\ Frames(c, T) = Cardinality(new)
  BY Zenon DEF Frames
<1> HIDE DEF T
<1>4. Shift \in Bijection(later, new)
  <2>1. \A i \in later : i \in Nat /\ i # 1 /\ i - 1 \in new
    BY <1>1
  <2>2. Shift \in [later -> new]
    BY <2>1
  <2>3. \A i, k \in later : Shift[i] = Shift[k] => i = k
    BY <2>1
  <2>4. \A k \in new : k + 1 \in later /\ Shift[k + 1] = k
    BY <1>1
  <2> QED
    BY <2>2, <2>3, <2>4, Zenon DEF Bijection, Injection, Surjection, IsInjective
<1>5. Cardinality(new) = Cardinality(later)
  <2> HIDE DEF old, new, later, Shift
  <2>1. IsFiniteSet(later)
    BY <1>2, FS_RemoveElement DEF later
  <2> QED
    BY <2>1, <1>4, FS_Bijection DEF ExistsBijection
<1>6. 1 \in old <=> Head(q) = c
  BY <1>1
<1> HIDE DEF old, new
<1>7. Cardinality(later) = IF 1 \in old THEN Cardinality(old) - 1 ELSE Cardinality(old)
  BY <1>2, FS_RemoveElement
<1>8. Cardinality(old) \in Nat
  BY <1>2, FS_CardinalityType
<1> HIDE DEF later
<1>9. Cardinality(old) = Cardinality(new) + (IF Head(q) = c THEN 1 ELSE 0)
  BY <1>5, <1>6, <1>7, <1>8
<1> QED
  BY <1>3, <1>9 DEF T

-----------------------------------------------------------------------------
(***************************************************************************)
(* The parts of the invariant that an action can disturb                   *)
(***************************************************************************)
LEMMA RpcsApart ==
    McpAssumption => Nobody \notin Rpcs /\ Calls \subseteq Rpcs /\ StartupCalls \subseteq Rpcs
BY DEF McpAssumption, Rpcs

\* A frame in a pipe that has grown is the new one or was there before.
LEMMA AppendHolds ==
    ASSUME NEW S, NEW q \in Seq(S), NEW e \in S, NEW i \in DOMAIN Append(q, e)
    PROVE  Append(q, e)[i] = e \/ \E k \in DOMAIN q : q[k] = Append(q, e)[i]
<1>1. Append(q, e) \in Seq(S) /\ Len(Append(q, e)) = Len(q) + 1
  BY AppendProperties
<1>2. DOMAIN q = 1 .. Len(q) /\ Len(q) \in Nat
  BY LenProperties
<1>3. DOMAIN Append(q, e) = 1 .. Len(Append(q, e))
  BY <1>1, LenProperties
<1>4. /\ \A k \in 1 .. Len(q) : Append(q, e)[k] = q[k]
      /\ Append(q, e)[Len(q) + 1] = e
  BY AppendProperties
<1>5. i \in 1 .. Len(q) \/ i = Len(q) + 1
  BY <1>1, <1>2, <1>3
<1> QED
  BY <1>2, <1>4, <1>5

\* One invocation moves and stays in order: all of them are.
LEMMA RpcMoves ==
    ASSUME RpcInv, NEW c \in Rpcs, NEW R, RpcOk(R), rpc' = [rpc EXCEPT ![c] = R]
    PROVE  /\ RpcInv'
           /\ rpc'[c] = R
           /\ \A d \in Rpcs \ {c} : rpc'[d] = rpc[d]
BY DEF RpcInv, RpcOk, Rpc

\* The count of an invocation needs no more than its server, its sends, and that
\* it has been made, as long as no frame moves.
LEMMA CountKept ==
    ASSUME McpAssumption, RpcInv, CallInv, NEW c \in Rpcs, NEW R, RpcOk(R),
           rpc' = [rpc EXCEPT ![c] = R],
           c \in Calls => /\ R.server = rpc[c].server
                          /\ R.sends = rpc[c].sends
                          /\ R.pc # "idle",
           UNCHANGED <<stdin, wire, executed>>
    PROVE  RpcInv' /\ CallInv'
<1>1. RpcInv' /\ rpc'[c] = R /\ \A d \in Rpcs \ {c} : rpc'[d] = rpc[d]
  BY RpcMoves
<1>2. \A d \in Calls : /\ rpc'[d].server = rpc[d].server
                       /\ rpc'[d].sends = rpc[d].sends
                       /\ rpc'[d].pc = "idle" => rpc[d].pc = "idle"
  BY <1>1, RpcsApart
<1>3. ASSUME NEW d \in Calls
      PROVE  /\ IsFiniteSet(Posts(d, wire'))
             /\ Placed(d, rpc'[d], stdin', wire')
             /\ executed'[d] + Waiting(d, rpc'[d], stdin', wire') <= rpc'[d].sends
  <2>1. Placed(d, rpc'[d], stdin', wire')
    BY <1>2 DEF CallInv, Placed
  <2>2. Waiting(d, rpc'[d], stdin', wire') = Waiting(d, rpc[d], stdin, wire)
    BY <1>2 DEF Waiting
  <2> QED
    BY <1>2, <2>1, <2>2 DEF CallInv
<1> QED
  BY <1>1, <1>3 DEF CallInv

\* What an invocation looks like after a response or a transport error.
LEMMA AfterSend ==
    ASSUME McpAssumption, RpcInv, NEW c \in Rpcs, rpc[c].pc \in {"awaiting", "stderr"}
    PROVE  /\ RpcOk(AfterTransportError(rpc[c]))
           /\ AfterTransportError(rpc[c]).server = rpc[c].server
           /\ AfterTransportError(rpc[c]).sends = rpc[c].sends
           /\ AfterTransportError(rpc[c]).pc # "idle"
<1> DEFINE R == AfterTransportError(rpc[c])
<1>1. /\ RpcOk(rpc[c]) /\ rpc[c].server \in Servers
      /\ rpc[c].sends \in 0 .. MaxSends /\ MaxSends \in Nat
  BY DEF McpAssumption, RpcInv, RpcOk, Rpc
<1>2. /\ R \in Rpc /\ R.server = rpc[c].server /\ R.sends = rpc[c].sends
      /\ R.pc = IF rpc[c].sends < MaxSends THEN "ready" ELSE "failed"
  BY <1>1 DEF AfterTransportError, RpcOk, Rpc
<1> HIDE DEF R
<1>3. RpcOk(R) /\ R.pc # "idle"
  BY <1>1, <1>2 DEF RpcOk
<1> QED
  BY <1>2, <1>3 DEF R

\* What an invocation looks like after another send.
LEMMA NextSend ==
    ASSUME McpAssumption, RpcInv, NEW c \in Rpcs, rpc[c].pc = "ready",
           NEW pc \in {"draining", "awaiting", "raised"},
           pc = "draining" => rpc[c].server \in StdioServers
    PROVE  LET R == [rpc[c] EXCEPT !.pc = pc, !.sends = rpc[c].sends + 1] IN
           /\ RpcOk(R)
           /\ R.server = rpc[c].server
           /\ R.sends = rpc[c].sends + 1
           /\ R.pc = pc
           /\ rpc[c].sends \in Nat
<1> DEFINE n == rpc[c].sends + 1
           R == [rpc[c] EXCEPT !.pc = pc, !.sends = n]
<1>1. /\ rpc[c] \in Rpc /\ rpc[c].sends \in 0 .. MaxSends /\ rpc[c].sends < MaxSends
      /\ rpc[c].server \in Servers /\ MaxSends \in Nat
  BY DEF McpAssumption, RpcInv, RpcOk, Rpc
<1>2. n \in 0 .. MaxSends /\ rpc[c].sends \in Nat
  BY <1>1
<1> HIDE DEF n
<1>3. R \in Rpc /\ R.server = rpc[c].server /\ R.sends = n /\ R.pc = pc
  BY <1>1, <1>2 DEF Rpc
<1> HIDE DEF R
<1>4. RpcOk(R)
  BY <1>1, <1>3 DEF RpcOk
<1> QED
  BY <1>2, <1>3, <1>4 DEF n, R

\* The numbers in the count of an invocation are natural numbers.
LEMMA Counted ==
    ASSUME McpAssumption, IInv, NEW d \in Calls
    PROVE  /\ d \in Rpcs
           /\ executed[d] \in Nat
           /\ rpc[d].sends \in Nat
           /\ Placed(d, rpc[d], stdin, wire)
           /\ IsFiniteSet(Posts(d, wire))
           /\ executed[d] + Waiting(d, rpc[d], stdin, wire) <= rpc[d].sends
<1>1. d \in Rpcs
  BY RpcsApart
<1>2. rpc[d].sends \in 0 .. MaxSends /\ MaxSends \in Nat
  BY <1>1 DEF IInv, RpcInv, RpcOk, Rpc, McpAssumption
<1>3. rpc[d].sends \in Nat
  BY <1>2
<1> QED
  BY <1>1, <1>3 DEF IInv, CallInv

\* A response ends its invocation.
LEMMA ResponseKeeps ==
    ASSUME McpAssumption, RpcInv, CallInv, NEW c \in Rpcs, NEW from \in Rpcs,
           rpc[c].pc = "awaiting", Responds(c, from), UNCHANGED <<stdin, wire, executed>>
    PROVE  RpcInv' /\ CallInv'
<1>1. PICK pc \in {"answered", "failed", "raised"} :
         rpc' = [rpc EXCEPT ![c].pc = pc,
                            ![c].answer = IF pc = "answered" THEN from ELSE Nobody]
  BY DEF Responds
<1> DEFINE R == [rpc[c] EXCEPT !.pc = pc, !.answer = IF pc = "answered" THEN from ELSE Nobody]
<1>2. rpc' = [rpc EXCEPT ![c] = R]
  BY <1>1 DEF RpcInv
<1>3. /\ RpcOk(R)
      /\ R.server = rpc[c].server
      /\ R.sends = rpc[c].sends
      /\ R.pc # "idle"
  BY <1>1 DEF RpcInv, RpcOk, Rpc
<1> HIDE DEF R
<1> QED
  BY <1>2, <1>3, CountKept

-----------------------------------------------------------------------------
(***************************************************************************)
(* Initially, and call by call                                             *)
(***************************************************************************)
\* A client that has sent nothing, wherever its start-up is.
NothingSent ==
    /\ rpc = [c \in Rpcs |-> NoRpc]
    /\ lock = [s \in StdioServers |-> Nobody]
    /\ process = [s \in StdioServers |-> "none"]
    /\ stdin = [s \in StdioServers |-> <<>>]
    /\ stdout = [s \in StdioServers |-> <<>>]
    /\ wire = {}
    /\ executed = [c \in Calls |-> 0]
    /\ abandoned = [s \in StdioServers |-> FALSE]

LEMMA QuietEstablishes == McpAssumption /\ StartInv /\ NothingSent => IInv
<1> SUFFICES ASSUME McpAssumption, StartInv, NothingSent PROVE IInv
  OBVIOUS
<1> USE DEF NothingSent
<1>1. RpcOk(NoRpc)
  BY DEF RpcOk, Rpc, NoRpc, McpAssumption
<1>2. RpcInv
  BY <1>1 DEF RpcInv
<1>3. PipeInv
  BY DEF PipeInv, PipeTypes, Exchange
<1>4. ASSUME NEW c \in Calls
      PROVE  /\ IsFiniteSet(Posts(c, wire))
             /\ Placed(c, rpc[c], stdin, wire)
             /\ executed[c] + Waiting(c, rpc[c], stdin, wire) <= rpc[c].sends
  <2>1. Posts(c, wire) = {}
    BY DEF Posts
  <2>2. rpc[c] = NoRpc /\ executed[c] = 0
    BY RpcsApart
  <2>3. NoRpc.server \notin StdioServers /\ NoRpc.sends = 0
    BY DEF NoRpc, McpAssumption
  <2>4. Waiting(c, rpc[c], stdin, wire) = 0
    BY <2>1, <2>2, <2>3, FS_EmptySet DEF Waiting
  <2>5. Placed(c, rpc[c], stdin, wire)
    BY <2>1 DEF Placed
  <2>6. IsFiniteSet(Posts(c, wire))
    BY <2>1, FS_EmptySet
  <2> QED
    BY <2>2, <2>3, <2>4, <2>5, <2>6
<1>5. CallInv
  BY <1>4 DEF CallInv
<1> QED
  BY <1>2, <1>3, <1>5 DEF IInv

LEMMA InitEstablishes == McpAssumption /\ Init => IInv
<1>1. Init => StartInv /\ NothingSent
  BY DEF Init, StartInv, NothingSent, Methods
<1> QED
  BY <1>1, QuietEstablishes

LEMMA CallToolKeeps ==
    ASSUME McpAssumption, IInv, NEW c \in Calls, NEW t \in Tools, CallTool(c, t)
    PROVE  IInv'
<1> USE DEF CallTool
<1> DEFINE R == [rpc[c] EXCEPT !.pc = IF registry[t] = NoServer THEN "failed" ELSE "ready",
                               !.server = registry[t]]
<1>1. c \in Rpcs /\ rpc' = [rpc EXCEPT ![c] = R]
  BY RpcsApart DEF IInv, RpcInv
<1>2. RpcOk(R) /\ R.sends = rpc[c].sends /\ R.pc # "idle"
  <2>1. RpcOk(rpc[c]) /\ rpc[c].pc = "idle"
    BY <1>1 DEF IInv, RpcInv
  <2>2. registry[t] \in Servers \cup {NoServer}
    BY DEF IInv, StartInv
  <2>3. MaxSends \in Nat /\ 0 < MaxSends /\ NoServer \notin Servers
    BY DEF McpAssumption
  <2>4. R \in Rpc
    BY <2>1, <2>2 DEF RpcOk, Rpc
  <2>5. R.sends = rpc[c].sends /\ R.server = registry[t]
        /\ R.pc = IF registry[t] = NoServer THEN "failed" ELSE "ready"
    BY <2>1 DEF RpcOk, Rpc
  <2> HIDE DEF R
  <2> QED
    BY <2>1, <2>2, <2>3, <2>4, <2>5 DEF RpcOk
<1> HIDE DEF R
<1>3. RpcInv' /\ rpc'[c] = R /\ \A d \in Rpcs \ {c} : rpc'[d] = rpc[d]
  BY <1>1, <1>2, RpcMoves DEF IInv
<1>4. StartInv' /\ PipeInv'
  BY DEF IInv, StartInv, PipeInv, PipeTypes, stdioVars
<1>5. ASSUME NEW d \in Calls
      PROVE  /\ IsFiniteSet(Posts(d, wire'))
             /\ Placed(d, rpc'[d], stdin', wire')
             /\ executed'[d] + Waiting(d, rpc'[d], stdin', wire') <= rpc'[d].sends
  <2>1. UNCHANGED <<stdin, wire, executed>>
    BY DEF stdioVars, httpVars
  <2>2. CASE d # c
    <3>1. rpc'[d] = rpc[d]
      BY <1>3, <2>2, RpcsApart
    <3> QED
      BY <2>1, <3>1 DEF IInv, CallInv
  <2>3. CASE d = c
    <3>1. Placed(c, rpc[c], stdin, wire)
      BY DEF IInv, CallInv
    <3>2. (\A s \in StdioServers : \A i \in DOMAIN stdin[s] : stdin[s][i] # c)
          /\ Posts(c, wire) = {}
      BY <3>1 DEF Placed
    <3>3. Placed(c, R, stdin, wire)
      BY <3>2 DEF Placed
    <3>4. Waiting(c, rpc[c], stdin, wire) = 0 /\ Waiting(c, R, stdin, wire) = 0
      BY <3>2, FramesNone, FS_EmptySet DEF Waiting
    <3> QED
      BY <1>2, <1>3, <2>1, <2>3, <3>3, <3>4 DEF IInv, CallInv
  <2> QED
    BY <2>2, <2>3
<1>6. CallInv'
  BY <1>5 DEF IInv, CallInv, httpVars
<1> QED
  BY <1>3, <1>4, <1>6 DEF IInv

-----------------------------------------------------------------------------
(***************************************************************************)
(* HTTPTransport                                                           *)
(***************************************************************************)
LEMMA HttpPostsKeeps ==
    ASSUME McpAssumption, IInv, NEW c \in Rpcs, HttpPosts(c)
    PROVE  IInv'
<1> USE DEF HttpPosts
<1> DEFINE n == rpc[c].sends + 1
           R == [rpc[c] EXCEPT !.pc = "awaiting", !.sends = n]
<1>1. rpc' = [rpc EXCEPT ![c] = R]
  BY DEF IInv, RpcInv
<1>2. /\ RpcOk(R) /\ R.server = rpc[c].server /\ R.sends = n /\ R.pc = "awaiting"
      /\ n \in 1 .. MaxSends
      /\ R.server \notin StdioServers
  BY DEF IInv, RpcInv, RpcOk, Rpc, McpAssumption, HttpServers
<1>3. RpcInv' /\ rpc'[c] = R /\ \A d \in Rpcs \ {c} : rpc'[d] = rpc[d]
  BY <1>1, <1>2, RpcMoves DEF IInv
<1>4. StartInv' /\ PipeInv'
  BY DEF IInv, StartInv, PipeInv, PipeTypes, stdioVars
<1>5. UNCHANGED <<stdin, executed>>
  BY DEF stdioVars
<1>6. ASSUME NEW d \in Calls
      PROVE  /\ IsFiniteSet(Posts(d, wire'))
             /\ Placed(d, rpc'[d], stdin', wire')
             /\ executed'[d] + Waiting(d, rpc'[d], stdin', wire') <= rpc'[d].sends
  <2>1. d \in Rpcs
    BY RpcsApart
  <2>2. CASE d # c
    <3>1. rpc'[d] = rpc[d]
      BY <1>3, <2>1, <2>2
    <3>2. Posts(d, wire') = Posts(d, wire)
      BY <2>2 DEF Posts
    <3>3. Placed(d, rpc'[d], stdin', wire')
      <4>1. Placed(d, rpc[d], stdin, wire)
        BY DEF IInv, CallInv
      <4> QED
        BY <1>5, <3>1, <3>2, <4>1 DEF Placed
    <3> QED
      BY <1>5, <3>1, <3>2, <3>3 DEF IInv, CallInv, Waiting
  <2>3. CASE d = c
    <3> DEFINE p == <<c, n>>
               old == Posts(c, wire)
    <3>1. Posts(c, wire') = old \cup {p}
      BY <2>3 DEF Posts
    <3>2. Placed(c, R, stdin', wire')
      <4>1. Placed(c, rpc[c], stdin, wire)
        BY <2>3 DEF IInv, CallInv
      <4> QED
        BY <1>2, <1>5, <4>1 DEF Placed
    <3>3. IsFiniteSet(old) /\ executed[c] \in Nat /\ n \in Nat /\ n = rpc[c].sends + 1
      BY <1>2, <2>3 DEF IInv, CallInv
    <3>4. executed[c] + Cardinality(old) <= rpc[c].sends
      BY <1>2, <2>3 DEF IInv, CallInv, Waiting
    <3>5. rpc[c].sends \in Nat
      BY DEF IInv, RpcInv, RpcOk, Rpc, McpAssumption
    <3> HIDE DEF old, p
    <3>6. /\ IsFiniteSet(old \cup {p})
          /\ Cardinality(old \cup {p}) <= Cardinality(old) + 1
          /\ Cardinality(old) \in Nat
          /\ Cardinality(old \cup {p}) \in Nat
      <4>1. /\ IsFiniteSet(old \cup {p})
            /\ Cardinality(old \cup {p}) =
                  IF p \in old THEN Cardinality(old) ELSE Cardinality(old) + 1
        BY <3>3, FS_AddElement
      <4>2. Cardinality(old) \in Nat /\ Cardinality(old \cup {p}) \in Nat
        BY <3>3, <4>1, FS_CardinalityType
      <4> QED
        BY <4>1, <4>2
    <3>7. Waiting(c, R, stdin', wire') = Cardinality(old \cup {p})
      BY <1>2, <3>1 DEF Waiting
    <3> HIDE DEF R
    <3>8. executed'[c] + Waiting(c, R, stdin', wire') <= R.sends
      BY <1>2, <1>5, <3>3, <3>4, <3>5, <3>6, <3>7
    <3> QED
      BY <1>3, <2>3, <3>1, <3>2, <3>6, <3>8
  <2> QED
    BY <2>2, <2>3
<1>7. CallInv'
  <2>1. wire' \subseteq Calls \X (1 .. MaxSends)
    BY <1>2 DEF IInv, CallInv
  <2> QED
    BY <1>5, <1>6, <2>1 DEF IInv, CallInv
<1> QED
  BY <1>3, <1>4, <1>7 DEF IInv

LEMMA HttpExecutesKeeps ==
    ASSUME McpAssumption, IInv, NEW c \in Calls, NEW n \in 1 .. MaxSends, HttpExecutes(c, n)
    PROVE  IInv'
<1> USE DEF HttpExecutes
<1>1. UNCHANGED <<rpc, stdin>>
  BY DEF stdioVars
<1>2. RpcInv' /\ StartInv' /\ PipeInv'
  BY DEF IInv, RpcInv, StartInv, PipeInv, PipeTypes, stdioVars
<1>3. ASSUME NEW d \in Calls
      PROVE  /\ IsFiniteSet(Posts(d, wire'))
             /\ Placed(d, rpc'[d], stdin', wire')
             /\ executed'[d] + Waiting(d, rpc'[d], stdin', wire') <= rpc'[d].sends
  <2>1. Posts(d, wire') = Posts(d, wire) \ {<<c, n>>}
    BY DEF Posts
  <2>2. IsFiniteSet(Posts(d, wire')) /\ IsFiniteSet(Posts(d, wire))
    <3>1. IsFiniteSet(Posts(d, wire))
      BY DEF IInv, CallInv
    <3>2. IsFiniteSet(Posts(d, wire) \ {<<c, n>>})
      BY <3>1, FS_RemoveElement
    <3> QED
      BY <2>1, <3>1, <3>2
  <2>3. Placed(d, rpc'[d], stdin', wire')
    BY <1>1, <2>1 DEF IInv, CallInv, Placed
  <2>4. CASE d # c
    <3>1. Posts(d, wire') = Posts(d, wire)
      BY <2>4 DEF Posts
    <3>2. executed'[d] = executed[d]
      BY <2>4 DEF IInv, CallInv
    <3> QED
      BY <1>1, <2>2, <2>3, <3>1, <3>2 DEF IInv, CallInv, Waiting
  <2>5. CASE d = c
    <3> DEFINE old == Posts(c, wire)
    <3>1. <<c, n>> \in old
      BY DEF Posts
    <3>2. rpc[c].server \notin StdioServers
      BY <3>1, <2>5 DEF IInv, CallInv, Placed
    <3>3. executed[c] + Cardinality(old) <= rpc[c].sends
      BY <3>2, <2>5 DEF IInv, CallInv, Waiting
    <3>4. executed'[c] = executed[c] + 1 /\ executed[c] \in Nat
      BY <2>5 DEF IInv, CallInv
    <3>5. Waiting(c, rpc'[c], stdin', wire') = Cardinality(old \ {<<c, n>>})
      BY <1>1, <2>1, <2>5, <3>2 DEF Waiting
    <3>6. IsFiniteSet(old)
      BY <2>2, <2>5
    <3>7. rpc[c].sends \in Nat
      BY RpcsApart DEF IInv, RpcInv, RpcOk, Rpc, McpAssumption
    <3> HIDE DEF old
    <3>8. Cardinality(old \ {<<c, n>>}) = Cardinality(old) - 1 /\ Cardinality(old) \in Nat
      BY <3>1, <3>6, FS_RemoveElement, FS_CardinalityType
    <3>9. executed'[c] + Waiting(c, rpc'[c], stdin', wire') <= rpc'[c].sends
      BY <1>1, <3>3, <3>4, <3>5, <3>7, <3>8
    <3> QED
      BY <2>2, <2>3, <2>5, <3>9
  <2> QED
    BY <2>4, <2>5
<1>4. CallInv'
  <2>1. executed' \in [Calls -> Nat] /\ wire' \subseteq Calls \X (1 .. MaxSends)
    BY DEF IInv, CallInv
  <2> QED
    BY <1>3, <2>1 DEF CallInv
<1> QED
  BY <1>2, <1>4 DEF IInv

LEMMA HttpEndsKeeps ==
    ASSUME McpAssumption, IInv, NEW c \in Rpcs, HttpResponds(c) \/ HttpFails(c)
    PROVE  IInv'
<1>1. UNCHANGED <<startup, registry, stdioVars, httpVars>> /\ rpc[c].pc = "awaiting"
  BY DEF HttpResponds, HttpFails, AwaitingOn
<1>2. StartInv' /\ PipeInv'
  BY <1>1 DEF IInv, StartInv, PipeInv, PipeTypes, stdioVars
<1>3. UNCHANGED <<stdin, wire, executed>>
  BY <1>1 DEF stdioVars, httpVars
<1>4. CASE HttpResponds(c)
  BY <1>1, <1>2, <1>3, <1>4, ResponseKeeps DEF HttpResponds, IInv
<1>5. CASE HttpFails(c)
  <2>1. rpc' = [rpc EXCEPT ![c] = AfterTransportError(rpc[c])]
    BY <1>5 DEF HttpFails, IInv, RpcInv
  <2> QED
    BY <1>1, <1>2, <1>3, <2>1, AfterSend, CountKept DEF IInv
<1> QED
  BY <1>4, <1>5

-----------------------------------------------------------------------------
(***************************************************************************)
(* StdioTransport                                                          *)
(***************************************************************************)
\* The pipes of the other servers stay as they are: the moved one decides.
LEMMA OnePipeMoves ==
    ASSUME PipeInv, NEW s \in StdioServers,
           PipeTypes',
           \A z \in StdioServers \ {s} :
              /\ lock'[z] = lock[z] /\ process'[z] = process[z] /\ stdin'[z] = stdin[z]
              /\ stdout'[z] = stdout[z] /\ abandoned'[z] = abandoned[z],
           process'[s] \notin {"alive", "closed"} => stdin'[s] = <<>>,
           ~abandoned'[s] => Exchange(lock'[s], stdin'[s], stdout'[s])
    PROVE  PipeInv'
BY DEF PipeInv

\* A waiter that leaves the lock leaves empty pipes, or a process marked as abandoned.
LEMMA GivesUpKeeps ==
    ASSUME PipeInv, NEW s \in StdioServers, GivesUp(s), UNCHANGED <<process, stdin, stdout>>
    PROVE  PipeInv'
<1>1. PipeTypes'
  BY DEF GivesUp, PipeInv, PipeTypes
<1>2. /\ lock'[s] = Nobody /\ abandoned'[s] = (abandoned[s] \/ stdin[s] # <<>> \/ stdout[s] # <<>>)
      /\ \A z \in StdioServers \ {s} : lock'[z] = lock[z] /\ abandoned'[z] = abandoned[z]
  BY DEF GivesUp, PipeInv, PipeTypes
<1>3. ~abandoned'[s] => Exchange(lock'[s], stdin'[s], stdout'[s])
  BY <1>2 DEF Exchange
<1> QED
  BY <1>1, <1>2, <1>3, OnePipeMoves DEF PipeInv

LEMMA StdioWritesKeeps ==
    ASSUME McpAssumption, IInv, NEW c \in Rpcs, StdioWrites(c)
    PROVE  IInv'
<1> DEFINE s == rpc[c].server
           fresh == process[s] \in {"none", "reaped"}
           n == rpc[c].sends + 1
           pipe == IF process[s] = "exited" THEN stdin[s]
                   ELSE IF fresh THEN <<c>> ELSE Append(stdin[s], c)
<1>0. PICK pc \in {"draining", "awaiting"} :
         rpc' = [rpc EXCEPT ![c].pc = pc, ![c].sends = n]
  BY DEF StdioWrites
<1> DEFINE R == [rpc[c] EXCEPT !.pc = pc, !.sends = n]
<1>1. /\ rpc[c].pc = "ready" /\ s \in StdioServers /\ lock[s] = Nobody
      /\ rpc' = [rpc EXCEPT ![c] = R]
      /\ lock' = [lock EXCEPT ![s] = c]
      /\ process' = [process EXCEPT ![s] = IF fresh THEN "alive" ELSE @]
      /\ stdin' = [stdin EXCEPT ![s] = pipe]
      /\ stdout' = [stdout EXCEPT ![s] = IF fresh THEN <<>> ELSE @]
      /\ abandoned' = [abandoned EXCEPT ![s] = @ /\ ~fresh]
      /\ UNCHANGED <<startup, registry, wire, executed>>
  <2>1. rpc' = [rpc EXCEPT ![c] = R]
    BY <1>0 DEF IInv, RpcInv
  <2> HIDE DEF R
  <2> QED
    BY <2>1 DEF StdioWrites, httpVars
<1>2. /\ RpcOk(R) /\ R.server = s /\ R.sends = n /\ R.pc = pc
      /\ rpc[c].sends \in Nat
  BY <1>1, NextSend, Zenon DEF IInv
<1>3. RpcInv' /\ rpc'[c] = R /\ \A d \in Rpcs \ {c} : rpc'[d] = rpc[d]
  BY <1>1, <1>2, RpcMoves DEF IInv
<1>4. stdin[s] \in Seq(Rpcs) /\ stdout[s] \in Seq(Rpcs)
      /\ process[s] \in {"none", "alive", "closed", "exited", "reaped"} /\ abandoned[s] \in BOOLEAN
  BY <1>1 DEF IInv, PipeInv, PipeTypes
<1>5. process[s] \notin {"alive", "closed"} => stdin[s] = <<>>
  BY <1>1 DEF IInv, PipeInv
<1>6. pipe \in {<<>>, <<c>>, Append(stdin[s], c)} /\ pipe \in Seq(Rpcs)
  BY <1>4, <1>5
<1> HIDE DEF R, n
<1>7. PipeInv'
  <2>1. PipeTypes'
    <3>1. (IF fresh THEN "alive" ELSE process[s]) \in {"none", "alive", "closed", "exited", "reaped"}
          /\ (IF fresh THEN <<>> ELSE stdout[s]) \in Seq(Rpcs)
          /\ (abandoned[s] /\ ~fresh) \in BOOLEAN
      BY <1>4
    <3> QED
      BY <1>1, <1>6, <3>1 DEF IInv, PipeInv, PipeTypes
  <2>2. \A z \in StdioServers \ {s} :
           /\ lock'[z] = lock[z] /\ process'[z] = process[z] /\ stdin'[z] = stdin[z]
           /\ stdout'[z] = stdout[z] /\ abandoned'[z] = abandoned[z]
    BY <1>1 DEF IInv, PipeInv, PipeTypes
  <2>3. /\ lock'[s] = c /\ process'[s] = IF fresh THEN "alive" ELSE process[s]
        /\ stdin'[s] = pipe /\ stdout'[s] = IF fresh THEN <<>> ELSE stdout[s]
        /\ abandoned'[s] = (abandoned[s] /\ ~fresh)
    BY <1>1 DEF IInv, PipeInv, PipeTypes
  <2>4. process'[s] \notin {"alive", "closed"} => stdin'[s] = <<>>
    BY <1>4, <1>5, <2>3
  <2>5. ASSUME ~abandoned'[s]
        PROVE  Exchange(lock'[s], stdin'[s], stdout'[s])
    <3>1. c # Nobody
      BY RpcsApart
    <3>2. CASE fresh
      BY <2>3, <3>1, <3>2 DEF Exchange
    <3>3. CASE ~fresh
      <4>1. Exchange(lock[s], stdin[s], stdout[s])
        BY <1>1, <2>3, <2>5, <3>3 DEF IInv, PipeInv
      <4>2. stdin[s] = <<>> /\ stdout[s] = <<>>
        BY <1>1, <4>1 DEF Exchange
      <4>3. Append(<<>>, c) = <<c>>
        OBVIOUS
      <4>4. pipe = <<>> \/ pipe = <<c>>
        BY <4>2, <4>3
      <4> QED
        BY <2>3, <3>1, <3>3, <4>2, <4>4 DEF Exchange
    <3> QED
      BY <3>2, <3>3
  <2> QED
    BY <1>1, <2>1, <2>2, <2>4, <2>5, OnePipeMoves DEF IInv
<1>8. ASSUME NEW d \in Calls
      PROVE  /\ IsFiniteSet(Posts(d, wire'))
             /\ Placed(d, rpc'[d], stdin', wire')
             /\ executed'[d] + Waiting(d, rpc'[d], stdin', wire') <= rpc'[d].sends
  <2>1. /\ d \in Rpcs /\ executed[d] \in Nat /\ rpc[d].sends \in Nat
        /\ Placed(d, rpc[d], stdin, wire) /\ IsFiniteSet(Posts(d, wire))
        /\ executed[d] + Waiting(d, rpc[d], stdin, wire) <= rpc[d].sends
    BY Counted
  <2>2. rpc'[d].server = rpc[d].server
        /\ rpc'[d].sends = rpc[d].sends + (IF c = d THEN 1 ELSE 0)
        /\ (d = c => rpc'[d].pc # "idle") /\ (d # c => rpc'[d] = rpc[d])
    BY <1>2, <1>3, <2>1 DEF n
  <2>3. stdin'[s] = pipe /\ \A z \in StdioServers \ {s} : stdin'[z] = stdin[z]
    BY <1>1 DEF IInv, PipeInv, PipeTypes
  <2> HIDE DEF pipe
  <2>4. \A i \in DOMAIN pipe : pipe[i] = d => d = c \/ \E k \in DOMAIN stdin[s] : stdin[s][k] = d
    <3>1. CASE pipe = <<>>
      BY <3>1
    <3>2. CASE pipe = <<c>>
      BY <3>2
    <3>3. CASE pipe = Append(stdin[s], c)
      <4>1. \A i \in DOMAIN Append(stdin[s], c) :
               \/ Append(stdin[s], c)[i] = c
               \/ \E k \in DOMAIN stdin[s] : stdin[s][k] = Append(stdin[s], c)[i]
        BY <1>4, AppendHolds
      <4> QED
        BY <3>3, <4>1
    <3> QED
      BY <1>6, <3>1, <3>2, <3>3
  <2>5. Placed(d, rpc'[d], stdin', wire')
    <3>1. ASSUME NEW z \in StdioServers, NEW i \in DOMAIN stdin'[z], stdin'[z][i] = d
          PROVE  rpc'[d].server = z /\ rpc'[d].pc # "idle"
      <4>1. CASE z # s
        BY <2>1, <2>2, <2>3, <3>1, <4>1 DEF Placed
      <4>2. CASE z = s
        BY <1>1, <2>1, <2>2, <2>3, <2>4, <3>1, <4>2 DEF Placed
      <4> QED
        BY <4>1, <4>2
    <3>2. ASSUME NEW p \in Posts(d, wire')
          PROVE  rpc'[d].server \notin StdioServers /\ rpc'[d].pc # "idle"
      BY <1>1, <2>1, <2>2, <3>2 DEF Placed
    <3> QED
      BY <3>1, <3>2 DEF Placed
  <2>6. Frames(d, pipe) \in Nat /\ Frames(d, stdin[s]) \in Nat
        /\ Frames(d, pipe) <= Frames(d, stdin[s]) + (IF c = d THEN 1 ELSE 0)
    <3>1. Frames(d, pipe) \in Nat /\ Frames(d, stdin[s]) \in Nat
      BY <1>4, <1>6, FramesCount
    <3>2. CASE pipe = <<>>
      <4>1. Frames(d, pipe) = 0
        BY <3>2, FramesNone
      <4> QED
        BY <3>1, <4>1
    <3>3. CASE pipe = <<c>>
      <4>1. Frames(d, pipe) = IF c = d THEN 1 ELSE 0
        BY <3>3, FramesOne
      <4> QED
        BY <3>1, <4>1
    <3>4. CASE pipe = Append(stdin[s], c)
      <4>1. Frames(d, pipe) = Frames(d, stdin[s]) + (IF c = d THEN 1 ELSE 0)
        BY <1>4, <3>4, FramesAppend
      <4> QED
        BY <3>1, <4>1
    <3> QED
      BY <1>6, <3>2, <3>3, <3>4
  <2>7. executed'[d] + Waiting(d, rpc'[d], stdin', wire') <= rpc'[d].sends
    <3>1. CASE rpc[d].server = s
      BY <1>1, <2>1, <2>2, <2>3, <2>6, <3>1 DEF Waiting
    <3>2. CASE rpc[d].server # s
      <4>1. Waiting(d, rpc'[d], stdin', wire') = Waiting(d, rpc[d], stdin, wire)
        BY <1>1, <2>2, <2>3, <3>2 DEF Waiting
      <4>2. c # d
        BY <3>2
      <4> QED
        BY <1>1, <2>1, <2>2, <4>1, <4>2
    <3> QED
      BY <3>1, <3>2
  <2> QED
    BY <1>1, <2>1, <2>5, <2>7
<1>9. CallInv'
  BY <1>1, <1>8 DEF IInv, CallInv
<1>10. StartInv'
  BY <1>1 DEF IInv, StartInv
<1> QED
  BY <1>3, <1>7, <1>9, <1>10 DEF IInv

\* What else the caller does: whoever leaves the lock leaves the pipes empty or the
\* process marked as abandoned.
LEMMA StdioEndsKeeps ==
    ASSUME McpAssumption, IInv, NEW c \in Rpcs,
           \/ StdioBreaks(c) \/ StdioDrains(c) \/ StdioDrainBreaks(c) \/ StdioReads(c)
           \/ StdioEOF(c) \/ StdioFails(c) \/ StdioTimesOut(c)
    PROVE  IInv'
<1> DEFINE s == rpc[c].server
<1>0. StartInv' /\ UNCHANGED <<stdin, wire, executed, process>>
  BY DEF StdioBreaks, StdioDrains, StdioDrainBreaks, StdioReads, StdioEOF, StdioFails,
         StdioTimesOut, httpVars, stdioVars, IInv, StartInv
<1>1. CASE StdioBreaks(c)
  <2> DEFINE R == [rpc[c] EXCEPT !.pc = "raised", !.sends = rpc[c].sends + 1]
  <2>1. rpc[c].pc = "ready" /\ s \in StdioServers /\ rpc' = [rpc EXCEPT ![c] = R]
        /\ UNCHANGED stdioVars
    BY <1>1 DEF StdioBreaks, IInv, RpcInv
  <2>2. PipeInv'
    BY <2>1 DEF IInv, PipeInv, PipeTypes, stdioVars
  <2>3. RpcOk(R) /\ R.server = s /\ R.sends = rpc[c].sends + 1 /\ R.pc = "raised"
    BY <2>1, NextSend, Zenon DEF IInv
  <2>4. RpcInv' /\ rpc'[c] = R /\ \A d \in Rpcs \ {c} : rpc'[d] = rpc[d]
    BY <2>1, <2>3, RpcMoves DEF IInv
  <2> HIDE DEF R
  <2>5. ASSUME NEW d \in Calls
        PROVE  /\ IsFiniteSet(Posts(d, wire'))
               /\ Placed(d, rpc'[d], stdin', wire')
               /\ executed'[d] + Waiting(d, rpc'[d], stdin', wire') <= rpc'[d].sends
    <3>1. /\ rpc'[d].server = rpc[d].server
          /\ rpc'[d].sends = rpc[d].sends \/ rpc'[d].sends = rpc[d].sends + 1
          /\ rpc'[d].pc = "idle" => rpc[d].pc = "idle"
      BY <2>3, <2>4, RpcsApart
    <3>2. /\ executed[d] \in Nat /\ rpc[d].sends \in Nat
          /\ Placed(d, rpc[d], stdin, wire) /\ IsFiniteSet(Posts(d, wire))
          /\ executed[d] + Waiting(d, rpc[d], stdin, wire) <= rpc[d].sends
      BY Counted
    <3>3. Waiting(d, rpc[d], stdin, wire) \in Nat
      <4>1. \A z \in StdioServers : stdin[z] \in Seq(Rpcs)
        BY DEF IInv, PipeInv, PipeTypes
      <4> QED
        BY <3>2, <4>1, FramesCount, FS_CardinalityType DEF Waiting
    <3>4. Waiting(d, rpc'[d], stdin', wire') = Waiting(d, rpc[d], stdin, wire)
      BY <1>0, <3>1 DEF Waiting
    <3>5. Placed(d, rpc'[d], stdin', wire')
      BY <1>0, <3>1, <3>2 DEF Placed
    <3> QED
      BY <1>0, <3>1, <3>2, <3>3, <3>4, <3>5
  <2>6. CallInv'
    BY <1>0, <2>5 DEF IInv, CallInv
  <2> QED
    BY <1>0, <2>2, <2>4, <2>6 DEF IInv
<1>2. CASE StdioReads(c)
  <2>1. /\ rpc[c].pc = "awaiting" /\ s \in StdioServers /\ stdout[s] # <<>>
        /\ Responds(c, Head(stdout[s]))
        /\ stdout' = [stdout EXCEPT ![s] = Tail(@)]
        /\ lock' = [lock EXCEPT ![s] = Nobody]
        /\ UNCHANGED abandoned
    BY <1>2 DEF StdioReads, AwaitingOn
  <2>2. stdout[s] \in Seq(Rpcs)
    BY <2>1 DEF IInv, PipeInv, PipeTypes
  <2>3. Head(stdout[s]) \in Rpcs /\ Tail(stdout[s]) \in Seq(Rpcs)
    BY <2>1, <2>2, HeadTailProperties
  <2>4. RpcInv' /\ CallInv'
    BY <1>0, <2>1, <2>3, ResponseKeeps DEF IInv
  <2>5. PipeInv'
    <3>1. PipeTypes'
      BY <1>0, <2>1, <2>3 DEF IInv, PipeInv, PipeTypes
    <3>2. /\ lock'[s] = Nobody /\ stdout'[s] = Tail(stdout[s])
          /\ \A z \in StdioServers \ {s} : lock'[z] = lock[z] /\ stdout'[z] = stdout[z]
      BY <2>1 DEF IInv, PipeInv, PipeTypes
    <3>3. process[s] \notin {"alive", "closed"} => stdin[s] = <<>>
      BY <2>1 DEF IInv, PipeInv
    <3>4. ASSUME ~abandoned[s]
          PROVE  Exchange(Nobody, stdin[s], Tail(stdout[s]))
      <4>1. Exchange(lock[s], stdin[s], stdout[s])
        BY <2>1, <3>4 DEF IInv, PipeInv
      <4>2. stdin[s] = <<>> /\ stdout[s] = <<lock[s]>>
        BY <2>1, <4>1 DEF Exchange
      <4>3. Tail(<<lock[s]>>) = <<>>
        OBVIOUS
      <4> QED
        BY <4>2, <4>3 DEF Exchange
    <3> QED
      BY <1>0, <2>1, <3>1, <3>2, <3>3, <3>4, OnePipeMoves DEF IInv
  <2> QED
    BY <1>0, <2>4, <2>5 DEF IInv
<1>3. CASE StdioDrains(c) \/ StdioEOF(c)
  <2> DEFINE pc == IF rpc[c].pc = "draining" THEN "awaiting" ELSE "stderr"
             R == [rpc[c] EXCEPT !.pc = pc]
  <2>1. /\ rpc[c].pc = "draining" \/ (rpc[c].pc = "awaiting" /\ s \in StdioServers)
        /\ rpc' = [rpc EXCEPT ![c] = R]
        /\ UNCHANGED stdioVars
    <3>1. CASE StdioDrains(c)
      BY <3>1 DEF StdioDrains, IInv, RpcInv
    <3>2. CASE StdioEOF(c)
      BY <3>2 DEF StdioEOF, AwaitingOn, IInv, RpcInv
    <3> QED
      BY <1>3, <3>1, <3>2
  <2>2. RpcOk(R) /\ R.server = s /\ R.sends = rpc[c].sends /\ R.pc # "idle"
    BY <2>1 DEF IInv, RpcInv, RpcOk, Rpc
  <2> HIDE DEF R
  <2>3. RpcInv' /\ CallInv'
    BY <1>0, <2>1, <2>2, CountKept DEF IInv
  <2>4. PipeInv'
    BY <2>1 DEF IInv, PipeInv, PipeTypes, stdioVars
  <2> QED
    BY <1>0, <2>3, <2>4 DEF IInv
<1>4. CASE StdioFails(c)
  <2>1. /\ rpc[c].pc = "stderr" /\ GivesUp(s) /\ UNCHANGED stdout
        /\ rpc' = [rpc EXCEPT ![c] = AfterTransportError(rpc[c])]
    BY <1>4 DEF StdioFails, IInv, RpcInv
  <2>2. s \in StdioServers
    BY <2>1 DEF IInv, RpcInv, RpcOk
  <2>3. RpcInv' /\ CallInv'
    BY <1>0, <2>1, AfterSend, CountKept DEF IInv
  <2>4. PipeInv'
    BY <1>0, <2>1, <2>2, GivesUpKeeps DEF IInv
  <2> QED
    BY <1>0, <2>3, <2>4 DEF IInv
<1>5. CASE StdioDrainBreaks(c) \/ StdioTimesOut(c)
  <2> DEFINE R == [rpc[c] EXCEPT !.pc = "raised"]
  <2>1. /\ rpc[c].pc = "draining" \/ s \in StdioServers
        /\ rpc' = [rpc EXCEPT ![c] = R]
        /\ GivesUp(s) /\ UNCHANGED stdout
    BY <1>5 DEF StdioDrainBreaks, StdioTimesOut, AwaitingOn, IInv, RpcInv
  <2>2. s \in StdioServers
    BY <2>1 DEF IInv, RpcInv, RpcOk
  <2>3. RpcOk(R) /\ R.server = s /\ R.sends = rpc[c].sends /\ R.pc # "idle"
    BY <2>1 DEF IInv, RpcInv, RpcOk, Rpc
  <2> HIDE DEF R
  <2>4. RpcInv' /\ CallInv'
    BY <1>0, <2>1, <2>3, CountKept DEF IInv
  <2>5. PipeInv'
    BY <1>0, <2>1, <2>2, GivesUpKeeps DEF IInv
  <2> QED
    BY <1>0, <2>4, <2>5 DEF IInv
<1> QED
  BY <1>1, <1>2, <1>3, <1>4, <1>5

LEMMA CancelledKeeps ==
    ASSUME McpAssumption, IInv, NEW c \in Calls, Cancelled(c)
    PROVE  IInv'
<1> DEFINE s == rpc[c].server
           R == [rpc[c] EXCEPT !.pc = "cancelled"]
           holding == rpc[c].pc \in {"draining", "stderr"} \/ AwaitingOn(c, StdioServers)
<1>1. /\ c \in Rpcs
      /\ rpc' = [rpc EXCEPT ![c] = R]
      /\ UNCHANGED <<startup, registry, process, stdin, stdout, wire, executed>>
  BY RpcsApart DEF Cancelled, IInv, RpcInv, httpVars
<1>2. RpcOk(R) /\ R.server = s /\ R.sends = rpc[c].sends /\ R.pc # "idle"
  BY <1>1 DEF IInv, RpcInv, RpcOk, Rpc
<1> HIDE DEF R
<1>3. RpcInv' /\ CallInv'
  BY <1>1, <1>2, CountKept DEF IInv
<1>4. PipeInv'
  <2>1. CASE holding
    <3>1. s \in StdioServers
      BY <1>1, <2>1 DEF AwaitingOn, IInv, RpcInv, RpcOk
    <3>2. GivesUp(s)
      BY <2>1 DEF Cancelled
    <3> QED
      BY <1>1, <3>1, <3>2, GivesUpKeeps DEF IInv
  <2>2. CASE ~holding
    <3>1. UNCHANGED <<lock, abandoned>>
      BY <2>2 DEF Cancelled
    <3> QED
      BY <1>1, <3>1 DEF IInv, PipeInv, PipeTypes
  <2> QED
    BY <2>1, <2>2
<1> QED
  BY <1>1, <1>3, <1>4 DEF IInv, StartInv

-----------------------------------------------------------------------------
(***************************************************************************)
(* The child process                                                       *)
(***************************************************************************)
LEMMA ServerExecutesKeeps ==
    ASSUME McpAssumption, IInv, NEW s \in StdioServers, ServerExecutes(s)
    PROVE  IInv'
<1> DEFINE h == Head(stdin[s])
           rest == Tail(stdin[s])
           out == IF process[s] = "alive" THEN Append(stdout[s], h) ELSE stdout[s]
<1>1. /\ process[s] \in {"alive", "closed"} /\ stdin[s] # <<>>
      /\ executed' = [c \in Calls |-> IF c = h THEN executed[c] + 1 ELSE executed[c]]
      /\ stdout' = [stdout EXCEPT ![s] = out]
      /\ stdin' = [stdin EXCEPT ![s] = rest]
      /\ UNCHANGED <<startup, registry, rpc, lock, process, abandoned, wire>>
  BY DEF ServerExecutes, Lives
<1>2. stdin[s] \in Seq(Rpcs) /\ stdout[s] \in Seq(Rpcs)
  BY DEF IInv, PipeInv, PipeTypes
<1>3. h \in Rpcs /\ rest \in Seq(Rpcs) /\ out \in Seq(Rpcs)
  BY <1>1, <1>2, HeadTailProperties, AppendProperties
<1>4. /\ stdin'[s] = rest /\ stdout'[s] = out
      /\ \A z \in StdioServers \ {s} : stdin'[z] = stdin[z] /\ stdout'[z] = stdout[z]
  BY <1>1 DEF IInv, PipeInv, PipeTypes
<1>5. PipeInv'
  <2>1. PipeTypes'
    BY <1>1, <1>3 DEF IInv, PipeInv, PipeTypes
  <2>2. ASSUME ~abandoned[s]
        PROVE  Exchange(lock[s], rest, out)
    <3>1. Exchange(lock[s], stdin[s], stdout[s])
      BY <2>2 DEF IInv, PipeInv
    <3>2. lock[s] # Nobody /\ stdin[s] = <<lock[s]>> /\ stdout[s] = <<>>
      BY <1>1, <3>1 DEF Exchange
    <3>3. Head(<<lock[s]>>) = lock[s] /\ Tail(<<lock[s]>>) = <<>>
          /\ Append(<<>>, lock[s]) = <<lock[s]>>
      OBVIOUS
    <3> QED
      BY <3>2, <3>3 DEF Exchange
  <2> QED
    BY <1>1, <1>4, <2>1, <2>2, OnePipeMoves DEF IInv
<1>6. /\ DOMAIN stdin[s] = 1 .. Len(stdin[s]) /\ Len(stdin[s]) \in Nat /\ Len(stdin[s]) # 0
      /\ DOMAIN rest = 1 .. Len(stdin[s]) - 1
      /\ \A i \in 1 .. Len(stdin[s]) - 1 : rest[i] = stdin[s][i + 1]
      /\ h = stdin[s][1]
  BY <1>1, <1>2, <1>3, LenProperties, HeadTailProperties
<1>7. \A d : Frames(d, stdin[s]) = Frames(d, rest) + (IF h = d THEN 1 ELSE 0)
             /\ Frames(d, rest) \in Nat
  BY <1>1, <1>2, <1>3, FramesTail, FramesCount
<1> HIDE DEF h, rest
<1>8. ASSUME NEW d \in Calls
      PROVE  /\ IsFiniteSet(Posts(d, wire'))
             /\ Placed(d, rpc'[d], stdin', wire')
             /\ executed'[d] + Waiting(d, rpc'[d], stdin', wire') <= rpc'[d].sends
  <2>1. /\ executed[d] \in Nat /\ rpc[d].sends \in Nat
        /\ Placed(d, rpc[d], stdin, wire) /\ IsFiniteSet(Posts(d, wire))
        /\ executed[d] + Waiting(d, rpc[d], stdin, wire) <= rpc[d].sends
    BY Counted
  <2>2. executed'[d] = executed[d] + (IF h = d THEN 1 ELSE 0)
    BY <1>1, <2>1
  <2>3. Placed(d, rpc'[d], stdin', wire')
    <3>1. ASSUME NEW z \in StdioServers, NEW i \in DOMAIN stdin'[z], stdin'[z][i] = d
          PROVE  rpc[d].server = z /\ rpc[d].pc # "idle"
      <4>1. \E k \in DOMAIN stdin[z] : stdin[z][k] = d
        <5>1. CASE z # s
          BY <1>4, <3>1, <5>1
        <5>2. CASE z = s
          <6>1. i + 1 \in DOMAIN stdin[s] /\ stdin[s][i + 1] = d
            BY <1>4, <1>6, <3>1, <5>2
          <6> QED
            BY <5>2, <6>1
        <5> QED
          BY <5>1, <5>2
      <4> QED
        BY <2>1, <4>1 DEF Placed
    <3> QED
      BY <1>1, <2>1, <3>1 DEF Placed
  <2>4. h = d => rpc[d].server = s
    <3>1. 1 \in DOMAIN stdin[s]
      BY <1>6
    <3> QED
      BY <1>6, <2>1, <3>1 DEF Placed
  <2>5. CASE rpc[d].server = s
    <3>1. Waiting(d, rpc[d], stdin, wire) = Frames(d, stdin[s])
          /\ Waiting(d, rpc'[d], stdin', wire') = Frames(d, rest)
      BY <1>1, <1>4, <2>5 DEF Waiting
    <3> QED
      BY <1>1, <1>7, <2>1, <2>2, <2>3, <3>1
  <2>6. CASE rpc[d].server # s
    <3>1. Waiting(d, rpc'[d], stdin', wire') = Waiting(d, rpc[d], stdin, wire)
      BY <1>1, <1>4, <2>6 DEF Waiting
    <3>2. executed'[d] = executed[d]
      BY <2>1, <2>2, <2>4, <2>6
    <3> QED
      BY <1>1, <2>1, <2>3, <3>1, <3>2
  <2> QED
    BY <2>5, <2>6
<1>9. CallInv'
  <2>1. executed' \in [Calls -> Nat]
    BY <1>1 DEF IInv, CallInv
  <2> QED
    BY <1>1, <1>8, <2>1 DEF IInv, CallInv
<1> QED
  BY <1>1, <1>5, <1>9 DEF IInv, RpcInv, StartInv

LEMMA ServerExitsKeeps ==
    ASSUME McpAssumption, IInv, NEW s \in StdioServers, ServerExits(s)
    PROVE  IInv'
<1>1. /\ process' = [process EXCEPT ![s] = "exited"]
      /\ stdin' = [stdin EXCEPT ![s] = <<>>]
      /\ UNCHANGED <<startup, registry, rpc, lock, stdout, abandoned, wire, executed>>
  BY DEF ServerExits, httpVars
<1>2. /\ process'[s] = "exited" /\ stdin'[s] = <<>>
      /\ \A z \in StdioServers \ {s} : process'[z] = process[z] /\ stdin'[z] = stdin[z]
  BY <1>1 DEF IInv, PipeInv, PipeTypes
<1>3. PipeInv'
  <2>1. PipeTypes'
    <3>1. <<>> \in Seq(Rpcs)
      OBVIOUS
    <3> QED
      BY <1>1, <3>1 DEF IInv, PipeInv, PipeTypes
  <2>2. ~abandoned[s] => Exchange(lock[s], <<>>, stdout[s])
    BY DEF IInv, PipeInv, Exchange
  <2> QED
    BY <1>1, <1>2, <2>1, <2>2, OnePipeMoves DEF IInv
<1>4. ASSUME NEW d \in Calls
      PROVE  /\ IsFiniteSet(Posts(d, wire'))
             /\ Placed(d, rpc'[d], stdin', wire')
             /\ executed'[d] + Waiting(d, rpc'[d], stdin', wire') <= rpc'[d].sends
  <2>1. /\ executed[d] \in Nat /\ rpc[d].sends \in Nat
        /\ Placed(d, rpc[d], stdin, wire) /\ IsFiniteSet(Posts(d, wire))
        /\ executed[d] + Waiting(d, rpc[d], stdin, wire) <= rpc[d].sends
    BY Counted
  <2>2. Placed(d, rpc'[d], stdin', wire')
    BY <1>1, <1>2, <2>1 DEF Placed
  <2>3. CASE rpc[d].server = s
    <3>1. Waiting(d, rpc'[d], stdin', wire') = 0
      BY <1>1, <1>2, <2>3, FramesNone DEF Waiting
    <3>2. Waiting(d, rpc[d], stdin, wire) \in Nat
      <4>1. stdin[s] \in Seq(Rpcs)
        BY DEF IInv, PipeInv, PipeTypes
      <4> QED
        BY <2>3, <4>1, FramesCount DEF Waiting
    <3> QED
      BY <1>1, <2>1, <2>2, <3>1, <3>2
  <2>4. CASE rpc[d].server # s
    <3>1. Waiting(d, rpc'[d], stdin', wire') = Waiting(d, rpc[d], stdin, wire)
      BY <1>1, <1>2, <2>4 DEF Waiting
    <3> QED
      BY <1>1, <2>1, <2>2, <3>1
  <2> QED
    BY <2>3, <2>4
<1>5. CallInv'
  BY <1>1, <1>4 DEF IInv, CallInv
<1> QED
  BY <1>1, <1>3, <1>5 DEF IInv, RpcInv, StartInv

LEMMA ProcessChangesKeeps ==
    ASSUME IInv, NEW s \in StdioServers, ServerCloses(s) \/ ReturncodeSet(s)
    PROVE  IInv'
<1>1. /\ \/ process[s] = "alive" /\ process' = [process EXCEPT ![s] = "closed"]
         \/ process[s] = "exited" /\ process' = [process EXCEPT ![s] = "reaped"]
      /\ UNCHANGED <<startup, registry, rpc, lock, stdin, stdout, abandoned, wire, executed>>
  BY DEF ServerCloses, ReturncodeSet, httpVars
<1>2. PipeInv'
  BY <1>1 DEF IInv, PipeInv, PipeTypes
<1> QED
  BY <1>1, <1>2 DEF IInv, RpcInv, StartInv, CallInv

-----------------------------------------------------------------------------
(***************************************************************************)
(* Start-up                                                                *)
(***************************************************************************)
LEMMA StartupAsksKeeps ==
    ASSUME McpAssumption, IInv, NEW s \in Servers, StartupAsks(s)
    PROVE  IInv'
<1> DEFINE c == <<startup.pc, s>>
           R == [rpc[c] EXCEPT !.pc = "ready", !.server = s]
<1>1. c \in StartupCalls /\ rpc[c].pc = "idle"
  BY DEF StartupAsks, Asked, StartupCalls
<1>2. c \in Rpcs /\ c \notin Calls
  BY <1>1, RpcsApart DEF McpAssumption
<1> HIDE DEF c
<1>3. rpc' = [rpc EXCEPT ![c] = R]
      /\ UNCHANGED <<startup, registry, stdioVars, wire, executed>>
  BY <1>2 DEF StartupAsks, IInv, RpcInv, httpVars, c
<1>4. RpcOk(R)
  <2>1. rpc[c] \in Rpc /\ rpc[c].sends = 0 /\ 0 < MaxSends
    BY <1>1, <1>2 DEF IInv, RpcInv, RpcOk, McpAssumption
  <2> QED
    BY <2>1 DEF RpcOk, Rpc
<1> HIDE DEF R
<1>5. RpcInv' /\ CallInv'
  BY <1>2, <1>3, <1>4, CountKept DEF IInv, stdioVars
<1>6. StartInv' /\ PipeInv'
  BY <1>3 DEF IInv, StartInv, PipeInv, PipeTypes, stdioVars
<1> QED
  BY <1>5, <1>6 DEF IInv

LEMMA StartupHearsKeeps ==
    ASSUME McpAssumption, IInv, NEW s \in Servers, StartupHears(s)
    PROVE  IInv'
<1> DEFINE c == <<startup.pc, s>>
<1>1. c \in StartupCalls
  BY DEF StartupHears, StartupCalls
<1>2. c \in Rpcs /\ c \notin Calls
  BY <1>1, RpcsApart DEF McpAssumption
<1>3. rpc' = [rpc EXCEPT ![c] = NoRpc] /\ UNCHANGED <<stdioVars, wire, executed>>
  BY DEF StartupHears, httpVars
<1>4. RpcOk(NoRpc)
  BY DEF RpcOk, Rpc, NoRpc, McpAssumption
<1> HIDE DEF c
<1>5. RpcInv' /\ CallInv'
  BY <1>2, <1>3, <1>4, CountKept DEF IInv, stdioVars
<1>6. StartInv'
  <2>1. registry' \in [Tools -> Servers \cup {NoServer}]
    BY DEF StartupHears, IInv, StartInv
  <2>2. startup' \in [pc : Methods \cup {"serving", "crashed"}, todo : SUBSET Servers]
    BY DEF StartupHears, IInv, StartInv, Methods
  <2> QED
    BY <2>1, <2>2 DEF StartInv
<1>7. PipeInv'
  BY <1>3 DEF IInv, PipeInv, PipeTypes, stdioVars
<1> QED
  BY <1>5, <1>6, <1>7 DEF IInv

LEMMA StartupCrashesKeeps ==
    ASSUME IInv, NEW s \in Servers, StartupCrashes(s)
    PROVE  IInv'
<1>1. StartInv'
  BY DEF StartupCrashes, IInv, StartInv
<1>2. UNCHANGED <<rpc, lock, process, stdin, stdout, abandoned, wire, executed>>
  BY DEF StartupCrashes, stdioVars, httpVars
<1>3. RpcInv' /\ PipeInv' /\ CallInv'
  BY <1>2 DEF IInv, RpcInv, PipeInv, PipeTypes, CallInv
<1> QED
  BY <1>1, <1>3 DEF IInv

-----------------------------------------------------------------------------
LEMMA StepKeeps == McpAssumption /\ IInv /\ [Next]_vars => IInv'
<1> SUFFICES ASSUME McpAssumption, IInv, [Next]_vars PROVE IInv'
  OBVIOUS
<1>1. CASE UNCHANGED vars
  <2>1. UNCHANGED <<startup, registry, rpc, lock, process, stdin, stdout, abandoned, wire, executed>>
    BY <1>1 DEF vars, stdioVars, httpVars
  <2>2. RpcInv' /\ StartInv'
    BY <2>1 DEF IInv, RpcInv, StartInv
  <2>3. PipeInv' /\ CallInv'
    BY <2>1 DEF IInv, PipeInv, PipeTypes, CallInv
  <2> QED
    BY <2>2, <2>3 DEF IInv
<1>2. ASSUME NEW s \in Servers, StartupStep(s)
      PROVE  IInv'
  BY <1>2, StartupAsksKeeps, StartupHearsKeeps, StartupCrashesKeeps DEF StartupStep
<1>3. ASSUME NEW c \in Rpcs, Progress(c) \/ Unhangs(c)
      PROVE  IInv'
  BY <1>3, HttpPostsKeeps, HttpEndsKeeps, StdioWritesKeeps, StdioEndsKeeps DEF Progress, Unhangs
<1>4. ASSUME NEW s \in StdioServers,
             ServerExecutes(s) \/ ServerCloses(s) \/ ServerExits(s) \/ ReturncodeSet(s)
      PROVE  IInv'
  BY <1>4, ServerExecutesKeeps, ServerExitsKeeps, ProcessChangesKeeps
<1> QED
  BY <1>1, <1>2, <1>3, <1>4, CallToolKeeps, CancelledKeeps, HttpExecutesKeeps DEF Next

\* The inductive invariant holds in every reachable state of the client.
THEOREM Invariance == Spec => []IInv
BY InitEstablishes, StepKeeps, McpAssumption, PTL DEF Spec

\* _call, send and start-up keep their state in shape; above all, a tool is never
\* routed to a server that is not configured and no call is sent too often.
THEOREM TypeCorrectness == Spec => []TypeOK
<1>1. ASSUME IInv
      PROVE  TypeOK
  <2>1. rpc \in [Rpcs -> Rpc]
    BY <1>1 DEF IInv, RpcInv, RpcOk
  <2> QED
    BY <1>1, <2>1 DEF TypeOK, IInv, StartInv, PipeInv, PipeTypes, CallInv, Rpc
<1> QED
  BY <1>1, Invariance, PTL

\* StdioTransport._lock: whatever processes die and restart, a pipe that nobody gave
\* up on carries the one exchange of the lock's holder.
THEOREM ExchangeTheorem == Spec => []OneExchange
<1>1. ASSUME IInv, NEW s \in StdioServers, ~abandoned[s]
      PROVE  stdin[s] \o stdout[s] \in {<<>>, <<lock[s]>>}
  <2>1. Exchange(lock[s], stdin[s], stdout[s])
    BY <1>1 DEF IInv, PipeInv
  <2>2. <<>> \o <<>> = <<>> /\ <<lock[s]>> \o <<>> = <<lock[s]>>
        /\ <<>> \o <<lock[s]>> = <<lock[s]>>
    OBVIOUS
  <2> QED
    BY <2>1, <2>2 DEF Exchange
<1>2. IInv => OneExchange
  BY <1>1 DEF OneExchange
<1> QED
  BY <1>2, Invariance, PTL

\* _call: servers carry out an invocation, and may still carry it out after the caller
\* is gone, at most as often as it was sent, which is at most stop_after_attempt.
THEOREM ExecutionTheorem == Spec => []ExecutionsBounded
<1>1. ASSUME McpAssumption, IInv, NEW c \in Calls
      PROVE  executed[c] + Outstanding(c) <= rpc[c].sends /\ rpc[c].sends <= MaxSends
  <2>1. Outstanding(c) = Waiting(c, rpc[c], stdin, wire)
    BY DEF Outstanding, Waiting, Posts
  <2>2. rpc[c].sends \in 0 .. MaxSends /\ MaxSends \in Nat
    BY <1>1, RpcsApart DEF IInv, RpcInv, RpcOk, Rpc, McpAssumption
  <2>3. rpc[c].sends <= MaxSends
    BY <2>2
  <2> QED
    BY <1>1, <2>1, <2>3 DEF IInv, CallInv
<1>2. IInv => ExecutionsBounded
  BY <1>1, McpAssumption DEF ExecutionsBounded
<1> QED
  BY <1>2, Invariance, PTL
=============================================================================
