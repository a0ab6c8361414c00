-------------------------- MODULE ProactiveSLAProofs --------------------------
(***************************************************************************)
(* The cooldown of ProactiveSLA for any number of workers and approvals    *)
(* and any timing constants.                                               *)
(*                                                                         *)
(* An agent measures the cooldown from the start of the sweep, the promise *)
(* is about deliveries: Lag bounds the difference.  At a delivery it comes *)
(* from the sweep's own duration, and two clocks that tick together keep   *)
(* it afterwards, also when either of them saturates.                      *)
(***************************************************************************)
EXTENDS ProactiveSLA, TLAPS

Phases == {"off", "polling", "notifying", "sending", "sleeping"}

AgentRecord ==
    [pc : Phases,
     stopping : BOOLEAN,
     stale : SUBSET Approvals,
     sending : Approvals \cup {NoApproval},
     elapsed : 0 .. SlowSink,
     timer : 0 .. Poll]

Ages == 0 .. Horizon

RowInv ==
    /\ row \in [Approvals -> {"absent", "pending", "decided"}]
    /\ age \in [Approvals -> 0 .. SLA + 1]

\* One agent's memory, and the history that goes with it.
Memory(R, s, q) ==
    /\ R \in AgentRecord
    /\ R.pc = "sending" <=> R.sending # NoApproval
    /\ s \in [Approvals -> Ages]
    /\ q \in [Approvals -> Ages]

\* The rows of a sweep were stale when they were read, and they stay it.
StaleRows(R, rows, ages) == \A a \in R.stale : rows[a] # "absent" /\ ages[a] > SLA

\* An agent's own count of the cooldown runs ahead of the deliveries by no more
\* than a sweep, whose duration so far bounds what it has just recorded.
Lag(R, s, q) ==
    /\ \A a \in Approvals : s[a] <= q[a] + SlowSink
    /\ R.pc = "sending" => s[R.sending] <= R.elapsed

AgentInv ==
    /\ DOMAIN agent = Agents /\ agent = [w \in Agents |-> agent[w]]
    /\ DOMAIN since = Agents /\ since = [w \in Agents |-> since[w]]
    /\ DOMAIN quiet = Agents /\ quiet = [w \in Agents |-> quiet[w]]
    /\ \A w \in Agents :
          /\ Memory(agent[w], since[w], quiet[w])
          /\ StaleRows(agent[w], row, age)
          /\ Lag(agent[w], since[w], quiet[w])

IInv == RowInv /\ AgentInv

\* SlaAssumption, number by number.
LEMMA Constants ==
    SlaAssumption => /\ SLA \in Nat /\ Cooldown \in Nat /\ Poll \in Nat /\ SlowSink \in Nat
                     /\ NoApproval \notin Approvals
                     /\ Horizon \in Nat /\ Horizon = Cooldown + SlowSink
BY DEF SlaAssumption, Horizon

-----------------------------------------------------------------------------
\* One agent moves while the rows stand still.
LEMMA OneAgentMoves ==
    ASSUME IInv, NEW w \in Agents, NEW R, NEW s, NEW q,
           agent' = [agent EXCEPT ![w] = R],
           since' = [since EXCEPT ![w] = s],
           quiet' = [quiet EXCEPT ![w] = q],
           UNCHANGED <<row, age>>,
           Memory(R, s, q), StaleRows(R, row, age), Lag(R, s, q)
    PROVE  IInv'
<1>1. RowInv'
  BY DEF IInv, RowInv
<1>2. /\ agent'[w] = R /\ since'[w] = s /\ quiet'[w] = q
      /\ \A v \in Agents \ {w} :
            agent'[v] = agent[v] /\ since'[v] = since[v] /\ quiet'[v] = quiet[v]
  BY DEF IInv, AgentInv
<1>3. ASSUME NEW v \in Agents
      PROVE  /\ Memory(agent'[v], since'[v], quiet'[v])
             /\ StaleRows(agent'[v], row', age')
             /\ Lag(agent'[v], since'[v], quiet'[v])
  BY <1>2 DEF IInv, AgentInv, StaleRows
<1>4. AgentInv'
  BY <1>3 DEF IInv, AgentInv
<1> QED
  BY <1>1, <1>4 DEF IInv

\* An agent whose clocks stand still moves, and does not come to the sink.
LEMMA LoopMoves ==
    ASSUME SlaAssumption, IInv, NEW w \in Agents, NEW R,
           agent' = [agent EXCEPT ![w] = R],
           UNCHANGED <<row, age, since, quiet>>,
           R \in AgentRecord, R.pc # "sending", R.sending = NoApproval,
           StaleRows(R, row, age)
    PROVE  IInv'
<1>1. since' = [since EXCEPT ![w] = since[w]] /\ quiet' = [quiet EXCEPT ![w] = quiet[w]]
  BY DEF IInv, AgentInv
<1>2. Memory(R, since[w], quiet[w]) /\ Lag(R, since[w], quiet[w])
  BY DEF IInv, AgentInv, Memory, Lag
<1> QED
  BY <1>1, <1>2, OneAgentMoves

\* The agent of a worker, spelled out.
LEMMA AgentOf ==
    ASSUME IInv, NEW w \in Agents
    PROVE  /\ agent[w] \in AgentRecord
           /\ agent[w].pc = "sending" <=> agent[w].sending # NoApproval
           /\ StaleRows(agent[w], row, age)
           /\ since[w] \in [Approvals -> Ages]
           /\ quiet[w] \in [Approvals -> Ages]
           /\ \A a \in Approvals : since[w][a] <= quiet[w][a] + SlowSink
BY DEF IInv, AgentInv, Memory, Lag

LEMMA OffIsInOrder ==
    SlaAssumption => /\ Off \in AgentRecord /\ Off.pc # "sending" /\ Off.sending = NoApproval
                     /\ Off.stale = {}
BY Constants DEF Off, AgentRecord, Phases

\* A memory without escalations.
LEMMA FreshMemory ==
    ASSUME SlaAssumption
    PROVE  /\ [a \in Approvals |-> Horizon] \in [Approvals -> Ages]
           /\ Memory(Off, [a \in Approvals |-> Horizon], [a \in Approvals |-> Horizon])
           /\ StaleRows(Off, row, age)
           /\ Lag(Off, [a \in Approvals |-> Horizon], [a \in Approvals |-> Horizon])
<1>1. Horizon \in Ages /\ Horizon <= Horizon + SlowSink
  BY Constants DEF Ages
<1> QED
  BY <1>1, OffIsInOrder DEF Memory, StaleRows, Lag

LEMMA InitEstablishes == SlaAssumption /\ Init => IInv
<1> SUFFICES ASSUME SlaAssumption, Init PROVE IInv
  OBVIOUS
<1>1. RowInv
  BY Constants DEF Init, RowInv
<1>2. AgentInv
  BY FreshMemory DEF Init, AgentInv
<1> QED
  BY <1>1, <1>2 DEF IInv

-----------------------------------------------------------------------------
(***************************************************************************)
(* Rows, and the life of an agent                                          *)
(***************************************************************************)
LEMMA RowsKeep ==
    ASSUME IInv, NEW a \in Approvals, Enqueued(a) \/ Decided(a)
    PROVE  IInv'
<1>1. /\ row' \in [Approvals -> {"absent", "pending", "decided"}]
      /\ \A b \in Approvals : row'[b] = "absent" => row[b] = "absent"
      /\ UNCHANGED <<age, agent, since, quiet>>
  BY DEF Enqueued, Decided, IInv, RowInv
<1>2. RowInv'
  BY <1>1 DEF IInv, RowInv
<1>3. ASSUME NEW w \in Agents
      PROVE  StaleRows(agent'[w], row', age')
  <2>1. StaleRows(agent[w], row, age) /\ agent[w].stale \subseteq Approvals
    BY AgentOf DEF AgentRecord
  <2> QED
    BY <1>1, <2>1 DEF StaleRows
<1>4. AgentInv'
  BY <1>1, <1>3 DEF IInv, AgentInv
<1> QED
  BY <1>2, <1>4 DEF IInv

LEMMA LifeKeeps ==
    ASSUME SlaAssumption, IInv, NEW w \in Agents,
           Starts(w) \/ StopRequested(w) \/ Forgotten(w)
    PROVE  IInv'
<1>1. CASE Starts(w)
  <2> DEFINE R == [agent[w] EXCEPT !.pc = "polling"]
  <2>1. agent' = [agent EXCEPT ![w] = R] /\ UNCHANGED <<row, age, since, quiet>>
    BY <1>1 DEF Starts, IInv, AgentInv
  <2>2. R \in AgentRecord /\ R.pc # "sending" /\ R.sending = NoApproval /\ R.stale = agent[w].stale
    BY <1>1, AgentOf DEF Starts, AgentRecord, Phases
  <2> HIDE DEF R
  <2> QED
    BY <2>1, <2>2, AgentOf, LoopMoves DEF StaleRows
<1>2. CASE StopRequested(w)
  <2> DEFINE R == [agent[w] EXCEPT !.stopping = TRUE]
  <2>1. agent' = [agent EXCEPT ![w] = R] /\ UNCHANGED <<row, age, since, quiet>>
    BY <1>2 DEF StopRequested, IInv, AgentInv
  <2>2. since' = [since EXCEPT ![w] = since[w]] /\ quiet' = [quiet EXCEPT ![w] = quiet[w]]
    BY <2>1 DEF IInv, AgentInv
  <2>3. R \in AgentRecord /\ R.pc = agent[w].pc /\ R.sending = agent[w].sending
        /\ R.stale = agent[w].stale /\ R.elapsed = agent[w].elapsed
    BY AgentOf DEF AgentRecord
  <2> HIDE DEF R
  <2>4. Memory(R, since[w], quiet[w]) /\ StaleRows(R, row, age) /\ Lag(R, since[w], quiet[w])
    BY <2>3 DEF IInv, AgentInv, Memory, StaleRows, Lag
  <2> QED
    BY <2>1, <2>2, <2>4, OneAgentMoves
<1>3. CASE Forgotten(w)
  BY <1>3, FreshMemory, OneAgentMoves DEF Forgotten
<1> QED
  BY <1>1, <1>2, <1>3

-----------------------------------------------------------------------------
(***************************************************************************)
(* The loop and the sweep                                                  *)
(***************************************************************************)
LEMMA LoopKeeps ==
    ASSUME SlaAssumption, IInv, NEW w \in Agents,
           SweepReads(w) \/ SweepFails(w) \/ NotifyFails(w) \/ SweepEnds(w) \/ Wakes(w)
    PROVE  IInv'
<1>1. CASE SweepReads(w)
  <2> DEFINE overdue == {a \in Approvals : row[a] = "pending" /\ age[a] > SLA}
             R == [agent[w] EXCEPT !.pc = "notifying", !.elapsed = 0, !.stale = overdue]
  <2>1. agent' = [agent EXCEPT ![w] = R] /\ UNCHANGED <<row, age, since, quiet>>
    BY <1>1 DEF SweepReads, IInv, AgentInv
  <2>2. 0 \in 0 .. SlowSink
    BY Constants
  <2>3. R \in AgentRecord /\ R.pc # "sending" /\ R.sending = NoApproval /\ R.stale = overdue
    BY <1>1, <2>2, AgentOf DEF SweepReads, AgentRecord, Phases
  <2>4. StaleRows(R, row, age)
    BY <2>3 DEF StaleRows
  <2> HIDE DEF R
  <2> QED
    BY <2>1, <2>3, <2>4, LoopMoves
<1>2. CASE SweepFails(w) \/ NotifyFails(w) \/ SweepEnds(w)
  <2> DEFINE R == Sleep(agent[w])
  <2>1. agent' = [agent EXCEPT ![w] = R] /\ UNCHANGED <<row, age, since, quiet>>
    BY <1>2 DEF SweepFails, NotifyFails, SweepEnds, IInv, AgentInv
  <2>2. 0 \in 0 .. Poll
    BY Constants
  <2>3. R \in AgentRecord /\ R.pc # "sending" /\ R.sending = NoApproval /\ R.stale = {}
    BY <2>2, AgentOf DEF Sleep, AgentRecord, Phases
  <2>4. StaleRows(R, row, age)
    BY <2>3 DEF StaleRows
  <2> HIDE DEF R
  <2> QED
    BY <2>1, <2>3, <2>4, LoopMoves
<1>3. CASE Wakes(w)
  <2> DEFINE R == [agent[w] EXCEPT !.pc = "polling"]
  <2>1. agent' = [agent EXCEPT ![w] = R] /\ UNCHANGED <<row, age, since, quiet>>
    BY <1>3 DEF Wakes, IInv, AgentInv
  <2>2. R \in AgentRecord /\ R.pc # "sending" /\ R.sending = NoApproval /\ R.stale = agent[w].stale
    BY <1>3, AgentOf DEF Wakes, AgentRecord, Phases
  <2> HIDE DEF R
  <2> QED
    BY <2>1, <2>2, AgentOf, LoopMoves DEF StaleRows
<1> QED
  BY <1>1, <1>2, <1>3

LEMMA NotifyBeginsKeeps ==
    ASSUME SlaAssumption, IInv, NEW w \in Agents, NEW a \in Approvals, NotifyBegins(w, a)
    PROVE  IInv'
<1> DEFINE e == agent[w].elapsed
           R == [agent[w] EXCEPT !.pc = "sending", !.sending = a, !.stale = @ \ {a}]
           s == [since[w] EXCEPT ![a] = e]
<1>1. /\ agent' = [agent EXCEPT ![w] = R]
      /\ since' = [since EXCEPT ![w] = s]
      /\ quiet' = [quiet EXCEPT ![w] = quiet[w]]
      /\ UNCHANGED <<row, age>>
  BY DEF NotifyBegins, IInv, AgentInv
<1>2. e \in 0 .. SlowSink
  BY AgentOf DEF AgentRecord
<1>3. e \in Nat /\ e <= SlowSink /\ e \in Ages
  BY <1>2, Constants DEF Ages
<1>4. R \in AgentRecord /\ R.pc = "sending" /\ R.sending = a /\ R.elapsed = e
      /\ R.stale \subseteq agent[w].stale
  BY AgentOf DEF AgentRecord, Phases
<1>5. s \in [Approvals -> Ages] /\ s[a] = e /\ \A b \in Approvals \ {a} : s[b] = since[w][b]
  BY <1>3, AgentOf
<1> HIDE DEF R, s, e
<1>6. Memory(R, s, quiet[w])
  BY <1>4, <1>5, AgentOf, Constants DEF Memory
<1>7. StaleRows(R, row, age)
  BY <1>4, AgentOf DEF StaleRows
<1>8. Lag(R, s, quiet[w])
  <2>1. ASSUME NEW b \in Approvals
        PROVE  s[b] <= quiet[w][b] + SlowSink
    <3>1. quiet[w][b] \in Nat
      BY AgentOf, Constants DEF Ages
    <3> QED
      BY <1>3, <1>5, <3>1, AgentOf, Constants
  <2> QED
    BY <1>3, <1>4, <1>5, <2>1 DEF Lag
<1> QED
  BY <1>1, <1>6, <1>7, <1>8, OneAgentMoves

LEMMA NotifyDeliversKeeps ==
    ASSUME SlaAssumption, IInv, NEW w \in Agents, NotifyDelivers(w)
    PROVE  IInv'
<1> DEFINE a == agent[w].sending
           R == [agent[w] EXCEPT !.pc = "notifying", !.sending = NoApproval]
           q == [quiet[w] EXCEPT ![a] = 0]
<1>1. /\ agent' = [agent EXCEPT ![w] = R]
      /\ since' = [since EXCEPT ![w] = since[w]]
      /\ quiet' = [quiet EXCEPT ![w] = q]
      /\ UNCHANGED <<row, age>>
  BY DEF NotifyDelivers, IInv, AgentInv
<1>2. a \in Approvals
  BY AgentOf DEF NotifyDelivers, AgentRecord
<1>3. R \in AgentRecord /\ R.pc = "notifying" /\ R.sending = NoApproval
      /\ R.stale = agent[w].stale
  BY AgentOf DEF AgentRecord, Phases
<1>4. 0 \in Ages
  BY Constants DEF Ages
<1>5. q \in [Approvals -> Ages] /\ q[a] = 0 /\ \A b \in Approvals \ {a} : q[b] = quiet[w][b]
  BY <1>2, <1>4, AgentOf
<1>6. since[w][a] <= SlowSink
  <2>1. since[w][a] <= agent[w].elapsed
    BY DEF NotifyDelivers, IInv, AgentInv, Lag
  <2>2. agent[w].elapsed \in 0 .. SlowSink /\ since[w][a] \in Ages
    BY <1>2, AgentOf DEF AgentRecord
  <2> QED
    BY <2>1, <2>2, Constants DEF Ages
<1> HIDE DEF R, q, a
<1>7. Memory(R, since[w], q)
  BY <1>3, <1>5, AgentOf DEF Memory
<1>8. StaleRows(R, row, age)
  BY <1>3, AgentOf DEF StaleRows
<1>9. Lag(R, since[w], q)
  <2>1. ASSUME NEW b \in Approvals
        PROVE  since[w][b] <= q[b] + SlowSink
    BY <1>5, <1>6, AgentOf, Constants
  <2> QED
    BY <1>3, <2>1 DEF Lag
<1> QED
  BY <1>1, <1>7, <1>8, <1>9, OneAgentMoves

-----------------------------------------------------------------------------
(***************************************************************************)
(* The clock                                                               *)
(***************************************************************************)
\* A saturating age stays in its range and does not go back.
LEMMA UpToGrows ==
    ASSUME NEW max \in Nat, NEW n \in 0 .. max
    PROVE  /\ UpTo(max, n) \in 0 .. max
           /\ n <= UpTo(max, n)
           /\ UpTo(max, n) <= n + 1
           /\ n + 1 <= max => UpTo(max, n) = n + 1
           /\ n = max => UpTo(max, n) = max
BY DEF UpTo

\* Two saturating ages keep their distance.
LEMMA UpToTogether ==
    ASSUME NEW max \in Nat, NEW d \in Nat, NEW m \in 0 .. max, NEW n \in 0 .. max, m <= n + d
    PROVE  UpTo(max, m) <= UpTo(max, n) + d
BY DEF UpTo

LEMMA TickKeeps ==
    ASSUME SlaAssumption, IInv, Tick
    PROVE  IInv'
<1>1. RowInv'
  <2>1. \A a \in Approvals : UpTo(SLA + 1, age[a]) \in 0 .. SLA + 1
    BY Constants, UpToGrows DEF IInv, RowInv
  <2> QED
    BY <2>1 DEF Tick, IInv, RowInv
<1>2. \A a \in Approvals : row'[a] = row[a] /\ (age[a] > SLA => age'[a] > SLA)
  <2>1. ASSUME NEW a \in Approvals
        PROVE  age[a] <= UpTo(SLA + 1, age[a]) /\ UpTo(SLA + 1, age[a]) \in Nat /\ age[a] \in Nat
    BY Constants, UpToGrows DEF IInv, RowInv
  <2> QED
    BY <2>1, Constants DEF Tick, IInv, RowInv
<1>3. ASSUME NEW w \in Agents
      PROVE  /\ Memory(agent'[w], since'[w], quiet'[w])
             /\ StaleRows(agent'[w], row', age')
             /\ Lag(agent'[w], since'[w], quiet'[w])
  <2> DEFINE A == agent[w]
  <2>1. A \in AgentRecord /\ (A.pc = "sending" <=> A.sending # NoApproval)
    BY AgentOf
  <2>2. A.timer \in 0 .. Poll /\ A.elapsed \in 0 .. SlowSink
    BY <2>1 DEF AgentRecord
  <2>3. /\ agent'[w] \in AgentRecord
        /\ agent'[w].pc = A.pc /\ agent'[w].sending = A.sending /\ agent'[w].stale = A.stale
        /\ A.pc = "sending" => agent'[w].elapsed = A.elapsed + 1 /\ A.elapsed < SlowSink
    <3>1. CASE A.pc = "sleeping"
      <4>1. A.timer + 1 \in 0 .. Poll
        BY <2>2, <3>1, Constants DEF Tick
      <4>2. agent'[w] = [A EXCEPT !.timer = @ + 1]
        BY <3>1 DEF Tick
      <4> QED
        BY <2>1, <3>1, <4>1, <4>2 DEF AgentRecord
    <3>2. CASE A.pc = "off"
      <4>1. agent'[w] = A
        BY <3>2 DEF Tick
      <4> QED
        BY <2>1, <3>2, <4>1
    <3>3. CASE A.pc \in {"notifying", "sending"}
      <4>1. A.elapsed + 1 \in 0 .. SlowSink /\ A.elapsed < SlowSink
        BY <2>2, <3>3, Constants DEF Tick
      <4>2. agent'[w] = [A EXCEPT !.elapsed = @ + 1]
        BY <3>3 DEF Tick
      <4> QED
        BY <2>1, <3>3, <4>1, <4>2 DEF AgentRecord
    <3>4. A.pc \in Phases /\ A.pc # "polling"
      BY <2>1 DEF AgentRecord, Tick
    <3> QED
      BY <3>1, <3>2, <3>3, <3>4 DEF Phases
  <2>4. since'[w] = [a \in Approvals |-> UpTo(Horizon, since[w][a])]
        /\ quiet'[w] = [a \in Approvals |-> UpTo(Horizon, quiet[w][a])]
    BY DEF Tick
  <2>5. \A a \in Approvals : /\ since[w][a] \in 0 .. Horizon /\ quiet[w][a] \in 0 .. Horizon
                             /\ since[w][a] <= quiet[w][a] + SlowSink
    BY AgentOf DEF Ages
  <2>6. \A a \in Approvals :
           /\ UpTo(Horizon, since[w][a]) \in Ages
           /\ UpTo(Horizon, quiet[w][a]) \in Ages
           /\ UpTo(Horizon, since[w][a]) <= since[w][a] + 1
    BY <2>5, Constants, UpToGrows DEF Ages
  <2>7. \A a \in Approvals : since'[w][a] <= quiet'[w][a] + SlowSink
    BY <2>4, <2>5, Constants, UpToTogether
  <2>8. Memory(agent'[w], since'[w], quiet'[w])
    BY <2>1, <2>3, <2>4, <2>6 DEF Memory
  <2>9. StaleRows(agent'[w], row', age')
    <3>1. StaleRows(A, row, age) /\ A.stale \subseteq Approvals
      BY AgentOf, <2>1 DEF AgentRecord
    <3> QED
      BY <1>2, <2>3, <3>1 DEF StaleRows
  <2>10. A.pc = "sending" => since'[w][A.sending] <= A.elapsed + 1
    <3> SUFFICES ASSUME A.pc = "sending" PROVE since'[w][A.sending] <= A.elapsed + 1
      OBVIOUS
    <3>1. A.sending \in Approvals
      BY <2>1 DEF AgentRecord
    <3>2. since[w][A.sending] <= A.elapsed
      BY DEF IInv, AgentInv, Lag
    <3>3. since'[w][A.sending] <= since[w][A.sending] + 1 /\ since'[w][A.sending] \in Ages
      BY <2>4, <2>6, <3>1
    <3>4. since[w][A.sending] \in Nat /\ A.elapsed \in Nat
      BY <2>2, <2>5, <3>1, Constants
    <3> QED
      BY <3>2, <3>3, <3>4 DEF Ages
  <2>11. Lag(agent'[w], since'[w], quiet'[w])
    BY <2>3, <2>7, <2>10 DEF Lag
  <2> QED
    BY <2>8, <2>9, <2>11
<1>4. AgentInv'
  BY <1>3 DEF Tick, AgentInv
<1> QED
  BY <1>1, <1>4 DEF IInv

-----------------------------------------------------------------------------
LEMMA StepKeeps == SlaAssumption /\ IInv /\ [Next]_vars => IInv'
<1> SUFFICES ASSUME SlaAssumption, IInv, [Next]_vars PROVE IInv'
  OBVIOUS
<1>1. CASE UNCHANGED vars
  BY <1>1 DEF vars, IInv, RowInv, AgentInv, StaleRows
<1>2. ASSUME NEW w \in Agents, Starts(w) \/ StopRequested(w) \/ Crashes(w) \/ Loop(w)
      PROVE  IInv'
  BY <1>2, LifeKeeps, LoopKeeps, NotifyBeginsKeeps, NotifyDeliversKeeps
     DEF Crashes, Loop, LoopExits
<1> QED
  BY <1>1, <1>2, TickKeeps, RowsKeep DEF Next

\* The inductive invariant holds in every reachable state of the agents.
THEOREM Invariance == Spec => []IInv
BY InitEstablishes, StepKeeps, SlaAssumption, PTL DEF Spec

\* _sweep_stale_approvals and _run_loop keep their state in shape; above all, a sweep
\* only ever escalates rows that exist and are past their SLA.
THEOREM TypeCorrectness == Spec => []TypeOK
<1>1. ASSUME IInv
      PROVE  TypeOK
  <2>1. \A w \in Agents : /\ agent[w] \in AgentRecord
                          /\ agent[w].pc = "sending" <=> agent[w].sending # NoApproval
                          /\ StaleRows(agent[w], row, age)
                          /\ since[w] \in [Approvals -> Ages]
                          /\ quiet[w] \in [Approvals -> Ages]
    BY <1>1, AgentOf
  <2>2. /\ agent \in [Agents -> AgentRecord]
        /\ since \in [Agents -> [Approvals -> Ages]]
        /\ quiet \in [Agents -> [Approvals -> Ages]]
    BY <1>1, <2>1 DEF IInv, AgentInv
  <2> QED
    BY <1>1, <2>1, <2>2 DEF TypeOK, IInv, RowInv, AgentRecord, Phases, Ages, StaleRows
<1> QED
  BY <1>1, Invariance, PTL

\* escalation_cooldown_minutes: whatever the sink does and however sweeps, decisions,
\* crashes and the clock interleave, no agent delivers an approval again before the
\* cooldown, less one sweep, is over.
THEOREM CooldownTheorem == Spec => NotFlooded
<1>1. ASSUME SlaAssumption, IInv, NEW w \in Agents, NEW a \in Approvals, NotifyBegins(w, a)
      PROVE  quiet[w][a] >= Cooldown - SlowSink
  <2>1. /\ since[w][a] \in Nat /\ quiet[w][a] \in Nat
        /\ since[w][a] <= quiet[w][a] + SlowSink
    BY <1>1, AgentOf, Constants DEF Ages
  <2>2. agent[w].elapsed \in 0 .. SlowSink
    BY <1>1, AgentOf DEF AgentRecord
  <2>3. ~(since[w][a] - agent[w].elapsed < Cooldown)
    BY <1>1 DEF NotifyBegins, Cooling
  <2> QED
    BY <1>1, <2>1, <2>2, <2>3, Constants
<1>2. IInv /\ [Next]_vars =>
         [\A w \in Agents, a \in Approvals :
             NotifyBegins(w, a) => quiet[w][a] >= Cooldown - SlowSink]_vars
  BY <1>1, SlaAssumption
<1> QED
  BY <1>2, Invariance, PTL DEF NotFlooded, Spec
=============================================================================
