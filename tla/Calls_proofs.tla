----------------------------- MODULE Calls_proofs -----------------------------
(***************************************************************************)
(* Proofs about the calls of a response.  ToolCalls: a sequential tool     *)
(* runs alone, and the calls of parallel goroutines stay within the limit  *)
(* that was checked before they were started, for every strategy and any   *)
(* number of calls and responses.  DeferredCalls: each call is answered    *)
(* once, for any calls, any handlers and any number of later runs.         *)
(***************************************************************************)
EXTENDS ToolCalls, DeferredCalls, FiniteSetTheorems, WellFoundedInduction, TLAPS

-----------------------------------------------------------------------------
(* Positions *)

\* A set of naturals has a least element.
LEMMA Least ==
    ASSUME NEW S, S \subseteq Nat, S # {}
    PROVE  Min(S) \in S /\ \A y \in S : Min(S) <= y
  <1> DEFINE R == {p \in Nat \X Nat : p[1] < p[2]}
  <1>1. IsWellFoundedOn(R, Nat)
    BY NatLessThanWellFounded, Zenon DEF OpToRel
  <1> HIDE DEF R
  <1>0. PICK x \in S : \A y \in S : ~(<<y, x>> \in R)
    BY <1>1, WFMin
  <1>2. \A y \in S : x <= y
    <2>1. ASSUME NEW y \in S, y < x PROVE <<y, x>> \in R
      BY <2>1 DEF R
    <2>2. ASSUME NEW y \in S PROVE ~(y < x)
      BY <1>0, <2>1
    <2>3. x \in Nat /\ \A y \in S : y \in Nat
      BY <1>0
    <2> QED
      BY <2>2, <2>3
  <1> QED
    BY <1>2 DEF Min

\* A bounded one has a greatest.
LEMMA Greatest ==
    ASSUME NEW n \in Nat, NEW S, S \subseteq 1..n, S # {}
    PROVE  Max(S) \in S /\ \A y \in S : y <= Max(S)
  <1> DEFINE T == {n - x : x \in S}
  <1>1. T \subseteq Nat /\ T # {}
    <2>1. \A x \in S : n - x \in Nat
      OBVIOUS
    <2> QED
      BY <2>1
  <1>2. PICK m \in T : \A y \in T : m <= y
    BY <1>1, Least
  <1>3. PICK x \in S : m = n - x
    OBVIOUS
  <1>4. \A y \in S : x >= y
    <2>1. TAKE y \in S
    <2>2. n - y \in T
      OBVIOUS
    <2>3. n - x <= n - y
      BY <1>2, <1>3, <2>2
    <2> QED
      BY <2>3
  <1> QED
    BY <1>4 DEF Max

-----------------------------------------------------------------------------
(* The inductive invariant *)

Stages == {"idle", "running", "refusing", "returned", "settled"}

Types ==
    /\ agent \in [strategy : Strategies, serial : BOOLEAN, streamed : Streaming, size : Sizes]
    /\ calls \in Seq({"plain", "barrier", "hidden", "output"})
    /\ phase \in Phases
    /\ pos \in Nat \ {0}
    /\ stage \in [Index -> Stages]
    /\ outcome \in [Index -> Outcomes]
    /\ toolCalls \in Nat
    /\ deferred \subseteq Index
    /\ Running # {} => phase = "group"

\* Output calls are not counted, and neither are unavailable tools.
Counted == \A i \in Index : outcome[i] = "return" => Counts(i)

\* The first pass of early, which runs output calls only.
OutputPass ==
    \/ phase = "outputs"
    \/ phase = "group" /\ Early /\ \A i \in Index : IsOutput(i) \/ stage[i] = "idle"

\* The pass that runs function calls, in their order.
FunctionPass == phase \in {"scan", "group"} /\ ~OutputPass

Order ==
    /\ phase = "begin" => pos = 1 /\ \A i \in Index : stage[i] = "idle"
    /\ phase = "outputs" => Early /\ \A i \in Index : ~IsOutput(i) => stage[i] = "idle"
    /\ FunctionPass => \A i \in Index : ~IsOutput(i) => (stage[i] = "idle" <=> i >= pos)

\* Calls that may still be counted fit in the limit that was checked.
Open == {i \in Index : Counts(i) /\ stage[i] # "settled"}

Budget ==
    /\ toolCalls <= ToolCallLimit
    /\ FunctionPass => toolCalls + Cardinality(Open) <= ToolCallLimit

\* A committed output is the answer of an output call, or text.
Taken == committed /\ winner # 0 => winner \in Index /\ IsOutput(winner)

Passes == Types /\ Counted /\ Order /\ Budget /\ BarrierAlone

IInv == Passes /\ Taken

-----------------------------------------------------------------------------
(* Sets of calls *)

\* There are finitely many calls.
LEMMA CallsFinite ==
    ASSUME Types
    PROVE  Index = 1..Len(calls) /\ Len(calls) \in Nat /\ IsFiniteSet(Index)
           /\ \A S : S \subseteq Index => IsFiniteSet(S) /\ Cardinality(S) \in Nat
  <1>1. Index = 1..Len(calls) /\ Len(calls) \in Nat
    BY DEF Types, Index
  <1>2. IsFiniteSet(Index)
    BY <1>1, FS_Interval
  <1> QED
    BY <1>1, <1>2, FS_Subset, FS_CardinalityType

\* Once a response is past its calls, only the count of calls matters.
LEMMA Elsewhere ==
    ASSUME Passes, Running = {}, UNCHANGED <<agent, calls, pos, stage>>,
           phase' \in Phases \ {"begin", "outputs", "scan", "group"},
           outcome' \in [Index -> Outcomes], Counted', deferred' \subseteq Index,
           toolCalls' \in Nat, toolCalls' <= ToolCallLimit
    PROVE  Passes'
  <1>1. Types'
    BY DEF Passes, Types, Index, Running
  <1>2. Order' /\ Budget' /\ BarrierAlone'
    BY DEF Order, Budget, BarrierAlone, FunctionPass, OutputPass, Running, Index
  <1> QED
    BY <1>1, <1>2 DEF Passes

\* Which calls the passes are about does not change during a response.
LEMMA SameCalls ==
    ASSUME UNCHANGED <<agent, calls>>
    PROVE  /\ Index' = Index /\ Early' = Early
           /\ \A i : (IsOutput(i)' <=> IsOutput(i)) /\ (Counts(i)' <=> Counts(i))
  BY DEF Index, Early, IsOutput, Counts

-----------------------------------------------------------------------------
(* Around the calls *)

\* A run starts without a response.
LEMMA InitKeeps == Init => Passes
  <1> SUFFICES ASSUME Init PROVE Passes
    OBVIOUS
  <1>1. Index = {} /\ Running = {} /\ Open = {}
    BY DEF Init, Index, Running, Open
  <1>2. Types
    BY <1>1 DEF Init, Types, Index, Phases
  <1> QED
    BY <1>1, <1>2, ConstantsAssumption
    DEF Init, Passes, Counted, Order, Budget, BarrierAlone, FunctionPass, OutputPass

\* A response comes with nothing started.
LEMMA RespondKeeps == ASSUME Passes, Respond PROVE Passes'
  <1>1. agent' = agent /\ agent.size.calls \in Nat
    BY ConstantsAssumption DEF Passes, Types, Respond, response
  <1>2. PICK n \in 1..agent.size.calls : \E kinds \in [1..n -> Kinds] :
            /\ calls' = kinds
            /\ stage' = [i \in 1..n |-> "idle"] /\ outcome' = [i \in 1..n |-> "none"]
    BY DEF Respond
  <1>3. Index' = 1..n /\ calls' \in Seq({"plain", "barrier", "hidden", "output"})
    <2>1. n \in Nat
      BY <1>1
    <2>2. PICK kinds \in [1..n -> Kinds] : calls' = kinds
      BY <1>2
    <2>3. calls' \in [1..n -> {"plain", "barrier", "hidden", "output"}]
      BY <2>2, ConstantsAssumption
    <2> QED
      BY <2>1, <2>3 DEF Index
  <1>4. /\ phase' = "begin" /\ pos' = 1 /\ deferred' = {} /\ toolCalls' = toolCalls
        /\ Running' = {}
    BY <1>2, <1>3 DEF Respond, counters, Running
  <1>5. Types'
    BY <1>1, <1>2, <1>3, <1>4 DEF Passes, Types, Stages, Outcomes, Phases
  <1>6. Counted' /\ Order' /\ Budget' /\ BarrierAlone'
    BY <1>2, <1>3, <1>4
    DEF Passes, Counted, Order, Budget, BarrierAlone, FunctionPass, OutputPass
  <1> QED
    BY <1>5, <1>6 DEF Passes

\* What follows the calls of a response.
LEMMA AfterwardsKeeps ==
    ASSUME Passes, ModelEnds \/ Collect \/ Returned \/ Handlers \/ Answer
    PROVE  Passes'
  <1>1. /\ UNCHANGED <<agent, calls, pos, stage, outcome>> /\ Running = {}
        /\ phase' \in Phases \ {"begin", "outputs", "scan", "group"}
    <2>1. Running = {}
      BY DEF Passes, Types, ModelEnds, Collect, Returned, Handlers, Answer
    <2>2. CASE ModelEnds
      BY <2>1, <2>2 DEF ModelEnds, End, response, progress, Phases
    <2>3. CASE Collect
      BY <2>1, <2>3 DEF Collect, Return, response, progress, Phases
    <2>4. CASE Returned
      BY <2>1, <2>4 DEF Returned, End, response, progress, Phases
    <2>5. CASE Handlers
      BY <2>1, <2>5 DEF Handlers, End, response, progress, Phases
    <2>6. CASE Answer
      BY <2>1, <2>6 DEF Answer, End, response, progress, Phases
    <2> QED
      BY <2>2, <2>3, <2>4, <2>5, <2>6
  <1>2. outcome' \in [Index -> Outcomes] /\ Counted'
    BY <1>1, SameCalls DEF Passes, Types, Counted
  <1>3. deferred' \subseteq Index
    BY DEF Passes, Types, ModelEnds, Collect, Returned, Handlers, Answer, counters
  <1>4. toolCalls' \in Nat /\ toolCalls' <= ToolCallLimit
    <2>1. CASE toolCalls' = toolCalls
      BY <2>1 DEF Passes, Types, Budget
    <2>2. CASE Handlers /\ toolCalls' # toolCalls
      <3>1. PICK approved \in SUBSET deferred : \E done \in SUBSET approved :
                /\ toolCalls' = toolCalls + Cardinality(done)
                /\ ~(toolCalls + Cardinality(approved) > ToolCallLimit)
        BY <2>2 DEF Handlers
      <3>2. PICK done \in SUBSET approved : toolCalls' = toolCalls + Cardinality(done)
        BY <3>1
      <3>3. IsFiniteSet(approved) /\ approved \subseteq Index /\ done \subseteq Index
        BY CallsFinite DEF Passes, Types
      <3>4. /\ Cardinality(approved) \in Nat /\ Cardinality(done) \in Nat
            /\ Cardinality(done) <= Cardinality(approved)
        BY <3>3, CallsFinite, FS_Subset DEF Passes
      <3> QED
        BY <3>1, <3>2, <3>4, ConstantsAssumption DEF Passes, Types
    <2> QED
      BY <2>1, <2>2 DEF ModelEnds, Collect, Returned, Answer, counters
  <1> QED
    BY <1>1, <1>2, <1>3, <1>4, Elsewhere

-----------------------------------------------------------------------------
(* Choosing what runs *)

\* The first steps of a response: with early the limit is not looked at yet.
LEMMA BeginKeeps == ASSUME Passes, Begin PROVE Passes'
  <1>1. /\ phase = "begin" /\ pos = 1 /\ Running = {} /\ \A i \in Index : stage[i] = "idle"
        /\ UNCHANGED <<agent, calls, pos, stage, toolCalls, deferred>>
        /\ toolCalls \in Nat /\ toolCalls <= ToolCallLimit /\ deferred \subseteq Index
    BY DEF Passes, Types, Order, Budget, Begin, response, counters
  <1>2. outcome' \in [Index -> Outcomes] /\ Counted'
    <2>1. CASE outcome' = outcome
      BY <1>1, <2>1, SameCalls DEF Passes, Types, Counted
    <2>2. CASE outcome' = [i \in Index |->
                IF ~committed \/ Graceful THEN "none"
                ELSE IF i = winner THEN "final" ELSE IF Early THEN "skipped" ELSE "none"]
      BY <1>1, <2>2, SameCalls DEF Outcomes, Counted
    <2> QED
      BY <2>1, <2>2 DEF Begin
  <1>3. CASE phase' \in {"returned", "collect"}
    BY <1>1, <1>2, <1>3, Elsewhere DEF Phases
  <1>4. CASE phase' = "outputs" /\ Early
    <2>1. Types'
      BY <1>1, <1>2, <1>4 DEF Passes, Types, Index, Running, Phases
    <2>2. Order' /\ Budget' /\ BarrierAlone'
      BY <1>1, <1>4, SameCalls
      DEF Order, Budget, BarrierAlone, FunctionPass, OutputPass, Running
    <2> QED
      BY <1>2, <2>1, <2>2 DEF Passes
  <1>5. CASE phase' = "scan" /\ ~OverLimit
    <2>1. Types'
      BY <1>1, <1>2, <1>5 DEF Passes, Types, Index, Running, Phases
    <2>2. Order' /\ BarrierAlone'
      BY <1>1, <1>5, SameCalls, CallsFinite
      DEF Passes, Order, BarrierAlone, FunctionPass, OutputPass, Running
    <2>3. Budget'
      <3>1. Open' = {i \in Index : Counts(i)}
        BY <1>1, SameCalls DEF Open
      <3>2. Cardinality(Open') \in Nat
        BY <3>1, CallsFinite DEF Passes
      <3> QED
        BY <1>1, <1>5, <3>1, <3>2, ConstantsAssumption DEF Budget, OverLimit
    <2> QED
      BY <1>2, <2>1, <2>2, <2>3 DEF Passes
  <1> QED
    BY <1>3, <1>4, <1>5 DEF Begin, Return

\* The pass of early over output calls.
LEMMA TryOutputsKeeps == ASSUME Passes, TryOutputs PROVE Passes'
  <1> DEFINE left == {i \in Index : i >= pos /\ IsOutput(i)}
  <1>1. /\ phase = "outputs" /\ Early /\ Running = {} /\ pos \in Nat \ {0}
        /\ \A i \in Index : ~IsOutput(i) => stage[i] = "idle"
        /\ UNCHANGED <<agent, calls, toolCalls, deferred>>
        /\ toolCalls \in Nat /\ toolCalls <= ToolCallLimit /\ deferred \subseteq Index
        /\ stage \in [Index -> Stages] /\ outcome \in [Index -> Outcomes]
    BY DEF Passes, Types, Order, Budget, TryOutputs, response, counters
  <1>2. outcome' \in [Index -> Outcomes] /\ Counted'
    <2>1. CASE outcome' = outcome
      BY <1>1, <2>1, SameCalls DEF Passes, Types, Counted
    <2>2. CASE outcome' = [i \in Index |->
                IF outcome[i] = "none" THEN "skipped" ELSE outcome[i]]
      BY <1>1, <2>2, SameCalls DEF Passes, Outcomes, Counted
    <2> QED
      BY <2>1, <2>2 DEF TryOutputs
  <1>3. CASE left # {} /\ Start({Min(left)}) /\ pos' = Min(left) + 1
    <2>1. left \subseteq Nat \ {0}
      BY CallsFinite DEF Passes
    <2>2. Min(left) \in left
      BY <1>3, <2>1, Least
    <2>3. /\ stage' = [i \in Index |-> IF i \in {Min(left)} THEN "running" ELSE stage[i]]
          /\ phase' = "group"
      BY <1>3 DEF Start
    <2> HIDE DEF left
    <2>4. pos' \in Nat \ {0}
      <3>1. Min(left) \in Nat \ {0}
        BY <2>1, <2>2
      <3> QED
        BY <1>3, <3>1
    <2>5. /\ stage' \in [Index -> Stages]
          /\ \A i \in Index : ~IsOutput(i) => stage'[i] = "idle"
      BY <1>1, <2>2, <2>3 DEF left, Stages
    <2>6. Types'
      BY <1>1, <1>2, <2>3, <2>4, <2>5, SameCalls DEF Passes, Types, Phases
    <2>7. Order' /\ Budget' /\ BarrierAlone'
      BY <1>1, <2>3, <2>5, SameCalls
      DEF Order, Budget, BarrierAlone, FunctionPass, OutputPass, Running
    <2> QED
      BY <1>2, <2>6, <2>7 DEF Passes
  <1>4. CASE phase' \in {"collect", "returned"} /\ UNCHANGED <<pos, stage>>
    BY <1>1, <1>2, <1>4, Elsewhere DEF Phases
  <1>5. CASE ~OverLimit /\ phase' = "scan" /\ pos' = 1 /\ stage' = stage
    <2>1. Types'
      BY <1>1, <1>2, <1>5, SameCalls DEF Passes, Types, Running, Phases
    <2>2. Order' /\ BarrierAlone'
      BY <1>1, <1>5, SameCalls, CallsFinite
      DEF Passes, Order, BarrierAlone, FunctionPass, OutputPass, Running
    <2>3. Budget'
      <3>1. Open' = {i \in Index : Counts(i)}
        BY <1>1, <1>5, SameCalls DEF Open, Counts, IsOutput
      <3>2. Cardinality(Open') \in Nat
        BY <3>1, CallsFinite DEF Passes
      <3> QED
        BY <1>1, <1>5, <3>1, <3>2, ConstantsAssumption DEF Budget, OverLimit
    <2> QED
      BY <1>2, <2>1, <2>2, <2>3 DEF Passes
  <1> QED
    BY <1>3, <1>4, <1>5 DEF TryOutputs, Return

\* The calls a pass has ahead of it, and those it starts or answers next.
Ahead == {i \in Index : i >= pos /\ Visited(i)}
Free  == {i \in Ahead : \A j \in Ahead : j <= i => ~Stops(j)}
Group == IF Free # {} THEN Free ELSE {Min(Ahead)}

\* The next group is the head of what is ahead, and a call that stops the pass
\* is the only one of its group.
LEMMA GroupHeads ==
    ASSUME Types, Ahead # {}
    PROVE  /\ Group \subseteq Ahead /\ Max(Group) \in Group
           /\ \A i \in Group : i <= Max(Group)
           /\ \A i \in Ahead : i <= Max(Group) => i \in Group
           /\ \A i \in Group : Stops(i) => Group = {i}
  <1>1. Ahead \subseteq 1..Len(calls) /\ Len(calls) \in Nat
    BY CallsFinite DEF Ahead
  <1>0. Ahead \subseteq Nat /\ \A j \in Ahead : j \in Int
    BY <1>1
  <1>2. Min(Ahead) \in Ahead /\ \A i \in Ahead : Min(Ahead) <= i
    BY <1>0, Least
  <1>3. Group \subseteq Ahead /\ Group # {}
    BY <1>2 DEF Group, Free
  <1>4. Max(Group) \in Group /\ \A i \in Group : i <= Max(Group)
    BY <1>1, <1>3, Greatest
  <1>5. CASE Free # {}
    <2>1. Group = Free
      BY <1>5 DEF Group
    <2>2. ASSUME NEW i \in Ahead, i <= Max(Group) PROVE i \in Free
      <3>1. \A j \in Ahead : j <= Max(Group) => ~Stops(j)
        BY <1>4, <2>1 DEF Free
      <3>2. /\ i \in Int /\ Max(Group) \in Int /\ \A j \in Ahead : j \in Int
        BY <1>0, <1>3, <1>4
      <3> QED
        BY <2>2, <3>1, <3>2 DEF Free
    <2>3. \A i \in Free : ~Stops(i)
      BY <1>1 DEF Free
    <2> QED
      BY <1>3, <1>4, <2>1, <2>2, <2>3
  <1>6. CASE Free = {}
    <2>1. Group = {Min(Ahead)}
      BY <1>6 DEF Group
    <2>2. ASSUME NEW i \in Ahead, i <= Max(Group) PROVE i \in Group
      <3>1. Max(Group) = Min(Ahead) /\ Min(Ahead) <= i /\ i \in Int /\ Min(Ahead) \in Int
        BY <1>0, <1>2, <1>4, <2>1
      <3> QED
        BY <2>1, <2>2, <3>1
    <2> QED
      BY <1>3, <1>4, <2>1, <2>2
  <1> QED
    BY <1>5, <1>6

\* Every pass over the calls visits the function calls.
LEMMA FunctionsVisited ==
    ASSUME Types, Taken, NEW i \in Index, ~IsOutput(i)
    PROVE  Visited(i)
  BY CallsFinite DEF Taken, Visited, IsOutput

\* The three passes start their next group, or are over.
LEMMA ScanKeeps == ASSUME Passes, Taken, Scan PROVE Passes'
  <1>1. /\ phase = "scan" /\ Running = {} /\ pos \in Nat \ {0} /\ FunctionPass
        /\ UNCHANGED <<agent, calls, toolCalls, deferred>>
        /\ \A i \in Index : ~IsOutput(i) => (stage[i] = "idle" <=> i >= pos)
        /\ toolCalls \in Nat /\ toolCalls <= ToolCallLimit /\ deferred \subseteq Index
        /\ stage \in [Index -> Stages] /\ outcome \in [Index -> Outcomes] /\ Types
    BY DEF Passes, Types, Order, Budget, FunctionPass, OutputPass, Scan, response, counters
  <1>2. CASE phase' = "collect" /\ UNCHANGED <<pos, stage, outcome>>
    <2>1. Counted'
      BY <1>1, <1>2, SameCalls DEF Passes, Counted
    <2> QED
      BY <1>1, <1>2, <2>1, Elsewhere DEF Phases
  <1>3. CASE Ahead # {} /\ pos' = Max(Group) + 1 /\ ((Start(Group) /\ UNCHANGED outcome)
             \/ \E o \in {"final", "skipped"} : /\ \E i \in Group : Skipped(i)
                   /\ outcome' = [outcome EXCEPT ![Min(Group)] = o]
                   /\ UNCHANGED <<phase, stage>>)
    <2> DEFINE m == Max(Group)
    <2>1. /\ Group \subseteq Ahead /\ m \in Group
          /\ \A i \in Group : i <= m
          /\ \A i \in Ahead : i <= m => i \in Group
          /\ \A i \in Group : Stops(i) => Group = {i}
      BY <1>1, <1>3, GroupHeads
    <2>2. m \in Nat \ {0} /\ m >= pos /\ m \in Index
      BY <1>1, <2>1, CallsFinite DEF Ahead
    <2>3. \A i \in Index : i \in Int
      BY <1>1, CallsFinite
    <2> HIDE DEF m
    <2>4. pos' = m + 1 /\ pos' \in Nat \ {0}
      BY <1>3, <2>2 DEF m
    <2>5. ASSUME NEW i \in Index, ~IsOutput(i)
          PROVE  /\ i \in Group <=> i >= pos /\ i <= m
                 /\ i >= pos' <=> i >= pos /\ ~(i \in Group)
      <3>1. Visited(i)
        BY <1>1, <2>5, FunctionsVisited
      <3>2. i \in Ahead <=> i >= pos
        BY <2>5, <3>1 DEF Ahead
      <3>3. i \in Group <=> i >= pos /\ i <= m
        BY <2>1, <3>2
      <3> QED
        BY <1>1, <2>2, <2>3, <2>4, <3>3
    <2>6. CASE Start(Group) /\ UNCHANGED outcome
      <3>1. /\ stage' = [i \in Index |-> IF i \in Group THEN "running" ELSE stage[i]]
            /\ phase' = "group"
        BY <2>6 DEF Start
      <3>2. stage' \in [Index -> Stages]
        BY <1>1, <3>1 DEF Stages
      <3>3. Types' /\ Counted'
        BY <1>1, <2>4, <2>6, <3>1, <3>2, SameCalls DEF Passes, Types, Counted, Phases
      <3>4. Order'
        <4>1. \A i \in Index : ~IsOutput(i) => (stage'[i] = "idle" <=> i >= pos')
          BY <1>1, <2>5, <3>1
        <4> QED
          BY <3>1, <4>1, <1>1, SameCalls DEF Order
      <3>5. Budget'
        <4>1. Open' = Open
          BY <1>1, <2>5, <3>1, SameCalls DEF Open, Counts, IsOutput
        <4> QED
          BY <1>1, <4>1 DEF Passes, Budget
      <3>6. BarrierAlone'
        <4>1. Running' = Group
          BY <1>1, <2>1, <3>1, SameCalls DEF Running, Ahead
        <4>2. SUFFICES ASSUME NEW i \in Group, ~IsOutput(i), agent.serial \/ calls[i] = "barrier"
                       PROVE  /\ Group = {i}
                              /\ \A j \in Index : ~IsOutput(j) =>
                                    /\ j < i => stage'[j] = "settled"
                                    /\ j > i => stage'[j] = "idle"
          BY <1>1, <4>1, SameCalls DEF BarrierAlone
        <4>3. Group = {i} /\ i = m
          BY <2>1, <4>2 DEF Stops
        <4>4. ASSUME NEW j \in Index, ~IsOutput(j)
              PROVE  /\ j < i => stage'[j] = "settled"
                     /\ j > i => stage'[j] = "idle"
          <5>1. stage[j] \in {"idle", "settled"}
            BY <1>1 DEF Running, Stages
          <5>2. /\ j \in Int /\ i \in Int
                /\ j # i => stage'[j] = stage[j]
            BY <2>2, <2>3, <3>1, <4>3
          <5>3. j < i => ~(j >= pos)
            BY <2>2, <2>3, <2>5, <4>3, <4>4
          <5>4. j > i => j >= pos
            BY <1>1, <2>2, <2>3, <4>3, <5>2
          <5>5. stage[j] = "idle" <=> j >= pos
            BY <1>1, <4>4
          <5>6. CASE j < i
            BY <5>1, <5>2, <5>3, <5>5, <5>6
          <5>7. CASE j > i
            BY <5>1, <5>2, <5>4, <5>5, <5>7
          <5> QED
            BY <5>2, <5>6, <5>7
        <4> QED
          BY <4>3, <4>4
      <3> QED
        BY <3>3, <3>4, <3>5, <3>6 DEF Passes
    <2>7. CASE \E o \in {"final", "skipped"} : /\ \E i \in Group : Skipped(i)
                   /\ outcome' = [outcome EXCEPT ![Min(Group)] = o]
                   /\ UNCHANGED <<phase, stage>>
      <3>1. PICK i \in Group : IsOutput(i) /\ Group = {i} /\ i = m
        BY <2>1, <2>7 DEF Skipped, Stops
      <3>2. outcome' \in [Index -> Outcomes] /\ Counted'
        BY <1>1, <2>7, SameCalls DEF Passes, Counted, Outcomes
      <3>3. Types'
        BY <1>1, <2>4, <2>7, <3>2, SameCalls DEF Types, Running, Phases
      <3>4. Order' /\ Budget' /\ BarrierAlone'
        <4>1. \A j \in Index : ~IsOutput(j) => (stage'[j] = "idle" <=> j >= pos')
          BY <1>1, <2>5, <2>7, <3>1
        <4>2. Open' = Open /\ Running' = {}
          BY <1>1, <2>7, SameCalls DEF Open, Running
        <4> QED
          BY <1>1, <2>7, <4>1, <4>2, SameCalls DEF Passes, Order, Budget, BarrierAlone
      <3> QED
        BY <3>2, <3>3, <3>4 DEF Passes
    <2> QED
      BY <1>3, <2>6, <2>7
  <1> QED
    BY <1>2, <1>3 DEF Scan, Ahead, Free, Group, progress

-----------------------------------------------------------------------------
(* Goroutines *)

\* A call that runs goes on: what has been started does not change.
LEMMA GoesOn ==
    ASSUME Passes, NEW i \in Running, NEW s \in Stages \ {"idle", "settled"},
           stage' = [stage EXCEPT ![i] = s],
           UNCHANGED <<agent, calls, phase, pos, toolCalls, deferred>>,
           outcome' \in [Index -> Outcomes], Counted'
    PROVE  Passes'
  <1>1. /\ i \in Index /\ stage \in [Index -> Stages] /\ stage[i] \notin {"idle", "settled"}
        /\ phase = "group" /\ Running # {}
    BY DEF Passes, Types, Running
  <1>2. /\ stage' \in [Index -> Stages] /\ Running' = Running /\ Open' = Open
        /\ \A j \in Index : /\ stage'[j] = "idle" <=> stage[j] = "idle"
                            /\ stage'[j] = "settled" <=> stage[j] = "settled"
    BY <1>1, SameCalls DEF Running, Open, Stages
  <1>3. Types' /\ Order' /\ Budget'
    BY <1>1, <1>2, SameCalls DEF Passes, Types, Order, Budget, FunctionPass, OutputPass
  <1>4. BarrierAlone'
    BY <1>1, <1>2, SameCalls DEF Passes, BarrierAlone, Running
  <1> QED
    BY <1>3, <1>4 DEF Passes

\* A tool returns.
LEMMA ExecuteKeeps == ASSUME Passes, NEW i \in Index, Execute(i) PROVE Passes'
  <1>1. /\ i \in Running /\ stage' = [stage EXCEPT ![i] = "returned"] /\ calls[i] # "hidden"
        /\ UNCHANGED <<agent, calls, phase, pos, toolCalls, deferred>>
    BY DEF Execute, Running, response
  <1>2. PICK o \in Outcomes : /\ outcome' = [outcome EXCEPT ![i] = o]
                              /\ o = "return" => ~IsOutput(i)
    BY DEF Execute, Retry, Outcomes, FunctionParts, Failures
  <1>3. outcome' \in [Index -> Outcomes] /\ Counted'
    <2>1. ~IsOutput(i) => Counts(i)
      <3>1. calls[i] \in {"plain", "barrier", "hidden", "output"}
        BY CallsFinite DEF Passes, Types
      <3> QED
        BY <1>1, <3>1 DEF IsOutput, Counts
    <2> QED
      BY <1>1, <1>2, <2>1, SameCalls DEF Passes, Types, Counted
  <1> QED
    BY <1>1, <1>3, GoesOn DEF Stages

\* An unavailable tool is refused.
LEMMA RefusalKeeps ==
    ASSUME Passes, NEW i \in Index, EnterRefusal(i) \/ LeaveRefusal(i)
    PROVE  Passes'
  <1>1. PICK s \in {"refusing", "returned"} :
            /\ i \in Running /\ stage' = [stage EXCEPT ![i] = s]
            /\ UNCHANGED <<agent, calls, phase, pos, toolCalls, deferred>>
    BY DEF EnterRefusal, LeaveRefusal, Running, response, counters
  <1>2. \/ outcome' = outcome
        \/ \E o \in Outcomes \ {"return"} : outcome' = [outcome EXCEPT ![i] = o]
    BY DEF EnterRefusal, LeaveRefusal, Retry, Outcomes, FunctionParts, Failures
  <1>3. outcome' \in [Index -> Outcomes] /\ Counted'
    BY <1>1, <1>2, SameCalls DEF Passes, Types, Counted
  <1> QED
    BY <1>1, <1>3, GoesOn DEF Stages

\* A call is over: it leaves the open calls when it is counted.
LEMMA SettleKeeps == ASSUME Passes, NEW i \in Index, Settle(i) PROVE Passes'
  <1>1. /\ i \in Running /\ stage' = [stage EXCEPT ![i] = "settled"] /\ stage[i] = "returned"
        /\ UNCHANGED <<agent, calls, phase, pos, deferred>> /\ phase = "group"
        /\ stage \in [Index -> Stages] /\ toolCalls \in Nat /\ Types
    BY DEF Passes, Types, Settle, Running, response
  <1>2. \/ toolCalls' = toolCalls
        \/ toolCalls' = toolCalls + 1 /\ Counts(i)
    BY <1>1 DEF Passes, Counted, Settle
  <1>3. \E o \in {"dropped", "stopped", outcome[i]} : outcome' = [outcome EXCEPT ![i] = o]
    BY DEF Settle
  <1>4. outcome' \in [Index -> Outcomes] /\ Counted'
    BY <1>1, <1>3, SameCalls DEF Passes, Types, Counted, Outcomes, Failures
  <1>5. /\ stage' \in [Index -> Stages] /\ Running' = Running \ {i}
        /\ \A j \in Index : stage'[j] = "idle" <=> stage[j] = "idle"
        /\ \A j \in Index : stage[j] = "settled" => stage'[j] = "settled"
    BY <1>1, SameCalls DEF Running, Stages
  <1>6. Types'
    BY <1>1, <1>2, <1>4, <1>5, SameCalls DEF Types
  <1>7. FunctionPass' = FunctionPass /\ Order'
    BY <1>1, <1>5, SameCalls DEF Passes, Order, FunctionPass, OutputPass
  <1>8. Budget'
    <2>1. CASE Counts(i)
      <3>1. FunctionPass
        BY <1>1, <2>1 DEF FunctionPass, OutputPass, Counts, IsOutput
      <3>2. Open' = Open \ {i} /\ i \in Open
        BY <1>1, <2>1, SameCalls DEF Open
      <3>3. IsFiniteSet(Open)
        BY <1>1, CallsFinite DEF Open
      <3>4. Cardinality(Open) \in Nat /\ Cardinality(Open') = Cardinality(Open) - 1
        BY <3>2, <3>3, FS_RemoveElement, FS_CardinalityType
      <3>5. Cardinality(Open') \in Nat
        BY <3>2, <3>3, FS_RemoveElement, FS_CardinalityType
      <3>6. toolCalls + Cardinality(Open) <= ToolCallLimit
        BY <3>1 DEF Passes, Budget
      <3> QED
        BY <1>1, <1>2, <3>4, <3>5, <3>6, ConstantsAssumption DEF Budget
    <2>2. CASE ~Counts(i)
      <3>1. Open' = Open /\ toolCalls' = toolCalls
        BY <1>1, <1>2, <2>2, SameCalls DEF Open
      <3> QED
        BY <1>7, <3>1 DEF Passes, Budget
    <2> QED
      BY <2>1, <2>2
  <1>9. BarrierAlone'
    BY <1>1, <1>5, SameCalls DEF Passes, BarrierAlone
  <1> QED
    BY <1>4, <1>6, <1>7, <1>8, <1>9 DEF Passes

\* The group is over.
LEMMA JoinKeeps == ASSUME Passes, Join PROVE Passes'
  <1>1. /\ phase = "group" /\ Running = {}
        /\ UNCHANGED <<agent, calls, pos, stage, outcome, toolCalls, deferred>>
        /\ Types /\ toolCalls <= ToolCallLimit
    BY DEF Passes, Types, Budget, Join, JoinGuard, response, progress, counters
  <1>2. Counted'
    BY <1>1, SameCalls DEF Passes, Counted
  <1>3. CASE phase' = "returned"
    BY <1>1, <1>2, <1>3, Elsewhere DEF Types, Phases
  <1>4. CASE phase' = IF OutputPass THEN "outputs" ELSE "scan"
    <2>1. Types'
      BY <1>1, <1>4, SameCalls DEF Types, Running, Phases
    <2>2. FunctionPass' = FunctionPass /\ Open' = Open /\ Running' = {}
      BY <1>1, <1>4, SameCalls DEF FunctionPass, OutputPass, Open, Running
    <2>3. Order'
      <3>1. phase' = "outputs" => Early /\ \A i \in Index : IsOutput(i) \/ stage[i] = "idle"
        BY <1>1, <1>4 DEF OutputPass
      <3> QED
        BY <1>1, <1>4, <2>2, <3>1, SameCalls DEF Passes, Order
    <2>4. Budget' /\ BarrierAlone'
      BY <1>1, <2>2 DEF Passes, Budget, BarrierAlone
    <2> QED
      BY <1>2, <2>1, <2>3, <2>4 DEF Passes
  <1> QED
    BY <1>1, <1>3, <1>4 DEF Join, Return, OutputPass

-----------------------------------------------------------------------------
(* The theorems *)

\* Cancelling a run takes nothing back.
LEMMA StillKeeps ==
    ASSUME Passes,
           UNCHANGED <<agent, calls, phase, pos, stage, outcome, toolCalls, deferred>>
    PROVE  Passes'
  BY DEF Passes, Types, Counted, Order, Budget, BarrierAlone, FunctionPass, OutputPass, Open,
         Running, Index, Early, IsOutput, Counts

\* A committed winner stays what it was until the next response.
LEMMA TakenKeeps == ASSUME Passes, Taken, [Next]_vars PROVE Taken'
  <1>1. CASE Respond
    <2>1. agent.size.calls \in Nat
      BY ConstantsAssumption DEF Passes, Types
    <2> QED
      BY <1>1, <2>1 DEF Respond, Taken, IsOutput, Index
  <1>2. CASE UNCHANGED <<calls, committed>> /\ (committed => winner' = winner)
    BY <1>2 DEF Taken, IsOutput, Index
  <1>3. \/ Respond
        \/ UNCHANGED <<calls, committed>> /\ (committed => winner' = winner)
    BY DEF Next, vars, response, Goroutine, ModelEnds, Begin, TryOutputs, Scan, Join, Collect,
       Returned, Handlers, Answer, Execute, EnterRefusal, LeaveRefusal, Settle, Cancel, Finished
  <1> QED
    BY <1>1, <1>2, <1>3

\* Every step keeps the invariant.
LEMMA StepKeeps == ASSUME IInv, [Next]_vars PROVE IInv'
  <1>1. CASE Next
    BY <1>1, RespondKeeps, AfterwardsKeeps, BeginKeeps, TryOutputsKeeps, ScanKeeps, JoinKeeps,
       ExecuteKeeps, RefusalKeeps, SettleKeeps, StillKeeps, TakenKeeps
    DEF IInv, Next, Goroutine, Cancel, Finished, vars, response, progress, counters
  <1>2. CASE UNCHANGED vars
    BY <1>2, StillKeeps, TakenKeeps DEF IInv, vars, response, progress, counters
  <1> QED
    BY <1>1, <1>2

\* The inductive invariant: which calls a pass has started, and how many of
\* them may still be counted.
THEOREM PassesKept == Spec => []IInv
  <1>1. Init => IInv
    BY InitKeeps DEF IInv, Init, Taken
  <1>2. IInv /\ [Next]_vars => IInv'
    BY StepKeeps
  <1> QED
    BY <1>1, <1>2, PTL DEF Spec

\* While a sequential tool runs nothing else does, every function call before
\* it is finished and none after it has started, under every end strategy.
THEOREM BarriersHold == Spec => []BarrierAlone
  <1>1. IInv => BarrierAlone
    BY DEF IInv, Passes
  <1> QED
    BY PassesKept, <1>1, PTL

\* Parallel goroutines never count more successful calls than the limit, which
\* is checked once before the calls of a response and once for its approvals.
THEOREM LimitKept == Spec => []LimitHeld
  <1>1. IInv => LimitHeld
    BY DEF IInv, Passes, Budget, LimitHeld
  <1> QED
    BY PassesKept, <1>1, PTL

-----------------------------------------------------------------------------
(* Answers *)

Done(i) == outcome[i] # "none"

\* Of a call, what it came to is known once it has run, or been passed over.
Covered ==
    /\ \A i \in Index : stage[i] \in {"returned", "settled"} => Done(i)
    /\ OutputPass => \A i \in Index : IsOutput(i) /\ i < pos => Done(i) \/ i \in Running
    /\ FunctionPass => \A i \in Index : i < pos \/ ~Visited(i) => Done(i) \/ i \in Running
    /\ phase = "collect" => \A i \in Index : Done(i)

\* Only a cancelled run drops a result.
Undropped == ctx = "live" => \A i \in Index : outcome[i] # "dropped"

Matched ==
    \A i \in Index :
        \/ (request.parts[i] # "none") # (i \in deferred)
        \/ committed /\ outcome[i] = "deferred"

Collected ==
    \/ phase = "returned" /\ why = "none"
    \/ phase \in {"handlers", "answer"}
    \/ request.state = "complete"

Answered ==
    /\ request = [state |-> request.state, parts |-> request.parts]
    /\ phase \in {"begin", "outputs", "scan", "group", "collect", "returned"} =>
           request.state = "none"
    /\ Collected /\ ctx = "live" => Matched

AInv == IInv /\ Covered /\ Undropped /\ Answered

\* What a step that touches neither the calls nor their outcomes keeps.
LEMMA OutcomesKept ==
    ASSUME Covered, Undropped, UNCHANGED <<agent, calls, committed, winner, pos, stage, outcome>>,
           ctx' = "live" => ctx = "live",
           \/ phase' = phase
           \/ phase' \notin {"outputs", "scan", "group", "collect"}
    PROVE  Covered' /\ Undropped'
  BY DEF Covered, Undropped, Done, OutputPass, FunctionPass, Running, Visited, Index, Early,
         Graceful, IsOutput

\* A run starts with nothing to answer.
LEMMA InitAnswers == Init => Covered /\ Undropped /\ Answered
  <1> SUFFICES ASSUME Init PROVE Covered /\ Undropped /\ Answered
    OBVIOUS
  <1>1. Index = {} /\ phase = "model" /\ request = [state |-> "none", parts |-> <<>>]
    BY DEF Init, Index
  <1> QED
    BY <1>1 DEF Covered, Undropped, Answered, Collected

\* A response starts with an empty answer.
LEMMA RespondAnswers ==
    ASSUME IInv, Respond
    PROVE  Covered' /\ Undropped' /\ Answered'
  <1>1. PICK n \in 1..agent.size.calls : \E kinds \in [1..n -> Kinds] :
            /\ calls' = kinds
            /\ stage' = [i \in 1..n |-> "idle"] /\ outcome' = [i \in 1..n |-> "none"]
            /\ request' = [state |-> "none", parts |-> [i \in 1..n |-> "none"]]
    BY DEF Respond
  <1>2. Index' = 1..n /\ phase' = "begin"
    BY <1>1 DEF Index, Respond
  <1> QED
    BY <1>1, <1>2 DEF Covered, Undropped, Answered, Collected, OutputPass, FunctionPass

\* Before anything runs.
LEMMA BeginAnswers ==
    ASSUME IInv, Covered, Undropped, Answered, Begin
    PROVE  Covered' /\ Undropped' /\ Answered'
  <1>1. /\ phase = "begin" /\ pos = 1 /\ Running = {} /\ \A i \in Index : stage[i] = "idle"
        /\ UNCHANGED <<agent, calls, committed, winner, pos, stage>>
        /\ ctx' = "live" => ctx = "live"
    BY DEF IInv, Passes, Types, Order, Begin, response
  <1>2. Answered'
    BY <1>1 DEF Answered, Collected, Begin, Return
  <1>3. CASE UNCHANGED outcome /\ phase' = "returned"
    BY <1>1, <1>2, <1>3, OutcomesKept
  <1>4. CASE /\ outcome' = [i \in Index |->
                    IF ~committed \/ Graceful THEN "none"
                    ELSE IF i = winner THEN "final" ELSE IF Early THEN "skipped" ELSE "none"]
             /\ phase' = CASE Early /\ committed  -> "collect"
                           [] Early /\ ~committed -> "outputs"
                           [] OTHER               -> "scan"
    <2>1. Undropped'
      BY <1>1, <1>4, SameCalls DEF Undropped
    <2>2. CASE phase' = "collect"
      <3>1. Early /\ committed /\ ~Graceful
        BY <1>4, <2>2 DEF Early, Graceful
      <3>2. \A i \in Index : outcome'[i] # "none"
        BY <1>4, <3>1
      <3> QED
        BY <1>1, <1>2, <2>1, <2>2, <3>2, SameCalls
        DEF Covered, Done, OutputPass, FunctionPass
    <2>3. CASE phase' = "outputs"
      BY <1>1, <1>2, <2>1, <2>3, SameCalls, CallsFinite
      DEF IInv, Passes, Covered, OutputPass, FunctionPass
    <2>4. CASE phase' = "scan"
      <3>1. ~Early
        BY <1>4, <2>4
      <3>2. ASSUME NEW i \in Index, i < pos' \/ ~Visited(i)' PROVE outcome'[i] # "none"
        <4>1. committed /\ i = winner /\ ~Graceful
          BY <1>1, <3>1, <3>2, CallsFinite DEF IInv, Passes, Visited, Early, Graceful
        <4> QED
          BY <1>4, <4>1
      <3> QED
        BY <1>1, <1>2, <2>1, <2>4, <3>2, SameCalls
        DEF Covered, Done, OutputPass, FunctionPass
    <2> QED
      BY <1>4, <2>2, <2>3, <2>4, <1>2, <2>1
  <1> QED
    BY <1>3, <1>4, <1>2 DEF Begin, Return

\* The pass over the output calls leaves none of them without an outcome.
LEMMA TryOutputsAnswers ==
    ASSUME IInv, Covered, Undropped, Answered, TryOutputs
    PROVE  Covered' /\ Undropped' /\ Answered'
  <1> DEFINE left == {i \in Index : i >= pos /\ IsOutput(i)}
  <1>1. /\ phase = "outputs" /\ Early /\ Running = {} /\ pos \in Nat \ {0} /\ OutputPass
        /\ \A i \in Index : ~IsOutput(i) => stage[i] = "idle"
        /\ UNCHANGED <<agent, calls, committed, ctx>> /\ Types
        /\ \A i \in Index : i \in Int
    BY CallsFinite DEF IInv, Passes, Types, Order, OutputPass, TryOutputs, response
  <1>2. \A i \in Index : IsOutput(i) /\ i < pos => Done(i)
    BY <1>1 DEF Covered
  <1>3. Answered'
    BY <1>1 DEF Answered, Collected, TryOutputs, Return, Start
  <1>4. CASE left # {} /\ Start({Min(left)}) /\ pos' = Min(left) + 1 /\ UNCHANGED outcome
    <2>1. left \subseteq Nat \ {0}
      BY <1>1, CallsFinite
    <2>2. Min(left) \in left /\ \A i \in left : Min(left) <= i
      BY <1>4, <2>1, Least
    <2>3. /\ stage' = [i \in Index |-> IF i \in {Min(left)} THEN "running" ELSE stage[i]]
          /\ phase' = "group"
      BY <1>4 DEF Start
    <2>4. Min(left) \in Running' /\ Min(left) \in Int
      BY <1>1, <2>1, <2>2, <2>3, SameCalls DEF Running
    <2>5. ASSUME NEW i \in Index, IsOutput(i), i < pos'
          PROVE  Done(i) \/ i \in Running'
      <3>1. CASE i < pos
        BY <1>2, <2>5, <3>1
      <3>2. CASE i = Min(left)
        BY <2>4, <3>2
      <3> QED
        BY <1>1, <1>4, <2>2, <2>4, <2>5, <3>1, <3>2
    <2>6. OutputPass' /\ ~FunctionPass' /\ ~(phase' = "collect")
      BY <1>1, <2>2, <2>3, SameCalls DEF OutputPass, FunctionPass
    <2>7. \A i \in Index : stage'[i] \in {"returned", "settled"} => Done(i)
      BY <1>1, <2>3 DEF Covered
    <2> QED
      BY <1>1, <1>3, <1>4, <2>5, <2>6, <2>7, SameCalls DEF Covered, Undropped, Done
  <1>5. CASE /\ phase' = "collect" /\ UNCHANGED stage
             /\ outcome' = [i \in Index |-> IF outcome[i] = "none" THEN "skipped" ELSE outcome[i]]
    BY <1>1, <1>3, <1>5, SameCalls DEF Covered, Undropped, Done, OutputPass, FunctionPass
  <1>6. CASE phase' = "returned" /\ UNCHANGED <<pos, stage, outcome, winner>>
    BY <1>1, <1>3, <1>6, OutcomesKept
  <1>7. CASE left = {} /\ phase' = "scan" /\ pos' = 1 /\ UNCHANGED <<stage, outcome, winner>>
    <2>1. ASSUME NEW i \in Index, i < pos' \/ ~Visited(i)' PROVE Done(i)
      <3>1. IsOutput(i)
        BY <1>1, <1>7, <2>1, SameCalls, CallsFinite DEF Visited
      <3> QED
        BY <1>1, <1>2, <1>7, <3>1
    <2> QED
      BY <1>1, <1>3, <1>7, <2>1, SameCalls
      DEF Covered, Undropped, Done, OutputPass, FunctionPass
  <1> QED
    BY <1>3, <1>4, <1>5, <1>6, <1>7 DEF TryOutputs, Return

\* A pass leaves behind only calls it starts or answers.
LEMMA ScanAnswers ==
    ASSUME IInv, Covered, Undropped, Answered, Scan
    PROVE  Covered' /\ Undropped' /\ Answered'
  <1>1. /\ phase = "scan" /\ Running = {} /\ pos \in Nat \ {0} /\ Types /\ FunctionPass
        /\ UNCHANGED <<agent, calls, committed, winner, ctx>>
        /\ outcome \in [Index -> Outcomes]
        /\ \A i \in Index : i \in Int
    BY CallsFinite DEF IInv, Passes, Types, FunctionPass, OutputPass, Scan, response
  <1>2. \A i \in Index : i < pos \/ ~Visited(i) => Done(i)
    BY <1>1 DEF Covered
  <1>3. Answered'
    BY <1>1 DEF Answered, Collected, Scan, Start
  <1>4. \A i : Visited(i)' <=> Visited(i)
    BY <1>1 DEF Visited, Early, Graceful, IsOutput
  <1>5. CASE Ahead = {} /\ phase' = "collect" /\ UNCHANGED <<stage, outcome>>
    <2>1. \A i \in Index : Done(i)
      BY <1>1, <1>2, <1>5 DEF Ahead
    <2> QED
      BY <1>1, <1>3, <1>5, <2>1, SameCalls
      DEF Covered, Undropped, Done, OutputPass, FunctionPass
  <1>6. CASE Ahead # {} /\ pos' = Max(Group) + 1 /\ ((Start(Group) /\ UNCHANGED outcome)
             \/ \E o \in {"final", "skipped"} : /\ \E i \in Group : Skipped(i)
                   /\ outcome' = [outcome EXCEPT ![Min(Group)] = o]
                   /\ UNCHANGED <<phase, stage>>)
    <2>1. /\ Group \subseteq Ahead /\ Max(Group) \in Group
          /\ \A i \in Ahead : i <= Max(Group) => i \in Group
          /\ \A i \in Group : Stops(i) => Group = {i}
      BY <1>1, <1>6, GroupHeads
    <2>2. Max(Group) \in Int /\ Group \subseteq Index
      BY <1>1, <2>1 DEF Ahead
    <2>3. ASSUME NEW i \in Index, i < pos' \/ ~Visited(i)' PROVE Done(i) \/ i \in Group
      <3>1. CASE i < pos \/ ~Visited(i)
        BY <1>2, <3>1
      <3>2. CASE ~(i < pos) /\ Visited(i)
        <4>1. i <= Max(Group)
          BY <1>1, <1>4, <1>6, <2>2, <2>3, <3>2
        <4> QED
          BY <1>1, <2>1, <3>2, <4>1 DEF Ahead
      <3> QED
        BY <3>1, <3>2
    <2>4. CASE Start(Group) /\ UNCHANGED outcome
      <3>1. /\ stage' = [i \in Index |-> IF i \in Group THEN "running" ELSE stage[i]]
            /\ phase' = "group"
        BY <2>4 DEF Start
      <3>2. Group \subseteq Running'
        BY <1>1, <2>2, <3>1, SameCalls DEF Running
      <3>3. ~OutputPass'
        <4>1. CASE Early
          <5>1. Max(Group) \in Index /\ ~IsOutput(Max(Group)) /\ stage'[Max(Group)] = "running"
            BY <2>1, <2>2, <3>1, <4>1 DEF Ahead, Visited
          <5> QED
            BY <1>1, <3>1, <5>1, SameCalls DEF OutputPass
        <4>2. CASE ~Early
          BY <1>1, <3>1, <4>2, SameCalls DEF OutputPass
        <4> QED
          BY <4>1, <4>2
      <3>4. \A i \in Index : stage'[i] \in {"returned", "settled"} => Done(i)
        BY <3>1 DEF Covered
      <3> QED
        BY <1>1, <1>3, <2>3, <2>4, <3>1, <3>2, <3>3, <3>4, SameCalls DEF Covered, Undropped, Done
    <2>5. CASE \E o \in {"final", "skipped"} : /\ \E i \in Group : Skipped(i)
                   /\ outcome' = [outcome EXCEPT ![Min(Group)] = o]
                   /\ UNCHANGED <<phase, stage>>
      <3>1. PICK i \in Group : Group = {i}
        BY <2>1, <2>5 DEF Skipped, Stops
      <3>2. Min(Group) = i
        <4>1. Group \subseteq Nat /\ Group # {}
          BY <1>1, <2>2, <3>1, CallsFinite
        <4> QED
          BY <3>1, <4>1, Least
      <3>3. PICK o \in {"final", "skipped"} : outcome' = [outcome EXCEPT ![i] = o]
        BY <2>5, <3>2
      <3>4. /\ \A j \in Index : Done(j) \/ j \in Group => outcome'[j] # "none"
            /\ \A j \in Index : outcome'[j] # outcome[j] => outcome'[j] # "dropped"
        BY <1>1, <2>2, <3>1, <3>3 DEF Done
      <3>5. phase' = "scan" /\ stage' = stage
        BY <1>1, <2>5
      <3> QED
        BY <1>1, <1>3, <2>3, <3>4, <3>5, SameCalls
        DEF Covered, Undropped, Done, OutputPass, FunctionPass
    <2> QED
      BY <1>6, <2>4, <2>5
  <1> QED
    BY <1>3, <1>5, <1>6 DEF Scan, Ahead, Free, Group, progress

\* A goroutine that goes on keeps what is done, and its own call is done when
\* it returns.
LEMMA RunningAnswers ==
    ASSUME IInv, Covered, Answered, NEW i \in Running, NEW s \in Stages \ {"idle"},
           NEW o, stage' = [stage EXCEPT ![i] = s], outcome' = [outcome EXCEPT ![i] = o],
           o # "none" \/ (s = "refusing" /\ o = outcome[i]),
           UNCHANGED <<agent, calls, committed, winner, phase, pos, request, deferred, why>>
    PROVE  Covered' /\ Answered'
  <1>1. /\ i \in Index /\ phase = "group" /\ stage \in [Index -> Stages]
        /\ outcome \in [Index -> Outcomes] /\ stage[i] # "idle"
    BY DEF IInv, Passes, Types, Running
  <1>2. /\ \A j \in Index : stage'[j] = "idle" <=> stage[j] = "idle"
        /\ \A j \in Index : Done(j) => Done(j)'
        /\ \A j \in Index : j \in Running => j \in Running' \/ Done(j)'
        /\ \A j \in Index : stage'[j] \in {"returned", "settled"} => Done(j)'
    BY <1>1, SameCalls DEF Covered, Done, Running, Stages
  <1>3. \A j : Visited(j)' <=> Visited(j)
    BY DEF Visited, Early, Graceful, IsOutput
  <1>4. OutputPass' = OutputPass /\ FunctionPass' = FunctionPass
    BY <1>1, <1>2, SameCalls DEF OutputPass, FunctionPass
  <1>5. Covered'
    BY <1>1, <1>2, <1>3, <1>4, SameCalls DEF Covered
  <1>6. Answered'
    BY <1>1, SameCalls DEF Answered, Collected
  <1> QED
    BY <1>5, <1>6

\* The steps of a goroutine.
LEMMA GoroutineAnswers ==
    ASSUME IInv, Covered, Undropped, Answered, NEW i \in Index, Goroutine(i)
    PROVE  Covered' /\ Undropped' /\ Answered'
  <1>1. /\ i \in Running /\ outcome \in [Index -> Outcomes]
        /\ ctx' = "live" => ctx = "live"
        /\ UNCHANGED <<agent, calls, committed, winner, phase, pos, request, deferred, why>>
    BY DEF IInv, Passes, Types, Goroutine, Execute, EnterRefusal, LeaveRefusal, Settle, Running,
       response
  <1>2. /\ stage' = [stage EXCEPT ![i] = stage'[i]]
        /\ outcome' = [outcome EXCEPT ![i] = outcome'[i]]
        /\ stage'[i] \in {"refusing", "returned", "settled"}
        /\ outcome'[i] # "none" \/ (stage'[i] = "refusing" /\ outcome'[i] = outcome[i])
        /\ outcome'[i] = "dropped" => outcome[i] = "dropped" \/ ctx # "live"
    <2>0. /\ i \in Index /\ stage \in [Index -> Stages] /\ outcome \in [Index -> Outcomes]
          /\ stage[i] = "returned" => outcome[i] # "none"
      BY <1>1 DEF IInv, Passes, Types, Covered, Done
    <2>1. CASE Execute(i)
      BY <2>0, <2>1 DEF Execute, Retry
    <2>2. CASE EnterRefusal(i)
      BY <2>0, <2>2 DEF EnterRefusal
    <2>3. CASE LeaveRefusal(i)
      BY <2>0, <2>3 DEF LeaveRefusal, Retry
    <2>4. CASE Settle(i)
      BY <2>0, <2>4 DEF Settle
    <2> QED
      BY <2>1, <2>2, <2>3, <2>4 DEF Goroutine
  <1>3. PICK s, o : s \in Stages /\ s = stage'[i] /\ o = outcome'[i]
    BY <1>2 DEF Stages
  <1>4. /\ stage' = [stage EXCEPT ![i] = s] /\ outcome' = [outcome EXCEPT ![i] = o]
        /\ s \in Stages \ {"idle"} /\ (o # "none" \/ (s = "refusing" /\ o = outcome[i]))
        /\ o = "dropped" => outcome[i] = "dropped" \/ ctx # "live"
    BY <1>2, <1>3
  <1>5. Covered' /\ Answered'
    BY <1>1, <1>4, RunningAnswers
  <1>6. Undropped'
    <2>1. \A j \in Index : outcome'[j] = IF j = i THEN o ELSE outcome[j]
      BY <1>1, <1>4
    <2> QED
      BY <1>1, <1>4, <2>1, SameCalls DEF Undropped
  <1> QED
    BY <1>5, <1>6

\* A group that is over has given every call of it an outcome.
LEMMA JoinAnswers ==
    ASSUME IInv, Covered, Undropped, Answered, Join
    PROVE  Covered' /\ Undropped' /\ Answered'
  <1>1. /\ phase = "group" /\ Running = {} /\ Types
        /\ UNCHANGED <<agent, calls, committed, pos, stage, outcome, ctx, deferred>>
    BY DEF IInv, Passes, Join, JoinGuard, response, progress
  <1>2. CASE Failed # {}
    <2>1. Failed \subseteq Nat
      BY <1>1, CallsFinite DEF Failed
    <2>2. outcome[Min(Failed)] \in Failures
      <3>1. Min(Failed) \in Failed
        BY <1>2, <2>1, Least
      <3> QED
        BY <3>1 DEF Failed
    <2>3. /\ phase' = "returned" /\ why' # "none" /\ request' = [request EXCEPT !.parts = Completed]
          /\ winner' = winner
      BY <1>2, <2>2 DEF Join, Return, Failures
    <2>4. Answered'
      BY <1>1, <2>3 DEF Answered, Collected
    <2> QED
      BY <1>1, <2>3, <2>4, OutcomesKept
  <1>3. CASE Failed = {}
    <2>1. /\ phase' = IF OutputPass THEN "outputs" ELSE "scan"
          /\ UNCHANGED <<why, request>> /\ (committed => winner' = winner)
      BY <1>1, <1>3 DEF Join, OutputPass
    <2>2. OutputPass' = OutputPass /\ FunctionPass' = FunctionPass /\ Running' = {}
      <3>1. phase' = "outputs" => Early /\ \A i \in Index : IsOutput(i) \/ stage[i] = "idle"
        BY <1>1, <2>1 DEF OutputPass
      <3> QED
        BY <1>1, <2>1, <3>1, SameCalls DEF OutputPass, FunctionPass, Running
    <2>3. \A i : Visited(i)' <=> Visited(i)
      BY <1>1, <2>1 DEF Visited, Early, Graceful, IsOutput
    <2>4. Covered'
      BY <1>1, <2>1, <2>2, <2>3, SameCalls DEF Covered, Done
    <2>5. Undropped' /\ Answered'
      BY <1>1, <2>1, SameCalls DEF Undropped, Answered, Collected
    <2> QED
      BY <2>4, <2>5
  <1> QED
    BY <1>2, <1>3

\* The answer that is put together has a part for every call, or the call is
\* deferred.
LEMMA CollectAnswers ==
    ASSUME IInv, Covered, Undropped, Answered, Collect
    PROVE  Covered' /\ Undropped' /\ Answered'
  <1> DEFINE final == Won # {} /\ ~RetryWins
             replies == [i \in Index |-> IF committed THEN CommittedPart(i) ELSE Part(i, final)]
  <1>1. /\ phase = "collect" /\ phase' = "returned"
        /\ UNCHANGED <<agent, calls, committed, pos, stage, outcome>>
        /\ \A i \in Index : outcome[i] # "none"
    BY DEF Collect, Return, response, progress, Covered, Done
  <1>2. ctx' = "live" => ctx = "live"
    BY DEF Collect
  <1>3. Covered' /\ Undropped'
    BY <1>1, <1>2, SameCalls DEF Covered, Undropped, Done, OutputPass, FunctionPass
  <1>4. request.state = "none" /\ request = [state |-> request.state, parts |-> request.parts]
    BY <1>1 DEF Answered
  <1>5. CASE Return("none", replies) /\ UNCHANGED ctx
    <2>1. request' = [state |-> "none", parts |-> replies] /\ why' = "none"
      BY <1>4, <1>5 DEF Return
    <2>2. deferred' = IF committed \/ final THEN {} ELSE {i \in Index : outcome[i] = "deferred"}
      BY DEF Collect
    <2>3. ASSUME ctx = "live", NEW i \in Index
          PROVE  \/ (replies[i] # "none") # (i \in deferred')
                 \/ committed /\ outcome[i] = "deferred"
      <3>1. outcome[i] # "none" /\ outcome[i] # "dropped"
        BY <1>1, <2>3 DEF Undropped
      <3>2. CASE committed
        BY <2>2, <3>1, <3>2 DEF CommittedPart
      <3>3. CASE ~committed
        <4>1. replies[i] = Part(i, final)
          BY <3>3
        <4>2. Part(i, final) = "none" <=> outcome[i] = "deferred" /\ ~final
          <5> HIDE DEF final
          <5> QED
            BY <3>1 DEF Part, DeferredPart
        <4>3. i \in deferred' <=> outcome[i] = "deferred" /\ ~final
          BY <2>2, <3>3
        <4> QED
          BY <4>1, <4>2, <4>3
      <3> QED
        BY <3>2, <3>3
    <2> HIDE DEF replies
    <2>4. ctx = "live" => Matched'
      BY <1>1, <2>1, <2>3, SameCalls DEF Matched
    <2>5. Answered'
      BY <1>1, <1>2, <2>1, <2>4 DEF Answered, Collected
    <2> QED
      BY <1>3, <2>5
  <1>6. CASE Return("usage", replies) \/ Return("stopped", Nothing)
    <2>1. PICK p : request' = [request EXCEPT !.parts = p]
      BY <1>6 DEF Return
    <2>2. why' # "none"
      BY <1>6 DEF Return
    <2>3. Answered'
      BY <1>1, <1>4, <2>1, <2>2 DEF Answered, Collected
    <2> QED
      BY <1>3, <2>3
  <1> QED
    BY <1>5, <1>6 DEF Collect

\* After executeCalls, the answer is handed on, or nobody will read it.
LEMMA ReturnedAnswers ==
    ASSUME IInv, Covered, Undropped, Answered, ModelEnds \/ Returned \/ Answer
    PROVE  Covered' /\ Undropped' /\ Answered'
  <1>1. /\ UNCHANGED <<agent, calls, committed, winner, pos, stage, outcome, ctx, deferred>>
        /\ phase' \in {"ended", "handlers", "answer", "model"}
    BY DEF ModelEnds, Returned, Answer, End, response, progress
  <1>2. Covered' /\ Undropped'
    BY <1>1, OutcomesKept
  <1>3. /\ request = [state |-> request.state, parts |-> request.parts]
        /\ Collected /\ ctx = "live" => Matched
    BY DEF Answered
  <1>4. /\ request' = [state |-> request'.state, parts |-> request'.parts]
        /\ request'.parts = request.parts
    <2>1. \/ request' = request
          \/ \E t : request' = [request EXCEPT !.state = t]
      BY DEF ModelEnds, Returned, Answer
    <2> QED
      BY <1>3, <2>1
  <1>5. Matched' <=> Matched
    BY <1>1, <1>4, SameCalls DEF Matched
  <1>6. Collected' /\ ctx = "live" => Collected
    <2>1. CASE ModelEnds
      BY <2>1 DEF ModelEnds, End, Collected
    <2>2. CASE Returned
      BY <1>3, <2>2 DEF Returned, End, Collected
    <2>3. CASE Answer
      BY <2>3 DEF Answer, Collected
    <2> QED
      BY <2>1, <2>2, <2>3
  <1> QED
    BY <1>1, <1>2, <1>3, <1>4, <1>5, <1>6 DEF Answered

\* A handler answers the calls it resolves, which are deferred no longer.
LEMMA HandlersAnswers ==
    ASSUME IInv, Covered, Undropped, Answered, Handlers
    PROVE  Covered' /\ Undropped' /\ Answered'
  <1>1. /\ UNCHANGED <<agent, calls, committed, winner, pos, stage, outcome, ctx>>
        /\ phase = "handlers" /\ phase' \in {"ended", "answer"}
    BY DEF Handlers, End, response, progress
  <1>2. Covered' /\ Undropped'
    BY <1>1, OutcomesKept
  <1>3. /\ request = [state |-> request.state, parts |-> request.parts]
        /\ ctx = "live" => Matched
    BY <1>1 DEF Answered, Collected
  <1>4. CASE UNCHANGED <<request, deferred>>
    <2>1. Matched' <=> Matched
      BY <1>1, <1>4, SameCalls DEF Matched
    <2> QED
      BY <1>1, <1>2, <1>3, <1>4, <2>1 DEF Answered
  <1>5. CASE \E resolved \in SUBSET deferred : \E approved \in SUBSET resolved :
                 /\ deferred' = deferred \ resolved
                 /\ \E done \in SUBSET approved :
                        IF ctx = "cancelled" THEN UNCHANGED request
                        ELSE request' = [request EXCEPT !.parts = [i \in Index |->
                                IF i \in approved \ done THEN "failed"
                                ELSE IF i \in resolved THEN "return" ELSE request.parts[i]]]
    <2>1. PICK resolved \in SUBSET deferred : \E approved \in SUBSET resolved :
                 /\ deferred' = deferred \ resolved
                 /\ \E done \in SUBSET approved :
                        IF ctx = "cancelled" THEN UNCHANGED request
                        ELSE request' = [request EXCEPT !.parts = [i \in Index |->
                                IF i \in approved \ done THEN "failed"
                                ELSE IF i \in resolved THEN "return" ELSE request.parts[i]]]
      BY <1>5
    <2>2. PICK approved \in SUBSET resolved :
                 /\ deferred' = deferred \ resolved
                 /\ \E done \in SUBSET approved :
                        IF ctx = "cancelled" THEN UNCHANGED request
                        ELSE request' = [request EXCEPT !.parts = [i \in Index |->
                                IF i \in approved \ done THEN "failed"
                                ELSE IF i \in resolved THEN "return" ELSE request.parts[i]]]
      BY <2>1
    <2>3. PICK done \in SUBSET approved :
                        IF ctx = "cancelled" THEN UNCHANGED request
                        ELSE request' = [request EXCEPT !.parts = [i \in Index |->
                                IF i \in approved \ done THEN "failed"
                                ELSE IF i \in resolved THEN "return" ELSE request.parts[i]]]
      BY <2>2
    <2>4. CASE ctx = "live"
      <3>1. request' = [state |-> request.state, parts |-> [i \in Index |->
                                IF i \in approved \ done THEN "failed"
                                ELSE IF i \in resolved THEN "return" ELSE request.parts[i]]]
        BY <1>3, <2>3, <2>4
      <3>2. Matched'
        BY <1>1, <1>3, <2>2, <2>4, <3>1, SameCalls DEF Matched
      <3> QED
        BY <1>1, <1>2, <3>1, <3>2 DEF Answered
    <2>5. CASE ctx # "live"
      <3>1. request' = [state |-> request'.state, parts |-> request'.parts]
        BY <1>3, <2>3
      <3> QED
        BY <1>1, <1>2, <2>5, <3>1 DEF Answered
    <2> QED
      BY <2>4, <2>5
  <1> QED
    BY <1>4, <1>5 DEF Handlers

\* A cancelled run owes no answer.
LEMMA StillAnswers ==
    ASSUME Covered, Undropped, Answered, ctx' = "live" => ctx = "live",
           UNCHANGED <<response, winner, phase, pos, stage, outcome, request, deferred, why>>
    PROVE  Covered' /\ Undropped' /\ Answered'
  <1>1. UNCHANGED <<agent, calls, committed>>
    BY DEF response
  <1>2. Covered' /\ Undropped'
    BY <1>1, OutcomesKept
  <1>3. Answered'
    BY <1>1, SameCalls DEF Answered, Collected, Matched
  <1> QED
    BY <1>2, <1>3

\* What every reachable state knows of its answer.
THEOREM AnswersKept == Spec => []AInv
  <1>1. Init => AInv
    BY InitKeeps, InitAnswers DEF AInv, IInv, Init, Taken
  <1>2. ASSUME AInv, [Next]_vars PROVE AInv'
    <2>1. IInv /\ Covered /\ Undropped /\ Answered
      BY <1>2 DEF AInv
    <2>2. IInv'
      BY <1>2, <2>1, StepKeeps
    <2>3. CASE Next
      <3>1. CASE \E i \in Index : Goroutine(i)
        BY <2>1, <2>2, <3>1, GoroutineAnswers DEF AInv
      <3>2. CASE Cancel \/ Finished
        <4>1. /\ ctx' = "live" => ctx = "live"
              /\ UNCHANGED <<response, winner, phase, pos, stage, outcome, request, deferred, why>>
          BY <3>2 DEF Cancel, Finished, vars, response, progress
        <4> QED
          BY <2>1, <2>2, <4>1, StillAnswers DEF AInv
      <3> QED
        BY <2>1, <2>2, <2>3, <3>1, <3>2, RespondAnswers, BeginAnswers, TryOutputsAnswers,
           ScanAnswers, JoinAnswers, CollectAnswers, ReturnedAnswers, HandlersAnswers
        DEF Next, AInv
    <2>4. CASE UNCHANGED vars
      <3>1. /\ ctx' = "live" => ctx = "live"
            /\ UNCHANGED <<response, winner, phase, pos, stage, outcome, request, deferred, why>>
        BY <2>4 DEF vars, response
      <3> QED
        BY <2>1, <2>2, <3>1, StillAnswers DEF AInv
    <2> QED
      BY <1>2, <2>3, <2>4
  <1> QED
    BY <1>1, <1>2, PTL DEF Spec

\* Every call of a response is answered exactly once, by a part of the request
\* or as a deferred call, for every strategy, streaming and kind of outcome: a
\* provider refuses a history where a call has no result, or two.
\* As in ToolCalls, runs cancelled meanwhile and deferred calls beside an
\* output committed while streaming are exempt.
THEOREM EveryCallAnswered == Spec => []AnswersEveryCall
  <1>1. AInv => AnswersEveryCall
    BY DEF AInv, Answered, Collected, Matched, AnswersEveryCall
  <1> QED
    BY AnswersKept, <1>1, PTL

-----------------------------------------------------------------------------
(* The result *)

\* Only output calls give an output, and only a committed one is final before
\* the answer is put together.  With early, a function call has run only when
\* no output call has succeeded, and then none runs any more.
Winners ==
    /\ \A i \in Index : outcome[i] = "output" => IsOutput(i)
    /\ ~committed => \A i \in Index : outcome[i] # "final"
    /\ Early /\ ~committed =>
         /\ phase = "outputs" /\ winner = 0 => Won = {}
         /\ FunctionPass => Won = {} /\ \A i \in Running : ~IsOutput(i)
         /\ phase = "collect" /\ Won # {} =>
              \A i \in Index : IsOutput(i) \/ stage[i] = "idle"

\* The answer in the making stands by the result it names.
Verdict ==
    /\ winner # 0 =>
         /\ {i \in Index : request.parts[i] = "final"} = {winner}
         /\ outcome[winner] = "output"
         /\ \A i \in 1..(winner - 1) : outcome[i] # "output"
         /\ IF Early THEN \A i \in Index : Counts(i) => stage[i] = "idle" ELSE ~FunctionRetry
    /\ winner = 0 /\ Won # {} => ~Early /\ FunctionRetry
    /\ winner # 0 => deferred = {}

Judged ==
    ~committed /\ ((phase = "returned" /\ why = "none") \/ phase \in {"handlers", "answer"})
        => Verdict /\ (phase = "handlers" => winner = 0)

JInv == AInv /\ Winners /\ Judged

\* An action after the calls leaves what they came to as it is.
LEMMA WinnersKept ==
    ASSUME Winners, UNCHANGED <<agent, calls, committed, outcome>>,
           phase' \notin {"outputs", "scan", "group", "collect"}
    PROVE  Winners'
  BY SameCalls DEF Winners, FunctionPass

\* A run starts without a result.
LEMMA InitJudges == Init => Winners /\ Judged
  <1> SUFFICES ASSUME Init PROVE Winners /\ Judged
    OBVIOUS
  <1>1. Index = {} /\ phase = "model"
    BY DEF Init, Index
  <1> QED
    BY <1>1 DEF Winners, Judged, FunctionPass

\* A response starts without one.
LEMMA RespondJudges == ASSUME IInv, Respond PROVE Winners' /\ Judged'
  <1>1. PICK n \in 1..agent.size.calls : \E kinds \in [1..n -> Kinds] :
            calls' = kinds /\ outcome' = [i \in 1..n |-> "none"]
    BY DEF Respond
  <1>2. Index' = 1..n /\ phase' = "begin"
    BY <1>1 DEF Index, Respond
  <1> QED
    BY <1>1, <1>2 DEF Winners, Judged, FunctionPass

\* Before anything runs no call has an output.
LEMMA BeginJudges == ASSUME IInv, Winners, Begin PROVE Winners' /\ Judged'
  <1>1. /\ phase = "begin" /\ Running = {}
        /\ UNCHANGED <<agent, calls, committed, winner, pos, stage>>
    BY DEF IInv, Passes, Types, Begin, response
  <1>2. CASE UNCHANGED outcome /\ phase' = "returned" /\ why' # "none"
    BY <1>1, <1>2, WinnersKept DEF Judged
  <1>3. CASE /\ outcome' = [i \in Index |->
                    IF ~committed \/ Graceful THEN "none"
                    ELSE IF i = winner THEN "final" ELSE IF Early THEN "skipped" ELSE "none"]
             /\ phase' \in {"collect", "outputs", "scan"}
    <2>1. Won' = {} /\ Running' = {}
      BY <1>1, <1>3, SameCalls DEF Won, Running
    <2>2. /\ \A i \in Index : outcome'[i] # "output"
          /\ ~committed => \A i \in Index : outcome'[i] # "final"
      BY <1>3
    <2> QED
      BY <1>1, <1>3, <2>1, <2>2, SameCalls DEF Winners, Judged
  <1> QED
    BY <1>2, <1>3 DEF Begin, Return

\* Early goes on to the function calls only without an output.
LEMMA TryOutputsJudges == ASSUME IInv, Winners, TryOutputs PROVE Winners' /\ Judged'
  <1> DEFINE left == {i \in Index : i >= pos /\ IsOutput(i)}
  <1>1. /\ phase = "outputs" /\ Early /\ Running = {} /\ pos \in Nat \ {0}
        /\ \A i \in Index : ~IsOutput(i) => stage[i] = "idle"
        /\ UNCHANGED <<agent, calls, committed, winner>> /\ Types
    BY DEF IInv, Passes, Types, Order, TryOutputs, response
  <1>2. CASE left # {} /\ Start({Min(left)}) /\ UNCHANGED outcome
    <2>1. left \subseteq Nat
      BY <1>1, CallsFinite DEF IInv, Passes
    <2>2. Min(left) \in left
      BY <1>2, <2>1, Least
    <2>3. /\ stage' = [i \in Index |-> IF i \in {Min(left)} THEN "running" ELSE stage[i]]
          /\ phase' = "group"
      BY <1>2 DEF Start
    <2>4. \A i \in Index : IsOutput(i) \/ stage'[i] = "idle"
      BY <1>1, <2>2, <2>3
    <2>5. OutputPass' /\ ~FunctionPass'
      BY <1>1, <2>3, <2>4, SameCalls DEF OutputPass, FunctionPass
    <2> QED
      BY <1>1, <1>2, <2>3, <2>4, <2>5, SameCalls DEF Winners, Judged, Won
  <1>3. CASE /\ phase' = "collect" /\ UNCHANGED stage
             /\ outcome' = [i \in Index |-> IF outcome[i] = "none" THEN "skipped" ELSE outcome[i]]
    <2>1. \A i \in Index : IsOutput(i) \/ stage'[i] = "idle"
      BY <1>1, <1>3
    <2> QED
      BY <1>1, <1>3, <2>1, SameCalls DEF Winners, Judged, FunctionPass
  <1>4. CASE phase' = "returned" /\ why' = "limit" /\ UNCHANGED outcome
    BY <1>1, <1>4, WinnersKept DEF Judged
  <1>5. CASE winner = 0 /\ phase' = "scan" /\ UNCHANGED <<stage, outcome>>
    <2>1. Running' = {}
      BY <1>1, <1>5, SameCalls DEF Running
    <2>2. ~committed => Won' = {}
      BY <1>1, <1>5, SameCalls DEF Winners, Won
    <2> QED
      BY <1>1, <1>5, <2>1, <2>2, SameCalls DEF Winners, Judged
  <1> QED
    BY <1>2, <1>3, <1>4, <1>5 DEF TryOutputs, Return

\* The second pass of early starts function calls, without an output so far.
LEMMA ScanJudges == ASSUME IInv, Winners, Scan PROVE Winners' /\ Judged'
  <1>1. /\ phase = "scan" /\ Running = {} /\ Types /\ FunctionPass
        /\ UNCHANGED <<agent, calls, committed, winner>>
        /\ outcome \in [Index -> Outcomes]
    BY DEF IInv, Passes, Types, FunctionPass, OutputPass, Scan, response
  <1>2. CASE Ahead = {} /\ phase' = "collect" /\ UNCHANGED <<stage, outcome>>
    BY <1>1, <1>2, SameCalls DEF Winners, Judged, FunctionPass, Won
  <1>3. CASE Ahead # {} /\ Start(Group) /\ UNCHANGED outcome
    <2>1. Group \subseteq Ahead
      BY <1>1, <1>3, GroupHeads
    <2>2. /\ stage' = [i \in Index |-> IF i \in Group THEN "running" ELSE stage[i]]
          /\ phase' = "group"
      BY <1>3 DEF Start
    <2>3. ASSUME Early PROVE \A i \in Running' : ~IsOutput(i)
      <3>1. Running' \subseteq Group
        BY <1>1, <2>2, SameCalls DEF Running
      <3> QED
        BY <2>1, <2>3, <3>1 DEF Ahead, Visited
    <2>4. Early /\ ~committed => Won' = {}
      BY <1>1, <1>3, SameCalls DEF Winners, Won
    <2>5. /\ \A i \in Index : outcome'[i] = "output" => IsOutput(i)
          /\ ~committed => \A i \in Index : outcome'[i] # "final"
      BY <1>3 DEF Winners
    <2> QED
      BY <1>1, <2>2, <2>3, <2>4, <2>5, SameCalls DEF Winners, Judged
  <1>4. CASE /\ Ahead # {} /\ \E i \in Group : Skipped(i)
             /\ \E o \in {"final", "skipped"} :
                    /\ outcome' = [outcome EXCEPT ![Min(Group)] = o]
                    /\ ~committed => o = "skipped"
             /\ UNCHANGED <<phase, stage>>
    <2>1. ~Early
      BY <1>4 DEF Skipped, Graceful, Early
    <2>2. PICK o : /\ outcome' = [outcome EXCEPT ![Min(Group)] = o]
                   /\ o # "output" /\ (~committed => o # "final")
      BY <1>4
    <2>3. /\ \A i \in Index : outcome'[i] = "output" => outcome[i] = "output"
          /\ ~committed => \A i \in Index : outcome'[i] = "final" => outcome[i] = "final"
      BY <1>1, <2>2
    <2>4. phase' = "scan" /\ ~Early'
      BY <1>1, <1>4, <2>1, SameCalls
    <2> QED
      BY <1>1, <2>3, <2>4, SameCalls DEF Winners, Judged
  <1> QED
    <2>1. \/ Ahead = {} /\ phase' = "collect" /\ UNCHANGED <<stage, outcome>>
          \/ Ahead # {} /\ Start(Group) /\ UNCHANGED outcome
          \/ /\ Ahead # {} /\ \E i \in Group : Skipped(i)
             /\ outcome' = [outcome EXCEPT ![Min(Group)] =
                               IF committed /\ Min(Group) = winner THEN "final" ELSE "skipped"]
             /\ UNCHANGED <<phase, stage>>
      BY DEF Scan, Ahead, Free, Group, progress
    <2> QED
      BY <1>2, <1>3, <1>4, <2>1

\* With early an output call runs beside output calls only.
LEMMA GoroutineJudges ==
    ASSUME IInv, Winners, NEW i \in Index, Goroutine(i)
    PROVE  Winners' /\ Judged'
  <1>1. /\ i \in Running /\ outcome \in [Index -> Outcomes] /\ stage \in [Index -> Stages]
        /\ phase = "group"
        /\ UNCHANGED <<agent, calls, committed, winner, phase, pos>>
    BY DEF IInv, Passes, Types, Goroutine, Execute, EnterRefusal, LeaveRefusal, Settle, Running,
       response
  <1>2. /\ stage' = [stage EXCEPT ![i] = stage'[i]]
        /\ outcome' = [outcome EXCEPT ![i] = outcome'[i]]
        /\ stage'[i] \in Stages \ {"idle"}
        /\ outcome'[i] = "output" => IsOutput(i)
        /\ outcome'[i] # "final" \/ outcome'[i] = outcome[i]
    <2>1. CASE Execute(i)
      BY <1>1, <2>1 DEF Execute, Retry, Stages
    <2>2. CASE EnterRefusal(i)
      BY <1>1, <2>2 DEF EnterRefusal, Stages, Winners
    <2>3. CASE LeaveRefusal(i)
      BY <1>1, <2>3 DEF LeaveRefusal, Retry, Stages
    <2>4. CASE Settle(i)
      BY <1>1, <2>4 DEF Settle, Stages, Winners
    <2> QED
      BY <2>1, <2>2, <2>3, <2>4 DEF Goroutine
  <1>3. /\ \A j \in Index : j # i => outcome'[j] = outcome[j] /\ stage'[j] = stage[j]
        /\ stage[i] # "idle" /\ stage'[i] # "idle"
    BY <1>1, <1>2 DEF Running
  <1>4. OutputPass' = OutputPass /\ FunctionPass' = FunctionPass /\ Running' \subseteq Running
    <2>1. \A j \in Index : stage'[j] = "idle" <=> stage[j] = "idle"
      BY <1>3
    <2>2. OutputPass' = OutputPass
      BY <1>1, <2>1, SameCalls DEF OutputPass
    <2> QED
      BY <1>1, <1>3, <2>2, SameCalls DEF FunctionPass, Running
  <1>5. ASSUME Early, ~committed, FunctionPass PROVE Won' = {}
    <2>1. Won = {} /\ ~IsOutput(i)
      BY <1>1, <1>5 DEF Winners
    <2> QED
      BY <1>1, <1>2, <1>3, <2>1, SameCalls DEF Won
  <1>6. /\ \A j \in Index : outcome'[j] = "output" => IsOutput(j)
        /\ ~committed => \A j \in Index : outcome'[j] # "final"
    BY <1>2, <1>3 DEF Winners
  <1>7. Early /\ ~committed /\ FunctionPass => \A j \in Running' : ~IsOutput(j)
    BY <1>1, <1>4 DEF Winners
  <1>8. Judged' /\ phase' = "group"
    BY <1>1 DEF Judged
  <1> QED
    BY <1>1, <1>4, <1>5, <1>6, <1>7, <1>8, SameCalls DEF Winners

\* A group of output calls that is over names its winner.
LEMMA JoinJudges == ASSUME IInv, Winners, Join PROVE Winners' /\ Judged'
  <1>1. /\ phase = "group" /\ Running = {} /\ Types
        /\ UNCHANGED <<agent, calls, committed, stage, outcome>>
    BY DEF IInv, Passes, Join, JoinGuard, response, progress
  <1>2. Won' = Won /\ Running' = {}
    BY <1>1, SameCalls DEF Won, Running
  <1>3. CASE Failed # {}
    <2>1. Min(Failed) \in Failed
      BY <1>1, <1>3, CallsFinite, Least DEF Failed
    <2>2. phase' = "returned" /\ why' # "none"
      BY <1>3, <2>1 DEF Join, Return, Failed, Failures
    <2> QED
      BY <1>1, <2>2, WinnersKept DEF Judged
  <1>4. CASE Failed = {}
    <2>1. /\ phase' \in {"outputs", "scan"}
          /\ ~committed /\ Won # {} => winner' = Min(Won)
      BY <1>4 DEF Join
    <2>2. ~committed /\ winner' = 0 => Won = {}
      <3>1. ASSUME Won # {} PROVE Min(Won) # 0
        <4>1. Won \subseteq Nat \ {0}
          BY <1>1, CallsFinite DEF Won
        <4> QED
          BY <3>1, <4>1, Least
      <3> QED
        BY <2>1, <3>1
    <2>3. Early /\ ~committed /\ phase' = "scan" => Won = {}
      <3>1. phase' = "scan" /\ Early => FunctionPass
        BY <1>1, <1>4 DEF Join, FunctionPass, OutputPass
      <3> QED
        BY <3>1 DEF Winners
    <2>4. /\ \A i \in Index : outcome'[i] = "output" => IsOutput(i)
          /\ ~committed => \A i \in Index : outcome'[i] # "final"
      BY <1>1 DEF Winners
    <2> QED
      BY <1>1, <1>2, <2>1, <2>2, <2>3, <2>4, SameCalls DEF Winners, Judged, FunctionPass
  <1> QED
    BY <1>3, <1>4

\* The first output is the result, unless a function tool asked for a retry.
LEMMA CollectJudges == ASSUME IInv, Answered, Winners, Collect PROVE Winners' /\ Judged'
  <1> DEFINE final == Won # {} /\ ~RetryWins
             replies == [i \in Index |-> IF committed THEN CommittedPart(i) ELSE Part(i, final)]
  <1>1. /\ phase = "collect" /\ phase' = "returned" /\ Types
        /\ UNCHANGED <<agent, calls, committed, stage, outcome>>
    BY DEF IInv, Passes, Collect, Return, response, progress
  <1>2. Winners'
    BY <1>1, WinnersKept
  <1>3. CASE why' # "none" \/ committed
    BY <1>1, <1>2, <1>3 DEF Judged
  <1>4. CASE Return("none", replies) /\ ~committed
    <2>1. request'.parts = [i \in Index |-> Part(i, final)]
      <3>1. request' = [state |-> request.state, parts |-> replies]
        BY <1>1, <1>4 DEF Return, Answered
      <3> QED
        BY <1>4, <3>1
    <2>2. /\ winner' = IF final THEN Min(Won) ELSE 0
          /\ deferred' = IF final THEN {} ELSE {i \in Index : outcome[i] = "deferred"}
      BY <1>4 DEF Collect
    <2>3. Won' = Won /\ (FunctionRetry' <=> FunctionRetry)
      BY <1>1, SameCalls DEF Won, FunctionRetry
    <2>4. CASE final
      <3>1. Won \subseteq Index /\ Index \subseteq Nat \ {0} /\ Won # {}
        BY <1>1, <2>4, CallsFinite DEF Won
      <3>2. Min(Won) \in Won /\ \A i \in Won : Min(Won) <= i
        BY <3>1, Least
      <3>3. winner' = Min(Won) /\ winner' \in Index /\ winner' # 0 /\ outcome[winner'] = "output"
        BY <2>2, <2>4, <3>1, <3>2 DEF Won
      <3>4. \A i \in 1..(winner' - 1) : outcome'[i] # "output"
        <4>1. ASSUME NEW i \in 1..(Min(Won) - 1), outcome[i] = "output" PROVE FALSE
          <5>1. Min(Won) \in 1..Len(calls) /\ Len(calls) \in Nat
            BY <1>1, <3>1, <3>2, CallsFinite
          <5>2. i \in Won
            BY <1>1, <4>1, <5>1, CallsFinite DEF Won
          <5> QED
            BY <3>2, <4>1, <5>1, <5>2
        <4> QED
          BY <1>1, <3>3, <4>1
      <3>5. {i \in Index : request'.parts[i] = "final"} = {winner'}
        <4>1. ASSUME NEW i \in Index
              PROVE  Part(i, TRUE) = "final" <=> i = Min(Won)
          <5>1. outcome[i] # "final"
            BY <1>4 DEF Winners
          <5> QED
            BY <3>1, <3>2, <5>1 DEF Part, DeferredPart, Won
        <4>2. final = TRUE
          BY <2>4
        <4> QED
          BY <2>1, <3>1, <3>2, <3>3, <4>1, <4>2
      <3>6. Early => \A i \in Index : Counts(i) => stage[i] = "idle"
        BY <1>1, <1>4, <3>1 DEF Winners, Counts, IsOutput
      <3>7. ~Early => ~FunctionRetry
        BY <2>4 DEF RetryWins
      <3>8. Verdict'
        BY <1>1, <2>2, <2>3, <2>4, <3>3, <3>4, <3>5, <3>6, <3>7, SameCalls DEF Verdict
      <3> QED
        BY <1>1, <1>2, <3>8 DEF Judged
    <2>5. CASE ~final
      <3>1. Won # {} => ~Early /\ FunctionRetry
        BY <2>5 DEF RetryWins
      <3>2. Verdict'
        BY <1>1, <2>2, <2>3, <2>5, <3>1, SameCalls DEF Verdict
      <3> QED
        BY <1>1, <1>2, <3>2 DEF Judged
    <2> QED
      BY <2>4, <2>5
  <1> QED
    BY <1>3, <1>4 DEF Collect, Return

\* What is handed on is the same answer, and deferred calls are only resolved
\* when there is no result.
LEMMA AfterwardsJudges ==
    ASSUME Answered, Winners, Judged, ModelEnds \/ Returned \/ Handlers \/ Answer
    PROVE  Winners' /\ Judged'
  <1>1. /\ UNCHANGED <<agent, calls, committed, winner, stage, outcome>>
        /\ phase' \notin {"outputs", "scan", "group", "collect"}
    BY DEF ModelEnds, Returned, Handlers, Answer, End, response, progress
  <1>2. Winners'
    BY <1>1, WinnersKept
  <1>3. CASE committed \/ phase' \in {"ended", "model"}
    BY <1>1, <1>2, <1>3 DEF Judged
  <1>4. CASE ~committed /\ phase' \notin {"ended", "model"}
    <2>1. CASE Returned
      <3>1. /\ phase = "returned" /\ why = "none" /\ UNCHANGED <<request, deferred>>
            /\ phase' = IF deferred # {} THEN "handlers" ELSE "answer"
        BY <1>4, <2>1 DEF Returned, End
      <3>2. Verdict
        BY <1>4, <3>1 DEF Judged
      <3>3. Verdict'
        BY <1>1, <3>1, <3>2, SameCalls DEF Verdict, Won, FunctionRetry
      <3> QED
        BY <1>2, <3>1, <3>2, <3>3 DEF Judged, Verdict
    <2>2. CASE Handlers
      <3>1. phase = "handlers" /\ phase' = "answer"
        BY <1>4, <2>2 DEF Handlers, End
      <3>2. Verdict /\ winner = 0
        BY <1>4, <3>1 DEF Judged
      <3>3. Verdict'
        BY <1>1, <3>2, SameCalls DEF Verdict, Won, FunctionRetry
      <3> QED
        BY <1>2, <3>1, <3>3 DEF Judged
    <2> QED
      BY <1>4, <2>1, <2>2 DEF ModelEnds, Answer, End
  <1> QED
    BY <1>3, <1>4

\* A step that changes neither the answer nor the calls.
LEMMA StillJudges ==
    ASSUME Winners, Judged,
           UNCHANGED <<response, winner, phase, stage, outcome, request, deferred, why>>
    PROVE  Winners' /\ Judged'
  <1>1. UNCHANGED <<agent, calls, committed>>
    BY DEF response
  <1>2. Winners'
    BY <1>1, SameCalls DEF Winners, Won, FunctionPass, OutputPass, Running
  <1>3. Verdict' <=> Verdict
    BY <1>1, SameCalls DEF Verdict, Won, FunctionRetry
  <1> QED
    BY <1>1, <1>2, <1>3 DEF Judged

\* What every reachable state knows of its result.
THEOREM ResultsJudged == Spec => []JInv
  <1>1. Init => Winners /\ Judged
    BY InitJudges
  <1>2. ASSUME AInv, Winners, Judged, [Next]_vars PROVE Winners' /\ Judged'
    <2>1. IInv /\ Answered
      BY <1>2 DEF AInv
    <2>2. CASE \E i \in Index : Goroutine(i)
      BY <1>2, <2>1, <2>2, GoroutineJudges
    <2>3. CASE Cancel \/ Finished \/ UNCHANGED vars
      <3>1. UNCHANGED <<response, winner, phase, stage, outcome, request, deferred, why>>
        BY <2>3 DEF Cancel, Finished, vars, response, progress
      <3> QED
        BY <1>2, <3>1, StillJudges
    <2> QED
      BY <1>2, <2>1, <2>2, <2>3, RespondJudges, BeginJudges, TryOutputsJudges, ScanJudges,
         JoinJudges, CollectJudges, AfterwardsJudges
      DEF Next
  <1> QED
    BY AnswersKept, <1>1, <1>2, PTL DEF Spec, JInv

\* The output a run ends with is the first that succeeded in emission order and
\* the only part marked final; with early no function tool has run, otherwise
\* none asked for a retry, and an output is discarded only for such a retry:
\* for every strategy, any calls and any order of their goroutines.
THEOREM ResultsHold == Spec => []ResultJustified
  <1>1. JInv => ResultJustified
    BY DEF JInv, Judged, Verdict, ResultJustified
  <1> QED
    BY ResultsJudged, <1>1, PTL

-----------------------------------------------------------------------------
(* Types *)

\* A run gets past a join, to its next calls or to the answer, without a failed call.
Joined == phase \in {"begin", "outputs", "scan", "collect"} => Failed = {}

\* Calls and their positions, the winner, the counters and the ways a run ends.
InBounds ==
    /\ round \in 0..agent.size.rounds
    /\ calls \in Seq(Kinds) /\ Len(calls) <= agent.size.calls
    /\ pos <= agent.size.calls + 1
    /\ winner \in {0} \cup Index
    /\ ctx \in {"live", "cancelled", "detached"}
    /\ retries \in [Kinds -> Nat]
    /\ ended \in {"none", "text", "result", "deferred", "cancelled", "failed"}

Requests == [state : {"none", "interrupted", "complete"}, parts : [Index -> Contents]]

TInv == IInv /\ InBounds /\ Joined /\ request \in Requests

\* The fields of a request.
LEMMA RequestFields ==
    ASSUME request \in Requests
    PROVE  /\ request.state \in {"none", "interrupted", "complete"}
           /\ request.parts \in [Index -> Contents]
           /\ \A s \in {"none", "interrupted", "complete"} :
                [request EXCEPT !.state = s] \in Requests
           /\ \A p \in [Index -> Contents] : [request EXCEPT !.parts = p] \in Requests
  BY DEF Requests

\* A response has at most as many calls as the bound, and the pass stays among them.
LEMMA PositionsFit ==
    ASSUME IInv, InBounds, [Next]_vars
    PROVE  /\ round' \in 0..agent'.size.rounds
           /\ calls' \in Seq(Kinds) /\ Len(calls') <= agent'.size.calls
           /\ pos' <= agent'.size.calls + 1
  <1>0. /\ agent.size.calls \in Nat /\ agent.size.rounds \in Nat /\ Types
        /\ Index = 1..Len(calls) /\ Len(calls) \in Nat
    BY ConstantsAssumption, CallsFinite DEF IInv, Passes, Types
  <1>1. CASE Respond
    <2>1. PICK n \in 1..agent.size.calls : \E kinds \in [1..n -> Kinds] : calls' = kinds
      BY <1>1 DEF Respond
    <2>2. n \in Nat /\ calls' \in Seq(Kinds) /\ Len(calls') = n
      BY <1>0, <2>1
    <2>3. round' = round + 1 /\ round < agent.size.rounds /\ pos' = 1 /\ agent' = agent
      BY <1>1 DEF Respond
    <2>4. round \in Nat /\ n <= agent.size.calls
      BY <1>0, <2>1 DEF InBounds
    <2> QED
      BY <1>0, <2>2, <2>3, <2>4
  <1>2. CASE UNCHANGED <<agent, round, calls, pos>>
    BY <1>2 DEF InBounds
  <1>3. CASE TryOutputs
    <2> DEFINE left == {i \in Index : i >= pos /\ IsOutput(i)}
    <2>1. pos' = pos \/ pos' = 1 \/ (left # {} /\ pos' = Min(left) + 1)
      BY <1>3 DEF TryOutputs
    <2>2. left # {} => Min(left) \in Index
      <3>1. left \subseteq Nat
        BY <1>0
      <3> QED
        BY <3>1, Least
    <2>3. pos <= agent.size.calls + 1 /\ Len(calls) <= agent.size.calls
      BY DEF InBounds
    <2>4. pos' <= agent.size.calls + 1
      <3> HIDE DEF left
      <3> QED
        BY <1>0, <2>1, <2>2, <2>3
    <2> QED
      BY <1>3, <2>4 DEF InBounds, TryOutputs, response
  <1>4. CASE Scan
    <2>1. pos' = pos \/ (Ahead # {} /\ pos' = Max(Group) + 1)
      BY <1>4 DEF Scan, progress, Ahead, Free, Group
    <2>2. Ahead # {} => Max(Group) \in Index
      BY <1>0, GroupHeads DEF Ahead
    <2>3. pos <= agent.size.calls + 1 /\ Len(calls) <= agent.size.calls
      BY DEF InBounds
    <2>4. pos' <= agent.size.calls + 1
      BY <1>0, <2>1, <2>2, <2>3
    <2> QED
      BY <1>4, <2>4 DEF InBounds, Scan, response
  <1> QED
    BY <1>1, <1>2, <1>3, <1>4
    DEF Next, Goroutine, ModelEnds, Begin, Join, Collect, Returned, Handlers, Answer, Execute,
        EnterRefusal, LeaveRefusal, Settle, Cancel, Finished, vars, response, progress

\* The winner is a call of the response.
LEMMA WinnerFits ==
    ASSUME IInv, InBounds, [Next]_vars
    PROVE  winner' \in {0} \cup Index'
  <1>0. Won # {} => Min(Won) \in Index
    <2>1. Won \subseteq Index /\ Index \subseteq Nat
      BY CallsFinite DEF Won, IInv, Passes
    <2> QED
      BY <2>1, Least
  <1>1. CASE Respond
    <2>1. PICK n \in 1..agent.size.calls : \E kinds \in [1..n -> Kinds] :
            /\ calls' = kinds
            /\ winner' \in {0} \cup {i \in 1..n : TRUE}
      BY <1>1 DEF Respond
    <2>2. Index' = 1..n
      BY <2>1 DEF Index
    <2> QED
      BY <2>1, <2>2
  <1>2. CASE UNCHANGED <<calls, winner>>
    BY <1>2 DEF InBounds, Index
  <1>3. CASE Join
    BY <1>0, <1>3 DEF Join, InBounds, response, Index
  <1>4. CASE Collect
    BY <1>0, <1>4 DEF Collect, InBounds, response, Index
  <1> QED
    BY <1>1, <1>2, <1>3, <1>4
    DEF Next, Goroutine, ModelEnds, Begin, TryOutputs, Scan, Returned, Handlers, Answer, Execute,
        EnterRefusal, LeaveRefusal, Settle, Cancel, Finished, vars, response

\* Contexts, retry counters and the ends of a run.
LEMMA CountersFit ==
    ASSUME IInv, InBounds, [Next]_vars
    PROVE  /\ ctx' \in {"live", "cancelled", "detached"}
           /\ retries' \in [Kinds -> Nat]
           /\ ended' \in {"none", "text", "result", "deferred", "cancelled", "failed"}
  <1>1. ctx' \in {"live", "cancelled", "detached"}
    BY DEF InBounds, Next, Goroutine, Respond, ModelEnds, Begin, TryOutputs, Scan, Join, Collect,
           Returned, Handlers, Answer, Execute, EnterRefusal, LeaveRefusal, Settle, Cancel,
           Finished, vars
  <1>2. retries' \in [Kinds -> Nat]
    <2>1. ASSUME NEW i \in Index, Retry(i)
          PROVE  retries' \in [Kinds -> Nat]
      BY <2>1 DEF Retry, InBounds, Index
    <2>2. CASE UNCHANGED retries
      BY <2>2 DEF InBounds
    <2> QED
      BY <2>1, <2>2
      DEF Next, Goroutine, Respond, ModelEnds, Begin, TryOutputs, Scan, Join, Collect, Returned,
          Handlers, Answer, Execute, EnterRefusal, LeaveRefusal, Settle, Cancel, Finished, vars,
          counters
  <1>3. ended' \in {"none", "text", "result", "deferred", "cancelled", "failed"}
    BY DEF InBounds, Next, Goroutine, Respond, ModelEnds, Begin, TryOutputs, Scan, Join, Collect,
           Returned, Handlers, Answer, Execute, EnterRefusal, LeaveRefusal, Settle, Cancel,
           Finished, vars, End
  <1> QED
    BY <1>1, <1>2, <1>3

\* No failure of an earlier group is left when a call or the answer is next.
LEMMA StepJoined ==
    ASSUME IInv, Joined, [Next]_vars
    PROVE  Joined'
  <1>0. Types /\ outcome \in [Index -> Outcomes]
    BY DEF IInv, Passes, Types
  <1>1. CASE Respond
    <2>1. PICK n \in 1..agent.size.calls : \E kinds \in [1..n -> Kinds] :
            calls' = kinds /\ outcome' = [i \in 1..n |-> "none"]
      BY <1>1 DEF Respond
    <2>2. Failed' = {}
      BY <2>1 DEF Failed, Failures, Index
    <2> QED
      BY <2>2 DEF Joined
  <1>2. CASE phase' \notin {"begin", "outputs", "scan", "collect"}
    BY <1>2 DEF Joined
  <1>3. CASE /\ phase \in {"begin", "outputs", "scan", "collect"} /\ UNCHANGED calls
             /\ \A i \in Index : outcome'[i] \in Failures => outcome'[i] = outcome[i]
    BY <1>3 DEF Joined, Failed, Index
  <1>4. CASE Join
    BY <1>4 DEF Join, Return, Joined, Failed, Index, response, progress
  <1>5. CASE Begin
    <2>1. \A i \in Index : outcome'[i] \in Failures => outcome'[i] = outcome[i]
      BY <1>5 DEF Begin, Failures
    <2> QED
      BY <1>3, <1>5, <2>1 DEF Begin, response
  <1>6. CASE TryOutputs
    <2>1. \A i \in Index : outcome'[i] \in Failures => outcome'[i] = outcome[i]
      BY <1>6 DEF TryOutputs, Failures
    <2> QED
      BY <1>3, <1>6, <2>1 DEF TryOutputs, response
  <1>7. CASE Scan
    <2>1. \A i \in Index : outcome'[i] \in Failures => outcome'[i] = outcome[i]
      BY <1>0, <1>7 DEF Scan, Failures, progress
    <2> QED
      BY <1>3, <1>7, <2>1 DEF Scan, response
  <1>8. CASE \E i \in Index : Goroutine(i)
    <2>1. phase' = "group"
      BY <1>0, <1>8
      DEF Types, Running, Goroutine, Execute, EnterRefusal, LeaveRefusal, Settle
    <2> QED
      BY <1>2, <2>1
  <1>9. CASE UNCHANGED <<calls, phase, outcome>>
    BY <1>9 DEF Joined, Failed, Index
  <1>10. CASE ModelEnds \/ Collect \/ Returned \/ Handlers \/ Answer
    BY <1>2, <1>10 DEF ModelEnds, Collect, Return, Returned, Handlers, Answer, End
  <1> QED
    BY <1>1, <1>4, <1>5, <1>6, <1>7, <1>8, <1>9, <1>10
    DEF Next, Cancel, Finished, vars, response, progress

\* What has completed among calls is fit for a request.
LEMMA CompletedFits ==
    ASSUME Types
    PROVE  Completed \in [Index -> Contents]
  BY DEF Types, Completed, Contents, Kept, FunctionParts

\* A request answers calls with parts.
LEMMA StepRequests ==
    ASSUME IInv, Joined, request \in Requests, [Next]_vars
    PROVE  request' \in Requests'
  <1>0. Types /\ outcome \in [Index -> Outcomes]
    BY DEF IInv, Passes, Types
  <1>1. CASE Respond
    <2>1. PICK n \in 1..agent.size.calls : \E kinds \in [1..n -> Kinds] :
            /\ calls' = kinds
            /\ request' = [state |-> "none", parts |-> [i \in 1..n |-> "none"]]
      BY <1>1 DEF Respond
    <2>2. Index' = 1..n /\ [i \in 1..n |-> "none"] \in [Index' -> Contents]
      BY <2>1 DEF Index, Contents
    <2> QED
      BY <2>1, <2>2 DEF Requests
  <1>2. UNCHANGED calls => Requests' = Requests
    BY DEF Requests, Index
  <1>3. CASE UNCHANGED calls /\ \E p \in [Index -> Contents] :
                                  request' = [request EXCEPT !.parts = p]
    BY <1>2, <1>3, RequestFields
  <1>4. CASE UNCHANGED calls /\ \E s \in {"none", "interrupted", "complete"} :
                                  request' = [request EXCEPT !.state = s]
    BY <1>2, <1>4, RequestFields
  <1>5. CASE UNCHANGED <<calls, request>>
    BY <1>2, <1>5
  <1>6. Nothing \in [Index -> Contents] /\ Completed \in [Index -> Contents]
    BY <1>0, CompletedFits DEF Nothing, Contents
  <1>7. CASE Begin
    BY <1>3, <1>5, <1>6, <1>7 DEF Begin, Return, response
  <1>8. CASE TryOutputs
    BY <1>3, <1>5, <1>6, <1>8 DEF TryOutputs, Return, response
  <1>9. CASE Join
    BY <1>3, <1>5, <1>6, <1>9 DEF Join, Return, response
  <1>10. CASE Collect
    <2> DEFINE final == Won # {} /\ ~RetryWins
               replies == [i \in Index |-> IF committed THEN CommittedPart(i) ELSE Part(i, final)]
    <2>1. \A i \in Index : outcome[i] \notin Failures /\ outcome[i] \in Outcomes
      BY <1>0, <1>10 DEF Collect, Joined, Failed
    <2>2. \A i \in Index : CommittedPart(i) \in Contents
      BY <2>1 DEF CommittedPart, Contents, Kept, FunctionParts, Outcomes
    <2>3. \A i \in Index : Part(i, final) \in Contents
      <3> HIDE DEF final
      <3> QED
        BY <2>1 DEF Part, DeferredPart, Contents, Kept, FunctionParts, Outcomes
    <2>4. replies \in [Index -> Contents]
      BY <2>2, <2>3
    <2>5. \/ request' = [request EXCEPT !.parts = replies]
          \/ request' = [request EXCEPT !.parts = Nothing]
      BY <1>10 DEF Collect, Return
    <2>6. UNCHANGED calls
      BY <1>10 DEF Collect, response
    <2> HIDE DEF replies
    <2> QED
      BY <1>3, <1>6, <2>4, <2>5, <2>6
  <1>11. CASE Returned
    BY <1>4, <1>5, <1>11 DEF Returned, response
  <1>12. CASE Handlers
    <2>1. CASE UNCHANGED request
      BY <1>5, <1>12, <2>1 DEF Handlers, response
    <2>2. CASE ~UNCHANGED request
      <3>1. PICK resolved \in SUBSET deferred : \E approved \in SUBSET resolved :
              \E done \in SUBSET approved :
                request' = [request EXCEPT !.parts = [i \in Index |->
                              IF i \in approved \ done THEN "failed"
                              ELSE IF i \in resolved THEN "return" ELSE request.parts[i]]]
        BY <1>12, <2>2 DEF Handlers
      <3>2. PICK approved \in SUBSET resolved : \E done \in SUBSET approved :
                request' = [request EXCEPT !.parts = [i \in Index |->
                              IF i \in approved \ done THEN "failed"
                              ELSE IF i \in resolved THEN "return" ELSE request.parts[i]]]
        BY <3>1
      <3>3. PICK done \in SUBSET approved :
                request' = [request EXCEPT !.parts = [i \in Index |->
                              IF i \in approved \ done THEN "failed"
                              ELSE IF i \in resolved THEN "return" ELSE request.parts[i]]]
        BY <3>2
      <3>4. [i \in Index |-> IF i \in approved \ done THEN "failed"
                             ELSE IF i \in resolved THEN "return" ELSE request.parts[i]]
              \in [Index -> Contents]
        BY RequestFields DEF Contents, Kept, FunctionParts
      <3>5. UNCHANGED calls
        BY <1>12 DEF Handlers, response
      <3> QED
        BY <1>3, <3>3, <3>4, <3>5
    <2> QED
      BY <2>1, <2>2
  <1>13. CASE Answer
    <2>1. PICK s \in {"none", "interrupted", "complete"} : request' = [request EXCEPT !.state = s]
      BY <1>13, RequestFields DEF Answer
    <2> QED
      BY <1>4, <1>13, <2>1 DEF Answer, response
  <1>14. CASE ModelEnds \/ Scan \/ (\E i \in Index : Goroutine(i)) \/ Cancel \/ Finished
                \/ UNCHANGED vars
    BY <1>5, <1>14 DEF ModelEnds, Scan, Goroutine, Execute, EnterRefusal, LeaveRefusal, Settle,
                       Cancel, Finished, vars, response
  <1> QED
    BY <1>1, <1>7, <1>8, <1>9, <1>10, <1>11, <1>12, <1>13, <1>14 DEF Next

\* Every variable of the calls has its type: among others no failed call is answered as if
\* it had completed, and positions, winners and counters stay within the response.
THEOREM CallsTyped == Spec => []TypeOK
  <1>1. Init => InBounds /\ Joined /\ request \in Requests
    <2> SUFFICES ASSUME Init PROVE InBounds /\ Joined /\ request \in Requests
      OBVIOUS
    <2>1. Index = {} /\ agent.size.rounds \in Nat /\ agent.size.calls \in Nat
      BY ConstantsAssumption DEF Init, Index
    <2>2. InBounds
      BY <2>1 DEF Init, InBounds
    <2>3. Joined
      BY DEF Init, Joined
    <2>4. request \in Requests
      BY <2>1 DEF Init, Requests
    <2> QED
      BY <2>2, <2>3, <2>4
  <1>2. ASSUME TInv, [Next]_vars
        PROVE  InBounds' /\ Joined' /\ (request \in Requests)'
    <2>1. InBounds'
      BY <1>2, PositionsFit, WinnerFits, CountersFit DEF TInv, InBounds
    <2> QED
      BY <1>2, <2>1, StepJoined, StepRequests DEF TInv
  <1>3. TInv => TypeOK
    BY RequestFields, ConstantsAssumption DEF TInv, IInv, Passes, Types, InBounds, TypeOK, Stages
  <1> QED
    BY PassesKept, <1>1, <1>2, <1>3, PTL DEF Spec, TInv

-----------------------------------------------------------------------------
(* Deferred calls *)

\* How a call may be deferred, so that applyDeferredToolResults accepts its answer.
MayBe(c, how) ==
    deferrer # "wrapper" =>
        /\ how = "external" => deferrer = "hook" \/ tool[c].external \/ tool[c].mayExternal
        /\ how = "approval" => deferrer = "hook" \/ tool[c].approval \/ tool[c].mayApproval

\* A request the history agrees with, and whose answer is accepted.
Sound(c, how, stored) == how # "none" => stored = how /\ MayBe(c, how)

\* A call has a result in the history or waits for its answer.
Apart(c, results, how) == (results = 1 /\ how = "none") \/ (results = 0 /\ how # "none")

\* A conversation that may be resumed.
Whole(q) ==
    \A c \in Calls : Apart(c, q.answered[c], q.pending[c]) /\ Sound(c, q.pending[c], q.kind[c])

\* While a batch is resolved: the call has one result, or is in the batch, or is deferred.
Placed(c) ==
    \/ answered[c] + parts[c] = 1 /\ fate[c] = "none" /\ pending[c] = "none"
    \/ answered[c] + parts[c] = 0 /\ (fate[c] # "none" \/ pending[c] # "none")

\* An approval that was given and not yet used.
Owed(c) == IF fate[c] = "todo" /\ resolution[c] = "approved" THEN 1 ELSE 0

Consented == \A c \in Calls : Guarded(c) => credit[c] >= Owed(c)

Unguarded == \A c \in Calls : ~Guarded(c) => credit[c] = 0

\* While tools run or handlers are consulted.
Underway ==
    at \in {"tools", "handlers"} =>
        \A c \in Calls : /\ Placed(c) /\ Sound(c, pending[c], kind[c])
                         /\ WasDeferred(c) => MayBe(c, fate[c])

\* When the caller or the model is next.
AtRest ==
    /\ at = "caller" => Whole(Snapshot)
    /\ at = "model" /\ ~lost => \A c \in Calls : answered[c] = 1
    /\ at \in {"caller", "model", "failed"} => parts = Zero

\* What a failed run leaves to the caller.
Restorable == resuming => Whole(kept)

DeferralInv ==
    /\ DeferralTyped /\ Underway /\ AtRest /\ Restorable
    /\ Consented /\ Unguarded

-----------------------------------------------------------------------------
(* Types *)

LEMMA SnapshotTyped ==
  ASSUME answered \in [Calls -> Nat], kind \in [Calls -> Ways], pending \in [Calls -> Ways]
  PROVE  Snapshot \in Conversations
  BY DEF Snapshot, Conversations

LEMMA KeptTyped ==
  ASSUME kept \in Conversations
  PROVE  /\ kept.answered \in [Calls -> Nat] /\ kept.kind \in [Calls -> Ways]
         /\ kept.pending \in [Calls -> Ways]
  BY DEF Conversations

LEMMA InitTyped == DeferralInit => DeferralTyped
  <1> SUFFICES ASSUME DeferralInit PROVE DeferralTyped
    OBVIOUS
  <1>1. answered \in [Calls -> Nat] /\ kind \in [Calls -> Ways] /\ pending \in [Calls -> Ways]
    BY DEF DeferralInit, Ways, Nowhere, Zero
  <1>2. Snapshot \in Conversations
    BY <1>1, SnapshotTyped
  <1>3. kept \in Conversations
    BY <1>2 DEF DeferralInit
  <1>4. parts \in [Calls -> Nat] /\ credit \in [Calls -> Int]
    BY DEF DeferralInit, Zero
  <1>5. /\ resolution \in [Calls -> {"none", "result", "approved", "denied"}]
        /\ fate \in [Calls -> Ways \cup {"todo", "result"}]
    BY DEF DeferralInit, Nowhere
  <1> QED BY <1>1, <1>3, <1>4, <1>5 DEF DeferralInit, DeferralTyped

LEMMA AnswersTyped ==
  ASSUME DeferralTyped, NEW answer \in Answers, NEW asked \in SUBSET Calls, NEW all \in BOOLEAN,
         Accepts(answer, asked, all)
  PROVE  answer \in [Calls -> {"none", "result", "approved", "denied"}]
  <1>1. ASSUME NEW c \in Calls PROVE answer[c] \in {"none", "result", "approved", "denied"}
    <2>1. CASE c \in asked
      BY <2>1 DEF Accepts, Fits
    <2>2. CASE c \notin asked
      BY <2>2 DEF Accepts
    <2> QED BY <2>1, <2>2
  <1> QED BY <1>1 DEF Answers

LEMMA FailTyped ==
  ASSUME DeferralTyped, Fail, credit' \in [Calls -> Int]
  PROVE  DeferralTyped'
  BY KeptTyped DEF DeferralTyped, Fail, Nowhere, Zero, Ways

LEMMA SelectTyped ==
  ASSUME DeferralTyped, NEW answer \in Answers, NEW asked \in SUBSET Calls, NEW all \in BOOLEAN,
         Accepts(answer, asked, all), Select(answer)
  PROVE  /\ resolution' \in [Calls -> {"none", "result", "approved", "denied"}]
         /\ fate' \in [Calls -> Ways \cup {"todo", "result"}]
         /\ at' = "tools" /\ credit' \in [Calls -> Int]
  <1>1. answer \in [Calls -> {"none", "result", "approved", "denied"}]
    BY AnswersTyped
  <1> QED BY <1>1 DEF DeferralTyped, Select, Ways

LEMMA NextTyped == DeferralTyped /\ [DeferralNext]_deferralVars => DeferralTyped'
  <1> SUFFICES ASSUME DeferralTyped, [DeferralNext]_deferralVars PROVE DeferralTyped'
    OBVIOUS
  <1>1. ASSUME NEW c \in Calls, Resolve(c) PROVE DeferralTyped'
    BY <1>1 DEF DeferralTyped, Resolve, InBatch, Settled, conversation, Todo
  <1>2. ASSUME NEW c \in Calls, Defer(c) PROVE DeferralTyped'
    BY <1>2 DEF DeferralTyped, Defer, InBatch, Settled, conversation, Todo, Ways
  <1>3. ASSUME NEW c \in Calls, CallTool(c) PROVE DeferralTyped'
    <2>1. credit' \in [Calls -> Int]
      BY <1>3 DEF DeferralTyped, CallTool, Ran
    <2> QED BY <1>3, <2>1 DEF DeferralTyped, CallTool, InBatch, Settled, conversation, Todo, Ways
  <1>4. ASSUME BatchFails PROVE DeferralTyped'
    <2>1. credit' \in [Calls -> Int]
      BY <1>4 DEF DeferralTyped, BatchFails, Ran
    <2> QED BY <1>4, <2>1, FailTyped DEF BatchFails
  <1>5. ASSUME Gather PROVE DeferralTyped'
    <2>1. kind' \in [Calls -> Ways] /\ pending' \in [Calls -> Ways]
      BY <1>5 DEF DeferralTyped, Gather, Persisted, Remaining, WasDeferred, Ways
    <2>2. parts' \in [Calls -> Nat]
      BY <1>5 DEF DeferralTyped, Gather
    <2>3. fate' = Nowhere /\ resolution' = Nowhere /\ at' = "handlers"
      BY <1>5 DEF Gather, Nowhere
    <2>4. fate' = Nowhere'
      BY <2>3 DEF Nowhere
    <2>5. fate' \in [Calls -> Ways \cup {"todo", "result"}]
          /\ resolution' \in [Calls -> {"none", "result", "approved", "denied"}]
      BY <2>3 DEF Nowhere, Ways
    <2> QED BY <1>5, <2>1, <2>2, <2>3, <2>4, <2>5 DEF DeferralTyped, Gather, ghosts
  <1>6. ASSUME Handle PROVE DeferralTyped'
    <2>1. CASE handler' = handler + 1 /\ UNCHANGED <<tool, conversation, parts, resolution, fate,
                                                     at, resuming, kept, resumes, ghosts>>
      BY <2>1 DEF DeferralTyped, conversation, ghosts, Nowhere
    <2>2. ASSUME NEW answer \in Answers, Accepts(answer, Deferred, FALSE), Select(answer),
                 handler' = handler + 1,
                 UNCHANGED <<tool, conversation, parts, resuming, kept, resumes, lost>>
          PROVE  DeferralTyped'
      <3>1. Deferred \in SUBSET Calls
        BY DEF Deferred
      <3>2. /\ resolution' \in [Calls -> {"none", "result", "approved", "denied"}]
            /\ fate' \in [Calls -> Ways \cup {"todo", "result"}]
            /\ at' = "tools" /\ credit' \in [Calls -> Int]
        BY <2>2, <3>1, SelectTyped
      <3> QED BY <2>2, <3>2 DEF DeferralTyped, conversation
    <2>3. CASE Fail /\ UNCHANGED credit
      BY <2>3, FailTyped DEF DeferralTyped
    <2> QED BY <1>6, <2>1, <2>2, <2>3 DEF Handle
  <1>7. ASSUME HandlerFails PROVE DeferralTyped'
    <2>1. CASE Fail /\ UNCHANGED credit
      BY <2>1, FailTyped DEF DeferralTyped
    <2>2. CASE at' = "model" /\ lost' = TRUE /\ parts' = Zero
               /\ UNCHANGED <<tool, conversation, resolution, fate, handler, resuming, kept,
                              resumes, credit>>
      <3>1. parts' \in [Calls -> Nat] /\ lost' \in BOOLEAN
        BY <2>2 DEF Zero
      <3>2. fate' = Nowhere'
        BY <1>7, <2>2 DEF HandlerFails, Consults, DeferralTyped, Nowhere
      <3> QED BY <2>2, <3>1, <3>2 DEF DeferralTyped, conversation
    <2> QED BY <1>7, <2>1, <2>2 DEF HandlerFails
  <1>8. ASSUME Conclude PROVE DeferralTyped'
    <2>1. answered' \in [Calls -> Nat] /\ parts' \in [Calls -> Nat]
      BY <1>8 DEF DeferralTyped, Conclude, Zero
    <2> QED BY <1>8, <2>1 DEF DeferralTyped, Conclude, Nowhere, ghosts
  <1>9. ASSUME Resume PROVE DeferralTyped'
    <2>1. CASE UNCHANGED <<tool, conversation, parts, resolution, fate, handler, at, resuming,
                           kept, ghosts>>
      BY <1>9, <2>1 DEF Resume, DeferralTyped, conversation, ghosts, Nowhere
    <2>2. ASSUME NEW answer \in Answers, Accepts(answer, Unresolved, TRUE), Select(answer),
                 kept' = Snapshot, pending' = Nowhere, handler' = 0, resuming' = TRUE,
                 UNCHANGED <<tool, answered, kind, parts, lost>>, resumes' = resumes + 1
          PROVE  DeferralTyped'
      <3>1. Unresolved \in SUBSET Calls
        BY DEF Unresolved
      <3>2. kept' \in Conversations
        BY <2>2, SnapshotTyped DEF DeferralTyped
      <3>3. pending' \in [Calls -> Ways]
        BY <2>2 DEF Nowhere, Ways
      <3>4. /\ resolution' \in [Calls -> {"none", "result", "approved", "denied"}]
            /\ fate' \in [Calls -> Ways \cup {"todo", "result"}]
            /\ at' = "tools" /\ credit' \in [Calls -> Int]
        BY <2>2, <3>1, SelectTyped
      <3> QED BY <2>2, <3>2, <3>3, <3>4 DEF DeferralTyped
    <2> QED BY <1>9, <2>1, <2>2 DEF Resume
  <1>10. CASE UNCHANGED deferralVars
    BY <1>10 DEF DeferralTyped, deferralVars, conversation, ghosts, Nowhere
  <1> QED BY <1>1, <1>2, <1>3, <1>4, <1>5, <1>6, <1>7, <1>8, <1>9, <1>10
          DEF DeferralNext, DeferralEnded

-----------------------------------------------------------------------------
(* The parts of the invariant, step by step *)

LEMMA InitHolds == DeferralInit => DeferralInv
  <1> SUFFICES ASSUME DeferralInit PROVE DeferralInv
    OBVIOUS
  <1>1. DeferralTyped
    BY InitTyped
  <1>2. \A c \in Calls : answered[c] = 0 /\ parts[c] = 0 /\ fate[c] = "todo" /\ pending[c] = "none"
    BY DEF DeferralInit, Nowhere, Zero
  <1>3. Underway
    <2>1. ASSUME NEW c \in Calls PROVE Placed(c)
      BY <1>2 DEF Placed
    <2>2. ASSUME NEW c \in Calls PROVE Sound(c, pending[c], kind[c]) /\ ~WasDeferred(c)
      BY <1>2 DEF Sound, WasDeferred
    <2> QED BY <2>1, <2>2 DEF Underway
  <1>4. AtRest /\ Restorable
    <2>1. at = "tools" /\ resuming = FALSE
      BY DEF DeferralInit
    <2> QED BY <2>1 DEF AtRest, Restorable
  <1>5. Consented /\ Unguarded
    BY DEF DeferralInit, Consented, Unguarded, Owed, Nowhere, Zero
  <1> QED BY <1>1, <1>3, <1>4, <1>5 DEF DeferralInv

\* A step of one call of the batch that defers it or not.
LEMMA CallKeepsBooks ==
  ASSUME DeferralInv, NEW c \in Calls, InBatch(c), NEW how \in Ways \cup {"result"},
         how # "none", Settled(c, how), MayBe(c, how)
  PROVE  Underway' /\ AtRest' /\ Restorable'
  <1>1. Underway'
    BY DEF DeferralInv, DeferralTyped, InBatch, Settled, Todo, Underway, Placed, Sound, MayBe,
           WasDeferred, conversation
  <1>2. AtRest' /\ Restorable'
    BY DEF DeferralInv, InBatch, AtRest, Restorable, Whole, Snapshot, conversation, Apart, Sound,
           MayBe
  <1> QED BY <1>1, <1>2

\* A failing run leaves a conversation that may be resumed.
LEMMA FailKeepsBooks ==
  ASSUME DeferralInv, Fail
  PROVE  Underway' /\ AtRest' /\ Restorable'
  <1>1. Underway'
    BY DEF Fail, Underway
  <1>2. AtRest'
    BY DEF DeferralInv, Fail, AtRest, Restorable, Whole, Snapshot, Apart, Sound, MayBe, Zero
  <1>3. Restorable'
    BY DEF DeferralInv, Fail, Restorable, Whole, Apart, Sound, MayBe
  <1> QED BY <1>1, <1>2, <1>3

LEMMA FailKeepsCredit ==
  ASSUME DeferralInv, Fail, UNCHANGED credit
  PROVE  Consented' /\ Unguarded'
  <1>1. \A c \in Calls : Owed(c) \in {0, 1} /\ Owed(c)' = 0
    BY DEF Owed, Fail, Nowhere
  <1> QED BY <1>1 DEF DeferralInv, DeferralTyped, Fail, Consented, Unguarded, Guarded

LEMMA SelectKeepsCredit ==
  ASSUME DeferralInv, at # "tools", NEW answer \in Answers, Select(answer), UNCHANGED tool
  PROVE  Consented' /\ Unguarded'
  <1>1. \A c \in Calls : Owed(c) = 0
    BY DEF DeferralInv, DeferralTyped, Owed, Nowhere
  <1>2. \A c \in Calls : Owed(c)' = IF answer[c] = "approved" THEN 1 ELSE 0
    BY DEF Select, Owed
  <1> QED BY <1>1, <1>2 DEF DeferralInv, DeferralTyped, Select, Consented, Unguarded, Guarded

LEMMA BatchStepKeeps ==
  ASSUME DeferralInv, NEW c \in Calls, Resolve(c) \/ Defer(c) \/ CallTool(c)
  PROVE  Underway' /\ AtRest' /\ Restorable' /\ Consented' /\ Unguarded'
  <1>1. tool[c].external \in BOOLEAN /\ tool[c].approval \in BOOLEAN
        /\ tool[c].mayExternal \in BOOLEAN /\ tool[c].mayApproval \in BOOLEAN
    BY DEF DeferralInv, DeferralTyped, Tools
  <1>2. InBatch(c)
    BY DEF Resolve, Defer, CallTool
  <1>3. CASE Resolve(c)
    <2>1. MayBe(c, "result")
      BY DEF MayBe
    <2>2. Underway' /\ AtRest' /\ Restorable'
      BY <1>2, <1>3, <2>1, CallKeepsBooks DEF Resolve
    <2>3. Consented' /\ Unguarded'
      BY <1>2, <1>3 DEF Resolve, InBatch, Settled, DeferralInv, DeferralTyped, Consented, Unguarded,
         Owed, Guarded, Todo
    <2> QED BY <2>2, <2>3
  <1>4. CASE Defer(c)
    <2>1. PICK how \in {"external", "approval"} : Settled(c, how) /\ MayBe(c, how)
      <3>1. CASE deferrer \in {"hook", "wrapper"} /\ resolution[c] \in {"none", "approved"}
                 /\ \E k \in {"external", "approval"} : Settled(c, k)
        BY <3>1 DEF MayBe
      <3> QED BY <1>4, <3>1 DEF Defer, MayBe
    <2>2. Underway' /\ AtRest' /\ Restorable'
      BY <1>2, <2>1, CallKeepsBooks DEF Ways
    <2>3. Consented' /\ Unguarded'
      BY <1>2, <1>4, <2>1 DEF Defer, InBatch, Settled, DeferralInv, DeferralTyped, Consented,
         Unguarded, Owed, Guarded, Todo
    <2> QED BY <2>2, <2>3
  <1>5. CASE CallTool(c)
    <2>1. PICK how \in {"result", "external", "approval"} : Settled(c, how) /\ MayBe(c, how)
      <3>1. CASE Settled(c, "result")
        BY <3>1 DEF MayBe
      <3>2. CASE (tool[c].mayExternal \/ deferrer = "hook") /\ Settled(c, "external")
        BY <3>2 DEF MayBe
      <3>3. CASE (tool[c].mayApproval \/ deferrer = "hook") /\ Settled(c, "approval")
        BY <3>3 DEF MayBe
      <3> QED BY <1>5, <3>1, <3>2, <3>3 DEF CallTool
    <2>2. Underway' /\ AtRest' /\ Restorable'
      BY <1>2, <2>1, CallKeepsBooks DEF Ways
    <2>3. credit' = [d \in Calls |-> credit[d] - (IF d = c /\ Guarded(c) THEN 1 ELSE 0)]
      BY <1>5 DEF CallTool, Ran
    <2>4. Guarded(c) => resolution[c] = "approved" /\ Owed(c) = 1
      BY <1>2, <1>5 DEF CallTool, Local, InBatch, Todo, Owed
    <2>5. \A d \in Calls : Owed(d)' = IF d = c THEN 0 ELSE Owed(d)
      BY <1>2, <2>1 DEF InBatch, Settled, Owed, DeferralInv, DeferralTyped
    <2> QED
      BY <1>2, <2>2, <2>3, <2>4, <2>5 DEF DeferralInv, DeferralTyped, InBatch, Consented, Unguarded,
         Guarded, Owed
  <1> QED BY <1>3, <1>4, <1>5

LEMMA BatchFailsKeeps ==
  ASSUME DeferralInv, BatchFails
  PROVE  Underway' /\ AtRest' /\ Restorable' /\ Consented' /\ Unguarded'
  <1>1. Fail /\ UNCHANGED tool
    BY DEF BatchFails, Fail
  <1>2. PICK ran \in SUBSET {c \in Todo : Local(c)} : Ran(ran)
    BY DEF BatchFails
  <1>3. ASSUME NEW c \in ran, Guarded(c) PROVE Owed(c) = 1
    BY <1>3 DEF Local, Owed, Todo
  <1>4. \A c \in Calls : Owed(c) \in {0, 1} /\ Owed(c)' = 0
    BY <1>1 DEF Owed, Fail, Nowhere
  <1>5. Consented' /\ Unguarded'
    BY <1>1, <1>2, <1>3, <1>4 DEF DeferralInv, DeferralTyped, Ran, Consented, Unguarded, Guarded
  <1> QED BY <1>1, <1>5, FailKeepsBooks

\* What was deferred stays deferred, as the history says; what has a result is settled.
LEMMA CollectKeeps ==
  ASSUME DeferralInv, Gather
  PROVE  Underway' /\ AtRest' /\ Restorable' /\ Consented' /\ Unguarded'
  <1>1. /\ kind' = Persisted /\ pending' = Remaining
        /\ parts' = [c \in Calls |-> parts[c] + (IF fate[c] = "result" THEN 1 ELSE 0)]
        /\ fate' = Nowhere /\ at' = "handlers"
        /\ UNCHANGED <<tool, deferrer, answered, resuming, kept, credit>>
    BY DEF Gather, ghosts, Nowhere
  <1>2. ASSUME NEW c \in Calls PROVE fate[c] \in {"none", "external", "approval", "result"}
    BY DEF Gather, Todo, DeferralInv, DeferralTyped, Ways
  <1>3. ASSUME NEW c \in Calls
        PROVE  Placed(c)' /\ Sound(c, pending[c], kind[c])'
    <2>1. /\ Placed(c) /\ Sound(c, pending[c], kind[c]) /\ (WasDeferred(c) => MayBe(c, fate[c]))
          /\ answered[c] \in Nat /\ parts[c] \in Nat
      BY DEF Gather, DeferralInv, DeferralTyped, Underway
    <2>2. \A how : MayBe(c, how)' = MayBe(c, how)
      BY <1>1 DEF MayBe
    <2>3. /\ kind'[c] = IF WasDeferred(c) THEN fate[c] ELSE kind[c]
          /\ pending'[c] = IF WasDeferred(c) THEN fate[c]
                           ELSE IF fate[c] = "none" THEN pending[c] ELSE "none"
          /\ parts'[c] = parts[c] + (IF fate[c] = "result" THEN 1 ELSE 0)
          /\ fate'[c] = "none" /\ answered'[c] = answered[c]
      BY <1>1 DEF Persisted, Remaining, Nowhere
    <2>4. Placed(c)'
      BY <1>2, <2>1, <2>3 DEF Placed, WasDeferred
    <2>5. Sound(c, pending[c], kind[c])'
      BY <1>2, <2>1, <2>2, <2>3 DEF Sound, WasDeferred
    <2> QED BY <2>4, <2>5
  <1>4. Underway'
    <2>1. \A c \in Calls : ~WasDeferred(c)'
      BY <1>1 DEF WasDeferred, Nowhere
    <2> QED BY <1>1, <1>3, <2>1 DEF Underway
  <1>5. AtRest' /\ Restorable'
    BY <1>1 DEF DeferralInv, AtRest, Restorable, Whole, Apart, Sound, MayBe
  <1>6. \A c \in Calls : Owed(c) \in {0, 1} /\ Owed(c)' = 0
    BY <1>1 DEF Owed, Nowhere
  <1>7. Consented' /\ Unguarded'
    BY <1>1, <1>6 DEF DeferralInv, DeferralTyped, Consented, Unguarded, Guarded
  <1> QED BY <1>4, <1>5, <1>7

LEMMA HandleKeeps ==
  ASSUME DeferralInv, Handle
  PROVE  Underway' /\ AtRest' /\ Restorable' /\ Consented' /\ Unguarded'
  <1>1. at = "handlers" /\ fate = Nowhere
    BY DEF Handle, Consults, DeferralInv, DeferralTyped
  <1>2. CASE UNCHANGED <<tool, deferrer, conversation, parts, resolution, fate, at, resuming,
                         kept, resumes, ghosts>>
    BY <1>2 DEF DeferralInv, Underway, Placed, Sound, WasDeferred, MayBe, AtRest, Whole, Snapshot,
       Apart, Restorable, Consented, Unguarded, Guarded, Owed, conversation, ghosts
  <1>3. ASSUME NEW answer \in Answers, Accepts(answer, Deferred, FALSE), Select(answer),
               UNCHANGED <<tool, deferrer, conversation, parts, resuming, kept, resumes, lost>>
        PROVE  Underway' /\ AtRest' /\ Restorable' /\ Consented' /\ Unguarded'
    <2>1. Consented' /\ Unguarded'
      BY <1>1, <1>3, SelectKeepsCredit
    <2>2. Restorable'
      BY <1>3 DEF DeferralInv, Restorable, Whole, Apart, Sound, MayBe
    <2>3. AtRest'
      BY <1>3 DEF Select, AtRest
    <2>4. ASSUME NEW c \in Calls
          PROVE  Placed(c)' /\ Sound(c, pending[c], kind[c])' /\ ~WasDeferred(c)'
      <3>1. Placed(c) /\ Sound(c, pending[c], kind[c]) /\ fate[c] = "none"
        BY <1>1 DEF DeferralInv, Underway, Nowhere
      <3>2. answer[c] # "none" => pending[c] # "none"
        BY <1>3 DEF Accepts, Deferred
      <3>3. fate'[c] = IF answer[c] # "none" THEN "todo" ELSE "none"
        BY <1>3 DEF Select
      <3>4. /\ answered'[c] = answered[c] /\ parts'[c] = parts[c] /\ pending'[c] = pending[c]
            /\ kind'[c] = kind[c] /\ deferrer' = deferrer /\ tool' = tool
        BY <1>3 DEF conversation
      <3> QED BY <3>1, <3>2, <3>3, <3>4 DEF Placed, Sound, MayBe, WasDeferred
    <2>5. Underway'
      BY <2>4 DEF Underway
    <2> QED BY <2>1, <2>2, <2>3, <2>5
  <1>4. CASE Fail /\ UNCHANGED credit
    BY <1>4, FailKeepsBooks, FailKeepsCredit
  <1> QED BY <1>2, <1>3, <1>4 DEF Handle

LEMMA HandlerFailsKeeps ==
  ASSUME DeferralInv, HandlerFails
  PROVE  Underway' /\ AtRest' /\ Restorable' /\ Consented' /\ Unguarded'
  <1>1. CASE Fail /\ UNCHANGED credit
    BY <1>1, FailKeepsBooks, FailKeepsCredit
  <1>2. CASE at' = "model" /\ lost' = TRUE /\ parts' = Zero
             /\ UNCHANGED <<tool, deferrer, conversation, resolution, fate, handler, resuming,
                            kept, resumes, credit>>
    <2>1. Underway'
      BY <1>2 DEF Underway
    <2>2. AtRest'
      BY <1>2 DEF AtRest, Zero
    <2>3. Restorable' /\ Consented' /\ Unguarded'
      BY <1>2 DEF DeferralInv, Restorable, Whole, Apart, Sound, MayBe, Consented, Unguarded,
         Guarded, Owed
    <2> QED BY <2>1, <2>2, <2>3
  <1> QED BY <1>1, <1>2 DEF HandlerFails

LEMMA ConcludeKeeps ==
  ASSUME DeferralInv, Conclude
  PROVE  Underway' /\ AtRest' /\ Restorable' /\ Consented' /\ Unguarded'
  <1>1. /\ at = "handlers" /\ fate = Nowhere
        /\ answered' = [c \in Calls |-> answered[c] + parts[c]] /\ parts' = Zero
        /\ at' = IF Deferred = {} THEN "model" ELSE "caller"
        /\ UNCHANGED <<tool, deferrer, kind, pending, resolution, fate, resuming, kept, credit>>
    BY DEF Conclude, ghosts, DeferralInv, DeferralTyped
  <1>2. Underway'
    BY <1>1 DEF Underway
  <1>3. ASSUME NEW c \in Calls
        PROVE  Apart(c, answered'[c], pending'[c]) /\ Sound(c, pending[c], kind[c])'
    <2>1. Placed(c) /\ Sound(c, pending[c], kind[c]) /\ fate[c] = "none"
      BY <1>1 DEF DeferralInv, Underway, Nowhere
    <2>2. answered'[c] = answered[c] + parts[c] /\ pending'[c] = pending[c]
          /\ kind'[c] = kind[c] /\ deferrer' = deferrer /\ tool' = tool
      BY <1>1
    <2> QED BY <2>1, <2>2 DEF Placed, Apart, Sound, MayBe
  <1>4. AtRest'
    <2>1. at' = "caller" => Whole(Snapshot)'
      BY <1>3 DEF Whole, Snapshot, Apart, Sound, MayBe
    <2>2. at' = "model" => \A c \in Calls : answered'[c] = 1
      BY <1>1, <1>3 DEF Deferred, Apart
    <2>3. parts' = Zero'
      BY <1>1 DEF Zero
    <2> QED BY <2>1, <2>2, <2>3 DEF AtRest
  <1>5. Restorable' /\ Consented' /\ Unguarded'
    BY <1>1 DEF DeferralInv, Restorable, Whole, Apart, Sound, MayBe, Consented, Unguarded,
       Guarded, Owed
  <1> QED BY <1>2, <1>4, <1>5

LEMMA ResumeKeeps ==
  ASSUME DeferralInv, Resume
  PROVE  Underway' /\ AtRest' /\ Restorable' /\ Consented' /\ Unguarded'
  <1>1. at = "caller" /\ fate = Nowhere /\ Whole(Snapshot) /\ parts = Zero
    BY DEF Resume, DeferralInv, DeferralTyped, AtRest
  <1>2. CASE UNCHANGED <<tool, deferrer, conversation, parts, resolution, fate, handler, at,
                         resuming, kept, ghosts>>
    BY <1>2 DEF DeferralInv, Underway, Placed, Sound, WasDeferred, MayBe, AtRest, Whole, Snapshot,
       Apart, Restorable, Consented, Unguarded, Guarded, Owed, conversation, ghosts, Zero
  <1>3. ASSUME NEW answer \in Answers, Accepts(answer, Unresolved, TRUE), Select(answer),
               kept' = Snapshot, pending' = Nowhere, resuming' = TRUE,
               UNCHANGED <<tool, deferrer, answered, kind, parts, lost>>
        PROVE  Underway' /\ AtRest' /\ Restorable' /\ Consented' /\ Unguarded'
    <2>1. Consented' /\ Unguarded'
      BY <1>1, <1>3, SelectKeepsCredit
    <2>2. AtRest'
      BY <1>3 DEF Select, AtRest
    <2>3. Restorable'
      BY <1>1, <1>3 DEF Restorable, Whole, Apart, Sound, MayBe
    <2>4. ASSUME NEW c \in Calls
          PROVE  Placed(c)' /\ pending'[c] = "none" /\ ~WasDeferred(c)'
      <3>1. Apart(c, answered[c], pending[c]) /\ parts[c] = 0
        BY <1>1 DEF Whole, Snapshot, Zero
      <3>2. fate'[c] = IF answered[c] = 0 THEN "todo" ELSE "none"
        BY <1>3 DEF Select, Accepts, Unresolved
      <3>3. pending'[c] = "none" /\ answered'[c] = answered[c] /\ parts'[c] = parts[c]
        BY <1>3 DEF Nowhere
      <3> QED BY <3>1, <3>2, <3>3 DEF Apart, Placed, WasDeferred
    <2>5. Underway'
      BY <2>4 DEF Underway, Sound
    <2> QED BY <2>1, <2>2, <2>3, <2>5
  <1> QED BY <1>2, <1>3 DEF Resume

-----------------------------------------------------------------------------
(* Theorems *)

LEMMA NextKeeps == DeferralInv /\ [DeferralNext]_deferralVars => DeferralInv'
  <1> SUFFICES ASSUME DeferralInv, [DeferralNext]_deferralVars PROVE DeferralInv'
    OBVIOUS
  <1>1. DeferralTyped'
    BY NextTyped DEF DeferralInv
  <1>2. CASE UNCHANGED deferralVars
    <2>1. Underway' /\ AtRest' /\ Restorable'
      BY <1>2 DEF DeferralInv, deferralVars, conversation, Underway, Placed, Sound, WasDeferred,
         MayBe, AtRest, Whole, Snapshot, Apart, Restorable, Zero, ghosts
    <2>2. Consented' /\ Unguarded'
      BY <1>2 DEF DeferralInv, deferralVars, ghosts, Consented, Unguarded, Guarded, Owed
    <2> QED BY <1>1, <2>1, <2>2 DEF DeferralInv
  <1>3. CASE DeferralEnded
    BY <1>2, <1>3 DEF DeferralEnded
  <1>4. ASSUME NEW c \in Calls, Resolve(c) \/ Defer(c) \/ CallTool(c) PROVE DeferralInv'
    BY <1>1, <1>4, BatchStepKeeps DEF DeferralInv
  <1>5. CASE BatchFails \/ Gather \/ Handle \/ HandlerFails \/ Conclude \/ Resume
    BY <1>1, <1>5, BatchFailsKeeps, CollectKeeps, HandleKeeps, HandlerFailsKeeps, ConcludeKeeps,
       ResumeKeeps DEF DeferralInv
  <1> QED BY <1>2, <1>3, <1>4, <1>5 DEF DeferralNext

\* For any calls and handlers, and however often the conversation is resumed, the invariant the
\* other theorems rest on holds (executeBatch to applyDeferredToolResults).
THEOREM DeferralInvariant == DeferralSpec => []DeferralInv
  <1> QED BY InitHolds, NextKeeps, PTL DEF DeferralSpec

\* Every variable of the deferred calls has its type.
THEOREM DeferralsTyped == DeferralSpec => []DeferralTyped
  <1>1. DeferralInv => DeferralTyped
    BY DEF DeferralInv
  <1> QED BY <1>1, DeferralInvariant, PTL

\* Whoever answers, and however often a call is deferred, no call of a response is answered
\* twice, forgotten, or reported as another kind than the history stores
\* (collectCallOutcomes, remainingDeferredToolRequests, persistDeferredToolKinds).
THEOREM CallsOnce == DeferralSpec => []EachCallOnce
  <1>1. DeferralInv => EachCallOnce
    BY DEF DeferralInv, AtRest, Whole, Snapshot, Apart, Sound, EachCallOnce
  <1> QED BY <1>1, DeferralInvariant, PTL

\* An answer of the kind a request asks for is accepted, and what needs an approval is executed
\* at most once for each that was given (applyDeferredToolResults, executeCall).
THEOREM DecisionsKept == DeferralSpec => []DecisionsHonoured
  <1>1. ASSUME DeferralInv, deferrer # "wrapper", NEW answer \in Answers, at = "handlers",
               InKind(answer, Deferred)
        PROVE  Accepts(answer, Deferred, FALSE)
    <2>1. ASSUME NEW c \in Deferred PROVE Deferrable(c) /\ Fits(c, answer[c])
      <3>1. c \in Calls /\ pending[c] \in {"external", "approval"} /\ kind[c] = pending[c]
            /\ MayBe(c, pending[c])
        BY <1>1 DEF DeferralInv, DeferralTyped, Ways, Deferred, Underway, Sound
      <3> QED BY <1>1, <3>1 DEF InKind, MayBe, Deferrable, Fits, HookDeferred
    <2> QED BY <1>1, <2>1 DEF InKind, Accepts
  <1>2. ASSUME DeferralInv, deferrer # "wrapper", NEW answer \in Answers, at = "caller",
               InKind(answer, Unresolved), \A c \in Unresolved : answer[c] # "none"
        PROVE  Accepts(answer, Unresolved, TRUE)
    <2>1. ASSUME NEW c \in Unresolved PROVE Deferrable(c) /\ Fits(c, answer[c])
      <3>1. c \in Calls /\ pending[c] \in {"external", "approval"} /\ kind[c] = pending[c]
            /\ MayBe(c, pending[c])
        BY <1>2 DEF DeferralInv, DeferralTyped, Ways, Unresolved, AtRest, Whole, Snapshot, Apart,
           Sound
      <3> QED BY <1>2, <3>1 DEF InKind, MayBe, Deferrable, Fits, HookDeferred
    <2> QED BY <1>2, <2>1 DEF InKind, Accepts
  <1>3. ASSUME DeferralInv, NEW c \in Calls PROVE credit[c] >= 0
    BY <1>3 DEF DeferralInv, DeferralTyped, Consented, Unguarded, Owed
  <1>4. DeferralInv => DecisionsHonoured
    BY <1>1, <1>2, <1>3 DEF DecisionsHonoured
  <1> QED BY <1>4, DeferralInvariant, PTL
=============================================================================
