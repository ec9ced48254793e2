---------------------------- MODULE ChartsProofs ----------------------------
(***************************************************************************)
(* The charts never leak an instance, and a round that ends last rules,    *)
(* for any charts, ranges, limits and number of rounds.                    *)
(***************************************************************************)
EXTENDS Charts, TLAPS

\* The ranges that RenderAllCharts is called with.
LEMMA RenderType ==
  ASSUME TypeOK, NEW r \in Range, RenderAllCharts(r)
  PROVE  /\ round' \in 0..MaxRounds
         /\ asked' \in [Round -> Range]
         /\ waiting' \in [Chart -> [Round -> SUBSET Metric]]
         /\ status' \in [Chart -> {"empty", "loading", "error"}]
<1>1. round \in Nat /\ MaxRounds \in Nat
  BY BoundsAssumption DEF TypeOK
<1>2. round + 1 \in Round /\ round' \in 0..MaxRounds
  BY <1>1 DEF RenderAllCharts, TypeOK, Round
<1>3. asked' \in [Round -> Range]
  BY <1>2 DEF RenderAllCharts, TypeOK
<1>4. waiting' \in [Chart -> [Round -> SUBSET Metric]]
  BY MetricsOfAssumption DEF RenderAllCharts, TypeOK
<1>5. status' \in [Chart -> {"empty", "loading", "error"}]
  BY DEF RenderAllCharts
<1> QED BY <1>2, <1>3, <1>4, <1>5

LEMMA DrawType ==
  ASSUME TypeOK, NEW c \in Chart, NEW k \in Round, Draw(c, k)
  PROVE  /\ charts' \in [Chart -> 0..MaxRounds]
         /\ alive' \in [Chart -> SUBSET Round]
         /\ status' \in [Chart -> {"empty", "loading", "error"}]
         /\ last' \in [Chart -> 0..MaxRounds]
<1>1. k \in 0..MaxRounds
  BY BoundsAssumption DEF Round
<1> QED BY <1>1 DEF Draw, TypeOK

LEMMA AnswerType ==
  ASSUME TypeOK, NEW c \in Chart, NEW k \in Round, Answer(c, k)
  PROVE  TypeOK'
<1>1. waiting' \in [Chart -> [Round -> SUBSET Metric]]
  BY DEF Answer, TypeOK
<1>2. CASE Draw(c, k)
  BY <1>1, <1>2, DrawType DEF Answer, TypeOK
<1>3. CASE UNCHANGED <<charts, alive, status, last>>
  BY <1>1, <1>3 DEF Answer, TypeOK
<1> QED BY <1>2, <1>3 DEF Answer

LEMMA RejectType ==
  ASSUME TypeOK, NEW c \in Chart, NEW k \in Round, Reject(c, k)
  PROVE  TypeOK'
<1>1. k \in 0..MaxRounds
  BY BoundsAssumption DEF Round
<1>2. waiting' \in [Chart -> [Round -> SUBSET Metric]]
  BY DEF Reject, TypeOK
<1> QED BY <1>1, <1>2 DEF Reject, TypeOK

LEMMA TypeInit == Init => TypeOK
<1> SUFFICES ASSUME Init PROVE TypeOK
  OBVIOUS
<1>1. 0 \in 0..MaxRounds
  BY BoundsAssumption
<1>2. age \in Ages /\ currentRange \in Range /\ asked \in [Round -> Range]
  BY HoursAssumption, BoundsAssumption DEF Init
<1>3. waiting \in [Chart -> [Round -> SUBSET Metric]]
  BY DEF Init
<1> QED BY <1>1, <1>2, <1>3 DEF Init, TypeOK

LEMMA TypeStep == TypeOK /\ [Next]_vars => TypeOK'
<1> SUFFICES ASSUME TypeOK, [Next]_vars PROVE TypeOK'
  OBVIOUS
<1>1. CASE TimePasses
  BY <1>1 DEF TimePasses, page, TypeOK
<1>2. CASE Load
  BY <1>2, RenderType DEF Load, RenderAllCharts, TypeOK
<1>3. CASE Resize
  BY <1>3 DEF Resize, TypeOK
<1>4. CASE ResizeTimeout
  BY <1>4, RenderType DEF ResizeTimeout, RenderAllCharts, TypeOK
<1>5. ASSUME NEW r \in Range, Click(r) PROVE TypeOK'
  BY <1>5, RenderType DEF Click, RenderAllCharts, TypeOK
<1>6. ASSUME NEW c \in Chart, NEW k \in Round, Complete(c, k) PROVE TypeOK'
  BY <1>6, AnswerType, RejectType DEF Complete, Refused, FetchFails
<1>7. CASE UNCHANGED vars
  BY <1>7 DEF vars, page, TypeOK
<1> QED BY <1>1, <1>2, <1>3, <1>4, <1>5, <1>6, <1>7 DEF Next

\* The script and the endpoint keep the types of their state (overview.js:1-230).
THEOREM TypeCorrect == Spec => []TypeOK
BY TypeInit, TypeStep, PTL DEF Spec

-----------------------------------------------------------------------------
(* No instance is lost: every action but Draw leaves both parts alone, and *)
(* Draw destroys the one that is referred to.                              *)

LEMMA DrawKeepsOne ==
  ASSUME TypeOK, OneInstance, NEW c \in Chart, NEW k \in Round, Draw(c, k)
  PROVE  OneInstance'
<1> SUFFICES ASSUME NEW d \in Chart
             PROVE  alive'[d] = IF charts'[d] = 0 THEN {} ELSE {charts'[d]}
  BY DEF OneInstance
<1>1. CASE d = c
  <2>1. k # 0
    BY BoundsAssumption DEF Round
  <2>2. alive'[c] = (alive[c] \ {charts[c]}) \cup {k} /\ charts'[c] = k
    BY DEF Draw, TypeOK
  <2> QED BY <1>1, <2>1, <2>2 DEF OneInstance
<1>2. CASE d # c
  BY <1>2 DEF Draw, TypeOK, OneInstance
<1> QED BY <1>1, <1>2

LEMMA OneStep == TypeOK /\ OneInstance /\ [Next]_vars => OneInstance'
<1> SUFFICES ASSUME TypeOK, OneInstance, [Next]_vars PROVE OneInstance'
  OBVIOUS
<1>1. CASE UNCHANGED <<charts, alive>>
  BY <1>1 DEF OneInstance
<1>2. ASSUME NEW c \in Chart, NEW k \in Round, Complete(c, k) PROVE OneInstance'
  BY <1>1, <1>2, DrawKeepsOne DEF Complete, Answer, Refused, FetchFails, Reject
<1> QED BY <1>1, <1>2 DEF Next, vars, page, TimePasses, Load, Resize, ResizeTimeout,
                          Click, RenderAllCharts

\* A container holds the instance that the script refers to and no other, in
\* whatever order the rounds complete (overview.js:156-159).
THEOREM NoInstanceLost == Spec => []OneInstance
<1>1. Init => OneInstance
  BY DEF Init, OneInstance
<1> QED BY TypeInit, TypeStep, <1>1, OneStep, PTL DEF Spec

-----------------------------------------------------------------------------
(* The round that ends last rules.                                         *)

\* Only rounds that have begun wait or are over.
Begun == \A c \in Chart : /\ last[c] <= round
                          /\ \A k \in Round : waiting[c][k] # {} => k <= round

\* The last round was asked for the range that is selected.
AskedForSelection == round > 0 => asked[round] = currentRange

\* What the end of the last round leaves stays until the next one begins.
LastDecides ==
    \A c \in Chart : round > 0 /\ last[c] = round =>
        status[c] = "error" \/ (status[c] = "empty" /\ charts[c] = round)

RoundInv == Begun /\ AskedForSelection /\ LastDecides

LEMMA RenderKeeps ==
  ASSUME TypeOK, RoundInv, NEW r \in Range, RenderAllCharts(r), currentRange' = r
  PROVE  RoundInv'
<1>1. round \in Nat /\ round' = round + 1 /\ round' \in Round
  BY BoundsAssumption DEF TypeOK, RenderAllCharts, Round
<1>2. AskedForSelection'
  BY <1>1 DEF RenderAllCharts, TypeOK, AskedForSelection
<1>3. ASSUME NEW c \in Chart
      PROVE  last'[c] < round' /\ \A k \in Round : waiting'[c][k] # {} => k <= round'
  <2>1. last'[c] < round'
    BY <1>1, BoundsAssumption DEF RoundInv, Begun, RenderAllCharts, TypeOK
  <2>2. ASSUME NEW k \in Round, waiting'[c][k] # {} PROVE k <= round'
    <3>1. k \in Nat
      BY BoundsAssumption DEF Round
    <3>2. CASE k = round'
      BY <1>1, <3>2
    <3>3. CASE k # round'
      <4>1. waiting'[c][k] = waiting[c][k]
        BY <1>1, <3>3 DEF RenderAllCharts, TypeOK
      <4> QED BY <1>1, <2>2, <3>1, <4>1 DEF RoundInv, Begun
    <3> QED BY <3>2, <3>3
  <2> QED BY <2>1, <2>2
<1>4. LastDecides'
  <2>1. \A c \in Chart : last'[c] # round'
    <3>1. \A c \in Chart : last'[c] \in Nat
      BY BoundsAssumption DEF RenderAllCharts, TypeOK
    <3> QED BY <1>1, <1>3, <3>1
  <2> QED BY <2>1 DEF LastDecides
<1>5. Begun'
  <2>1. \A c \in Chart : last'[c] \in Nat
    BY BoundsAssumption DEF RenderAllCharts, TypeOK
  <2> QED BY <1>1, <1>3, <2>1 DEF Begun
<1> QED BY <1>2, <1>4, <1>5 DEF RoundInv

\* What Draw and Reject have in common.
LEMMA OverKeeps ==
  ASSUME TypeOK, RoundInv, NEW c \in Chart, NEW k \in Round,
         waiting[c][k] # {}, UNCHANGED <<currentRange, round, asked>>,
         \A d \in Chart, j \in Round : waiting'[d][j] # {} => waiting[d][j] # {},
         \/ /\ last' = [last EXCEPT ![c] = k]
            /\ \A d \in Chart \ {c} : status'[d] = status[d] /\ charts'[d] = charts[d]
            /\ status'[c] = "error" \/ (status'[c] = "empty" /\ charts'[c] = k)
         \/ UNCHANGED <<status, charts, last>>
  PROVE  RoundInv'
<1>1. k <= round /\ k # 0 /\ k \in Nat
  BY BoundsAssumption DEF RoundInv, Begun, Round
<1>2. AskedForSelection'
  BY DEF RoundInv, AskedForSelection
<1>3. Begun'
  BY <1>1 DEF RoundInv, Begun, TypeOK
<1>4. LastDecides'
  BY <1>1 DEF RoundInv, LastDecides, TypeOK
<1> QED BY <1>2, <1>3, <1>4 DEF RoundInv

LEMMA RoundStep == TypeOK /\ RoundInv /\ [Next]_vars => RoundInv'
<1> SUFFICES ASSUME TypeOK, RoundInv, [Next]_vars PROVE RoundInv'
  OBVIOUS
<1> USE DEF TypeOK
<1>1. CASE UNCHANGED <<currentRange, round, asked, waiting, charts, status, last>>
  BY <1>1 DEF RoundInv, Begun, AskedForSelection, LastDecides
<1>2. CASE Load
  BY <1>2, RenderKeeps DEF Load
<1>3. CASE ResizeTimeout
  BY <1>3, RenderKeeps DEF ResizeTimeout
<1>4. ASSUME NEW r \in Range, Click(r) PROVE RoundInv'
  BY <1>4, RenderKeeps DEF Click
<1>5. ASSUME NEW c \in Chart, NEW k \in Round, Answer(c, k) PROVE RoundInv'
  <2>1. waiting[c][k] # {} /\ UNCHANGED <<currentRange, round, asked>>
    BY <1>5 DEF Answer
  <2>2. \A d \in Chart, j \in Round : waiting'[d][j] # {} => waiting[d][j] # {}
    BY <1>5 DEF Answer
  <2>3. CASE Draw(c, k)
    BY <2>1, <2>2, <2>3, OverKeeps DEF Draw
  <2>4. CASE UNCHANGED <<charts, alive, status, last>>
    BY <2>1, <2>2, <2>4, OverKeeps
  <2> QED BY <1>5, <2>3, <2>4 DEF Answer
<1>6. ASSUME NEW c \in Chart, NEW k \in Round, Reject(c, k) PROVE RoundInv'
  <2>1. waiting[c][k] # {} /\ UNCHANGED <<currentRange, round, asked>>
    BY <1>6 DEF Reject
  <2>2. \A d \in Chart, j \in Round : waiting'[d][j] # {} => waiting[d][j] # {}
    BY <1>6 DEF Reject
  <2> QED BY <1>6, <2>1, <2>2, OverKeeps DEF Reject
<1> QED BY <1>1, <1>2, <1>3, <1>4, <1>5, <1>6 DEF Next, vars, page, TimePasses, Resize,
           Complete, Refused, FetchFails

\* A chart whose last round was over last shows the selected range or says that it
\* failed, however the earlier rounds ended (overview.js:144-165).
THEOREM LastRound == Spec => []LastRoundRules
<1>1. Init => RoundInv
  BY BoundsAssumption DEF Init, RoundInv, Begun, AskedForSelection, LastDecides
<1>2. RoundInv => LastRoundRules
  BY DEF RoundInv, AskedForSelection, LastDecides, LastRoundRules, AtRest
<1> QED BY TypeInit, TypeStep, <1>1, <1>2, RoundStep, PTL DEF Spec
=============================================================================
