----------------------------- MODULE DeckProofs -----------------------------
(***************************************************************************)
(* Theorems about the deck's server: its native agents for every number of *)
(* connections and agents, every cap and every split of the pool's slots;  *)
(* its terminals; its tentacle store for any number of sessions and lines; *)
(* and its audit log for any number of loggers and entries.                *)
(***************************************************************************)
EXTENDS DeckAgents, Tentacles, DeckTerminals, AuditLog,
        FiniteSetTheorems, SequenceTheorems, WellFoundedInduction, TLAPS

-----------------------------------------------------------------------------
(***************************************************************************)
(* Native agents (DeckAgents).                                             *)
(***************************************************************************)

Stages == {"absent", "pending", "active", "over"}

PoolStep(a) == Pool!Accept(a) \/ Pool!Activate(a) \/ Pool!Discard(a) \/ Pool!Complete(a)

(* What the pool's steps do, seen from the deck.                           *)
LEMMA PoolMoves ==
  ASSUME TypeOK, NEW a \in Agents, PoolStep(a)
  PROVE  /\ \E to \in Stages \ {"absent"} : stage' = [stage EXCEPT ![a] = to]
         /\ stage[a] # "over"
         /\ stopped' = stopped
  BY DEF TypeOK, PoolStep, Pool!Accept, Pool!Activate, Pool!Discard, Pool!Complete, Pool!Move,
         Stages

LEMMA InitType == Init => TypeOK
  BY DeckAssumption DEF Init, TypeOK, Pool!Init

LEMMA NextType == TypeOK /\ [Next]_vars => TypeOK'
<1> SUFFICES ASSUME TypeOK, [Next]_vars PROVE TypeOK'
  OBVIOUS
<1> USE DeckAssumption DEF TypeOK, connVars, poolVars, agentVars, Goto, ForwarderTo
<1>1. ASSUME NEW c \in Conns, ConnStep(c)
      PROVE  TypeOK'
  <2>1. ASSUME NEW a \in Agents, Submit(c, a)
        PROVE  TypeOK'
    <3>1. stage' \in [Agents -> Stages] /\ stopped' = stopped
      BY <2>1, PoolMoves DEF Submit, PoolStep, Stages
    <3> QED
      BY <2>1, <3>1 DEF Submit, Stages
  <2>2. CASE SubmitRefused(c)
    BY <2>2 DEF SubmitRefused
  <2>3. CASE Insert(c)
    BY <2>3 DEF Insert
  <2>4. ASSUME NEW a \in Agents, CancelOwned(c, a)
        PROVE  TypeOK'
    BY <2>4 DEF CancelOwned, StopAgents, Cancellable
  <2>5. CASE RetainOthers(c)
    BY <2>5 DEF RetainOthers
  <2>6. CASE JoinWriter(c)
    BY <2>6 DEF JoinWriter
  <2> QED
    BY <1>1, <2>1, <2>2, <2>3, <2>4, <2>5, <2>6 DEF ConnStep
<1>2. ASSUME NEW c \in Conns, ClientStep(c)
      PROVE  TypeOK'
  <2>1. ASSUME NEW a \in Agents, CancelRequest(c, a)
        PROVE  TypeOK'
    BY <2>1 DEF CancelRequest, StopAgents, Cancellable
  <2>2. CASE CheckCap(c)
    BY <2>2 DEF CheckCap
  <2>3. CASE SocketFails(c)
    BY <2>3 DEF SocketFails
  <2>4. CASE Disconnect(c)
    BY <2>4 DEF Disconnect
  <2> QED
    BY <1>2, <2>1, <2>2, <2>3, <2>4 DEF ClientStep
<1>3. ASSUME NEW a \in Agents, JobStep(a)
      PROVE  TypeOK'
  <2>1. CASE Report(a)
    BY <2>1 DEF Report, RunFrame
  <2>2. CASE Activate(a) \/ Complete(a) \/ Discard(a)
    <3>1. stage' \in [Agents -> Stages] /\ stopped' = stopped
      BY <2>2, PoolMoves DEF Activate, Complete, Discard, PoolStep, Stages
    <3>2. events' \in [Agents -> {"open", "terminal", "closed"}]
      BY <2>2 DEF Activate, Complete, Discard
    <3>3. RunFrame
      BY <2>2 DEF Activate, Complete, Discard
    <3> QED
      BY <3>1, <3>2, <3>3 DEF RunFrame, Stages
  <2> QED
    BY <1>3, <2>1, <2>2 DEF JobStep
<1>4. ASSUME NEW a \in Agents, ForwarderStep(a)
      PROVE  TypeOK'
  <2>1. /\ UNCHANGED <<connVars, poolVars, events, spawnedBy>>
        /\ nativeAgents' \subseteq nativeAgents
    BY <1>4 DEF ForwarderStep, ForwardTerminal, ForwardFails, ChannelClosed, RemoveFinished,
                ForwarderFrame
  <2>2. \E pc \in {"remove", "ended"} : ForwarderTo(a, pc)
    BY <1>4 DEF ForwarderStep, ForwardTerminal, ForwardFails, ChannelClosed, RemoveFinished
  <2> QED
    BY <2>1, <2>2
<1>5. CASE Rest \/ UNCHANGED vars
  BY <1>5 DEF Rest, vars
<1> QED
  BY <1>1, <1>2, <1>3, <1>4, <1>5 DEF Next

(* Every variable of the deck keeps its type.                              *)
THEOREM TypeCorrect == SafetySpec => []TypeOK
<1> QED
  BY InitType, NextType, PTL DEF SafetySpec

-----------------------------------------------------------------------------
LEMMA Sizes ==
  ASSUME TypeOK
  PROVE  /\ IsFiniteSet(Committed) /\ IsFiniteSet(nativeAgents)
         /\ Cardinality(Committed) \in Nat /\ Cardinality(nativeAgents) \in Nat
         /\ Cardinality(Conns) \in Nat /\ Cardinality(Conns) >= 1
<1>1. Committed \subseteq Conns /\ nativeAgents \subseteq Agents
  BY DEF TypeOK, Committed
<1>2. IsFiniteSet(Committed) /\ IsFiniteSet(nativeAgents)
  BY <1>1, DeckAssumption, FS_Subset
<1>3. Cardinality(Conns) \in Nat /\ Cardinality(Conns) # 0
  BY DeckAssumption, FS_CardinalityType, FS_EmptySet
<1> QED
  BY <1>2, <1>3, FS_CardinalityType

LEMMA InitCap == Init => CapInv
<1> SUFFICES ASSUME Init PROVE CapInv
  OBVIOUS
<1>1. Committed = {} /\ nativeAgents = {}
  BY DEF Init, Committed
<1> QED
  BY <1>1, Sizes, InitType, FS_EmptySet, DeckAssumption DEF CapInv

(* Only CheckCap commits a connection, and only Insert lets the set grow.  *)
LEMMA CapSteps ==
  ASSUME TypeOK, [Next]_vars
  PROVE  \/ \E c \in Conns : /\ BelowCap /\ nativeAgents' = nativeAgents
                             /\ Committed' \subseteq Committed \cup {c}
         \/ \E c \in Committed, a \in Agents :
              /\ nativeAgents' = nativeAgents \cup {a} /\ Committed' = Committed \ {c}
         \/ nativeAgents' \subseteq nativeAgents /\ Committed' \subseteq Committed
<1> USE DEF TypeOK, connVars, poolVars, agentVars, Goto, ForwarderTo, Committed
<1> DEFINE Grows == \E c \in Conns : /\ BelowCap /\ nativeAgents' = nativeAgents
                                     /\ Committed' \subseteq Committed \cup {c}
           Lists == \E c \in Committed, a \in Agents :
                      /\ nativeAgents' = nativeAgents \cup {a} /\ Committed' = Committed \ {c}
           Falls == nativeAgents' \subseteq nativeAgents /\ Committed' \subseteq Committed
<1>1. ASSUME NEW c \in Conns, CheckCap(c) PROVE Grows
  BY <1>1 DEF CheckCap
<1>2. ASSUME NEW c \in Conns, Insert(c) PROVE Lists
  <2>1. c \in Committed /\ inHand[c] \in Agents /\ nativeAgents' = nativeAgents \cup {inHand[c]}
    BY <1>2 DEF Insert
  <2>2. Committed' = Committed \ {c}
    BY <1>2 DEF Insert
  <2> QED
    BY <2>1, <2>2
<1>3. ASSUME NEW c \in Conns,
             \/ \E a \in Agents : Submit(c, a) \/ CancelRequest(c, a) \/ CancelOwned(c, a)
             \/ SubmitRefused(c) \/ RetainOthers(c) \/ JoinWriter(c)
             \/ SocketFails(c) \/ Disconnect(c)
      PROVE  Falls
  <2>1. nativeAgents' \subseteq nativeAgents
    BY <1>3 DEF Submit, CancelRequest, SubmitRefused, CancelOwned, RetainOthers, JoinWriter,
                SocketFails, Disconnect
  <2>2. \/ conn' = conn
        \/ \E pc \in {"reading", "cancelling", "joining", "closed"} : Goto(c, pc)
        \/ conn[c] = "submit" /\ Goto(c, "insert")
    BY <1>3 DEF Submit, CancelRequest, SubmitRefused, CancelOwned, RetainOthers, JoinWriter,
                SocketFails, Disconnect
  <2> QED
    BY <2>1, <2>2
<1>4. ASSUME NEW a \in Agents, JobStep(a) \/ ForwarderStep(a) PROVE Falls
  <2>1. conn' = conn
    BY <1>4 DEF JobStep, Report, Activate, Complete, Discard, RunFrame, ForwarderStep, ForwardTerminal,
                ForwardFails, ChannelClosed, RemoveFinished, ForwarderFrame
  <2>2. nativeAgents' \subseteq nativeAgents
    BY <1>4 DEF JobStep, Report, Activate, Complete, Discard, RunFrame, ForwarderStep, ForwardTerminal,
                ForwardFails, ChannelClosed, RemoveFinished
  <2> QED
    BY <2>1, <2>2
<1>5. ASSUME Rest \/ UNCHANGED vars PROVE Falls
  BY <1>5 DEF Rest, vars
<1> HIDE DEF Grows, Lists, Falls, TypeOK, connVars, poolVars, agentVars, Goto, ForwarderTo, Committed
<1>6. Grows \/ Lists \/ Falls
  BY <1>1, <1>2, <1>3, <1>4, <1>5 DEF Next, ConnStep, ClientStep
<1> QED
  BY <1>6 DEF Grows, Lists, Falls

LEMMA NextCap == TypeOK /\ CapInv /\ [Next]_vars => CapInv'
<1> SUFFICES ASSUME TypeOK, CapInv, [Next]_vars PROVE CapInv'
  OBVIOUS
<1>1. /\ IsFiniteSet(Committed) /\ IsFiniteSet(nativeAgents)
      /\ Cardinality(Committed) \in Nat /\ Cardinality(nativeAgents) \in Nat
      /\ Cardinality(Conns) \in Nat /\ NativeMaxAgents \in Nat
  BY Sizes, DeckAssumption
<1>2. Committed' \subseteq Conns
  BY DEF Committed
<1>3. ASSUME NEW c \in Conns, BelowCap, nativeAgents' = nativeAgents PROVE CapInv'
  <2>1. Cardinality(Committed') \in Nat /\ Cardinality(Committed') <= Cardinality(Conns)
    BY <1>2, DeckAssumption, FS_Subset, FS_CardinalityType
  <2> QED
    BY <1>1, <1>3, <2>1 DEF CapInv, BelowCap
<1>4. ASSUME NEW c \in Committed, NEW a \in Agents,
             nativeAgents' = nativeAgents \cup {a}, Committed' = Committed \ {c}
      PROVE  CapInv'
  <2>1. Cardinality(Committed') = Cardinality(Committed) - 1
    BY <1>1, <1>4, FS_RemoveElement
  <2>2. Cardinality(nativeAgents') \in {Cardinality(nativeAgents), Cardinality(nativeAgents) + 1}
    BY <1>1, <1>4, FS_AddElement
  <2> QED
    BY <1>1, <2>1, <2>2 DEF CapInv
<1>5. ASSUME nativeAgents' \subseteq nativeAgents, Committed' \subseteq Committed PROVE CapInv'
  <2>1. /\ Cardinality(nativeAgents') \in Nat /\ Cardinality(nativeAgents') <= Cardinality(nativeAgents)
        /\ Cardinality(Committed') \in Nat /\ Cardinality(Committed') <= Cardinality(Committed)
    BY <1>1, <1>5, FS_Subset, FS_CardinalityType
  <2> QED
    BY <1>1, <2>1 DEF CapInv
<1> QED
  BY <1>3, <1>4, <1>5, CapSteps

(* Whatever the connections do, the listed agents and the spawns under way *)
(* stay below the cap plus one for each connection.                        *)
THEOREM CapOvershootBounded == SafetySpec => []CapInv
  BY InitType, NextType, InitCap, NextCap, PTL DEF SafetySpec

(* The cap on native agents, checked before each spawn and not when the id *)
(* is listed, is exceeded by less than one agent for each connection.      *)
THEOREM NativeListBounded == SafetySpec => []NativeBound
<1>1. TypeOK /\ CapInv => NativeBound
  BY Sizes, DeckAssumption DEF CapInv, NativeBound
<1> QED
  BY <1>1, TypeCorrect, CapOvershootBounded, PTL

-----------------------------------------------------------------------------
LEMMA InitOwnership == Init => OwnershipInv
  BY DeckAssumption DEF Init, Pool!Init, OwnershipInv, HandInv, OwnedInv, ListedInv, CancelInv, RetainInv,
     Owned

(* A step that only lets runs end, adds to the stopped agents, shortens the*)
(* list and moves no connection into the clean-up keeps the invariant.     *)
LEMMA QuietSteps ==
  ASSUME TypeOK, OwnershipInv,
         spawnedBy' = spawnedBy, inHand' = inHand, owned' = owned,
         nativeAgents' \subseteq nativeAgents, stopped \subseteq stopped',
         \A a \in Agents : /\ stage[a] = "over" => stage'[a] = "over"
                           /\ stage[a] # "absent" => stage'[a] # "absent",
         toCancel' = toCancel,
         \A c \in Conns : conn'[c] # conn[c] =>
           conn[c] # "insert" /\ conn'[c] \in {"reading", "submit"}
  PROVE  OwnershipInv'
<1> USE DeckAssumption DEF TypeOK, OwnershipInv
<1>1. HandInv'
  BY DEF HandInv
<1>2. OwnedInv'
  BY DEF OwnedInv, Owned
<1>3. ListedInv'
  BY DEF ListedInv
<1>4. CancelInv'
  BY DEF CancelInv
<1>5. RetainInv'
  BY DEF RetainInv
<1> QED
  BY <1>1, <1>2, <1>3, <1>4, <1>5

LEMMA NextOwnership == TypeOK /\ OwnershipInv /\ [Next]_vars => OwnershipInv'
<1> SUFFICES ASSUME TypeOK, OwnershipInv, [Next]_vars PROVE OwnershipInv'
  OBVIOUS
<1> USE DeckAssumption DEF TypeOK, OwnershipInv, connVars, poolVars, agentVars, Goto
<1>1. ASSUME NEW c \in Conns, NEW a \in Agents, Submit(c, a)
      PROVE  OwnershipInv'
  <2>1. stage' = [stage EXCEPT ![a] = "pending"] /\ stopped' = stopped
    BY <1>1 DEF Submit, Pool!Accept, Pool!Move
  <2>2. a \notin nativeAgents /\ spawnedBy[a] = NoConn
    BY <1>1 DEF Submit, Fresh, ListedInv
  <2>3. /\ conn[c] = "submit" /\ conn' = [conn EXCEPT ![c] = "insert"]
        /\ inHand' = [inHand EXCEPT ![c] = a] /\ spawnedBy' = [spawnedBy EXCEPT ![a] = c]
        /\ owned' = owned /\ toCancel' = toCancel /\ nativeAgents' = nativeAgents
    BY <1>1 DEF Submit
  <2>4. HandInv'
    BY <2>2, <2>3 DEF HandInv
  <2>5. OwnedInv'
    BY <2>1, <2>2, <2>3 DEF OwnedInv, Owned
  <2>6. ListedInv'
    BY <2>3 DEF ListedInv
  <2>7. CancelInv'
    BY <2>1, <2>3 DEF CancelInv
  <2>8. RetainInv'
    BY <2>2, <2>3 DEF RetainInv
  <2> QED
    BY <2>4, <2>5, <2>6, <2>7, <2>8
<1>2. ASSUME NEW c \in Conns, Insert(c)
      PROVE  OwnershipInv'
  <2>1. /\ conn[c] = "insert" /\ conn' = [conn EXCEPT ![c] = "reading"]
        /\ inHand' = [inHand EXCEPT ![c] = NoAgent] /\ spawnedBy' = spawnedBy
        /\ owned' = [owned EXCEPT ![c] = @ \cup {inHand[c]}]
        /\ nativeAgents' = nativeAgents \cup {inHand[c]}
        /\ stage' = stage /\ stopped' = stopped /\ toCancel' = toCancel
    BY <1>2 DEF Insert
  <2>2. inHand[c] \in Agents /\ spawnedBy[inHand[c]] = c
    BY <2>1 DEF HandInv
  <2>3. HandInv'
    BY <2>1 DEF HandInv
  <2>4. OwnedInv'
    <3> SUFFICES ASSUME NEW a \in Agents, spawnedBy[a] # NoConn
                 PROVE  Owned(a)' /\ stage'[a] # "absent"
      BY <2>1 DEF OwnedInv
    <3>1. CASE spawnedBy[a] = c
      BY <2>1, <3>1 DEF OwnedInv, Owned
    <3>2. CASE spawnedBy[a] # c
      BY <2>1, <3>2 DEF OwnedInv, Owned
    <3> QED
      BY <3>1, <3>2
  <2>5. ListedInv'
    BY <2>1, <2>2 DEF ListedInv
  <2>6. CancelInv'
    BY <2>1 DEF CancelInv
  <2>7. RetainInv'
    BY <2>1, <2>2 DEF RetainInv
  <2> QED
    BY <2>3, <2>4, <2>5, <2>6, <2>7
<1>3. ASSUME NEW c \in Conns, NEW a \in Agents, CancelOwned(c, a)
      PROVE  OwnershipInv'
  <2>1. /\ conn[c] = "cancelling" /\ a \in toCancel[c]
        /\ toCancel' = [toCancel EXCEPT ![c] = @ \ {a}]
        /\ stopped' = stopped \cup Cancellable({a})
        /\ UNCHANGED <<conn, inHand, owned, spawnedBy, nativeAgents, stage>>
    BY <1>3 DEF CancelOwned, StopAgents
  <2>2. HandInv' /\ ListedInv' /\ RetainInv'
    BY <2>1 DEF HandInv, ListedInv, RetainInv
  <2>3. OwnedInv'
    BY <2>1 DEF OwnedInv, Owned
  <2>4. CancelInv'
    <3> SUFFICES ASSUME NEW b \in Agents, spawnedBy[b] # NoConn,
                        conn[spawnedBy[b]] \in {"cancelling", "joining", "closed"}
                 PROVE  \/ stage[b] = "over" \/ b \in stopped'
                        \/ conn[spawnedBy[b]] = "cancelling" /\ b \in toCancel'[spawnedBy[b]]
      BY <2>1 DEF CancelInv
    <3>1. CASE b = a
      BY <2>1, <3>1 DEF OwnedInv, Cancellable
    <3>2. CASE b # a
      BY <2>1, <3>2 DEF CancelInv
    <3> QED
      BY <3>1, <3>2
  <2> QED
    BY <2>2, <2>3, <2>4
<1>4. ASSUME NEW c \in Conns, RetainOthers(c)
      PROVE  OwnershipInv'
  <2>1. /\ conn[c] = "cancelling" /\ toCancel[c] = {} /\ conn' = [conn EXCEPT ![c] = "joining"]
        /\ inHand' = inHand /\ owned' = owned /\ toCancel' = toCancel /\ spawnedBy' = spawnedBy
        /\ nativeAgents' = nativeAgents \ owned[c] /\ stage' = stage /\ stopped' = stopped
    BY <1>4 DEF RetainOthers
  <2>2. HandInv'
    BY <2>1 DEF HandInv
  <2>3. OwnedInv'
    BY <2>1 DEF OwnedInv, Owned
  <2>4. ListedInv'
    BY <2>1 DEF ListedInv
  <2>5. CancelInv'
    BY <2>1 DEF CancelInv
  <2>6. RetainInv'
    <3> SUFFICES ASSUME NEW a \in nativeAgents', spawnedBy[a] # NoConn
                 PROVE  conn'[spawnedBy[a]] \notin {"joining", "closed"}
      BY <2>1 DEF RetainInv
    <3>1. a \in nativeAgents /\ a \notin owned[c]
      BY <2>1
    <3>2. spawnedBy[a] # c
      BY <2>1, <3>1 DEF OwnedInv, Owned
    <3> QED
      BY <2>1, <3>1, <3>2 DEF RetainInv
  <2> QED
    BY <2>2, <2>3, <2>4, <2>5, <2>6
<1>5. ASSUME NEW c \in Conns, JoinWriter(c)
      PROVE  OwnershipInv'
  <2>1. /\ conn[c] = "joining" /\ conn' = [conn EXCEPT ![c] = "closed"]
        /\ inHand' = inHand /\ owned' = owned /\ toCancel' = toCancel /\ spawnedBy' = spawnedBy
        /\ nativeAgents' = nativeAgents /\ stage' = stage /\ stopped' = stopped
    BY <1>5 DEF JoinWriter
  <2>2. HandInv' /\ ListedInv'
    BY <2>1 DEF HandInv, ListedInv
  <2>3. OwnedInv'
    BY <2>1 DEF OwnedInv, Owned
  <2>4. CancelInv'
    BY <2>1 DEF CancelInv
  <2>5. RetainInv'
    BY <2>1 DEF RetainInv
  <2> QED
    BY <2>2, <2>3, <2>4, <2>5
<1>6. ASSUME NEW c \in Conns, Disconnect(c)
      PROVE  OwnershipInv'
  <2>1. /\ conn[c] = "reading" /\ conn' = [conn EXCEPT ![c] = "cancelling"]
        /\ toCancel' = [toCancel EXCEPT ![c] = owned[c]]
        /\ UNCHANGED <<inHand, owned, spawnedBy, nativeAgents, stage, stopped>>
    BY <1>6 DEF Disconnect
  <2>2. HandInv' /\ ListedInv'
    BY <2>1 DEF HandInv, ListedInv
  <2>3. OwnedInv'
    BY <2>1 DEF OwnedInv, Owned
  <2>4. CancelInv'
    <3> SUFFICES ASSUME NEW a \in Agents, spawnedBy[a] # NoConn,
                        conn'[spawnedBy[a]] \in {"cancelling", "joining", "closed"}
                 PROVE  \/ stage[a] = "over" \/ a \in stopped
                        \/ conn'[spawnedBy[a]] = "cancelling" /\ a \in toCancel'[spawnedBy[a]]
      BY <2>1 DEF CancelInv
    <3>1. CASE spawnedBy[a] = c
      BY <2>1, <3>1 DEF OwnedInv, Owned
    <3>2. CASE spawnedBy[a] # c
      BY <2>1, <3>2 DEF CancelInv
    <3> QED
      BY <3>1, <3>2
  <2>5. RetainInv'
    BY <2>1 DEF RetainInv
  <2> QED
    BY <2>2, <2>3, <2>4, <2>5
<1>7. ASSUME NEW c \in Conns, SubmitRefused(c) \/ CheckCap(c) \/ SocketFails(c)
      PROVE  OwnershipInv'
  BY <1>7, QuietSteps DEF SubmitRefused, CheckCap, SocketFails
<1>8. ASSUME NEW c \in Conns, NEW a \in Agents, CancelRequest(c, a)
      PROVE  OwnershipInv'
  BY <1>8, QuietSteps DEF CancelRequest, StopAgents
<1>9. ASSUME NEW a \in Agents, JobStep(a)
      PROVE  OwnershipInv'
  <2>1. UNCHANGED <<connVars, nativeAgents, spawnedBy>>
    BY <1>9 DEF JobStep, Report, Activate, Complete, Discard, RunFrame
  <2>2. stopped' = stopped
    BY <1>9, PoolMoves DEF JobStep, Report, Activate, Complete, Discard, PoolStep
  <2>3. \A b \in Agents : /\ stage[b] = "over" => stage'[b] = "over"
                          /\ stage[b] # "absent" => stage'[b] # "absent"
    <3>1. CASE Report(a)
      BY <3>1 DEF Report
    <3>2. CASE PoolStep(a)
      BY <3>2, PoolMoves
    <3> QED
      BY <1>9, <3>1, <3>2 DEF JobStep, Activate, Complete, Discard, PoolStep
  <2> QED
    BY <2>1, <2>2, <2>3, QuietSteps
<1>10. ASSUME NEW a \in Agents, ForwarderStep(a)
      PROVE  OwnershipInv'
  <2>1. UNCHANGED <<connVars, poolVars, spawnedBy>> /\ nativeAgents' \subseteq nativeAgents
    BY <1>10 DEF ForwarderStep, ForwardTerminal, ForwardFails, ChannelClosed, RemoveFinished,
                ForwarderFrame
  <2> QED
    BY <2>1, QuietSteps
<1>11. CASE Rest \/ UNCHANGED vars
  BY <1>11, QuietSteps DEF Rest, vars
<1> HIDE DEF TypeOK, OwnershipInv, connVars, poolVars, agentVars, Goto
<1> QED
  BY <1>1, <1>2, <1>3, <1>4, <1>5, <1>6, <1>7, <1>8, <1>9, <1>10, <1>11 DEF Next, ConnStep, ClientStep

LEMMA OwnershipHolds == SafetySpec => []OwnershipInv
  BY InitType, NextType, InitOwnership, NextOwnership, PTL DEF SafetySpec

(* A closed connection leaves no agent running that was not told to stop.  *)
THEOREM NoAgentOrphaned == SafetySpec => []NoOrphans
<1>1. OwnershipInv => NoOrphans
  BY DeckAssumption DEF OwnershipInv, CancelInv, NoOrphans, Closed, SpawnedBy
<1> QED
  BY <1>1, OwnershipHolds, PTL

(* And none that counts against the cap of the other connections.          *)
THEOREM ClosingFreesCapacity == SafetySpec => []ClosedFreesCapacity
<1>1. OwnershipInv => ClosedFreesCapacity
  BY DeckAssumption DEF OwnershipInv, RetainInv, ClosedFreesCapacity, Closed, SpawnedBy
<1> QED
  BY <1>1, OwnershipHolds, PTL

-----------------------------------------------------------------------------
(***************************************************************************)
(* Terminals (DeckTerminals): none outlives its connection.                *)
(***************************************************************************)

TermTypeOK ==
  /\ client \in [Clients -> {"reading", "spawn", "insert", "killing", "closed"}]
  /\ spawning \in [Clients -> Terminals \cup {NoTerm}]
  /\ owns \in [Clients -> SUBSET Terminals]
  /\ toKill \in [Clients -> SUBSET Terminals]
  /\ terminals \subseteq Terminals \cup {NoTerm}
  /\ alive \subseteq Terminals
  /\ startedBy \in [Terminals -> Clients \cup {NoClient}]

(* A connection owns what it spawned.  Between owning a terminal and       *)
(* listing it the connection does nothing else, so when the clean-up       *)
(* begins all it owns is listed and the kills reach it; only those it has  *)
(* still to come to are alive.                                             *)
TermOwnedInv ==
  /\ \A t \in Terminals : startedBy[t] = NoClient => t \notin alive \cup terminals
  /\ \A c \in Clients : client[c] = "insert" => spawning[c] \in StartedBy(c)
  /\ \A c \in Clients : owns[c] = StartedBy(c)
  /\ \A c \in Clients : client[c] \in {"reading", "spawn", "insert", "killing"} =>
       \A t \in StartedBy(c) : t \in terminals \/ (client[c] = "insert" /\ spawning[c] = t)
  /\ \A c \in Clients : client[c] = "killing" => StartedBy(c) \cap alive \subseteq toKill[c]
  /\ NoOrphanTerminals

LEMMA TermOwnedInit == TerminalsAssumption /\ TermInit => TermTypeOK /\ TermOwnedInv
BY DEF TerminalsAssumption, TermInit, TermTypeOK, TermOwnedInv, NoOrphanTerminals, StartedBy, ClientClosed

LEMMA TermTypeNext == TerminalsAssumption /\ TermTypeOK /\ TermOwnedInv /\ [TermNext]_termVars => TermTypeOK'
<1> SUFFICES ASSUME TerminalsAssumption, TermTypeOK, TermOwnedInv, [TermNext]_termVars PROVE TermTypeOK'
  OBVIOUS
<1> USE DEF TermTypeOK, ClientTo
<1>1. ASSUME NEW c \in Clients, PassCap(c) \/ Refuse(c) \/ SpawnFails(c) PROVE TermTypeOK'
  BY <1>1, SMT DEF PassCap, Refuse, SpawnFails, termVars
<1>2. ASSUME NEW c \in Clients, ListTerminal(c) PROVE TermTypeOK'
  BY <1>2, SMT DEF ListTerminal
<1>3. ASSUME NEW c \in Clients, ClientLeaves(c) \/ RetainOtherTerminals(c) PROVE TermTypeOK'
  BY <1>3, SMT DEF ClientLeaves, RetainOtherTerminals
<1>4. ASSUME NEW c \in Clients, NEW t \in Terminals, Spawn(c, t) PROVE TermTypeOK'
  BY <1>4, SMT DEF Spawn
<1>5. ASSUME NEW c \in Clients, NEW t \in Terminals, TermKill(c, t) \/ KillOwned(c, t) \/ ProcessExits(t)
      PROVE  TermTypeOK'
  BY <1>5, SMT DEF TermKill, KillOwned, ProcessExits
<1>6. CASE (\E t \in Terminals : ProcessExits(t)) \/ TermRest \/ UNCHANGED termVars
  BY <1>6, SMT DEF ProcessExits, TermRest, termVars
<1> QED
  BY <1>1, <1>2, <1>3, <1>4, <1>5, <1>6 DEF TermNext

LEMMA TermOwnedNext == TerminalsAssumption /\ TermTypeOK /\ TermOwnedInv /\ [TermNext]_termVars => TermOwnedInv'
<1> SUFFICES ASSUME TerminalsAssumption, TermTypeOK, TermOwnedInv, [TermNext]_termVars PROVE TermOwnedInv'
  OBVIOUS
<1> USE DEF TermTypeOK, TermOwnedInv, NoOrphanTerminals, StartedBy, ClientClosed, ClientTo
<1>1. ASSUME NEW c \in Clients, PassCap(c) \/ Refuse(c) \/ SpawnFails(c) PROVE TermOwnedInv'
  BY <1>1, SMT DEF PassCap, Refuse, SpawnFails, termVars
<1>2. ASSUME NEW c \in Clients, ListTerminal(c) PROVE TermOwnedInv'
  <2>1. /\ client[c] = "insert" /\ client' = [client EXCEPT ![c] = "reading"]
        /\ spawning' = [spawning EXCEPT ![c] = NoTerm]
        /\ terminals' = terminals \cup {spawning[c]}
        /\ UNCHANGED <<owns, toKill, alive, startedBy>>
    BY <1>2 DEF ListTerminal
  <2>2. spawning[c] \in Terminals /\ startedBy[spawning[c]] = c /\ c # NoClient
    BY <2>1, SMT DEF TerminalsAssumption
  <2>3. (\A t \in Terminals : startedBy[t] = NoClient => t \notin alive \cup terminals)'
    BY <2>1, <2>2, SMT
  <2>4. (\A d \in Clients : client[d] = "insert" => spawning[d] \in StartedBy(d))'
    BY <2>1, SMT
  <2>5. (\A d \in Clients : client[d] \in {"reading", "spawn", "insert", "killing"} =>
           \A t \in StartedBy(d) : t \in terminals \/ (client[d] = "insert" /\ spawning[d] = t))'
    BY <2>1, SMT
  <2>8. (\A d \in Clients : owns[d] = StartedBy(d))'
    BY <2>1, SMT
  <2>6. (\A d \in Clients : client[d] = "killing" => StartedBy(d) \cap alive \subseteq toKill[d])'
    BY <2>1, SMT
  <2>7. NoOrphanTerminals'
    BY <2>1, <2>2, SMT
  <2> QED
    BY <2>3, <2>4, <2>5, <2>6, <2>7, <2>8
<1>3. ASSUME NEW c \in Clients, ClientLeaves(c) PROVE TermOwnedInv'
  BY <1>3, SMT DEF ClientLeaves
<1>4. ASSUME NEW c \in Clients, RetainOtherTerminals(c) PROVE TermOwnedInv'
  BY <1>4, SMT DEF RetainOtherTerminals
<1>5. ASSUME NEW c \in Clients, NEW t \in Terminals, Spawn(c, t) PROVE TermOwnedInv'
  BY <1>5, SMT DEF Spawn, TerminalsAssumption
<1>6. ASSUME NEW c \in Clients, NEW t \in Terminals, TermKill(c, t) PROVE TermOwnedInv'
  BY <1>6, SMT DEF TermKill
<1>7. ASSUME NEW c \in Clients, NEW t \in Terminals, KillOwned(c, t) PROVE TermOwnedInv'
  BY <1>7, SMT DEF KillOwned
<1>8. ASSUME NEW t \in Terminals, ProcessExits(t) PROVE TermOwnedInv'
  BY <1>8, SMT DEF ProcessExits
<1>9. CASE TermRest \/ UNCHANGED termVars
  BY <1>9, SMT DEF TermRest, termVars
<1> QED
  BY <1>1, <1>2, <1>3, <1>4, <1>5, <1>6, <1>7, <1>8, <1>9 DEF TermNext

(* server.rs 626-639 and 746-820: a connection that is closed leaves no    *)
(* process running and no entry in the map, whatever the other connections *)
(* spawn, kill and close meanwhile.                                        *)
THEOREM NoTerminalOrphaned == ASSUME TerminalsAssumption PROVE TermSpec => []NoOrphanTerminals
<1>1. TermInit => TermTypeOK /\ TermOwnedInv
  BY TermOwnedInit
<1>2. TermTypeOK /\ TermOwnedInv /\ [TermNext]_termVars => (TermTypeOK /\ TermOwnedInv)'
  BY TermTypeNext, TermOwnedNext
<1>3. TermOwnedInv => NoOrphanTerminals
  BY DEF TermOwnedInv
<1> QED
  BY <1>1, <1>2, <1>3, PTL DEF TermSpec

-----------------------------------------------------------------------------
(***************************************************************************)
(* The tentacle store (Tentacles): a truncated file is one being written.  *)
(***************************************************************************)

Steps ==
  {"idle", "toggle.open", "toggle.fill", "create.context", "create.openContext",
   "create.fillContext", "create.todo", "create.openTodo", "create.fillTodo", "remove.dir",
   "context.fill"}

StoreTypeOK ==
  /\ context \in {NoFile, Torn, "template", "notes"}
  /\ todo \in TodoFiles \cup {NoFile, Torn}
  /\ step \in [Sessions -> Steps]
  /\ line \in [Sessions -> Lines]
  /\ copy \in [Sessions -> TodoFiles]
  /\ linked \subseteq Sessions

LEMMA StoreTypeInit == TentaclesAssumption /\ StoreInit => StoreTypeOK
BY SMT DEF TentaclesAssumption, StoreInit, StoreTypeOK, Steps, Template, TodoFiles

(* What a toggle writes back is a todo file.                               *)
LEMMA FlipType == ASSUME NEW f \in TodoFiles, NEW l \in Lines PROVE Flip(f, l) \in TodoFiles
BY SMT DEF Flip, TodoFiles

LEMMA StoreTypeNext == TentaclesAssumption /\ StoreTypeOK /\ [StoreNext]_storeVars => StoreTypeOK'
<1> SUFFICES ASSUME TentaclesAssumption, StoreTypeOK, [StoreNext]_storeVars PROVE StoreTypeOK'
  OBVIOUS
<1> USE DEF StoreTypeOK, GoOn, Steps
<1>1. ASSUME NEW s \in Sessions, NEW l \in Lines, ReadTodo(s, l) PROVE StoreTypeOK'
  <2>1. todo \in TodoFiles
    BY <1>1, SMT DEF ReadTodo, BoxesOf
  <2>2. Flip(todo, l) \in TodoFiles
    BY <2>1, FlipType
  <2> QED
    BY <1>1, <2>2, SMT DEF ReadTodo, files, history
<1>2. ASSUME NEW s \in Sessions,
             OpenTodo(s) \/ CreateOpensContext(s) \/ CreateOpensTodo(s) \/ OpenContext(s)
      PROVE  StoreTypeOK'
  BY <1>2, SMT DEF OpenTodo, CreateOpensContext, CreateOpensTodo, OpenContext
<1>9. ASSUME NEW s \in Sessions, OpenFails(s) \/ FillFails(s) PROVE StoreTypeOK'
  BY <1>9, SMT DEF OpenFails, FillFails, files, history
<1>3. ASSUME NEW s \in Sessions, FillTodo(s) \/ CreateFillsTodo(s) PROVE StoreTypeOK'
  <2>1. Template \in TodoFiles /\ copy[s] \in TodoFiles
    BY SMT DEF Template, TodoFiles, TentaclesAssumption
  <2> QED
    BY <1>3, <2>1, SMT DEF FillTodo, CreateFillsTodo
<1>4. ASSUME NEW s \in Sessions, CreateFillsContext(s) \/ FillContext(s) PROVE StoreTypeOK'
  BY <1>4, SMT DEF CreateFillsContext, FillContext
<1>5. ASSUME NEW s \in Sessions, MakeDir(s) \/ FindContext(s) \/ FindTodo(s) \/ RemoveFiles(s)
      PROVE  StoreTypeOK'
  BY <1>5, SMT DEF MakeDir, FindContext, FindTodo, RemoveFiles, files, history
<1>6. ASSUME NEW s \in Sessions, RemoveDir(s) PROVE StoreTypeOK'
  BY <1>6, SMT DEF RemoveDir, history
<1>7. CASE Crash
  BY <1>7, SMT DEF Crash, files
<1>8. CASE UNCHANGED storeVars
  BY <1>8, SMT DEF storeVars
<1> QED
  BY <1>1, <1>2, <1>3, <1>4, <1>5, <1>6, <1>7, <1>8, <1>9 DEF StoreNext, SessionStep

-----------------------------------------------------------------------------
(* While a session fills a file it truncated, the file is accounted for.   *)
(* A fill by one session ends the truncation of all: what it leaves is a   *)
(* text, unless the file was removed, and then its own step changes        *)
(* nothing.                                                                *)
FillsTodo == {"toggle.fill", "create.fillTodo"}
FillsContext == {"create.fillContext", "context.fill"}

LEMMA TornNext ==
  TentaclesAssumption /\ StoreTypeOK /\ TornIsInProgress /\ [StoreNext]_storeVars => TornIsInProgress'
<1> SUFFICES ASSUME TentaclesAssumption, StoreTypeOK, TornIsInProgress, [StoreNext]_storeVars
             PROVE  TornIsInProgress'
  OBVIOUS
<1> USE DEF StoreTypeOK, TornIsInProgress, GoOn, Steps
<1>1. ASSUME NEW s \in Sessions, NEW l \in Lines, ReadTodo(s, l) PROVE TornIsInProgress'
  BY <1>1, SMT DEF ReadTodo, files, history
<1>2. ASSUME NEW s \in Sessions, MakeDir(s) \/ FindContext(s) \/ FindTodo(s) \/ RemoveDir(s)
      PROVE  TornIsInProgress'
  BY <1>2, SMT DEF MakeDir, FindContext, FindTodo, RemoveDir, files, history
<1>3. ASSUME NEW s \in Sessions, OpenTodo(s) \/ CreateOpensTodo(s) PROVE TornIsInProgress'
  BY <1>3, SMT DEF OpenTodo, CreateOpensTodo
<1>4. ASSUME NEW s \in Sessions, CreateOpensContext(s) \/ OpenContext(s) PROVE TornIsInProgress'
  BY <1>4, SMT DEF CreateOpensContext, OpenContext
<1>5. ASSUME NEW s \in Sessions, FillTodo(s) \/ CreateFillsTodo(s) PROVE TornIsInProgress'
  <2>1. copy[s] # Torn /\ Template # Torn
    BY SMT DEF Template, TodoFiles, TentaclesAssumption
  <2> QED
    BY <1>5, <2>1, SMT DEF FillTodo, CreateFillsTodo
<1>6. ASSUME NEW s \in Sessions, CreateFillsContext(s) \/ FillContext(s) PROVE TornIsInProgress'
  <2>1. /\ s \in linked => context' # Torn
        /\ s \notin linked => context' = context
        /\ step[s] \notin FillsTodo
    BY <1>6, SMT DEF CreateFillsContext, FillContext, TentaclesAssumption, FillsTodo
  <2>2. /\ todo' = todo /\ leftTorn' = leftTorn /\ linked' = linked \ {s}
        /\ \E to \in Steps : step' = [step EXCEPT ![s] = to]
    BY <1>6, SMT DEF CreateFillsContext, FillContext, history
  <2> QED
    BY <2>1, <2>2, SMT DEF FillsTodo
<1>7. ASSUME NEW s \in Sessions, RemoveFiles(s) PROVE TornIsInProgress'
  BY <1>7, SMT DEF RemoveFiles, TentaclesAssumption
<1>8. ASSUME NEW s \in Sessions, OpenFails(s) PROVE TornIsInProgress'
  BY <1>8, SMT DEF OpenFails, files, history
<1>9. ASSUME NEW s \in Sessions, FillFails(s) PROVE TornIsInProgress'
  <2>1. /\ todo' = todo /\ context' = context
        /\ linked' = linked \ {s} /\ step' = [step EXCEPT ![s] = "idle"]
        /\ leftTorn \subseteq leftTorn'
    BY <1>9, SMT DEF FillFails, files
  <2>2. s \in linked /\ step[s] \in FillsTodo => "todo" \in leftTorn'
    BY <1>9, SMT DEF FillFails, FillsTodo
  <2>3. s \in linked /\ step[s] \in FillsContext => "context" \in leftTorn'
    BY <1>9, SMT DEF FillFails, FillsContext
  <2> QED
    BY <2>1, <2>2, <2>3, SMT DEF FillsTodo, FillsContext
<1>10. CASE Crash
  BY <1>10, Zenon DEF Crash, files
<1>11. CASE UNCHANGED storeVars
  BY <1>11, SMT DEF storeVars
<1> QED
  BY <1>1, <1>2, <1>3, <1>4, <1>5, <1>6, <1>7, <1>8, <1>9, <1>10, <1>11 DEF StoreNext, SessionStep

(* tentacles.rs 106-210: an empty todo.md or CONTEXT.md is one that is     *)
(* being written, or that a crash or a failed write left, for any number   *)
(* of sessions toggling, creating, removing and writing without a lock.    *)
THEOREM TornFilesAreInProgress ==
  ASSUME TentaclesAssumption PROVE StoreSpec => []TornIsInProgress
<1>1. StoreInit => StoreTypeOK /\ TornIsInProgress
  <2>1. StoreInit => todo # Torn /\ context # Torn
    BY SMT DEF StoreInit, TentaclesAssumption, TodoFiles
  <2> QED
    BY <2>1, StoreTypeInit DEF TornIsInProgress
<1>2. StoreTypeOK /\ TornIsInProgress /\ [StoreNext]_storeVars => (StoreTypeOK /\ TornIsInProgress)'
  BY StoreTypeNext, TornNext
<1> QED
  BY <1>1, <1>2, PTL DEF StoreSpec

-----------------------------------------------------------------------------
(* A session that is alone on the deck.                                    *)

OneSession == \A s, t \in Sessions : s = t

(* Its toggle writes back the file as it found it but for the one box, and *)
(* what it is about to write is what all toggles so far have ticked.       *)
AloneInv ==
  /\ todo \notin {NoFile, Torn} => todo.done = ticks
  /\ \A s \in Sessions : step[s] = "toggle.open" =>
       todo \in TodoFiles /\ copy[s] = Flip(todo, line[s])
  /\ \A s \in Sessions : step[s] = "toggle.fill" =>
       copy[s].done = (ticks \ {line[s]}) \cup ({line[s]} \ ticks)

LEMMA FlipTicks ==
  ASSUME NEW f \in TodoFiles, NEW l
  PROVE  Flip(f, l).done = (f.done \ {l}) \cup ({l} \ f.done)
<1>1. f.done \subseteq Lines
  BY DEF TodoFiles
<1>2. Flip(f, l).done = IF l \in f.done THEN f.done \ {l} ELSE f.done \cup {l}
  BY SMT DEF Flip, TodoFiles
<1> QED
  BY <1>2

LEMMA AloneNext ==
  TentaclesAssumption /\ OneSession /\ StoreTypeOK /\ AloneInv /\ [StoreNext]_storeVars => AloneInv'
<1> SUFFICES ASSUME TentaclesAssumption, OneSession, StoreTypeOK, AloneInv, [StoreNext]_storeVars
             PROVE  AloneInv'
  OBVIOUS
<1> USE DEF StoreTypeOK, AloneInv, OneSession, GoOn, Steps
<1>1. ASSUME NEW s \in Sessions, NEW l \in Lines, ReadTodo(s, l) PROVE AloneInv'
  <2>1. todo \in TodoFiles /\ todo' = todo /\ ticks' = ticks
    BY <1>1, SMT DEF ReadTodo, BoxesOf, files, history
  <2> QED
    BY <1>1, <2>1, SMT DEF ReadTodo
<1>2. ASSUME NEW s \in Sessions, OpenTodo(s) PROVE AloneInv'
  <2>1. todo \in TodoFiles /\ copy[s] = Flip(todo, line[s]) /\ todo.done = ticks
    BY <1>2, SMT DEF OpenTodo, TentaclesAssumption
  <2>2. copy[s].done = (ticks \ {line[s]}) \cup ({line[s]} \ ticks)
    BY <2>1, FlipTicks
  <2> QED
    BY <1>2, <2>2, SMT DEF OpenTodo, history
<1>3. ASSUME NEW s \in Sessions, FillTodo(s) PROVE AloneInv'
  BY <1>3, SMT DEF FillTodo
<1>4. ASSUME NEW s \in Sessions, CreateFillsTodo(s) PROVE AloneInv'
  BY <1>4, SMT DEF CreateFillsTodo, Template
<1>5. ASSUME NEW s \in Sessions, CreateOpensTodo(s) PROVE AloneInv'
  BY <1>5, SMT DEF CreateOpensTodo, history
<1>6. ASSUME NEW s \in Sessions, RemoveFiles(s) PROVE AloneInv'
  BY <1>6, SMT DEF RemoveFiles
<1>7. ASSUME NEW s \in Sessions,
             \/ MakeDir(s) \/ FindContext(s) \/ FindTodo(s) \/ CreateOpensContext(s)
             \/ CreateFillsContext(s) \/ RemoveDir(s) \/ OpenContext(s) \/ FillContext(s)
      PROVE  AloneInv'
  <2>1. /\ \E to \in Steps \ {"toggle.open", "toggle.fill"} : step' = [step EXCEPT ![s] = to]
        /\ todo' = todo /\ ticks' = ticks /\ line' = line /\ copy' = copy
    BY <1>7, SMT DEF MakeDir, FindContext, FindTodo, CreateOpensContext, CreateFillsContext,
      RemoveDir, OpenContext, FillContext, files, history
  <2> QED
    BY <2>1, SMT
<1>8. CASE Crash
  BY <1>8, SMT DEF Crash, files
<1>10. ASSUME NEW s \in Sessions, OpenFails(s) \/ FillFails(s) PROVE AloneInv'
  <2>1. /\ step' = [step EXCEPT ![s] = "idle"]
        /\ todo' = todo /\ ticks' = ticks /\ line' = line /\ copy' = copy
    BY <1>10, SMT DEF OpenFails, FillFails, files, history
  <2> QED
    BY <2>1, SMT
<1>9. CASE UNCHANGED storeVars
  BY <1>9, SMT DEF storeVars
<1> QED
  BY <1>1, <1>2, <1>3, <1>4, <1>5, <1>6, <1>7, <1>8, <1>9, <1>10 DEF StoreNext, SessionStep

(* tentacles.rs 10-12 and 175-197: a session that has the deck to itself   *)
(* loses no toggle: it is the overlap of two sessions that loses one, not  *)
(* the rewriting of the whole file.                                        *)
THEOREM AloneEveryToggleCounts ==
  ASSUME TentaclesAssumption, OneSession PROVE StoreSpec => []TogglesAllCount
<1>1. StoreInit => StoreTypeOK /\ AloneInv
  <2>1. StoreInit => AloneInv
    BY SMT DEF StoreInit, AloneInv, TentaclesAssumption
  <2> QED
    BY <2>1, StoreTypeInit
<1>2. StoreTypeOK /\ AloneInv /\ [StoreNext]_storeVars => (StoreTypeOK /\ AloneInv)'
  BY StoreTypeNext, AloneNext
<1>3. AloneInv => TogglesAllCount
  BY DEF AloneInv, TogglesAllCount
<1> QED
  BY <1>1, <1>2, <1>3, PTL DEF StoreSpec

-----------------------------------------------------------------------------
(***************************************************************************)
(* The audit log (AuditLog): what verifies is evidence.                    *)
(***************************************************************************)

Entries == [hash : Int, prev : Int]
Pending(l) == writing[l] # NoEntry
Opened(l) == lastHash[l] # NoHash

LogTypeOK ==
  /\ file \in Seq(Seq(Entries)) /\ file # <<>>
  /\ lastHash \in [Loggers -> Int]
  /\ writing \in [Loggers -> Entries]
  /\ next \in Nat \ {0}
  /\ acked \in Seq(Entries)

(* As long as the log can be read, at most one entry is being written, on  *)
(* the last line, and what was acknowledged is on lines before it.         *)
WholeInv ==
  /\ \A l \in Loggers : Pending(l) => file[Len(file)] = <<writing[l]>>
  /\ \A l, m \in Loggers : Pending(l) /\ Pending(m) => l = m
  /\ \A i, j \in EntryLines(file) : i < j => file[i][1].hash < file[j][1].hash
  /\ \A i \in EntryLines(file) : file[i][1].hash < next
  /\ \A k \in 1 .. Len(acked) : \E i \in 1 .. Len(file) - 1 : file[i] = <<acked[k]>>
  /\ \A k, m \in 1 .. Len(acked) : k < m => acked[k].hash < acked[m].hash

(* Without faults one logger at most is open, every line but the last is   *)
(* an entry, chained to the line before, and the logger knows the last.    *)
Before(i) == IF i = 1 THEN Genesis ELSE file[i - 1][1].hash

CleanInv ==
  /\ \A l, m \in Loggers : Opened(l) /\ Opened(m) => l = m
  /\ \A l \in Loggers : Pending(l) => Opened(l)
  /\ (\A l \in Loggers : ~Pending(l)) => file[Len(file)] = <<>>
  /\ \A i \in 1 .. Len(file) - 1 : file[i] # <<>>
  /\ Readable(file)
  /\ \A l \in Loggers : Opened(l) => lastHash[l] = Before(Len(file))
  /\ \A i \in EntryLines(file) : file[i][1].prev = Before(i)

LogInv == (Readable(file) => WholeInv) /\ (faults = {} => CleanInv)

-----------------------------------------------------------------------------
(* The last line before another is a line before it.                       *)
LEMMA LastBefore ==
  ASSUME NEW n \in Nat, NEW T, T \subseteq 1 .. n, T # {}
  PROVE  Max(T) \in T /\ \A j \in T : j <= Max(T)
<1> DEFINE Far == {k \in Nat : n - k \in T}
<1>1. Far \subseteq Nat /\ Far # {}
  <2>1. PICK t \in T : t \in 1 .. n
    OBVIOUS
  <2>2. n - t \in Nat /\ n - (n - t) = t
    BY <2>1, SMT
  <2>3. n - t \in Far
    BY <2>1, <2>2
  <2> QED
    BY <2>3
<1>2. PICK x \in Far : \A y \in Far : ~(<<y, x>> \in OpToRel(<, Nat))
  BY <1>1, NatLessThanWellFounded, WFMin
<1>3. \A y \in Far : x <= y
  <2>1. \A y \in Far : ~(y < x)
    BY <1>1, <1>2 DEF OpToRel
  <2> QED
    BY <1>1, <2>1, SMT
<1>4. \A j \in T : j <= n - x
  <2> SUFFICES ASSUME NEW j \in T PROVE j <= n - x
    OBVIOUS
  <2>1. j \in 1 .. n /\ n - j \in Nat /\ n - (n - j) = j
    BY SMT
  <2>2. n - j \in Far
    BY <2>1
  <2> QED
    BY <1>1, <1>3, <2>1, <2>2, SMT
<1>5. n - x \in T
  OBVIOUS
<1> QED
  BY <1>4, <1>5 DEF Max

LEMMA ChangeLast ==
  ASSUME NEW S, NEW f \in Seq(S), f # <<>>, NEW x \in S
  PROVE  LET g == [f EXCEPT ![Len(f)] = x] IN
         /\ g \in Seq(S) /\ g # <<>> /\ Len(g) = Len(f) /\ Len(f) \in Nat \ {0}
         /\ \A i \in 1 .. Len(f) - 1 : g[i] = f[i]
         /\ g[Len(f)] = x
<1> DEFINE g == [f EXCEPT ![Len(f)] = x]
<1>1. Len(f) \in Nat \ {0}
  BY EmptySeq
<1>2. Len(f) \in 1 .. Len(f)
  BY <1>1, SMT
<1>3. g \in Seq(S) /\ Len(g) = Len(f) /\ \A j \in 1 .. Len(f) : g[j] = IF j = Len(f) THEN x ELSE f[j]
  BY <1>2, ExceptSeq
<1> HIDE DEF g
<1>4. g # <<>>
  BY <1>1, <1>3, EmptySeq
<1>5. \A i \in 1 .. Len(f) - 1 : g[i] = f[i]
  BY <1>1, <1>3, SMT
<1>6. g[Len(f)] = x
  BY <1>2, <1>3
<1> QED
  BY <1>1, <1>3, <1>4, <1>5, <1>6 DEF g

LEMMA AddLast ==
  ASSUME NEW S, NEW f \in Seq(S), f # <<>>, NEW x \in S
  PROVE  LET g == Append(f, x) IN
         /\ g \in Seq(S) /\ g # <<>> /\ Len(g) = Len(f) + 1 /\ Len(f) \in Nat \ {0}
         /\ \A i \in 1 .. Len(f) : g[i] = f[i]
         /\ g[Len(f) + 1] = x
BY AppendProperties, EmptySeq

LEMMA AddText ==
  ASSUME LogTypeOK, NEW e \in Entries
  PROVE  LET f == Append1(file, e) IN
         /\ f \in Seq(Seq(Entries)) /\ f # <<>> /\ Len(f) = Len(file) /\ Len(file) \in Nat \ {0}
         /\ \A i \in 1 .. Len(file) - 1 : f[i] = file[i]
         /\ f[Len(file)] = Append(file[Len(file)], e) /\ f[Len(file)] # <<>>
         /\ file[Len(file)] \in Seq(Entries)
         /\ Len(f[Len(file)]) = 1 => file[Len(file)] = <<>> /\ f[Len(file)] = <<e>>
<1>1. file \in Seq(Seq(Entries)) /\ file # <<>>
  BY DEF LogTypeOK
<1>2. Len(file) \in Nat \ {0} /\ file[Len(file)] \in Seq(Entries)
  <2>1. Len(file) \in Nat \ {0} /\ file \in [1 .. Len(file) -> Seq(Entries)]
    BY <1>1, EmptySeq, LenProperties
  <2> QED
    BY <2>1, SMT
<1> DEFINE text == Append(file[Len(file)], e)
<1>3. text \in Seq(Entries) /\ text # <<>> /\ Len(text) = Len(file[Len(file)]) + 1
  BY <1>2, AppendProperties
<1>4. Len(text) = 1 => file[Len(file)] = <<>>
  <2>1. Len(file[Len(file)]) \in Nat /\ (file[Len(file)] # <<>> => Len(file[Len(file)]) # 0)
    BY <1>2, EmptySeq, LenProperties
  <2> QED
    BY <1>3, <2>1, SMT
<1>5. file[Len(file)] = <<>> => text = <<e>>
  BY SMT
<1>6. Append1(file, e) = [file EXCEPT ![Len(file)] = text]
  BY DEF Append1
<1> HIDE DEF text
<1>7. LET f == Append1(file, e) IN
      /\ f \in Seq(Seq(Entries)) /\ f # <<>> /\ Len(f) = Len(file)
      /\ \A i \in 1 .. Len(file) - 1 : f[i] = file[i]
      /\ f[Len(file)] = text
  BY <1>1, <1>3, <1>6, ChangeLast
<1> QED
  BY <1>2, <1>3, <1>4, <1>5, <1>7 DEF text

LEMMA NextLine ==
  ASSUME LogTypeOK
  PROVE  LET f == EndLine(file) IN
         /\ f \in Seq(Seq(Entries)) /\ f # <<>> /\ Len(f) = Len(file) + 1 /\ Len(file) \in Nat \ {0}
         /\ \A i \in 1 .. Len(file) : f[i] = file[i]
         /\ f[Len(file) + 1] = <<>>
<1>1. <<>> \in Seq(Entries) /\ file \in Seq(Seq(Entries)) /\ file # <<>>
  BY EmptySeq DEF LogTypeOK
<1> QED
  BY <1>1, AddLast DEF EndLine

LEMMA LogTypeNext == LogAssumption /\ LogTypeOK /\ [LogNext]_logVars => LogTypeOK'
<1> SUFFICES ASSUME LogAssumption, LogTypeOK, [LogNext]_logVars PROVE LogTypeOK'
  OBVIOUS
<1>1. NoEntry \in Entries /\ PartOfEntry \in Entries /\ NoHash \in Int /\ Genesis \in Int
  BY SMT DEF NoEntry, PartOfEntry, NoHash, Genesis, Entries
<1>2. ASSUME NEW l \in Loggers, OpenLog(l) PROVE LogTypeOK'
  <2> DEFINE before == {i \in EntryLines(file) : i < Len(file) + 1}
  <2>1. Len(file) \in Nat /\ file \in [1 .. Len(file) -> Seq(Entries)]
    BY LenProperties DEF LogTypeOK
  <2>2. LastHash(file) = IF before = {} THEN Genesis ELSE file[Max(before)][1].hash
    BY DEF LastHash, HashBefore
  <2>3. ASSUME before # {} PROVE file[Max(before)][1].hash \in Int
    <3>1. before \subseteq 1 .. Len(file) /\ \A i \in before : file[i] # <<>>
      BY <2>1 DEF EntryLines
    <3>2. Max(before) \in before
      BY <2>1, <2>3, <3>1, LastBefore
    <3>3. file[Max(before)] \in Seq(Entries) /\ file[Max(before)] # <<>>
      BY <2>1, <3>1, <3>2
    <3>4. Len(file[Max(before)]) \in Nat \ {0}
      BY <3>3, EmptySeq
    <3>5. file[Max(before)][1] \in Entries
      BY <3>3, <3>4, LenProperties, SMT
    <3> QED
      BY <3>5 DEF Entries
  <2> HIDE DEF before
  <2>4. LastHash(file) \in Int
    BY <1>1, <2>2, <2>3
  <2> QED
    BY <1>2, <2>4, SMT DEF OpenLog, LogTypeOK
<1>3. ASSUME NEW l \in Loggers, WriteText(l) PROVE LogTypeOK'
  <2>1. [hash |-> next, prev |-> lastHash[l]] \in Entries
    BY SMT DEF LogTypeOK, Entries
  <2> QED
    BY <1>3, <2>1, AddText, SMT DEF WriteText, LogTypeOK
<1>4. ASSUME NEW l \in Loggers, WriteLineBreak(l) PROVE LogTypeOK'
  <2>1. writing[l] \in Entries /\ writing[l].hash \in Int
    BY SMT DEF LogTypeOK, Entries
  <2>2. Append(acked, writing[l]) \in Seq(Entries)
    BY <2>1, AppendProperties DEF LogTypeOK
  <2> QED
    BY <1>1, <1>4, <2>1, <2>2, NextLine DEF WriteLineBreak, LogTypeOK
<1>5. ASSUME NEW l \in Loggers, TextFails(l) PROVE LogTypeOK'
  <2>1. file' \in Seq(Seq(Entries)) /\ file' # <<>>
    BY <1>1, <1>5, AddText, Zenon DEF TextFails, LogTypeOK
  <2>2. next' \in Nat \ {0}
    BY <1>5, SMT DEF TextFails, LogTypeOK
  <2> QED
    BY <1>5, <2>1, <2>2, Zenon DEF TextFails, LogTypeOK
<1>6. ASSUME NEW l \in Loggers, LineBreakFails(l) \/ CloseLog(l) \/ LoggerDies(l) PROVE LogTypeOK'
  BY <1>1, <1>6 DEF LineBreakFails, CloseLog, LoggerDies, LogTypeOK
<1>7. CASE UNCHANGED logVars
  BY <1>7 DEF logVars, LogTypeOK
<1> QED
  BY <1>2, <1>3, <1>4, <1>5, <1>6, <1>7 DEF LogNext, LoggerStep

-----------------------------------------------------------------------------
LEMMA FileLines ==
  ASSUME LogTypeOK
  PROVE  /\ Len(file) \in Nat \ {0} /\ EntryLines(file) \subseteq 1 .. Len(file)
         /\ \A i \in EntryLines(file) : file[i][1] \in Entries \/ ~IsEntry(file[i])
<1>1. Len(file) \in Nat \ {0} /\ file \in [1 .. Len(file) -> Seq(Entries)]
  BY EmptySeq, LenProperties DEF LogTypeOK
<1>2. ASSUME NEW i \in EntryLines(file), IsEntry(file[i]) PROVE file[i][1] \in Entries
  <2>1. file[i] \in Seq(Entries) /\ Len(file[i]) = 1
    BY <1>1, <1>2 DEF IsEntry, EntryLines
  <2> QED
    BY <2>1, LenProperties, SMT
<1> QED
  BY <1>1, <1>2 DEF EntryLines

LEMMA WholeNext ==
  ASSUME LogAssumption, LogTypeOK, Readable(file) => WholeInv, [LogNext]_logVars, Readable(file')
  PROVE  WholeInv'
<1> DEFINE n == Len(file)
<1>0. /\ n \in Nat \ {0} /\ EntryLines(file) \subseteq 1 .. n
      /\ \A l \in Loggers : writing[l] \in Entries
      /\ next \in Nat \ {0} /\ Len(acked) \in Nat
  BY FileLines, LenProperties DEF LogTypeOK
<1>1. ASSUME file' = file, acked' = acked, next' \in Nat, next <= next',
             \A l \in Loggers : writing'[l] \in {writing[l], NoEntry}
      PROVE  WholeInv'
  <2>1. WholeInv
    BY <1>1
  <2>2. \A l \in Loggers : Pending(l)' => Pending(l) /\ writing'[l] = writing[l]
    BY <1>1 DEF Pending
  <2>3. (\A i \in EntryLines(file) : file[i][1].hash < next)'
    <3> SUFFICES ASSUME NEW i \in EntryLines(file) PROVE file[i][1].hash < next'
      BY <1>1
    <3>1. IsEntry(file[i]) /\ file[i][1] \in Entries
      BY <1>1, FileLines DEF Readable
    <3>2. file[i][1].hash < next /\ file[i][1].hash \in Int
      BY <2>1, <3>1 DEF WholeInv, Entries
    <3> QED
      BY <1>0, <1>1, <3>2, SMT
  <2>4. (\A l \in Loggers : Pending(l) => file[Len(file)] = <<writing[l]>>)'
    BY <1>1, <2>1, <2>2 DEF WholeInv
  <2>5. (\A l, m \in Loggers : Pending(l) /\ Pending(m) => l = m)'
    BY <2>1, <2>2 DEF WholeInv
  <2> QED
    BY <1>1, <2>1, <2>3, <2>4, <2>5 DEF WholeInv
<1>2. ASSUME NEW l \in Loggers,
             OpenLog(l) \/ CloseLog(l) \/ LoggerDies(l) \/ LineBreakFails(l)
      PROVE  WholeInv'
  <2>1. /\ file' = file /\ acked' = acked /\ next' = next
        /\ writing' \in {writing, [writing EXCEPT ![l] = NoEntry]}
    BY <1>2 DEF OpenLog, CloseLog, LoggerDies, LineBreakFails
  <2>2. \A m \in Loggers : writing'[m] \in {writing[m], NoEntry}
    BY <2>1 DEF LogTypeOK
  <2>3. next' \in Nat /\ next <= next'
    BY <1>0, <2>1, SMT
  <2> QED
    BY <1>1, <2>1, <2>2, <2>3
<1>3. CASE UNCHANGED logVars
  <2>1. next' \in Nat /\ next <= next'
    BY <1>0, <1>3, SMT DEF logVars
  <2> QED
    BY <1>1, <1>3, <2>1 DEF logVars
<1>4. ASSUME NEW l \in Loggers, TextFails(l) PROVE WholeInv'
  <2>1. next' \in Nat /\ next <= next' /\ acked' = acked /\ writing' = writing
    BY <1>0, <1>4, SMT DEF TextFails
  <2>2. CASE file' = file
    BY <1>1, <2>1, <2>2
  <2>3. CASE file' = Append1(file, PartOfEntry)
    <3>1. PartOfEntry \in Entries
      BY SMT DEF PartOfEntry, Entries
    <3>2. n \in EntryLines(file') /\ (Len(file'[n]) = 1 => file'[n] = <<PartOfEntry>>)
      BY <1>0, <2>3, <3>1, AddText, SMT DEF EntryLines
    <3>3. IsEntry(file'[n])
      BY <3>2 DEF Readable
    <3> QED
      BY <3>2, <3>3 DEF IsEntry
  <2> QED
    BY <1>4, <2>2, <2>3 DEF TextFails
<1>5. ASSUME NEW l \in Loggers, WriteText(l) PROVE WholeInv'
  <2> DEFINE entry == [hash |-> next, prev |-> lastHash[l]]
  <2>1. entry \in Entries /\ entry.hash = next
    BY SMT DEF LogTypeOK, Entries
  <2>2. /\ file' = Append1(file, entry) /\ writing' = [writing EXCEPT ![l] = entry]
        /\ acked' = acked /\ next' = next + 1
    BY <1>5 DEF WriteText
  <2> HIDE DEF entry
  <2>3. /\ Len(file') = n /\ file'[n] # <<>>
        /\ \A i \in 1 .. n - 1 : file'[i] = file[i]
        /\ Len(file'[n]) = 1 => file[n] = <<>> /\ file'[n] = <<entry>>
    BY <2>1, <2>2, AddText
  <2>4. n \in EntryLines(file') /\ IsEntry(file'[n])
    BY <1>0, <2>3, SMT DEF EntryLines, Readable
  <2>5. file[n] = <<>> /\ file'[n] = <<entry>>
    BY <2>3, <2>4 DEF IsEntry
  <2>6. /\ EntryLines(file') = EntryLines(file) \cup {n} /\ EntryLines(file) \subseteq 1 .. n - 1
        /\ \A i \in EntryLines(file) : file'[i] = file[i]
    <3>1. 1 .. n = (1 .. n - 1) \cup {n}
      BY <1>0, SMT
    <3> QED
      BY <2>3, <2>5, <3>1 DEF EntryLines
  <2>7. Readable(file)
    BY <2>6 DEF Readable
  <2>8. WholeInv
    BY <2>7
  <2>9. \A m \in Loggers : ~Pending(m)
    BY <2>5, <2>8 DEF WholeInv
  <2>10. \A m \in Loggers : Pending(m)' => m = l
    BY <2>2, <2>9 DEF Pending, LogTypeOK
  <2>11. \A i \in EntryLines(file) : file[i][1].hash \in Int /\ file[i][1].hash < next
    BY <2>7, <2>8, FileLines DEF WholeInv, Readable, Entries
  <2>12. file'[n][1].hash = next
    BY <2>1, <2>5
  <2>13. (\A i, j \in EntryLines(file) : i < j => file[i][1].hash < file[j][1].hash)'
    <3> SUFFICES ASSUME NEW i \in EntryLines(file'), NEW j \in EntryLines(file'), i < j
                 PROVE  file'[i][1].hash < file'[j][1].hash
      OBVIOUS
    <3>1. i \in EntryLines(file)
      BY <1>0, <2>6, SMT
    <3>2. CASE j = n
      BY <2>6, <2>11, <2>12, <3>1, <3>2
    <3>3. CASE j \in EntryLines(file)
      BY <2>6, <2>8, <3>1, <3>3 DEF WholeInv
    <3> QED
      BY <2>6, <3>2, <3>3
  <2>14. (\A i \in EntryLines(file) : file[i][1].hash < next)'
    BY <1>0, <2>2, <2>6, <2>11, <2>12, SMT
  <2>15. (\A k \in 1 .. Len(acked) : \E i \in 1 .. Len(file) - 1 : file[i] = <<acked[k]>>)'
    <3> SUFFICES ASSUME NEW k \in 1 .. Len(acked)
                 PROVE  \E i \in 1 .. n - 1 : file'[i] = <<acked[k]>>
      BY <2>2, <2>3
    <3>1. PICK i \in 1 .. n - 1 : file[i] = <<acked[k]>>
      BY <2>8 DEF WholeInv
    <3> QED
      BY <2>3, <3>1
  <2>16. (\A m \in Loggers : Pending(m) => file[Len(file)] = <<writing[m]>>)'
    BY <2>2, <2>3, <2>5, <2>10 DEF LogTypeOK
  <2>17. (\A k, m \in 1 .. Len(acked) : k < m => acked[k].hash < acked[m].hash)'
    BY <2>2, <2>8 DEF WholeInv
  <2> QED
    BY <2>10, <2>13, <2>14, <2>15, <2>16, <2>17 DEF WholeInv
<1>6. ASSUME NEW l \in Loggers, WriteLineBreak(l) PROVE WholeInv'
  <2>1. /\ file' = EndLine(file) /\ writing' = [writing EXCEPT ![l] = NoEntry]
        /\ acked' = Append(acked, writing[l]) /\ next' = next /\ Pending(l)
    BY <1>6 DEF WriteLineBreak, Pending
  <2>2. /\ Len(file') = n + 1 /\ file'[n + 1] = <<>>
        /\ \A i \in 1 .. n : file'[i] = file[i]
    BY <2>1, NextLine
  <2>3. EntryLines(file') = EntryLines(file) /\ \A i \in EntryLines(file) : file'[i] = file[i]
    BY <1>0, <2>2, SMT DEF EntryLines
  <2>4. Readable(file)
    BY <2>3 DEF Readable
  <2>5. WholeInv
    BY <2>4
  <2>6. file[n] = <<writing[l]>>
    BY <2>1, <2>5 DEF WholeInv
  <2>7. \A m \in Loggers : ~Pending(m)'
    BY <2>1, <2>5 DEF WholeInv, Pending, LogTypeOK
  <2>8. /\ Len(acked') = Len(acked) + 1 /\ acked'[Len(acked) + 1] = writing[l]
        /\ \A k \in 1 .. Len(acked) : acked'[k] = acked[k]
    BY <1>0, <2>1, AppendProperties DEF LogTypeOK
  <2>9. (\A k \in 1 .. Len(acked) : \E i \in 1 .. Len(file) - 1 : file[i] = <<acked[k]>>)'
    <3> SUFFICES ASSUME NEW k \in 1 .. Len(acked')
                 PROVE  \E i \in 1 .. n : file'[i] = <<acked'[k]>>
      <4>1. Len(file') - 1 = n
        BY <1>0, <2>2, SMT
      <4> QED
        BY <4>1
    <3>1. CASE k = Len(acked) + 1
      BY <1>0, <2>2, <2>6, <2>8, <3>1, SMT
    <3>2. CASE k \in 1 .. Len(acked)
      <4>1. PICK i \in 1 .. n - 1 : file[i] = <<acked[k]>>
        BY <2>5, <3>2 DEF WholeInv
      <4>2. i \in 1 .. n
        BY <1>0, SMT
      <4> QED
        BY <2>2, <2>8, <3>2, <4>1, <4>2
    <3> QED
      BY <1>0, <2>8, <3>1, <3>2, SMT
  <2>10. (\A k, m \in 1 .. Len(acked) : k < m => acked[k].hash < acked[m].hash)'
    <3> SUFFICES ASSUME NEW k \in 1 .. Len(acked'), NEW m \in 1 .. Len(acked'), k < m
                 PROVE  acked'[k].hash < acked'[m].hash
      OBVIOUS
    <3>1. k \in 1 .. Len(acked) /\ acked'[k] = acked[k]
      BY <1>0, <2>8, SMT
    <3>2. CASE m = Len(acked) + 1
      <4>1. PICK i \in 1 .. n - 1 : file[i] = <<acked[k]>>
        BY <2>5, <3>1 DEF WholeInv
      <4>2. i \in EntryLines(file) /\ n \in EntryLines(file) /\ i < n
        <5>1. i \in 1 .. n /\ n \in 1 .. n /\ i < n
          BY <1>0, SMT
        <5>2. file[i] # <<>> /\ file[n] # <<>>
          BY <2>6, <4>1
        <5> QED
          BY <5>1, <5>2 DEF EntryLines
      <4>3. file[i][1].hash < file[n][1].hash
        BY <2>5, <4>2 DEF WholeInv
      <4>4. file[i][1] = acked[k] /\ file[n][1] = writing[l]
        BY <2>6, <4>1
      <4> QED
        BY <2>8, <3>1, <3>2, <4>3, <4>4
    <3>3. CASE m \in 1 .. Len(acked)
      BY <2>5, <2>8, <3>1, <3>3 DEF WholeInv
    <3> QED
      BY <1>0, <2>8, <3>2, <3>3, SMT
  <2>11. (\A i \in EntryLines(file) : file[i][1].hash < next)'
    BY <2>1, <2>3, <2>5 DEF WholeInv
  <2>12. (\A i, j \in EntryLines(file) : i < j => file[i][1].hash < file[j][1].hash)'
    BY <2>3, <2>5 DEF WholeInv
  <2> QED
    BY <2>7, <2>9, <2>10, <2>11, <2>12 DEF WholeInv
<1> QED
  BY <1>2, <1>3, <1>4, <1>5, <1>6 DEF LogNext, LoggerStep

(* When every line up to k is an entry, and none from there to n, a reader *)
(* at n remembers the hash of line k.                                      *)
LEMMA HashOfLast ==
  ASSUME NEW f, NEW n \in Nat, NEW k \in Nat, {i \in EntryLines(f) : i < n} = 1 .. k
  PROVE  HashBefore(f, n) = IF k = 0 THEN Genesis ELSE f[k][1].hash
<1>1. CASE k = 0
  BY <1>1, SMT DEF HashBefore
<1>2. CASE k # 0
  <2>1. 1 .. k \subseteq 1 .. k /\ 1 .. k # {} /\ k \in 1 .. k
    BY <1>2, SMT
  <2>2. Max(1 .. k) \in 1 .. k /\ \A j \in 1 .. k : j <= Max(1 .. k)
    BY <2>1, LastBefore
  <2>3. Max(1 .. k) = k
    BY <2>1, <2>2, SMT
  <2> QED
    BY <1>2, <2>1, <2>3 DEF HashBefore
<1> QED
  BY <1>1, <1>2

LEMMA CleanNext ==
  ASSUME LogTypeOK, Readable(file) => WholeInv, faults = {} => CleanInv,
         [LogNext]_logVars, faults' = {}
  PROVE  CleanInv'
<1> DEFINE n == Len(file)
<1>0. /\ n \in Nat \ {0} /\ EntryLines(file) \subseteq 1 .. n
      /\ \A l \in Loggers : writing[l] \in Entries
      /\ next \in Nat \ {0}
  BY FileLines DEF LogTypeOK
<1>1. faults = {} /\ CleanInv /\ Readable(file) /\ WholeInv
  <2>1. faults \subseteq faults'
    BY DEF LogNext, LoggerStep, OpenLog, CloseLog, LoggerDies, WriteText, WriteLineBreak, TextFails,
      LineBreakFails, logVars
  <2> QED
    BY <2>1 DEF CleanInv
<1>2. CASE UNCHANGED logVars
  BY <1>1, <1>2 DEF CleanInv, logVars, Opened, Pending, Before, EntryLines, Readable
<1>3. ASSUME NEW l \in Loggers, TextFails(l) \/ LineBreakFails(l) \/ LoggerDies(l) PROVE FALSE
  BY <1>3 DEF TextFails, LineBreakFails, LoggerDies
<1>4. ASSUME NEW l \in Loggers, CloseLog(l) PROVE CleanInv'
  <2>1. /\ file' = file /\ writing' = writing /\ ~Pending(l)
        /\ lastHash' = [lastHash EXCEPT ![l] = NoHash]
    BY <1>4 DEF CloseLog, Pending
  <2>2. \A m \in Loggers : Opened(m)' => m # l /\ Opened(m) /\ lastHash'[m] = lastHash[m]
    BY <2>1 DEF Opened, LogTypeOK
  <2>3. \A m \in Loggers : m # l /\ Opened(m) => Opened(m)'
    BY <2>1 DEF Opened, LogTypeOK
  <2> QED
    BY <1>1, <2>1, <2>2, <2>3 DEF CleanInv, Pending, Before, EntryLines, Readable
<1>5. ASSUME NEW l \in Loggers, OpenLog(l) PROVE CleanInv'
  <2>1. /\ file' = file /\ writing' = writing /\ ~Opened(l) /\ Others(l) = {}
        /\ lastHash' = [lastHash EXCEPT ![l] = LastHash(file)]
    BY <1>1, <1>5 DEF OpenLog, Opened
  <2>2. \A m \in Loggers : ~Opened(m)
    BY <2>1 DEF Others, Opened
  <2>3. \A m \in Loggers : ~Pending(m)
    BY <1>1, <2>2 DEF CleanInv
  <2>4. file[n] = <<>> /\ \A i \in 1 .. n - 1 : file[i] # <<>>
    BY <1>1, <2>3 DEF CleanInv
  <2>5. {i \in EntryLines(file) : i < n + 1} = 1 .. (n - 1)
    <3>1. \A i \in 1 .. n : i < n + 1 /\ (i = n \/ i \in 1 .. n - 1)
      BY <1>0, SMT
    <3>2. 1 .. n - 1 \subseteq 1 .. n
      BY <1>0, SMT
    <3> QED
      BY <2>4, <3>1, <3>2 DEF EntryLines
  <2>6. LastHash(file) = Before(n)
    <3>1. n + 1 \in Nat /\ n - 1 \in Nat /\ (n - 1 = 0 <=> n = 1)
      BY <1>0, SMT
    <3> QED
      BY <2>5, <3>1, HashOfLast DEF LastHash, Before
  <2>7. \A m \in Loggers : Opened(m)' => m = l
    BY <2>1, <2>2 DEF Opened, LogTypeOK
  <2>8. lastHash'[l] = Before(n)
    BY <2>1, <2>6 DEF LogTypeOK
  <2> QED
    BY <1>1, <2>1, <2>3, <2>7, <2>8 DEF CleanInv, Pending, Before, EntryLines, Readable
<1>6. ASSUME NEW l \in Loggers, WriteText(l) PROVE CleanInv'
  <2> DEFINE entry == [hash |-> next, prev |-> lastHash[l]]
  <2>1. entry \in Entries /\ entry.prev = lastHash[l] /\ entry # NoEntry /\ entry # PartOfEntry
    <3>1. entry \in Entries /\ entry.prev = lastHash[l] /\ entry.hash = next
      BY <1>0, SMT DEF LogTypeOK, Entries
    <3>2. next # 0 /\ NoEntry.hash = 0 /\ PartOfEntry.hash = 0
      BY <1>0, SMT DEF NoEntry, PartOfEntry
    <3> QED
      BY <3>1, <3>2
  <2>2. /\ file' = Append1(file, entry) /\ writing' = [writing EXCEPT ![l] = entry]
        /\ lastHash' = lastHash /\ Opened(l) /\ ~Pending(l)
    BY <1>6 DEF WriteText, Opened, Pending
  <2> HIDE DEF entry
  <2>3. \A m \in Loggers : ~Pending(m)
    BY <1>1, <2>2 DEF CleanInv
  <2>4. file[n] = <<>>
    BY <1>1, <2>3 DEF CleanInv
  <2>5. /\ Len(file') = n /\ file'[n] = <<entry>> /\ file'[n] # <<>>
        /\ \A i \in 1 .. n - 1 : file'[i] = file[i]
    <3>1. Len(<<entry>>) = 1 /\ Append(<<>>, entry) = <<entry>>
      OBVIOUS
    <3> QED
      BY <2>1, <2>2, <2>4, <3>1, AddText
  <2>6. /\ EntryLines(file') = EntryLines(file) \cup {n} /\ EntryLines(file) \subseteq 1 .. n - 1
        /\ \A i \in EntryLines(file) : file'[i] = file[i]
    <3>1. 1 .. n = (1 .. n - 1) \cup {n}
      BY <1>0, SMT
    <3> QED
      BY <2>4, <2>5, <3>1 DEF EntryLines
  <2>7. IsEntry(file'[n])
    BY <2>1, <2>5 DEF IsEntry
  <2>8. Readable(file')
    BY <1>1, <2>6, <2>7 DEF Readable
  <2>9. \A i \in 1 .. n : Before(i)' = Before(i)
    <3> SUFFICES ASSUME NEW i \in 1 .. n PROVE Before(i)' = Before(i)
      OBVIOUS
    <3>1. i # 1 => i - 1 \in 1 .. n - 1
      BY <1>0, SMT
    <3> QED
      BY <2>5, <3>1 DEF Before
  <2>10. n \in 1 .. n /\ \A i \in 1 .. n - 1 : i \in 1 .. n
    BY <1>0, SMT
  <2>11. (\A i \in EntryLines(file) : file[i][1].prev = Before(i))'
    <3>1. file'[n][1].prev = Before(n)
      BY <1>1, <2>1, <2>2, <2>5 DEF CleanInv
    <3>2. \A i \in EntryLines(file) : file'[i][1].prev = Before(i)
      BY <1>1, <2>6 DEF CleanInv
    <3> QED
      BY <2>6, <2>9, <2>10, <3>1, <3>2
  <2>12. (\A m \in Loggers : Opened(m) => lastHash[m] = Before(Len(file)))'
    BY <1>1, <2>2, <2>5, <2>9, <2>10 DEF CleanInv, Opened
  <2>13. \A m \in Loggers : Pending(m)' <=> m = l
    BY <2>1, <2>2, <2>3 DEF Pending, LogTypeOK
  <2>14. (\A i \in 1 .. Len(file) - 1 : file[i] # <<>>)'
    BY <1>1, <2>5 DEF CleanInv
  <2>15. (\A m, k \in Loggers : Opened(m) /\ Opened(k) => m = k)'
    BY <1>1, <2>2 DEF CleanInv, Opened
  <2>16. (\A m \in Loggers : Pending(m) => Opened(m))' /\ ((\A m \in Loggers : ~Pending(m)) => file[Len(file)] = <<>>)'
    BY <2>2, <2>13 DEF Opened
  <2> QED
    BY <2>8, <2>11, <2>12, <2>14, <2>15, <2>16 DEF CleanInv
<1>7. ASSUME NEW l \in Loggers, WriteLineBreak(l) PROVE CleanInv'
  <2>1. /\ file' = EndLine(file) /\ writing' = [writing EXCEPT ![l] = NoEntry] /\ Pending(l)
        /\ lastHash' = [lastHash EXCEPT ![l] = writing[l].hash]
    BY <1>7 DEF WriteLineBreak, Pending
  <2>2. /\ Len(file') = n + 1 /\ file'[n + 1] = <<>>
        /\ \A i \in 1 .. n : file'[i] = file[i]
    BY <2>1, NextLine
  <2>3. EntryLines(file') = EntryLines(file) /\ \A i \in EntryLines(file) : file'[i] = file[i]
    BY <1>0, <2>2, SMT DEF EntryLines
  <2>4. Readable(file')
    BY <1>1, <2>3 DEF Readable
  <2>5. file[n] = <<writing[l]>> /\ file[n][1] = writing[l]
    BY <1>1, <2>1 DEF WholeInv
  <2>6. \A m \in Loggers : Opened(m) => m = l
    BY <1>1, <2>1 DEF CleanInv
  <2>7. \A m \in Loggers : ~Pending(m)' /\ (Opened(m)' => m = l)
    BY <1>1, <2>1, <2>6 DEF CleanInv, Pending, Opened, LogTypeOK
  <2>8. \A i \in 1 .. n : i # 1 => i - 1 \in 1 .. n
    BY <1>0, SMT
  <2>9. \A i \in EntryLines(file) : Before(i)' = Before(i)
    BY <1>0, <2>2, <2>8 DEF Before
  <2>10. (\A i \in EntryLines(file) : file[i][1].prev = Before(i))'
    BY <1>1, <2>3, <2>9 DEF CleanInv
  <2>11. Before(Len(file))' = writing[l].hash
    <3>1. Len(file') # 1 /\ Len(file') - 1 = n /\ n \in 1 .. n
      BY <1>0, <2>2, SMT
    <3> QED
      BY <2>2, <2>5, <3>1 DEF Before
  <2>12. (\A m \in Loggers : Opened(m) => lastHash[m] = Before(Len(file)))'
    BY <2>1, <2>2, <2>7, <2>11 DEF LogTypeOK
  <2>13. (\A i \in 1 .. Len(file) - 1 : file[i] # <<>>)'
    <3>1. Len(file') - 1 = n /\ \A i \in 1 .. n : i = n \/ i \in 1 .. n - 1
      BY <1>0, <2>2, SMT
    <3>2. file[n] # <<>> /\ \A i \in 1 .. n - 1 : file[i] # <<>>
      BY <1>1, <2>5 DEF CleanInv
    <3> QED
      BY <2>2, <3>1, <3>2
  <2> QED
    BY <2>2, <2>4, <2>7, <2>10, <2>12, <2>13 DEF CleanInv
<1> QED
  BY <1>2, <1>3, <1>4, <1>5, <1>6, <1>7 DEF LogNext, LoggerStep

LEMMA LogInvInit == LogInit => LogTypeOK /\ LogInv
<1> SUFFICES ASSUME LogInit PROVE LogTypeOK /\ LogInv
  OBVIOUS
<1>1. NoEntry \in Entries /\ NoHash \in Int
  BY SMT DEF NoEntry, NoHash, Entries
<1>2. <<>> \in Seq(Entries) /\ Len(<<>>) = 0
  BY EmptySeq
<1>3. file = << <<>> >> /\ Len(file) = 1 /\ file[1] = <<>> /\ file # <<>>
  BY SMT DEF LogInit
<1>4. file \in Seq(Seq(Entries))
  BY <1>2, <1>3, SMT
<1>5. LogTypeOK
  BY <1>1, <1>2, <1>3, <1>4 DEF LogInit, LogTypeOK
<1>6. EntryLines(file) = {}
  BY <1>3, SMT DEF EntryLines
<1>7. \A l \in Loggers : ~Pending(l) /\ ~Opened(l)
  BY DEF LogInit, Pending, Opened
<1>8. \A i \in 1 .. 0 : FALSE
  BY SMT
<1>9. WholeInv
  BY <1>2, <1>6, <1>7, <1>8 DEF WholeInv, LogInit
<1>10. CleanInv
  BY <1>3, <1>6, <1>7, <1>8 DEF CleanInv, Readable
<1> QED
  BY <1>5, <1>9, <1>10 DEF LogInv

LEMMA EvidenceFollows == LogTypeOK /\ LogInv => LogIsEvidence
<1> SUFFICES ASSUME LogTypeOK, LogInv PROVE LogIsEvidence
  OBVIOUS
<1> DEFINE n == Len(file)
<1>0. n \in Nat \ {0} /\ EntryLines(file) \subseteq 1 .. n
  BY FileLines
<1>1. VerifiedIsEvidence
  <2> SUFFICES ASSUME VerifyAuditLog(file)
               PROVE  /\ \A k \in 1 .. Len(acked) : \E i \in 1 .. n : file[i] = <<acked[k]>>
                      /\ \A k, m \in 1 .. Len(acked), i, j \in 1 .. n :
                           file[i] = <<acked[k]>> /\ file[j] = <<acked[m]>> => (k < m <=> i < j)
    BY DEF VerifiedIsEvidence
  <2>1. Readable(file) /\ WholeInv
    BY DEF VerifyAuditLog, LogInv
  <2>2. \A k \in 1 .. Len(acked) : \E i \in 1 .. n : file[i] = <<acked[k]>>
    <3> SUFFICES ASSUME NEW k \in 1 .. Len(acked) PROVE \E i \in 1 .. n : file[i] = <<acked[k]>>
      OBVIOUS
    <3>1. PICK i \in 1 .. n - 1 : file[i] = <<acked[k]>>
      BY <2>1 DEF WholeInv
    <3>2. i \in 1 .. n
      BY <1>0, SMT
    <3> QED
      BY <3>1, <3>2
  <2>3. ASSUME NEW k \in 1 .. Len(acked), NEW m \in 1 .. Len(acked), NEW i \in 1 .. n, NEW j \in 1 .. n,
               file[i] = <<acked[k]>>, file[j] = <<acked[m]>>
        PROVE  k < m <=> i < j
    <3>1. i \in EntryLines(file) /\ j \in EntryLines(file)
      <4>1. file[i] # <<>> /\ file[j] # <<>>
        BY <2>3
      <4> QED
        BY <4>1 DEF EntryLines
    <3>2. file[i][1] = acked[k] /\ file[j][1] = acked[m]
      BY <2>3
    <3>3. acked[k].hash \in Int /\ acked[m].hash \in Int
      BY <2>1, <3>1, <3>2, FileLines DEF Readable, Entries
    <3>4. /\ k < m => acked[k].hash < acked[m].hash
          /\ m < k => acked[m].hash < acked[k].hash
          /\ i < j => acked[k].hash < acked[m].hash
          /\ j < i => acked[m].hash < acked[k].hash
      BY <2>1, <3>1, <3>2 DEF WholeInv
    <3>5. k \in Int /\ m \in Int /\ i \in Int /\ j \in Int
      BY SMT
    <3>6. (k = m => acked[k].hash = acked[m].hash) /\ (i = j => acked[k].hash = acked[m].hash)
      BY <3>2
    <3> QED
      BY <3>3, <3>4, <3>5, <3>6, SMT
  <2> QED
    BY <2>2, <2>3
<1>2. CleanLogVerifies
  <2> SUFFICES ASSUME faults = {} PROVE VerifyAuditLog(file)
    BY DEF CleanLogVerifies
  <2>1. CleanInv /\ Readable(file)
    BY DEF LogInv, CleanInv
  <2>2. ASSUME NEW i \in EntryLines(file) PROVE HashBefore(file, i) = Before(i)
    <3>1. i \in 1 .. n /\ i \in Nat /\ i - 1 \in Nat /\ (i - 1 = 0 <=> i = 1)
      BY <1>0, SMT
    <3>2. {j \in EntryLines(file) : j < i} = 1 .. (i - 1)
      <4>1. \A j \in 1 .. n : j < i <=> j \in 1 .. (i - 1)
        BY <1>0, <3>1, SMT
      <4>2. 1 .. (i - 1) \subseteq 1 .. n - 1 /\ 1 .. n - 1 \subseteq 1 .. n
        BY <1>0, <3>1, SMT
      <4>3. 1 .. n - 1 \subseteq EntryLines(file)
        BY <2>1, <4>2 DEF CleanInv, EntryLines
      <4> QED
        BY <1>0, <4>1, <4>2, <4>3
    <3> QED
      BY <3>1, <3>2, HashOfLast DEF Before
  <2> QED
    BY <2>1, <2>2 DEF VerifyAuditLog, CleanInv
<1> QED
  BY <1>1, <1>2 DEF LogIsEvidence

(* audit.rs 86-165: what verifies is evidence, and a log kept without      *)
(* faults always verifies, for any number of loggers sharing the file and  *)
(* any number of entries, failed writes, crashes and restarts.             *)
THEOREM TheLogIsEvidence == ASSUME LogAssumption PROVE LogSpec => []LogIsEvidence
<1>1. LogTypeOK /\ LogInv /\ [LogNext]_logVars => (LogTypeOK /\ LogInv)'
  BY LogAssumption, LogTypeNext, WholeNext, CleanNext DEF LogInv
<1> QED
  BY <1>1, LogInvInit, EvidenceFollows, PTL DEF LogSpec
=============================================================================
