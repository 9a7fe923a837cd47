--------------------------- MODULE MapEdits_proofs ---------------------------
(* What is proved about the clients of one map, for any number of editors and *)
(* planners and any map: that the state is typed, that the areas share out    *)
(* the ground they had, that what is saved stays, that a version names one    *)
(* map, and that a completed session has stored its draft.                    *)
EXTENDS MapEdits, WellFoundedInduction, FiniteSetTheorems, SequenceTheorems, TLAPS

(******************************* The versions *******************************)

\* A version names one map because versions only grow, whatever base a late save
\* names: then no map of the past has the version of a later one.  A planner's copy
\* is never ahead of the map; it is equal to it when it is level with it.
Level(p) ==
    copy[p].elements # <<>> =>
      /\ copy[p].version <= map.version
      /\ copy[p].version = map.version => copy[p].elements = map.elements

VersionsGrow ==
    /\ map = [version |-> map.version, elements |-> map.elements]
    /\ map.version \in Nat
    /\ base \in [Editors -> Nat]
    /\ \A save \in saves : save.base \in Nat
    /\ DOMAIN copy = Planners
    /\ \A p \in Planners :
         /\ copy[p] = [version |-> copy[p].version, elements |-> copy[p].elements]
         /\ copy[p].version \in Nat
         /\ Level(p)

\* The next version is above the map's, and above the one a save was based on.
LEMMA NextVersionGrows ==
    ASSUME NEW requested \in Nat, map.version \in Nat
    PROVE  nextVersion(requested) \in Nat /\ nextVersion(requested) > map.version
  BY DEF nextVersion

\* A map of a higher version leaves every copy behind it.
LEMMA HigherKeepsLevel ==
    ASSUME VersionsGrow, UNCHANGED <<copy, base>>,
           NEW version \in Nat, version > map.version, NEW elements,
           map' = [version |-> version, elements |-> elements],
           saves' \subseteq saves
    PROVE  VersionsGrow'
  BY DEF VersionsGrow, Level

\* Closing a session gives up its base, or keeps it.
LEMMA ClosesKeepsBase ==
    ASSUME VersionsGrow, NEW c \in Editors, Closes(c), UNCHANGED <<map, copy>>,
           saves' \subseteq saves
    PROVE  VersionsGrow'
  BY DEF VersionsGrow, Level, Closes

\* Every step keeps the versions growing.
LEMMA StepKeepsVersions ==
    ASSUME VersionsGrow, Next
    PROVE  VersionsGrow'
<1>. USE DEF server, network, editor
<1>1. ASSUME NEW c \in Editors, Load(c) PROVE VersionsGrow'
  BY <1>1 DEF Load, VersionsGrow, Level
<1>2. ASSUME NEW c \in Editors, Loaded(c) PROVE VersionsGrow'
  BY <1>2 DEF Loaded, VersionsGrow, Level
<1>3. ASSUME NEW c \in Editors, Edit(c) PROVE VersionsGrow'
  BY <1>3 DEF Edit, VersionsGrow, Level
<1>4. ASSUME NEW c \in Editors, Confirm(c) PROVE VersionsGrow'
  BY <1>4 DEF Confirm, VersionsGrow, Level
<1>5. ASSUME NEW c \in Editors, GiveUp(c) PROVE VersionsGrow'
  BY <1>5, ClosesKeepsBase DEF GiveUp
<1>6. ASSUME NEW c \in Editors, Leave(c) PROVE VersionsGrow'
  BY <1>6, ClosesKeepsBase DEF Leave
<1>7. ASSUME NEW c \in Editors, Answer(c) PROVE VersionsGrow'
  BY <1>7, ClosesKeepsBase DEF Answer
<1>8. ASSUME NEW p \in Planners, Read(p) PROVE VersionsGrow'
  BY <1>8 DEF Read, VersionsGrow, Level
<1>9. ASSUME NEW elements, TopologyEdit(elements) PROVE VersionsGrow'
  BY <1>9, HigherKeepsLevel DEF TopologyEdit, VersionsGrow
<1>10. ASSUME NEW p \in Planners, CutArea(p) PROVE VersionsGrow'
  BY <1>9, <1>10 DEF CutArea
<1>11. ASSUME NEW p \in Planners, MergeAreas(p) PROVE VersionsGrow'
  BY <1>9, <1>11 DEF MergeAreas
<1>12. CASE ServeSave
  <2>1. PICK save \in saves :
          /\ map' = [version |-> nextVersion(save.base),
                     elements |-> mergeIncrements(map.elements, save.delta)]
          /\ saves' = saves \ {save}
          /\ UNCHANGED <<copy, base>>
    BY <1>12 DEF ServeSave
  <2>2. nextVersion(save.base) \in Nat /\ nextVersion(save.base) > map.version
    BY NextVersionGrows DEF VersionsGrow
  <2>. QED BY <2>1, <2>2, HigherKeepsLevel
<1>13. CASE DropOverride
  BY <1>13 DEF DropOverride, FixtureMap, VersionsGrow, Level
<1>. QED BY <1>1, <1>2, <1>3, <1>4, <1>5, <1>6, <1>7, <1>8, <1>10, <1>11, <1>12, <1>13
         DEF Next

\* A version names one map, as long as the map is not deleted.
THEOREM EditsVersionNamesMap == Spec => []VersionNamesMap
<1>1. Init => VersionsGrow
  BY DEF Init, FixtureMap, NoCopy, VersionsGrow, Level
<1>2. VersionsGrow /\ [Next]_vars => VersionsGrow'
  <2>1. VersionsGrow /\ UNCHANGED vars => VersionsGrow'
    BY DEF vars, VersionsGrow, Level
  <2>. QED BY <2>1, StepKeepsVersions
<1>3. VersionsGrow => VersionNamesMap
  BY DEF VersionsGrow, Level, VersionNamesMap
<1>. QED BY <1>1, <1>2, <1>3, PTL DEF Spec

(******************************* The sessions *******************************)

\* The contexts of an edit session.
MapEditContext ==
    [state : TASK_STATES, phase : MapEditPhase \union {Null}, dirty : BOOLEAN,
     error : EditErrors]

\* The events an edit session knows.
EditEvents ==
    { "CMD_LOAD", "CMD_START", "DEVICE_LOADED", "CMD_MARK_DIRTY", "CMD_CONFIRM", "DEVICE_SAVE_OK",
      "DEVICE_SAVE_FAILED", "DEVICE_ERROR", "CMD_CANCEL", "CMD_RESET" } \union IgnoredEvents

\* The reducer of an edit session keeps their type, and completes a session only on
\* the answer to its save.
LEMMA MapEditReducerTyped ==
    ASSUME NEW c \in MapEditContext, NEW event, event.type \in EditEvents,
           event.type = "CMD_MARK_DIRTY" => event.dirty \in BOOLEAN
    PROVE  /\ mapEditReducer(c, event) \in MapEditContext
           /\ event.type # "DEVICE_SAVE_OK" /\ mapEditReducer(c, event).state = "COMPLETED" =>
                c.state = "COMPLETED"
<1>. DEFINE Stays(d) ==
       /\ d \in MapEditContext
       /\ d.state = "COMPLETED" => c.state = "COMPLETED"
<1>. USE DEF MapEditContext, MapEditPhase, EditErrors, TASK_STATES, Null
<1>1. initialMapEditState \in MapEditContext /\ initialMapEditState.state # "COMPLETED"
  BY DEF initialMapEditState
<1>2. Stays(Opened(c))
  BY DEF Opened
<1>3. Stays(DeviceLoaded(c))
  BY DEF DeviceLoaded, In
<1>4. event.type = "CMD_MARK_DIRTY" => Stays(CmdMarkDirty(c, event.dirty))
  BY DEF CmdMarkDirty, In
<1>5. Stays(CmdEditConfirm(c))
  BY DEF CmdEditConfirm
<1>6. Stays(DeviceSaveFailed(c, event.recoverable))
  BY DEF DeviceSaveFailed, In
<1>7. Stays(EditError(c, event.recoverable))
  BY DEF EditError
<1>8. Stays([c EXCEPT !.state = "CANCELLED"])
  OBVIOUS
<1>9. DeviceSaveOk(c) \in MapEditContext
  BY DEF DeviceSaveOk, In
<1>10. Stays(c)
  OBVIOUS
<1>. HIDE DEF Stays, MapEditContext
<1>11. CASE event.type = "DEVICE_SAVE_OK"
  BY <1>9, <1>1, <1>10, <1>11 DEF mapEditReducer, InEditing, Stays
<1>12. CASE event.type = "CMD_CANCEL"
  BY <1>8, <1>10, <1>12 DEF mapEditReducer, InEditing, Stays
<1>13. CASE event.type \notin {"DEVICE_SAVE_OK", "CMD_CANCEL", "CMD_RESET"}
  <2>1. Stays(InEditing(c, event))
    BY <1>2, <1>3, <1>4, <1>5, <1>6, <1>7, <1>10, <1>13 DEF InEditing, EditEvents
  <2>. QED BY <1>10, <1>13, <2>1 DEF mapEditReducer, Stays
<1>14. CASE event.type = "CMD_RESET"
  BY <1>1, <1>10, <1>14 DEF mapEditReducer, Stays
<1>. QED BY <1>11, <1>12, <1>13, <1>14

(******************************** The saves *********************************)

\* A completed session has had an answer, and an answer that counts for a visit is
\* one of a save of that visit, which is stored.  An answer counts by its number
\* alone, so what keeps the older ones out is that all numbers given before a visit
\* are below the first of it.
AnswersAreStored ==
    /\ sent \in Nat
    /\ opened \in [Editors -> 0..sent]
    /\ session \in [Editors -> MapEditContext]
    /\ \A save \in saves : save.client \in Editors /\ save.number \in 1..sent
    /\ \A answer \in answers :
         /\ answer.client \in Editors /\ answer.number \in 1..sent
         /\ answer.number > opened[answer.client] => answer \in stored
    /\ CompletedIsStored

\* A step that gives no new number, no new answer and no completed session keeps the
\* answers stored.
LEMMA NothingAnswered ==
    ASSUME AnswersAreStored, NEW c \in Editors, NEW event,
           Happens(c, event), event.type \in EditEvents, event.type # "DEVICE_SAVE_OK",
           event.type = "CMD_MARK_DIRTY" => event.dirty \in BOOLEAN,
           UNCHANGED <<sent, opened, saves, answers, stored>>
    PROVE  AnswersAreStored'
<1>1. session' = [session EXCEPT ![c] = mapEditReducer(session[c], event)]
  BY DEF Happens
<1>2. /\ mapEditReducer(session[c], event) \in MapEditContext
      /\ mapEditReducer(session[c], event).state = "COMPLETED" => session[c].state = "COMPLETED"
  BY MapEditReducerTyped DEF AnswersAreStored
<1>. QED BY <1>1, <1>2 DEF AnswersAreStored, CompletedIsStored

\* Every step keeps the answers stored.
LEMMA StepKeepsAnswers ==
    ASSUME AnswersAreStored, Next
    PROVE  AnswersAreStored'
<1>. USE DEF server, network, editor
<1>1. ASSUME NEW c \in Editors, Load(c) PROVE AnswersAreStored'
  BY <1>1, NothingAnswered DEF Load, EditEvents
<1>2. ASSUME NEW c \in Editors, Loaded(c) PROVE AnswersAreStored'
  BY <1>2, NothingAnswered DEF Loaded, EditEvents
<1>3. ASSUME NEW c \in Editors, Edit(c) PROVE AnswersAreStored'
  BY <1>3, NothingAnswered DEF Edit, EditEvents
<1>4. ASSUME NEW c \in Editors, Confirm(c) PROVE AnswersAreStored'
  <2>1. session' = [session EXCEPT ![c] = mapEditReducer(session[c], [type |-> "CMD_CONFIRM"])]
    BY <1>4 DEF Confirm, Happens
  <2>2. /\ mapEditReducer(session[c], [type |-> "CMD_CONFIRM"]) \in MapEditContext
        /\ mapEditReducer(session[c], [type |-> "CMD_CONFIRM"]).state = "COMPLETED" =>
             session[c].state = "COMPLETED"
    BY MapEditReducerTyped DEF AnswersAreStored, EditEvents
  <2>. QED BY <1>4, <2>1, <2>2 DEF Confirm, AnswersAreStored, CompletedIsStored
<1>5. ASSUME NEW c \in Editors, GiveUp(c) PROVE AnswersAreStored'
  BY <1>5, NothingAnswered DEF GiveUp, EditEvents
<1>6. ASSUME NEW c \in Editors, Leave(c) PROVE AnswersAreStored'
  <2>1. PICK type \in {"CMD_CANCEL", "CMD_RESET"} : Happens(c, [type |-> type])
    BY <1>6 DEF Leave
  <2>2. mapEditReducer(session[c], [type |-> type]) # session[c]
    BY <1>6, <2>1 DEF Leave, Happens, AnswersAreStored
  <2>3. mapEditReducer(session[c], [type |-> type]) \in MapEditContext
    BY MapEditReducerTyped DEF AnswersAreStored, EditEvents
  <2>4. mapEditReducer(session[c], [type |-> type]).state # "COMPLETED"
    <3>1. session[c] \in MapEditContext
      BY DEF AnswersAreStored
    <3>2. CASE session[c].state \in TERMINAL_TASK_STATES
      BY <2>2, <3>2 DEF mapEditReducer, initialMapEditState
    <3>3. CASE session[c].state \notin TERMINAL_TASK_STATES
      BY <2>1, <3>1, <3>3, MapEditReducerTyped DEF TERMINAL_TASK_STATES, EditEvents
    <3>. QED BY <3>2, <3>3
  <2>5. /\ opened' = [opened EXCEPT ![c] = sent]
        /\ stored' = { done \in stored : done.client # c }
        /\ UNCHANGED <<sent, saves, answers>>
    BY <1>6 DEF Leave
  <2>6. CompletedIsStored'
    BY <2>1, <2>4, <2>5 DEF Happens, AnswersAreStored, CompletedIsStored
  <2>7. session' \in [Editors -> MapEditContext]
    BY <2>1, <2>3 DEF Happens, AnswersAreStored
  <2>8. \A answer \in answers :
          answer.number > opened'[answer.client] => answer \in stored'
    BY <2>5 DEF AnswersAreStored
  <2>9. sent' \in Nat /\ opened' \in [Editors -> 0..sent']
    BY <2>5 DEF AnswersAreStored
  <2>10. /\ \A save \in saves' : save.client \in Editors /\ save.number \in 1..sent'
         /\ \A answer \in answers' : answer.client \in Editors /\ answer.number \in 1..sent'
    BY <2>5 DEF AnswersAreStored
  <2>. QED BY <2>5, <2>6, <2>7, <2>8, <2>9, <2>10 DEF AnswersAreStored
<1>7. ASSUME NEW c \in Editors, Answer(c) PROVE AnswersAreStored'
  <2>1. PICK answer \in answers :
          /\ answer.client = c
          /\ answers' = answers \ {answer}
          /\ IF answer.number > opened[c] THEN Happens(c, [type |-> "DEVICE_SAVE_OK"])
             ELSE UNCHANGED session
          /\ UNCHANGED <<sent, saves, opened, stored>>
    BY <1>7 DEF Answer
  <2>2. mapEditReducer(session[c], [type |-> "DEVICE_SAVE_OK"]) \in MapEditContext
    BY MapEditReducerTyped DEF AnswersAreStored, EditEvents
  <2>. QED BY <2>1, <2>2 DEF Happens, AnswersAreStored, CompletedIsStored
<1>8. ASSUME NEW p \in Planners, Read(p) PROVE AnswersAreStored'
  BY <1>8 DEF Read, AnswersAreStored, CompletedIsStored
<1>9. ASSUME NEW elements, TopologyEdit(elements) PROVE AnswersAreStored'
  BY <1>9 DEF TopologyEdit, AnswersAreStored, CompletedIsStored
<1>10. ASSUME NEW p \in Planners, CutArea(p) PROVE AnswersAreStored'
  BY <1>9, <1>10 DEF CutArea
<1>11. ASSUME NEW p \in Planners, MergeAreas(p) PROVE AnswersAreStored'
  BY <1>9, <1>11 DEF MergeAreas
<1>12. CASE ServeSave
  BY <1>12 DEF ServeSave, AnswerTo, AnswersAreStored, CompletedIsStored
<1>13. CASE DropOverride
  BY <1>13 DEF DropOverride, AnswersAreStored, CompletedIsStored
<1>. QED BY <1>1, <1>2, <1>3, <1>4, <1>5, <1>6, <1>7, <1>8, <1>10, <1>11, <1>12, <1>13
         DEF Next

\* A session that is completed has stored the draft of this visit.
THEOREM EditsCompletedIsStored == Spec => []CompletedIsStored
<1>1. Init => AnswersAreStored
  BY DEF Init, initialMapEditState, AnswersAreStored, CompletedIsStored, MapEditContext,
         MapEditPhase, EditErrors, TASK_STATES, Null
<1>2. AnswersAreStored /\ [Next]_vars => AnswersAreStored'
  <2>1. AnswersAreStored /\ UNCHANGED vars => AnswersAreStored'
    BY DEF vars, AnswersAreStored, CompletedIsStored
  <2>. QED BY <2>1, StepKeepsAnswers
<1>3. AnswersAreStored => CompletedIsStored
  BY DEF AnswersAreStored
<1>. QED BY <1>1, <1>2, <1>3, PTL DEF Spec

\* Induction over the natural numbers, for a set.
LEMMA Induct ==
    ASSUME NEW S, 0 \in S, \A n \in Nat : n \in S => n + 1 \in S
    PROVE  \A n \in Nat : n \in S
<1>. DEFINE Out == Nat \ S
            R == OpToRel(<, Nat)
<1>1. SUFFICES ASSUME Out # {} PROVE FALSE
  OBVIOUS
<1>2. \A k, m \in Nat : k < m => <<k, m>> \in R
  BY DEF OpToRel
<1>3. IsWellFoundedOn(R, Nat)
  BY NatLessThanWellFounded
<1>. HIDE DEF R
<1>4. PICK m \in Out : \A k \in Out : <<k, m>> \notin R
  BY <1>1, <1>3, WFMin
<1>5. m - 1 \in Nat /\ m - 1 < m /\ (m - 1) + 1 = m
  OBVIOUS
<1>6. m - 1 \in Out
  BY <1>5
<1>. QED BY <1>2, <1>4, <1>5, <1>6

(********************************* The lists ********************************)

\* A list is merged increment by increment: what MergedRun names exists, and it is what
\* its recursion says.
IsRun(f, s, d, n) == f = [i \in 0..n |-> IF i = 0 THEN s ELSE MergeOne(f[i - 1], d[i])]

\* Merging a delta one increment after the other: what MergedRun names exists.
LEMMA RunExists ==
    ASSUME NEW s, NEW d, NEW n \in Nat
    PROVE  \E f : IsRun(f, s, d, n)
<1>. DEFINE Good == { k \in Nat : \E f : IsRun(f, s, d, k) }
<1>1. 0 \in Good
  <2>. DEFINE f == [i \in 0..0 |-> s]
  <2>1. IsRun(f, s, d, 0)
    BY DEF IsRun
  <2>. QED BY <2>1
<1>2. ASSUME NEW k \in Nat, k \in Good
      PROVE  k + 1 \in Good
  <2>1. PICK f : IsRun(f, s, d, k)
    BY <1>2
  <2>. DEFINE g == [i \in 0..(k + 1) |-> IF i = k + 1 THEN MergeOne(f[k], d[k + 1]) ELSE f[i]]
  <2>2. \A i \in 0..k : f[i] = IF i = 0 THEN s ELSE MergeOne(f[i - 1], d[i])
    BY <2>1 DEF IsRun
  <2>3. ASSUME NEW i \in 0..(k + 1)
        PROVE  g[i] = IF i = 0 THEN s ELSE MergeOne(g[i - 1], d[i])
    <3>1. CASE i = k + 1
      BY <3>1
    <3>2. CASE i # k + 1
      BY <3>2, <2>2
    <3>. QED BY <3>1, <3>2
  <2>4. IsRun(g, s, d, k + 1)
    BY <2>3 DEF IsRun
  <2>. QED BY <2>4
<1>. HIDE DEF Good
<1>3. n \in Good
  BY <1>1, <1>2, Induct
<1>. QED BY <1>3 DEF Good

\* The list before the first increment, and after each.
LEMMA MergedRunSteps ==
    ASSUME NEW s, NEW d, Len(d) \in Nat
    PROVE  /\ MergedRun(s, d)[0] = s
           /\ \A i \in 1..Len(d) : MergedRun(s, d)[i] = MergeOne(MergedRun(s, d)[i - 1], d[i])
<1>1. MergedRun(s, d) = CHOOSE f : IsRun(f, s, d, Len(d))
  BY Zenon DEF MergedRun, IsRun
<1>2. IsRun(MergedRun(s, d), s, d, Len(d))
  BY <1>1, RunExists
<1>. QED BY <1>2 DEF IsRun

\* The places that are kept, counted: each has a number of its own, in their order.
Rank(chosen, i) == Cardinality({ j \in chosen : j <= i })

\* The places that are chosen have the ranks 1, 2, ... in their order.
LEMMA RankIsOnto ==
    ASSUME NEW n \in Nat, NEW chosen \in SUBSET (1..n)
    PROVE  /\ Cardinality(chosen) \in Nat
           /\ \A i \in chosen : Rank(chosen, i) \in 1..Cardinality(chosen)
           /\ \A i, j \in chosen : i < j => Rank(chosen, i) < Rank(chosen, j)
           /\ \A k \in 1..Cardinality(chosen) : \E i \in chosen : Rank(chosen, i) = k
<1>1. IsFiniteSet(chosen) /\ Cardinality(chosen) \in Nat
  <2>1. IsFiniteSet(1..n)
    BY FS_Interval
  <2>. QED BY <2>1, FS_Subset, FS_CardinalityType
<1>2. ASSUME NEW i \in chosen
      PROVE  /\ IsFiniteSet({ j \in chosen : j <= i })
             /\ Rank(chosen, i) \in 1..Cardinality(chosen)
  <2>. DEFINE B == { j \in chosen : j <= i }
  <2>1. IsFiniteSet(B) /\ Cardinality(B) \in Nat /\ Cardinality(B) <= Cardinality(chosen)
    <3>1. B \subseteq chosen OBVIOUS
    <3>. HIDE DEF B
    <3>. QED BY <3>1, <1>1, FS_Subset, FS_CardinalityType
  <2>2. i \in B OBVIOUS
  <2>. HIDE DEF B
  <2>3. Cardinality(B) # 0
    BY <2>1, <2>2, FS_EmptySet
  <2>4. Cardinality(B) \in 1..Cardinality(chosen)
    BY <2>1, <2>3, <1>1
  <2>5. IsFiniteSet({ j \in chosen : j <= i })
    BY <2>1 DEF B
  <2>6. Rank(chosen, i) \in 1..Cardinality(chosen)
    BY <2>4 DEF B, Rank
  <2>. QED BY <2>5, <2>6
<1>3. ASSUME NEW i \in chosen, NEW j \in chosen, i < j
      PROVE  Rank(chosen, i) < Rank(chosen, j)
  <2>. DEFINE A == { l \in chosen : l <= i }
              B == { l \in chosen : l <= j }
  <2>1. A \subseteq B /\ j \in B /\ j \notin A
    <3>1. \A l \in chosen : l \in Int
      OBVIOUS
    <3>2. \A l \in chosen : l <= i => l <= j
      BY <3>1, <1>3
    <3>3. ~(j <= i) /\ j <= j
      BY <3>1, <1>3
    <3>. QED BY <3>2, <3>3
  <2>2. IsFiniteSet(B) /\ IsFiniteSet(A)
    BY <1>2
  <2>. HIDE DEF A, B
  <2>3. Cardinality(A) <= Cardinality(B) /\ (Cardinality(A) = Cardinality(B) => A = B)
        /\ Cardinality(A) \in Nat /\ Cardinality(B) \in Nat
    BY <2>1, <2>2, FS_Subset, FS_CardinalityType
  <2>4. A # B
    BY <2>1
  <2>5. Cardinality(A) < Cardinality(B)
    BY <2>3, <2>4
  <2>. QED BY <2>5 DEF A, B, Rank
<1>4. ASSUME NEW k \in 1..Cardinality(chosen)
      PROVE  \E i \in chosen : Rank(chosen, i) = k
  <2>. DEFINE T == 1..Cardinality(chosen)
              f == [i \in chosen |-> Rank(chosen, i)]
  <2>1. f \in Injection(chosen, T)
    <3>1. f \in [chosen -> T]
      BY <1>2
    <3>2. ASSUME NEW a \in chosen, NEW b \in chosen, a # b
          PROVE  f[a] # f[b]
      <4>1. a < b \/ b < a
        BY <3>2
      <4>2. f[a] \in T /\ f[b] \in T
        BY <1>2
      <4>. QED BY <4>1, <4>2, <1>3, <1>1
    <3>. QED BY <3>1, <3>2 DEF Injection, IsInjective
  <2>2. IsFiniteSet(T) /\ Cardinality(T) = Cardinality(chosen)
    BY <1>1, FS_Interval
  <2>. HIDE DEF T, f
  <2>3. f \in Surjection(chosen, T)
    BY <2>1, <2>2, FS_Injection
  <2>4. \E i \in chosen : f[i] = k
    BY <2>3 DEF Surjection, T
  <2>. QED BY <2>4 DEF f
<1>. QED BY <1>1, <1>2, <1>3, <1>4

\* What is kept of a list: each chosen place, once.
Takes(kept, list, chosen) ==
    \E at \in [DOMAIN kept -> chosen] :
      /\ \A k \in DOMAIN kept : kept[k] = list[at[k]]
      /\ \A k, l \in DOMAIN kept : k # l => at[k] # at[l]
      /\ \A i \in chosen : \E k \in DOMAIN kept : at[k] = i

\* What is kept of a list is its chosen elements, in their order.
LEMMA KeptProperties ==
    ASSUME NEW S, NEW list \in Seq(S), NEW chosen \in SUBSET (1..Len(list)),
           NEW kept, kept = Kept(list, chosen)
    PROVE  kept \in Seq(S) /\ Takes(kept, list, chosen)
<1>. DEFINE N == Cardinality(chosen)
            at == [k \in 1..N |-> CHOOSE i \in chosen : Rank(chosen, i) = k]
<1>1. Len(list) \in Nat
  BY LenProperties
<1>2. /\ N \in Nat
      /\ \A i \in chosen : Rank(chosen, i) \in 1..N
      /\ \A i, j \in chosen : i < j => Rank(chosen, i) < Rank(chosen, j)
      /\ \A k \in 1..N : \E i \in chosen : Rank(chosen, i) = k
  BY <1>1, RankIsOnto
<1>3. \A k \in 1..N : at[k] \in chosen /\ Rank(chosen, at[k]) = k
  BY <1>2
<1>4. Kept(list, chosen) = [k \in 1..N |-> list[at[k]]]
  <2>1. Kept(list, chosen) =
          [k \in 1..N |-> list[CHOOSE i \in chosen : Rank(chosen, i) = k]]
    BY Zenon DEF Kept, Rank
  <2>. QED BY <2>1
<1>. HIDE DEF at, N
<1>5. \A k \in 1..N : at[k] \in 1..Len(list) /\ list[at[k]] \in S
  BY <1>3, ElementOfSeq
<1>6. DOMAIN Kept(list, chosen) = 1..N
  BY <1>4
<1>7. Kept(list, chosen) \in Seq(S)
  BY <1>2, <1>4, <1>5
<1>8. \A k, l \in 1..N : k # l => at[k] # at[l]
  BY <1>3
<1>9. \A i \in chosen : at[Rank(chosen, i)] = i /\ Rank(chosen, i) \in 1..N
  <2>. SUFFICES ASSUME NEW i \in chosen
                PROVE  at[Rank(chosen, i)] = i /\ Rank(chosen, i) \in 1..N
    OBVIOUS
  <2>1. PICK r \in 1..N : r = Rank(chosen, i)
    BY <1>2
  <2>2. PICK a \in chosen : a = at[r] /\ Rank(chosen, a) = r
    BY <1>3
  <2>3. a \in 1..Len(list) /\ i \in 1..Len(list) /\ r \in Nat
    BY <1>2
  <2>4. a < i => r < r
    BY <2>1, <2>2, <1>2
  <2>5. i < a => r < r
    BY <2>1, <2>2, <1>2
  <2>. QED BY <2>1, <2>2, <2>3, <2>4, <2>5, <1>1
<1>10. at \in [1..N -> chosen]
  BY <1>3 DEF at
<1>. QED BY <1>4, <1>6, <1>7, <1>8, <1>9, <1>10 DEF Takes

(********************************* The merge ********************************)

AnyId == Ids(Fixture) \union DrawnIds \union Results \union PieceIds
Elements == [id : AnyId, boundary : BOOLEAN, cells : SUBSET Int, source : Sources]
Items == [item : Elements, removed : BOOLEAN]
Increments == [id : DrawnIds, boundary : BOOLEAN, cells : SUBSET Int,
               action : {"add", "update", "delete"}, source : Sources \union {NoSource}]

\* What an increment may make of an item of its id.
DrawnFrom(item, increment, list) ==
    /\ item.id = increment.id /\ item.boundary = increment.boundary
    /\ item.source \in {"app", increment.source} \union
         { list[j].item.source : j \in { i \in 1..Len(list) : list[i].item.id = increment.id } }

\* The element drawn for an increment has the type of an element.
LEMMA DrawnTyped ==
    ASSUME NEW list \in Seq(Items), NEW increment \in Increments,
           NEW found \in SUBSET { i \in 1..Len(list) : list[i].item.id = increment.id }
    PROVE  LET item == Drawn(increment, { list[i].item.source : i \in found })
           IN  item \in Elements /\ DrawnFrom(item, increment, list)
<1>. DEFINE previous == { list[i].item.source : i \in found }
            source == IF increment.source # NoSource THEN increment.source
                      ELSE IF previous = {} THEN "app" ELSE CHOOSE x \in previous : TRUE
            item == Drawn(increment, previous)
<1>1. \A i \in 1..Len(list) : list[i] \in Items
  BY ElementOfSeq
<1>2. previous \subseteq Sources
  BY <1>1 DEF Items, Elements
<1>3. /\ source \in Sources
      /\ source \in {"app", increment.source} \union previous
  <2>. HIDE DEF previous
  <2>1. CASE increment.source # NoSource
    BY <2>1 DEF Increments
  <2>2. CASE increment.source = NoSource /\ previous = {}
    BY <2>2 DEF Sources
  <2>3. CASE increment.source = NoSource /\ previous # {}
    BY <2>3, <1>2
  <2>. QED BY <2>1, <2>2, <2>3
<1>4. previous \subseteq { list[j].item.source : j \in { i \in 1..Len(list) : list[i].item.id = increment.id } }
  OBVIOUS
<1>5. item = [id |-> increment.id, boundary |-> increment.boundary,
              cells |-> increment.cells, source |-> source]
  BY DEF Drawn, Element
<1>. HIDE DEF source, item, previous
<1>6. increment.id \in AnyId /\ increment.boundary \in BOOLEAN /\ increment.cells \in SUBSET Int
  BY DEF Increments, AnyId
<1>7. item \in Elements
  BY <1>3, <1>5, <1>6 DEF Elements
<1>8. DrawnFrom(item, increment, list)
  BY <1>3, <1>4, <1>5 DEF DrawnFrom
<1>. QED BY <1>7, <1>8 DEF item, previous

\* One increment: the items of other ids stay as they are, the places keep their ids, at
\* most one item is added, and an id that is not deleted is there.
MergedBy(list, new, increment) ==
    /\ new \in Seq(Items) /\ Len(new) \in {Len(list), Len(list) + 1}
    /\ \A i \in 1..Len(new) :
         \/ i \in 1..Len(list) /\ new[i].item = list[i].item
         \/ DrawnFrom(new[i].item, increment, list)
    /\ \A i \in 1..Len(list) : /\ new[i].item.id = list[i].item.id
                               /\ list[i].item.id # increment.id => new[i] = list[i]
    /\ increment.action # "delete" =>
         \E i \in 1..Len(new) : new[i].item.id = increment.id /\ ~new[i].removed

\* One increment does what its kind says, to the last element of its name or at the end.
LEMMA MergeOneMerges ==
    ASSUME NEW list \in Seq(Items), NEW increment \in Increments
    PROVE  MergedBy(list, MergeOne(list, increment), increment)
<1>. DEFINE found == LastOf(list, increment.id)
            item  == Drawn(increment, { list[i].item.source : i \in found })
            new   == MergeOne(list, increment)
<1>1. DOMAIN list = 1..Len(list) /\ Len(list) \in Nat /\ \A i \in 1..Len(list) : list[i] \in Items
  BY LenProperties, ElementOfSeq
<1>2. found \subseteq { i \in 1..Len(list) : list[i].item.id = increment.id }
  BY <1>1 DEF LastOf
<1>3. item \in Elements /\ DrawnFrom(item, increment, list)
  BY <1>2, DrawnTyped
<1>4. CASE increment.action = "delete"
  <2>1. new = [i \in 1..Len(list) |->
                 IF i \in found THEN [list[i] EXCEPT !.removed = TRUE] ELSE list[i]]
    BY <1>1, <1>4 DEF MergeOne
  <2>. HIDE DEF new, found, item
  <2>2. \A i \in 1..Len(list) : /\ new[i] \in Items
                                /\ new[i].item = list[i].item
                                /\ list[i].item.id # increment.id => new[i] = list[i]
    BY <2>1, <1>1, <1>2 DEF Items
  <2>3. new \in Seq(Items) /\ Len(new) = Len(list)
    BY <2>1, <2>2, <1>1
  <2>. QED BY <2>2, <2>3, <1>4 DEF MergedBy, new
<1>5. CASE increment.action # "delete" /\ found = {}
  <2>. DEFINE added == [item |-> item, removed |-> FALSE]
  <2>1. new = Append(list, added)
    BY <1>5 DEF MergeOne
  <2>2. added \in Items /\ added.item = item /\ ~added.removed
    BY <1>3 DEF Items
  <2>. HIDE DEF new, found, item, added
  <2>3. /\ new \in Seq(Items) /\ Len(new) = Len(list) + 1
        /\ \A i \in 1..Len(list) : new[i] = list[i]
        /\ new[Len(list) + 1] = added
    BY <2>1, <2>2, <1>1
  <2>4. \A i \in 1..Len(new) : i \in 1..Len(list) \/ i = Len(list) + 1
    BY <2>3, <1>1
  <2>5. Len(list) + 1 \in 1..Len(new)
    BY <2>3, <1>1
  <2>6. added.item.id = increment.id
    BY <2>2, <1>3 DEF DrawnFrom
  <2>7. \A i \in 1..Len(new) :
         \/ i \in 1..Len(list) /\ new[i].item = list[i].item
         \/ DrawnFrom(new[i].item, increment, list)
    BY <2>2, <2>3, <2>4, <1>3
  <2>. QED BY <2>2, <2>3, <2>5, <2>6, <2>7 DEF MergedBy, new
<1>6. CASE increment.action # "delete" /\ found # {}
  <2>. DEFINE put == [item |-> item, removed |-> FALSE]
  <2>1. new = [i \in 1..Len(list) |-> IF i \in found THEN put ELSE list[i]]
    BY <1>1, <1>6 DEF MergeOne
  <2>2. put \in Items /\ put.item = item /\ ~put.removed /\ item.id = increment.id
    BY <1>3 DEF Items, DrawnFrom
  <2>3. PICK place \in found : TRUE
    BY <1>6
  <2>. HIDE DEF new, found, item, put
  <2>4. \A i \in 1..Len(list) : new[i] \in Items
    BY <2>1, <2>2, <1>1
  <2>5. new \in Seq(Items) /\ Len(new) = Len(list)
    BY <2>1, <2>4, <1>1
  <2>6. \A i \in 1..Len(list) : /\ new[i].item.id = list[i].item.id
                                /\ list[i].item.id # increment.id => new[i] = list[i]
    BY <2>1, <2>2, <1>2
  <2>7. \A i \in 1..Len(list) : new[i].item = list[i].item \/ DrawnFrom(new[i].item, increment, list)
    BY <2>1, <2>2, <1>3
  <2>8. place \in 1..Len(list) /\ new[place] = put
    BY <2>1, <2>3, <1>2
  <2>. QED BY <2>2, <2>5, <2>6, <2>7, <2>8 DEF MergedBy, new
<1>. QED BY <1>4, <1>5, <1>6

\* What is drawn is an element of its own, the app's and no area; of a list, that what is
\* of a drawn id is such an element.
Draws(delta) ==
    \A i \in 1..Len(delta) : ~delta[i].boundary /\ delta[i].source \in {NoSource, "app"}
Own(list) ==
    \A i \in 1..Len(list) :
       list[i].item.id \in DrawnIds => ~list[i].item.boundary /\ list[i].item.source = "app"

\* An id is there; and an id has to be there after n increments.
There(list, id) == \E i \in 1..Len(list) : list[i].item.id = id /\ ~list[i].removed
Due(first, delta, n, id) ==
    \/ \E k \in 1..n : /\ delta[k].id = id /\ delta[k].action # "delete"
                       /\ \A j \in 1..n : j > k => delta[j].id # id
    \/ id \in Ids(first) /\ \A k \in 1..n : delta[k].id # id

Start(first) == [i \in DOMAIN first |-> [item |-> first[i], removed |-> FALSE]]

\* What the list is after n increments.  Drawings leave the places that are not of a
\* drawn id alone.
MergedSoFar(first, delta, list, n) ==
    /\ list \in Seq(Items) /\ Len(list) >= Len(first)
    /\ \A i \in 1..Len(first) : list[i].item.id = first[i].id
    /\ \A id : Due(first, delta, n, id) => There(list, id)
    /\ Draws(delta) /\ Own(Start(first)) =>
         /\ Own(list)
         /\ \A i \in 1..Len(first) : first[i].id \notin DrawnIds => list[i] = Start(first)[i]
         /\ \A i \in 1..Len(list) : i > Len(first) => list[i].item.id \in DrawnIds

\* The list of a map, before the first increment.
LEMMA StartTyped ==
    ASSUME NEW first \in Seq(Elements)
    PROVE  /\ Start(first) \in Seq(Items) /\ Len(Start(first)) = Len(first)
           /\ \A i \in 1..Len(first) : Start(first)[i].item = first[i] /\ ~Start(first)[i].removed
<1>1. DOMAIN first = 1..Len(first) /\ Len(first) \in Nat /\ \A i \in 1..Len(first) : first[i] \in Elements
  BY LenProperties, ElementOfSeq
<1>2. Start(first) = [i \in 1..Len(first) |-> [item |-> first[i], removed |-> FALSE]]
  BY <1>1 DEF Start
<1>3. \A i \in 1..Len(first) : Start(first)[i] \in Items
  BY <1>1, <1>2 DEF Items
<1>. QED BY <1>1, <1>2, <1>3

\* Before the first increment the first itself is there, nothing removed.
LEMMA StartMerged ==
    ASSUME NEW first \in Seq(Elements), NEW delta \in Seq(Increments)
    PROVE  MergedSoFar(first, delta, Start(first), 0)
<1>1. /\ Start(first) \in Seq(Items) /\ Len(Start(first)) = Len(first)
      /\ \A i \in 1..Len(first) : Start(first)[i].item = first[i] /\ ~Start(first)[i].removed
  BY StartTyped
<1>2. DOMAIN first = 1..Len(first) /\ Len(first) \in Nat
  BY LenProperties
<1>3. ASSUME NEW id, Due(first, delta, 0, id)
      PROVE  There(Start(first), id)
  <2>1. id \in Ids(first)
    BY <1>3 DEF Due
  <2>2. PICK i \in 1..Len(first) : first[i].id = id
    BY <2>1, <1>2 DEF Ids
  <2>. QED BY <2>2, <1>1 DEF There
<1>4. Len(Start(first)) >= Len(first) /\ \A i \in 1..Len(Start(first)) : ~(i > Len(first))
  BY <1>1, <1>2
<1>. HIDE DEF MergedSoFar
<1>. QED BY <1>1, <1>3, <1>4 DEF MergedSoFar

\* An increment more.
LEMMA StepMerged ==
    ASSUME NEW first \in Seq(Elements), NEW delta \in Seq(Increments),
           NEW n \in Nat, n + 1 \in 1..Len(delta),
           NEW list, MergedSoFar(first, delta, list, n), NEW new,
           MergedBy(list, new, delta[n + 1])
    PROVE  MergedSoFar(first, delta, new, n + 1)
<1>. DEFINE increment == delta[n + 1]
<1>1. /\ increment \in Increments /\ increment.id \in DrawnIds
      /\ Len(first) \in Nat /\ list \in Seq(Items) /\ Len(list) \in Nat /\ Len(list) >= Len(first)
  <2>1. increment \in Increments
    BY ElementOfSeq
  <2>. QED BY <2>1, LenProperties DEF MergedSoFar, Increments
<1>2. /\ new \in Seq(Items) /\ Len(new) \in {Len(list), Len(list) + 1}
      /\ \A i \in 1..Len(new) :
           \/ i \in 1..Len(list) /\ new[i].item = list[i].item
           \/ DrawnFrom(new[i].item, increment, list)
      /\ \A i \in 1..Len(list) : /\ new[i].item.id = list[i].item.id
                                 /\ list[i].item.id # increment.id => new[i] = list[i]
      /\ increment.action # "delete" =>
           \E i \in 1..Len(new) : new[i].item.id = increment.id /\ ~new[i].removed
  BY DEF MergedBy
<1>. HIDE DEF increment
<1>3. /\ Len(new) >= Len(first) /\ \A i \in 1..Len(list) : i \in 1..Len(new)
      /\ \A i \in 1..Len(first) : new[i].item.id = first[i].id
  <2>1. \A i \in 1..Len(first) : i \in 1..Len(list) /\ list[i].item.id = first[i].id
    BY <1>1 DEF MergedSoFar
  <2>2. Len(new) \in Nat /\ Len(new) >= Len(list)
    BY <1>1, <1>2
  <2>3. Len(new) >= Len(first) /\ \A i \in 1..Len(list) : i \in 1..Len(new)
    BY <1>1, <2>2
  <2>4. \A i \in 1..Len(list) : new[i].item.id = list[i].item.id
    BY <1>2
  <2>. QED BY <2>1, <2>3, <2>4
<1>4. ASSUME NEW id, Due(first, delta, n + 1, id)
      PROVE  There(new, id)
  <2>1. CASE increment.id = id
    <3>1. n + 1 \in 1..n + 1 /\ delta[n + 1].id = id
      BY <2>1 DEF increment
    <3>2. PICK k \in 1..n + 1 : /\ delta[k].action # "delete"
                                /\ \A j \in 1..n + 1 : j > k => delta[j].id # id
      BY <1>4, <3>1 DEF Due
    <3>3. k = n + 1
      BY <3>1, <3>2
    <3>. QED BY <2>1, <3>2, <3>3, <1>2 DEF There, increment
  <2>2. CASE increment.id # id
    <3>1. \A k \in 1..n : k \in 1..n + 1 /\ k # n + 1
      OBVIOUS
    <3>2. \A k \in 1..n + 1 : k \in 1..n \/ k = n + 1
      OBVIOUS
    <3>3. Due(first, delta, n, id)
      <4>1. CASE \E k \in 1..n + 1 : /\ delta[k].id = id /\ delta[k].action # "delete"
                                     /\ \A j \in 1..n + 1 : j > k => delta[j].id # id
        <5>1. PICK k \in 1..n + 1 : /\ delta[k].id = id /\ delta[k].action # "delete"
                                    /\ \A j \in 1..n + 1 : j > k => delta[j].id # id
          BY <4>1
        <5>2. k \in 1..n
          BY <5>1, <2>2, <3>2 DEF increment
        <5>. QED BY <5>1, <5>2, <3>1 DEF Due
      <4>2. CASE id \in Ids(first) /\ \A k \in 1..n + 1 : delta[k].id # id
        BY <4>2, <3>1 DEF Due
      <4>. QED BY <1>4, <4>1, <4>2 DEF Due
    <3>4. PICK i \in 1..Len(list) : list[i].item.id = id /\ ~list[i].removed
      BY <3>3 DEF MergedSoFar, There
    <3>5. new[i] = list[i] /\ i \in 1..Len(new)
      BY <3>4, <2>2, <1>2, <1>3
    <3>. QED BY <3>4, <3>5 DEF There
  <2>. QED BY <2>1, <2>2
<1>5. ASSUME Draws(delta), Own(Start(first))
      PROVE  /\ Own(new)
             /\ \A i \in 1..Len(first) : first[i].id \notin DrawnIds => new[i] = Start(first)[i]
             /\ \A i \in 1..Len(new) : i > Len(first) => new[i].item.id \in DrawnIds
  <2>1. /\ Own(list)
        /\ \A i \in 1..Len(first) : first[i].id \notin DrawnIds => list[i] = Start(first)[i]
        /\ \A i \in 1..Len(list) : i > Len(first) => list[i].item.id \in DrawnIds
    BY <1>5 DEF MergedSoFar
  <2>2. ~increment.boundary /\ increment.source \in {NoSource, "app"}
    BY <1>5 DEF Draws, increment
  <2>3. ASSUME NEW i \in 1..Len(new), DrawnFrom(new[i].item, increment, list)
        PROVE  ~new[i].item.boundary /\ new[i].item.source = "app"
    <3>1. new[i] \in Items
      BY <1>2, ElementOfSeq
    <3>2. new[i].item.source \in Sources
      BY <3>1 DEF Items, Elements
    <3>3. \A j \in 1..Len(list) : list[j].item.id = increment.id => list[j].item.source = "app"
      BY <2>1, <1>1 DEF Own
    <3>. QED BY <2>2, <2>3, <3>2, <3>3, EditsAssumption DEF DrawnFrom, EditsAssumption
  <2>4. Own(new)
    <3>. SUFFICES ASSUME NEW i \in 1..Len(new), new[i].item.id \in DrawnIds
                  PROVE  ~new[i].item.boundary /\ new[i].item.source = "app"
      BY DEF Own
    <3>1. CASE i \in 1..Len(list) /\ new[i].item = list[i].item
      BY <3>1, <2>1 DEF Own
    <3>2. CASE DrawnFrom(new[i].item, increment, list)
      BY <3>2, <2>3
    <3>. QED BY <3>1, <3>2, <1>2
  <2>5. ASSUME NEW i \in 1..Len(first), first[i].id \notin DrawnIds
        PROVE  new[i] = Start(first)[i]
    <3>1. list[i] = Start(first)[i] /\ i \in 1..Len(list) /\ Start(first)[i].item = first[i]
      BY <2>1, <2>5, <1>1, StartTyped
    <3>. QED BY <3>1, <2>5, <1>1, <1>2
  <2>6. ASSUME NEW i \in 1..Len(new), i > Len(first)
        PROVE  new[i].item.id \in DrawnIds
    <3>1. CASE i \in 1..Len(list) /\ new[i].item = list[i].item
      BY <3>1, <2>1, <2>6
    <3>2. CASE DrawnFrom(new[i].item, increment, list)
      BY <3>2, <1>1 DEF DrawnFrom
    <3>. QED BY <3>1, <3>2, <1>2
  <2>. QED BY <2>4, <2>5, <2>6
<1>. QED BY <1>2, <1>3, <1>4, <1>5 DEF MergedSoFar

\* The whole delta.
LEMMA DeltaMerged ==
    ASSUME NEW first \in Seq(Elements), NEW delta \in Seq(Increments)
    PROVE  MergedSoFar(first, delta, MergedRun(Start(first), delta)[Len(delta)], Len(delta))
<1>. DEFINE run == MergedRun(Start(first), delta)
            S == { n \in Nat : n <= Len(delta) => MergedSoFar(first, delta, run[n], n) }
<1>1. Len(delta) \in Nat
  BY LenProperties
<1>2. run[0] = Start(first) /\ \A i \in 1..Len(delta) : run[i] = MergeOne(run[i - 1], delta[i])
  BY <1>1, MergedRunSteps
<1>. HIDE DEF run
<1>3. 0 \in S
  BY <1>2, StartMerged
<1>4. ASSUME NEW n \in Nat, n \in S
      PROVE  n + 1 \in S
  <2>. SUFFICES ASSUME n + 1 <= Len(delta)
                PROVE  MergedSoFar(first, delta, run[n + 1], n + 1)
    OBVIOUS
  <2>1. n + 1 \in 1..Len(delta) /\ n <= Len(delta) /\ (n + 1) - 1 = n
    BY <1>1
  <2>2. MergedSoFar(first, delta, run[n], n)
    BY <2>1, <1>4
  <2>3. run[n + 1] = MergeOne(run[n], delta[n + 1])
    BY <2>1, <1>2
  <2>4. run[n] \in Seq(Items) /\ delta[n + 1] \in Increments
    BY <2>1, <2>2, ElementOfSeq DEF MergedSoFar
  <2>5. MergedBy(run[n], run[n + 1], delta[n + 1])
    BY <2>3, <2>4, MergeOneMerges
  <2>. QED BY <2>1, <2>2, <2>5, StepMerged
<1>. HIDE DEF S
<1>5. \A n \in Nat : n \in S
  BY <1>3, <1>4, Induct
<1>. QED BY <1>1, <1>5 DEF S, run

(********************************* The areas ********************************)

\* The ground of a list's areas; and that a list has the chosen areas of another, each
\* once.
Ground(elements) == UNION { elements[i].cells : i \in Boundaries(elements) }
Carries(new, elements, chosen) ==
    \E at \in [Boundaries(new) -> chosen] :
      /\ \A k \in Boundaries(new) : new[k] = elements[at[k]]
      /\ \A k, l \in Boundaries(new) : k # l => at[k] # at[l]
      /\ \A i \in chosen : \E k \in Boundaries(new) : at[k] = i

\* Areas that are carried over stay apart and keep their ground.
CarriedOver(new, elements, chosen) ==
    /\ Apart(new)
    /\ Ground(new) = UNION { elements[i].cells : i \in chosen }
    /\ \A k \in Boundaries(new) : \E i \in chosen : new[k] = elements[i]

\* What is carried over from boundaries that are apart is apart.
LEMMA CarriedApart ==
    ASSUME NEW elements, NEW chosen \in SUBSET Boundaries(elements), Apart(elements),
           NEW new, Carries(new, elements, chosen)
    PROVE  CarriedOver(new, elements, chosen)
<1>1. PICK at \in [Boundaries(new) -> chosen] :
        /\ \A k \in Boundaries(new) : new[k] = elements[at[k]]
        /\ \A k, l \in Boundaries(new) : k # l => at[k] # at[l]
        /\ \A i \in chosen : \E k \in Boundaries(new) : at[k] = i
  BY DEF Carries
<1>2. Apart(new)
  <2>. SUFFICES ASSUME NEW k \in Boundaries(new), NEW l \in Boundaries(new), k # l
                PROVE  /\ new[k].id # new[l].id
                       /\ new[k].cells \intersect new[l].cells = {}
    BY DEF Apart
  <2>1. at[k] \in Boundaries(elements) /\ at[l] \in Boundaries(elements) /\ at[k] # at[l]
    BY <1>1
  <2>. QED BY <1>1, <2>1 DEF Apart
<1>3. { new[k].cells : k \in Boundaries(new) } = { elements[i].cells : i \in chosen }
  BY <1>1
<1>4. Ground(new) = UNION { elements[i].cells : i \in chosen }
  BY <1>3 DEF Ground
<1>. QED BY <1>1, <1>2, <1>4 DEF CarriedOver

\* Two lists of areas, one after the other.
Joins(new, left, right) ==
    /\ new \in Seq(Elements) /\ Apart(new)
    /\ Ground(new) = Ground(left) \union Ground(right)
    /\ Ids(new) = Ids(left) \union Ids(right)
    /\ \A i \in 1..Len(left) : i \in 1..Len(new) /\ new[i] = left[i]
    /\ \A k \in 1..Len(new) :
         \/ k \in 1..Len(left) /\ new[k] = left[k]
         \/ \E j \in 1..Len(right) : k = Len(left) + j /\ new[k] = right[j]

\* Two lists of boundaries that share neither ids nor cells are apart together.
LEMMA ConcatApart ==
    ASSUME NEW left \in Seq(Elements), NEW right \in Seq(Elements),
           Apart(left), Apart(right),
           \A i \in Boundaries(left), j \in Boundaries(right) :
              /\ left[i].id # right[j].id
              /\ left[i].cells \intersect right[j].cells = {}
    PROVE  Joins(left \o right, left, right)
<1>. DEFINE new == left \o right
<1>1. /\ DOMAIN left = 1..Len(left) /\ Len(left) \in Nat
      /\ DOMAIN right = 1..Len(right) /\ Len(right) \in Nat
  BY LenProperties
<1>2. new \in Seq(Elements) /\ Len(new) = Len(left) + Len(right) /\ DOMAIN new = 1..Len(new)
  BY ConcatProperties, LenProperties
<1>3. /\ \A i \in 1..Len(left) : i \in 1..Len(new) /\ new[i] = left[i]
      /\ \A j \in 1..Len(right) : Len(left) + j \in 1..Len(new) /\ new[Len(left) + j] = right[j]
  <2>1. \A k \in 1..Len(left) + Len(right) :
          new[k] = IF k <= Len(left) THEN left[k] ELSE right[k - Len(left)]
    BY ConcatProperties
  <2>2. \A i \in 1..Len(left) : i \in 1..Len(left) + Len(right) /\ i <= Len(left)
    BY <1>1
  <2>3. \A j \in 1..Len(right) : /\ Len(left) + j \in 1..Len(left) + Len(right)
                                 /\ ~(Len(left) + j <= Len(left)) /\ (Len(left) + j) - Len(left) = j
    BY <1>1
  <2>. HIDE DEF new
  <2>. QED BY <1>2, <2>1, <2>2, <2>3
<1>4. \A k \in 1..Len(new) :
        \/ k \in 1..Len(left) /\ new[k] = left[k]
        \/ \E j \in 1..Len(right) : k = Len(left) + j /\ new[k] = right[j]
  <2>. SUFFICES ASSUME NEW k \in 1..Len(new), k \notin 1..Len(left)
                PROVE  \E j \in 1..Len(right) : k = Len(left) + j /\ new[k] = right[j]
    BY <1>3
  <2>1. k - Len(left) \in 1..Len(right) /\ k = Len(left) + (k - Len(left))
    BY <1>1, <1>2
  <2>. HIDE DEF new
  <2>2. new[Len(left) + (k - Len(left))] = right[k - Len(left)]
    BY <1>3, <2>1
  <2>. QED BY <2>1, <2>2
<1>. HIDE DEF new
<1>5. \A k \in Boundaries(new) :
        \/ k \in Boundaries(left) /\ new[k] = left[k]
        \/ \E j \in Boundaries(right) : k = Len(left) + j /\ new[k] = right[j]
  BY <1>1, <1>2, <1>4 DEF Boundaries
<1>6. /\ \A i \in Boundaries(left) : i \in Boundaries(new) /\ new[i] = left[i]
      /\ \A j \in Boundaries(right) : Len(left) + j \in Boundaries(new) /\ new[Len(left) + j] = right[j]
  BY <1>1, <1>2, <1>3 DEF Boundaries
<1>7. Apart(new)
  <2>. SUFFICES ASSUME NEW k \in Boundaries(new), NEW l \in Boundaries(new), k # l
                PROVE  /\ new[k].id # new[l].id
                       /\ new[k].cells \intersect new[l].cells = {}
    BY DEF Apart
  <2>1. CASE k \in Boundaries(left) /\ new[k] = left[k]
    <3>1. CASE l \in Boundaries(left) /\ new[l] = left[l]
      BY <2>1, <3>1 DEF Apart
    <3>2. CASE \E j \in Boundaries(right) : l = Len(left) + j /\ new[l] = right[j]
      BY <2>1, <3>2
    <3>. QED BY <3>1, <3>2, <1>5
  <2>2. CASE \E j \in Boundaries(right) : k = Len(left) + j /\ new[k] = right[j]
    <3>0. PICK j \in Boundaries(right) : k = Len(left) + j /\ new[k] = right[j]
      BY <2>2
    <3>1. CASE l \in Boundaries(left) /\ new[l] = left[l]
      BY <3>0, <3>1
    <3>2. CASE \E m \in Boundaries(right) : l = Len(left) + m /\ new[l] = right[m]
      BY <3>0, <3>2 DEF Apart
    <3>. QED BY <3>1, <3>2, <1>5
  <2>. QED BY <2>1, <2>2, <1>5
<1>8. Ground(new) = Ground(left) \union Ground(right)
  <2>1. { new[k].cells : k \in Boundaries(new) } =
          { left[i].cells : i \in Boundaries(left) } \union { right[j].cells : j \in Boundaries(right) }
    BY <1>5, <1>6
  <2>. QED BY <2>1 DEF Ground
<1>9. Ids(new) = Ids(left) \union Ids(right)
  <2>1. /\ Ids(new) = { new[k].id : k \in 1..Len(new) }
        /\ Ids(left) = { left[i].id : i \in 1..Len(left) }
        /\ Ids(right) = { right[j].id : j \in 1..Len(right) }
    BY <1>1, <1>2 DEF Ids
  <2>2. Ids(new) \subseteq Ids(left) \union Ids(right)
    <3>1. \A k \in 1..Len(new) : \/ \E i \in 1..Len(left) : new[k].id = left[i].id
                                \/ \E j \in 1..Len(right) : new[k].id = right[j].id
      BY <1>4
    <3>. QED BY <2>1, <3>1, Zenon
  <2>3. Ids(left) \subseteq Ids(new) /\ Ids(right) \subseteq Ids(new)
    BY <2>1, <1>3
  <2>. QED BY <2>2, <2>3
<1>10. Joins(new, left, right)
  BY <1>2, <1>3, <1>4, <1>7, <1>8, <1>9 DEF Joins
<1>. QED BY <1>10 DEF new

\* A list of elements in which what is of a drawn id is the app's, and no area.
OwnElements(elements) ==
    \A i \in 1..Len(elements) :
       elements[i].id \in DrawnIds => ~elements[i].boundary /\ elements[i].source = "app"

\* A save leaves every area of the map where it is, and has the ids that are due.
LEMMA MergeIncrementsKeeps ==
    ASSUME NEW elements \in Seq(Elements), NEW delta \in Seq(Increments), NEW new,
           new = mergeIncrements(elements, delta)
    PROVE  /\ new \in Seq(Elements)
           /\ \A id : Due(elements, delta, Len(delta), id) => id \in Ids(new)
           /\ Draws(delta) /\ OwnElements(elements) =>
                /\ OwnElements(new)
                /\ Carries(new, elements, Boundaries(elements))
                /\ \A k \in 1..Len(new) : new[k].id \in DrawnIds \union Ids(elements)
<1>. DEFINE merged == MergedRun(Start(elements), delta)[Len(delta)]
            chosen == { i \in DOMAIN merged : ~merged[i].removed }
            left   == Kept(merged, chosen)
<1>1. new = [k \in DOMAIN left |-> left[k].item]
  BY Zenon DEF mergeIncrements, Start
<1>2. MergedSoFar(elements, delta, merged, Len(delta))
  BY DeltaMerged
<1>. HIDE DEF merged
<1>3. /\ merged \in Seq(Items) /\ DOMAIN merged = 1..Len(merged)
      /\ Len(merged) \in Nat /\ Len(elements) \in Nat /\ DOMAIN elements = 1..Len(elements)
      /\ Len(merged) >= Len(elements)
  BY <1>2, LenProperties DEF MergedSoFar
<1>4. chosen \in SUBSET (1..Len(merged))
  BY <1>3
<1>. HIDE DEF chosen
<1>0. left = Kept(merged, chosen)
  OBVIOUS
<1>. HIDE DEF left
<1>5. PICK at \in [DOMAIN left -> chosen] :
        /\ \A k \in DOMAIN left : left[k] = merged[at[k]]
        /\ \A k, l \in DOMAIN left : k # l => at[k] # at[l]
        /\ \A i \in chosen : \E k \in DOMAIN left : at[k] = i
  <2>1. Takes(left, merged, chosen)
    BY <1>0, <1>3, <1>4, KeptProperties
  <2>. QED BY <2>1 DEF Takes
<1>6. left \in Seq(Items) /\ DOMAIN left = 1..Len(left) /\ Len(left) \in Nat
  <2>1. left \in Seq(Items)
    BY <1>0, <1>3, <1>4, KeptProperties
  <2>. QED BY <2>1, LenProperties
<1>7. \A k \in 1..Len(left) : left[k].item \in Elements
  <2>1. \A k \in 1..Len(left) : left[k] \in Items
    BY <1>6, ElementOfSeq
  <2>. QED BY <2>1 DEF Items
<1>8. new \in Seq(Elements) /\ Len(new) = Len(left) /\ DOMAIN new = 1..Len(left)
  BY <1>1, <1>6, <1>7
<1>9. \A k \in 1..Len(new) : at[k] \in chosen /\ at[k] \in 1..Len(merged) /\ new[k] = merged[at[k]].item
  BY <1>1, <1>4, <1>5, <1>6, <1>8
<1>10. \A i \in chosen : \E k \in 1..Len(new) : at[k] = i
  BY <1>5, <1>6, <1>8
<1>11. ASSUME NEW id, Due(elements, delta, Len(delta), id)
       PROVE  id \in Ids(new)
  <2>1. PICK i \in 1..Len(merged) : merged[i].item.id = id /\ ~merged[i].removed
    BY <1>2, <1>11 DEF MergedSoFar, There
  <2>2. i \in chosen
    BY <2>1, <1>3 DEF chosen
  <2>3. PICK k \in 1..Len(new) : at[k] = i
    BY <2>2, <1>10
  <2>. QED BY <2>1, <2>3, <1>8, <1>9 DEF Ids
<1>12. ASSUME Draws(delta), OwnElements(elements)
       PROVE  /\ OwnElements(new)
              /\ Carries(new, elements, Boundaries(elements))
              /\ \A k \in 1..Len(new) : new[k].id \in DrawnIds \union Ids(elements)
  <2>1. /\ Start(elements) \in Seq(Items) /\ Len(Start(elements)) = Len(elements)
        /\ \A i \in 1..Len(elements) :
             Start(elements)[i].item = elements[i] /\ ~Start(elements)[i].removed
    BY StartTyped
  <2>2. Own(Start(elements))
    BY <1>12, <2>1 DEF Own, OwnElements
  <2>3. /\ Own(merged)
        /\ \A i \in 1..Len(elements) : elements[i].id \notin DrawnIds => merged[i] = Start(elements)[i]
        /\ \A i \in 1..Len(merged) : i > Len(elements) => merged[i].item.id \in DrawnIds
    BY <1>2, <1>12, <2>2 DEF MergedSoFar
  <2>4. OwnElements(new)
    BY <1>9, <2>3 DEF Own, OwnElements
  <2>5. ASSUME NEW i \in 1..Len(merged), merged[i].item.id \notin DrawnIds
        PROVE  /\ i \in 1..Len(elements) /\ merged[i].item = elements[i] /\ i \in chosen
    <3>1. i \in 1..Len(elements)
      BY <2>3, <2>5, <1>3
    <3>2. merged[i].item.id = elements[i].id
      BY <3>1, <1>2 DEF MergedSoFar
    <3>3. merged[i] = Start(elements)[i]
      BY <3>1, <3>2, <2>3, <2>5
    <3>. QED BY <3>1, <3>3, <2>1, <1>3 DEF chosen
  <2>6. ASSUME NEW i \in Boundaries(elements)
        PROVE  i \in 1..Len(merged) /\ merged[i].item = elements[i] /\ i \in chosen
    <3>1. i \in 1..Len(elements) /\ i \in 1..Len(merged) /\ elements[i].boundary
      BY <1>3 DEF Boundaries
    <3>2. elements[i].id \notin DrawnIds
      BY <3>1, <1>12 DEF OwnElements
    <3>3. merged[i] = Start(elements)[i]
      BY <3>1, <3>2, <2>3
    <3>. QED BY <3>1, <3>3, <2>1, <1>3 DEF chosen
  <2>7. ASSUME NEW k \in Boundaries(new)
        PROVE  at[k] \in Boundaries(elements) /\ new[k] = elements[at[k]]
    <3>1. k \in 1..Len(new) /\ new[k].boundary
      BY <1>8 DEF Boundaries
    <3>2. new[k].id \notin DrawnIds
      BY <3>1, <2>4 DEF OwnElements
    <3>3. at[k] \in 1..Len(merged) /\ new[k] = merged[at[k]].item
      BY <3>1, <1>9
    <3>4. at[k] \in 1..Len(elements) /\ new[k] = elements[at[k]]
      BY <3>2, <3>3, <2>5
    <3>. QED BY <3>1, <3>4, <1>3 DEF Boundaries
  <2>8. ASSUME NEW i \in Boundaries(elements)
        PROVE  \E k \in Boundaries(new) : at[k] = i
    <3>1. PICK k \in 1..Len(new) : at[k] = i
      BY <2>6, <1>10
    <3>2. new[k] = elements[i]
      BY <3>1, <2>6, <1>9
    <3>. QED BY <3>1, <3>2, <1>8 DEF Boundaries
  <2>9. Carries(new, elements, Boundaries(elements))
    <3>. DEFINE to == [k \in Boundaries(new) |-> at[k]]
    <3>1. to \in [Boundaries(new) -> Boundaries(elements)]
      BY <2>7
    <3>2. \A k, l \in Boundaries(new) : k # l => to[k] # to[l]
      BY <1>5, <1>6, <1>8 DEF Boundaries
    <3>3. /\ \A k \in Boundaries(new) : new[k] = elements[to[k]]
          /\ \A i \in Boundaries(elements) : \E k \in Boundaries(new) : to[k] = i
      BY <2>7, <2>8
    <3>. HIDE DEF to
    <3>. QED BY <3>1, <3>2, <3>3 DEF Carries
  <2>10. ASSUME NEW k \in 1..Len(new), new[k].id \notin DrawnIds
         PROVE  new[k].id \in Ids(elements)
    <3>1. at[k] \in 1..Len(elements) /\ new[k] = elements[at[k]]
      BY <2>10, <1>9, <2>5
    <3>. QED BY <3>1, <1>3 DEF Ids
  <2>. QED BY <2>4, <2>9, <2>10
<1>. QED BY <1>8, <1>11, <1>12

\* The areas of the elements that are kept.
KeepsOf(kept, elements, chosen) ==
    /\ kept \in Seq(Elements)
    /\ Carries(kept, elements, Boundaries(elements) \intersect chosen)
    /\ \A i \in chosen : \E k \in 1..Len(kept) : kept[k] = elements[i]
    /\ \A k \in 1..Len(kept) : \E i \in chosen : kept[k] = elements[i]

\* Keeping some of the elements carries their boundaries over, and nothing else.
LEMMA KeptCarries ==
    ASSUME NEW elements \in Seq(Elements), NEW chosen \in SUBSET (1..Len(elements)),
           NEW kept, kept = Kept(elements, chosen)
    PROVE  KeepsOf(kept, elements, chosen)
<1>1. kept \in Seq(Elements) /\ Takes(kept, elements, chosen)
  BY KeptProperties
<1>2. /\ DOMAIN kept = 1..Len(kept) /\ Len(kept) \in Nat
      /\ DOMAIN elements = 1..Len(elements) /\ Len(elements) \in Nat
  BY <1>1, LenProperties
<1>3. PICK at \in [DOMAIN kept -> chosen] :
        /\ \A k \in DOMAIN kept : kept[k] = elements[at[k]]
        /\ \A k, l \in DOMAIN kept : k # l => at[k] # at[l]
        /\ \A i \in chosen : \E k \in DOMAIN kept : at[k] = i
  BY <1>1 DEF Takes
<1>. DEFINE to == [k \in Boundaries(kept) |-> at[k]]
<1>4. \A k \in Boundaries(kept) : k \in DOMAIN kept /\ kept[k].boundary
  BY DEF Boundaries
<1>5. to \in [Boundaries(kept) -> Boundaries(elements) \intersect chosen]
  BY <1>2, <1>3, <1>4 DEF Boundaries
<1>6. /\ \A k \in Boundaries(kept) : kept[k] = elements[to[k]]
      /\ \A k, l \in Boundaries(kept) : k # l => to[k] # to[l]
  BY <1>3, <1>4
<1>7. ASSUME NEW i \in Boundaries(elements) \intersect chosen
      PROVE  \E k \in Boundaries(kept) : to[k] = i
  <2>1. PICK k \in DOMAIN kept : at[k] = i
    BY <1>3
  <2>2. k \in Boundaries(kept)
    BY <2>1, <1>3 DEF Boundaries
  <2>. QED BY <2>1, <2>2
<1>. HIDE DEF to
<1>8. Carries(kept, elements, Boundaries(elements) \intersect chosen)
  BY <1>5, <1>6, <1>7 DEF Carries
<1>9. \A i \in chosen : \E k \in 1..Len(kept) : kept[k] = elements[i]
  BY <1>2, <1>3
<1>10. \A k \in 1..Len(kept) : at[k] \in chosen /\ kept[k] = elements[at[k]]
  BY <1>2, <1>3
<1>11. \A k \in 1..Len(kept) : \E i \in chosen : kept[k] = elements[i]
  BY <1>10
<1>. QED BY <1>1, <1>8, <1>9, <1>11 DEF KeepsOf

\* The areas that are replaced, and a replacement of them: new areas, with ids that no
\* element has, that share out the same ground.
SourcePlaces(elements, sources) == { i \in Boundaries(elements) : elements[i].id \in sources }

Replaces(new, elements, areas) ==
    /\ new \in Seq(Elements) /\ Apart(new)
    /\ Ground(new) = Ground(elements)
    /\ Ids(new) \subseteq Ids(elements) \union Ids(areas)
    /\ \A i \in 1..Len(elements) : ~elements[i].boundary =>
         \E k \in 1..Len(new) : new[k] = elements[i]
    /\ \A k \in 1..Len(new) :
         \/ \E i \in 1..Len(elements) : new[k] = elements[i]
         \/ \E j \in 1..Len(areas) : new[k] = areas[j]

\* Areas that share out the ground of those they replace leave the map as it should be.
LEMMA ReplacedApart ==
    ASSUME NEW elements \in Seq(Elements), Apart(elements), NEW sources,
           NEW areas \in Seq(Elements), Apart(areas),
           Ids(areas) \intersect Ids(elements) = {},
           Ground(areas) = UNION { elements[i].cells : i \in SourcePlaces(elements, sources) },
           NEW new, new = Replaced(elements, sources, areas)
    PROVE  Replaces(new, elements, areas)
<1>. DEFINE chosen == { i \in DOMAIN elements :
                          ~elements[i].boundary \/ elements[i].id \notin sources }
            kept == Kept(elements, chosen)
            stay == Boundaries(elements) \intersect chosen
<1>1. new = kept \o areas
  BY DEF Replaced
<1>2. /\ DOMAIN elements = 1..Len(elements) /\ Len(elements) \in Nat
      /\ DOMAIN areas = 1..Len(areas) /\ Len(areas) \in Nat
  BY LenProperties
<1>3. chosen \in SUBSET (1..Len(elements))
  BY <1>2
<1>4. /\ stay \subseteq Boundaries(elements)
      /\ stay = Boundaries(elements) \ SourcePlaces(elements, sources)
      /\ \A i \in 1..Len(elements) : ~elements[i].boundary => i \in chosen
  BY <1>2 DEF SourcePlaces, Boundaries
<1>5. kept = Kept(elements, chosen)
  OBVIOUS
<1>. HIDE DEF chosen, kept
<1>6. /\ kept \in Seq(Elements)
      /\ Carries(kept, elements, stay)
      /\ \A i \in chosen : \E k \in 1..Len(kept) : kept[k] = elements[i]
      /\ \A k \in 1..Len(kept) : \E i \in chosen : kept[k] = elements[i]
  <2>1. KeepsOf(kept, elements, chosen)
    BY <1>3, <1>5, KeptCarries
  <2>. QED BY <2>1 DEF KeepsOf
<1>. HIDE DEF stay
<1>7. /\ Apart(kept)
      /\ Ground(kept) = UNION { elements[i].cells : i \in stay }
      /\ \A k \in Boundaries(kept) : \E i \in stay : kept[k] = elements[i]
  <2>1. CarriedOver(kept, elements, stay)
    BY <1>4, <1>6, CarriedApart
  <2>. QED BY <2>1, Zenon DEF CarriedOver
<1>8. Ids(kept) \subseteq Ids(elements)
  <2>1. DOMAIN kept = 1..Len(kept)
    BY <1>6, LenProperties
  <2>2. /\ Ids(kept) = { kept[k].id : k \in 1..Len(kept) }
        /\ Ids(elements) = { elements[i].id : i \in 1..Len(elements) }
    BY <2>1, <1>2 DEF Ids
  <2>3. \A k \in 1..Len(kept) : \E i \in 1..Len(elements) : kept[k] = elements[i]
    BY <1>3, <1>6
  <2>. QED BY <2>2, <2>3
<1>9. ASSUME NEW k \in Boundaries(kept), NEW j \in Boundaries(areas)
      PROVE  /\ kept[k].id # areas[j].id
             /\ kept[k].cells \intersect areas[j].cells = {}
  <2>1. PICK i \in stay : kept[k] = elements[i]
    BY <1>7
  <2>2. elements[i].id \in Ids(elements) /\ areas[j].id \in Ids(areas)
    BY <1>4, <2>1 DEF Ids, Boundaries
  <2>3. elements[i].id # areas[j].id
    BY <2>2
  <2>4. areas[j].cells \subseteq UNION { elements[l].cells : l \in SourcePlaces(elements, sources) }
    BY DEF Ground
  <2>5. \A l \in SourcePlaces(elements, sources) : elements[i].cells \intersect elements[l].cells = {}
    BY <1>4, <2>1 DEF Apart, SourcePlaces
  <2>6. elements[i].cells \intersect areas[j].cells = {}
    BY <2>4, <2>5
  <2>. QED BY <2>1, <2>3, <2>6
<1>10. /\ new \in Seq(Elements) /\ Apart(new)
       /\ Ground(new) = Ground(kept) \union Ground(areas)
       /\ Ids(new) = Ids(kept) \union Ids(areas)
       /\ \A i \in 1..Len(kept) : i \in 1..Len(new) /\ new[i] = kept[i]
       /\ \A k \in 1..Len(new) :
            \/ k \in 1..Len(kept) /\ new[k] = kept[k]
            \/ \E j \in 1..Len(areas) : k = Len(kept) + j /\ new[k] = areas[j]
  <2>1. Joins(kept \o areas, kept, areas)
    BY <1>6, <1>7, <1>9, ConcatApart
  <2>. QED BY <1>1, <2>1 DEF Joins
<1>11. Ground(new) = Ground(elements)
  <2>1. Boundaries(elements) = stay \union SourcePlaces(elements, sources)
    BY <1>4 DEF SourcePlaces
  <2>2. Ground(elements) = (UNION { elements[i].cells : i \in stay })
                           \union (UNION { elements[i].cells : i \in SourcePlaces(elements, sources) })
    <3>1. { elements[i].cells : i \in Boundaries(elements) } =
            { elements[i].cells : i \in stay }
            \union { elements[i].cells : i \in SourcePlaces(elements, sources) }
      BY <2>1
    <3>. QED BY <3>1 DEF Ground
  <2>3. Ground(new) = Ground(kept) \union Ground(areas)
    BY <1>10
  <2>4. Ground(kept) = UNION { elements[i].cells : i \in stay }
    BY <1>7, Zenon
  <2>. QED BY <2>2, <2>3, <2>4, Zenon
<1>12. \A i \in 1..Len(elements) : ~elements[i].boundary => \E k \in 1..Len(new) : new[k] = elements[i]
  BY <1>4, <1>6, <1>10
<1>13. \A k \in 1..Len(new) :
         \/ \E i \in 1..Len(elements) : new[k] = elements[i]
         \/ \E j \in 1..Len(areas) : new[k] = areas[j]
  <2>1. \A k \in 1..Len(kept) : \E i \in 1..Len(elements) : kept[k] = elements[i]
    BY <1>3, <1>6
  <2>. QED BY <2>1, <1>10
<1>. QED BY <1>8, <1>10, <1>11, <1>12, <1>13 DEF Replaces

\* The area of an id is that of the only boundary with the id.
LEMMA AreaOfPlace ==
    ASSUME NEW elements \in Seq(Elements), Apart(elements), NEW i \in Boundaries(elements)
    PROVE  AreaOf(elements, elements[i].id) = elements[i].cells
<1>. DEFINE found == { j \in Boundaries(elements) : elements[j].id = elements[i].id }
<1>1. found = {i}
  BY DEF Apart
<1>2. i \in Nat
  BY LenProperties DEF Boundaries
<1>3. (CHOOSE j \in found : \A k \in found : j <= k) = i
  <2>. HIDE DEF found
  <2>. QED BY <1>1, <1>2
<1>. QED BY <1>3 DEF AreaOf

\* What a cut or a merge makes of a map: the same ground, areas apart, and every element
\* that is no area; the new ids are among those the request names.
Reshapes(elements, new, names) ==
    /\ new \in Seq(Elements) /\ Apart(new) /\ Ground(new) = Ground(elements)
    /\ Ids(new) \subseteq Ids(elements) \union names
    /\ \A i \in 1..Len(elements) : ~elements[i].boundary =>
         \E k \in 1..Len(new) : new[k] = elements[i]
    /\ \A k \in 1..Len(new) :
         \/ \E i \in 1..Len(elements) : new[k] = elements[i]
         \/ new[k].id \in names

\* A cut.
LEMMA CutReshapes ==
    ASSUME NEW elements \in Seq(Elements), Apart(elements), NEW id \in AreaIds(elements),
           NEW pair \in Halves(AreaOf(elements, id)),
           NEW first \in AnyId, NEW second \in AnyId, first # second,
           first \notin Ids(elements), second \notin Ids(elements)
    PROVE  Reshapes(elements, Cut(elements, id, pair, <<first, second>>), {first, second})
<1>1. PICK i \in Boundaries(elements) : elements[i].id = id
  BY DEF AreaIds
<1>2. AreaOf(elements, id) = elements[i].cells
  BY <1>1, AreaOfPlace
<1>3. elements[i] \in Elements
  BY LenProperties, ElementOfSeq DEF Boundaries
<1>. DEFINE one == Element(first, TRUE, pair[1], "robot")
            two == Element(second, TRUE, pair[2], "robot")
            areas == <<one, two>>
<1>4. /\ pair[1] \subseteq elements[i].cells /\ pair[2] \subseteq elements[i].cells
      /\ pair[1] \union pair[2] = elements[i].cells
      /\ \A x \in pair[1], y \in pair[2] : x < y
  BY <1>2 DEF Halves
<1>5. pair[1] \subseteq Int /\ pair[2] \subseteq Int
  BY <1>3, <1>4 DEF Elements
<1>6. pair[1] \intersect pair[2] = {}
  BY <1>4, <1>5
<1>7. one \in Elements /\ two \in Elements
  BY <1>5 DEF Element, Elements, Sources
<1>8. /\ one.boundary /\ one.id = first /\ one.cells = pair[1]
      /\ two.boundary /\ two.id = second /\ two.cells = pair[2]
  BY DEF Element
<1>9. Cut(elements, id, pair, <<first, second>>) = Replaced(elements, {id}, areas)
  BY DEF Cut
<1>. HIDE DEF one, two
<1>10. /\ areas \in Seq(Elements) /\ DOMAIN areas = {1, 2} /\ Len(areas) = 2
       /\ areas[1] = one /\ areas[2] = two
  BY <1>7
<1>. HIDE DEF areas
<1>11. Boundaries(areas) = {1, 2} /\ Ids(areas) = {first, second}
  BY <1>8, <1>10 DEF Boundaries, Ids
<1>12. Apart(areas)
  BY <1>6, <1>8, <1>10, <1>11 DEF Apart
<1>13. SourcePlaces(elements, {id}) = {i}
  BY <1>1 DEF Apart, SourcePlaces
<1>14. Ground(areas) = UNION { elements[j].cells : j \in SourcePlaces(elements, {id}) }
  <2>1. Ground(areas) = pair[1] \union pair[2]
    BY <1>8, <1>10, <1>11 DEF Ground
  <2>. QED BY <2>1, <1>4, <1>13
<1>15. Ids(areas) \intersect Ids(elements) = {}
  BY <1>11
<1>. DEFINE new == Cut(elements, id, pair, <<first, second>>)
<1>16. new = Replaced(elements, {id}, areas)
  BY <1>9
<1>. HIDE DEF new
<1>17. /\ new \in Seq(Elements) /\ Apart(new)
       /\ Ground(new) = Ground(elements)
       /\ Ids(new) \subseteq Ids(elements) \union Ids(areas)
       /\ \A j \in 1..Len(elements) : ~elements[j].boundary =>
            \E k \in 1..Len(new) : new[k] = elements[j]
       /\ \A k \in 1..Len(new) :
            \/ \E j \in 1..Len(elements) : new[k] = elements[j]
            \/ \E j \in 1..Len(areas) : new[k] = areas[j]
  <2>1. Replaces(new, elements, areas)
    BY <1>10, <1>12, <1>14, <1>15, <1>16, ReplacedApart
  <2>. QED BY <2>1 DEF Replaces
<1>18. \A j \in 1..Len(areas) : areas[j].id \in {first, second}
  BY <1>8, <1>10
<1>19. Reshapes(elements, new, {first, second})
  BY <1>11, <1>17, <1>18 DEF Reshapes
<1>. QED BY <1>19 DEF new

\* A merge.
LEMMA MergedReshapes ==
    ASSUME NEW elements \in Seq(Elements), Apart(elements), NEW result \in AnyId,
           NEW sources \in SUBSET AreaIds(elements), result \notin Ids(elements)
    PROVE  Reshapes(elements, Merged(elements, result, sources), {result})
<1>. DEFINE ground == UNION { AreaOf(elements, id) : id \in sources }
            whole == Element(result, TRUE, ground, "robot")
            areas == <<whole>>
            new == Merged(elements, result, sources)
<1>1. \A i \in Boundaries(elements) : elements[i] \in Elements
  BY LenProperties, ElementOfSeq DEF Boundaries
<1>2. ground = UNION { elements[i].cells : i \in SourcePlaces(elements, sources) }
  <2>1. \A i \in Boundaries(elements) : AreaOf(elements, elements[i].id) = elements[i].cells
    BY AreaOfPlace
  <2>2. \A id \in sources : \E i \in Boundaries(elements) : elements[i].id = id
    BY DEF AreaIds
  <2>3. { AreaOf(elements, id) : id \in sources } =
          { elements[i].cells : i \in SourcePlaces(elements, sources) }
    BY <2>1, <2>2 DEF SourcePlaces
  <2>. QED BY <2>3
<1>3. new = Replaced(elements, sources, areas)
  BY DEF Merged
<1>. HIDE DEF ground
<1>4. ground \subseteq Int
  BY <1>1, <1>2 DEF SourcePlaces, Elements
<1>5. /\ whole \in Elements /\ whole.boundary /\ whole.id = result /\ whole.cells = ground
  BY <1>4 DEF Element, Elements, Sources
<1>. HIDE DEF whole
<1>6. /\ areas \in Seq(Elements) /\ DOMAIN areas = {1} /\ Len(areas) = 1 /\ areas[1] = whole
  BY <1>5
<1>. HIDE DEF areas, new
<1>7. Boundaries(areas) = {1} /\ Ids(areas) = {result}
  BY <1>5, <1>6 DEF Boundaries, Ids
<1>8. Apart(areas) /\ Ids(areas) \intersect Ids(elements) = {}
  BY <1>7 DEF Apart
<1>9. Ground(areas) = UNION { elements[i].cells : i \in SourcePlaces(elements, sources) }
  BY <1>2, <1>5, <1>6, <1>7 DEF Ground
<1>10. /\ new \in Seq(Elements) /\ Apart(new)
       /\ Ground(new) = Ground(elements)
       /\ Ids(new) \subseteq Ids(elements) \union Ids(areas)
       /\ \A j \in 1..Len(elements) : ~elements[j].boundary =>
            \E k \in 1..Len(new) : new[k] = elements[j]
       /\ \A k \in 1..Len(new) :
            \/ \E j \in 1..Len(elements) : new[k] = elements[j]
            \/ \E j \in 1..Len(areas) : new[k] = areas[j]
  <2>1. Replaces(new, elements, areas)
    BY <1>3, <1>6, <1>8, <1>9, ReplacedApart
  <2>. QED BY <2>1 DEF Replaces
<1>11. \A j \in 1..Len(areas) : areas[j].id \in {result}
  BY <1>5, <1>6
<1>12. Reshapes(elements, new, {result})
  BY <1>7, <1>10, <1>11 DEF Reshapes
<1>. QED BY <1>12 DEF new

(*********************************** Types **********************************)

\* A set of natural numbers has a least one.
LEMMA LeastOf ==
    ASSUME NEW found \in SUBSET Nat, found # {}
    PROVE  \E i \in found : \A j \in found : i <= j
<1>. DEFINE R == OpToRel(<, Nat)
<1>1. \A k, m \in Nat : k < m => <<k, m>> \in R
  BY DEF OpToRel
<1>2. IsWellFoundedOn(R, Nat)
  BY NatLessThanWellFounded
<1>. HIDE DEF R
<1>3. PICK m \in found : \A k \in found : <<k, m>> \notin R
  BY <1>2, WFMin
<1>4. \A k \in found : ~(k < m)
  BY <1>1, <1>3
<1>. QED BY <1>4

\* The area of an id some boundary has is the area of such a boundary.
LEMMA AreaOfTyped ==
    ASSUME NEW elements \in Seq(Elements), NEW id \in AreaIds(elements)
    PROVE  AreaOf(elements, id) \subseteq Int
<1>. DEFINE found == { i \in Boundaries(elements) : elements[i].id = id }
<1>1. DOMAIN elements = 1..Len(elements) /\ Len(elements) \in Nat
  BY LenProperties
<1>2. found \subseteq 1..Len(elements) /\ found # {} /\ found \in SUBSET Nat
  BY <1>1 DEF Boundaries, AreaIds
<1>3. AreaOf(elements, id) = elements[CHOOSE i \in found : \A j \in found : i <= j].cells
  BY DEF AreaOf
<1>. HIDE DEF found
<1>4. (CHOOSE i \in found : \A j \in found : i <= j) \in found
  BY <1>2, LeastOf
<1>5. \A i \in 1..Len(elements) : elements[i].cells \subseteq Int
  <2>1. \A i \in 1..Len(elements) : elements[i] \in Elements
    BY ElementOfSeq
  <2>. QED BY <2>1 DEF Elements
<1>. QED BY <1>2, <1>3, <1>4, <1>5

\* What a cut or a merge leaves is a list of elements.
LEMMA ReplacedTyped ==
    ASSUME NEW elements \in Seq(Elements), NEW sources, NEW areas \in Seq(Elements)
    PROVE  Replaced(elements, sources, areas) \in Seq(Elements)
<1>. DEFINE chosen == { i \in DOMAIN elements :
                          ~elements[i].boundary \/ elements[i].id \notin sources }
            kept == Kept(elements, chosen)
<1>1. chosen \in SUBSET (1..Len(elements))
  BY LenProperties
<1>2. Replaced(elements, sources, areas) = kept \o areas /\ kept = Kept(elements, chosen)
  BY DEF Replaced
<1>. HIDE DEF chosen, kept
<1>3. kept \in Seq(Elements)
  BY <1>1, <1>2, KeptProperties
<1>. QED BY <1>2, <1>3, ConcatProperties

\* The new areas of a merge and of a cut.
LEMMA ShortLists ==
    ASSUME NEW one \in Elements, NEW two \in Elements
    PROVE  <<one>> \in Seq(Elements) /\ <<one, two>> \in Seq(Elements)
  OBVIOUS

\* The map is a map, and a save on its way carries a draft and a version.
EditsTypes ==
    /\ map \in [version : 1..MaxVersion, elements : Seq(Elements)]
    /\ base \in [Editors -> 0..MaxVersion]
    /\ draft \in [Editors -> Deltas \union {<<>>}]
    /\ sent \in 0..MaxSends
    /\ \A save \in saves : save.base \in 0..MaxVersion /\ save.delta \in Deltas \union {<<>>}

\* The fixture's map.
LEMMA FixtureTyped == FixtureMap \in [version : 1..MaxVersion, elements : Seq(Elements)]
<1>1. 1 \in 1..MaxVersion
  BY EditsAssumption DEF EditsAssumption
<1>. DEFINE F == [id : Ids(Fixture), boundary : BOOLEAN, cells : SUBSET Int, source : Sources]
<1>2. Fixture \in Seq(F)
  BY EditsAssumption DEF EditsAssumption
<1>3. F \subseteq Elements
  BY DEF Elements, AnyId
<1>. HIDE DEF F
<1>4. Fixture \in Seq(Elements)
  <2>1. \A i \in 1..Len(Fixture) : Fixture[i] \in Elements
    BY <1>2, <1>3, ElementOfSeq
  <2>2. Fixture = [i \in 1..Len(Fixture) |-> Fixture[i]] /\ Len(Fixture) \in Nat
    BY <1>2, LenProperties
  <2>. QED BY <2>1, <2>2
<1>. QED BY <1>1, <1>4 DEF FixtureMap

\* A draft is a sequence of increments.
LEMMA DraftTyped ==
    ASSUME NEW delta \in Deltas \union {<<>>}
    PROVE  delta \in Seq(Increments)
<1>1. <<>> \in Seq(Increments)
  OBVIOUS
<1>2. delta \in Deltas => delta \in Seq(Increments)
  BY EditsAssumption, Zenon DEF EditsAssumption, Increments
<1>. QED BY <1>1, <1>2

\* A new map.
LEMMA NewMapTyped ==
    ASSUME EditsTypes, NEW version \in 1..MaxVersion, NEW elements \in Seq(Elements),
           map' = [version |-> version, elements |-> elements],
           UNCHANGED <<base, draft, sent>>, saves' \subseteq saves
    PROVE  EditsTypes'
  BY DEF EditsTypes

\* The versions a cut and a merge may make.
LEMMA NextIsVersion ==
    ASSUME EditsTypes, map.version < MaxVersion
    PROVE  map.version + 1 \in 1..MaxVersion
  BY EditsAssumption DEF EditsTypes, EditsAssumption

\* The new ids of a cut are names of elements.
LEMMA PiecesTyped ==
    ASSUME EditsTypes
    PROVE  \A k \in {1, 2} : /\ <<"piece", map.version, k>> \in PieceIds
                             /\ <<"piece", map.version, k>> \in AnyId
  BY DEF EditsTypes, AnyId, PieceIds

\* Every step keeps the types.
LEMMA StepKeepsTypes ==
    ASSUME EditsTypes, Next
    PROVE  EditsTypes'
<1>. USE DEF server, network, editor
<1>0. map.version \in 1..MaxVersion /\ map.elements \in Seq(Elements) /\ MaxVersion \in Nat
  BY EditsAssumption DEF EditsTypes, EditsAssumption
<1>c. ASSUME NEW c \in Editors, Closes(c), UNCHANGED <<map, sent, saves>>
      PROVE  EditsTypes'
  <2>1. base' \in [Editors -> 0..MaxVersion]
    BY <1>c, <1>0 DEF Closes, EditsTypes
  <2>2. draft' \in [Editors -> Deltas \union {<<>>}]
    BY <1>c DEF Closes, EditsTypes
  <2>. QED BY <1>c, <2>1, <2>2 DEF EditsTypes
<1>1. ASSUME NEW c \in Editors, Load(c) PROVE EditsTypes'
  BY <1>1 DEF Load, EditsTypes
<1>2. ASSUME NEW c \in Editors, Loaded(c) PROVE EditsTypes'
  BY <1>2, <1>0 DEF Loaded, EditsTypes
<1>3. ASSUME NEW c \in Editors, Edit(c) PROVE EditsTypes'
  BY <1>3 DEF Edit, EditsTypes
<1>4. ASSUME NEW c \in Editors, Confirm(c) PROVE EditsTypes'
  <2>1. sent + 1 \in 0..MaxSends
    BY <1>4, EditsAssumption DEF Confirm, EditsTypes, EditsAssumption
  <2>. QED BY <1>4, <2>1 DEF Confirm, EditsTypes
<1>5. ASSUME NEW c \in Editors, GiveUp(c) PROVE EditsTypes'
  BY <1>5, <1>c DEF GiveUp
<1>6. ASSUME NEW c \in Editors, Leave(c) PROVE EditsTypes'
  BY <1>6, <1>c DEF Leave
<1>7. ASSUME NEW c \in Editors, Answer(c) PROVE EditsTypes'
  BY <1>7, <1>c DEF Answer
<1>8. ASSUME NEW p \in Planners, Read(p) PROVE EditsTypes'
  BY <1>8 DEF Read, EditsTypes
<1>9. ASSUME NEW elements \in Seq(Elements), map.version < MaxVersion, TopologyEdit(elements)
      PROVE  EditsTypes'
  BY <1>9, NextIsVersion, NewMapTyped DEF TopologyEdit
<1>10. ASSUME NEW p \in Planners, CutArea(p) PROVE EditsTypes'
  <2>. DEFINE one == <<"piece", map.version, 1>>
              two == <<"piece", map.version, 2>>
  <2>1. PICK id \in AreaIds(map.elements) : \E pair \in Halves(AreaOf(map.elements, id)) :
          TopologyEdit(Cut(map.elements, id, pair, <<one, two>>))
    BY <1>10 DEF CutArea
  <2>2. PICK pair \in Halves(AreaOf(map.elements, id)) :
          TopologyEdit(Cut(map.elements, id, pair, <<one, two>>))
    BY <2>1
  <2>3. one \in AnyId /\ two \in AnyId
    BY PiecesTyped
  <2>. HIDE DEF one, two
  <2>4. pair[1] \subseteq Int /\ pair[2] \subseteq Int
    BY <1>0, AreaOfTyped DEF Halves
  <2>. DEFINE areas == << Element(one, TRUE, pair[1], "robot"), Element(two, TRUE, pair[2], "robot") >>
  <2>5. areas \in Seq(Elements)
    <3>1. Element(one, TRUE, pair[1], "robot") \in Elements /\ Element(two, TRUE, pair[2], "robot") \in Elements
      BY <2>3, <2>4 DEF Element, Elements, Sources
    <3>. QED BY <3>1, ShortLists
  <2>6. Cut(map.elements, id, pair, <<one, two>>) = Replaced(map.elements, {id}, areas)
    BY DEF Cut
  <2>. HIDE DEF areas
  <2>7. Cut(map.elements, id, pair, <<one, two>>) \in Seq(Elements)
    BY <1>0, <2>5, <2>6, ReplacedTyped
  <2>. QED BY <1>9, <1>10, <2>2, <2>7 DEF CutArea, SameVersion
<1>11. ASSUME NEW p \in Planners, MergeAreas(p) PROVE EditsTypes'
  <2>1. PICK sources \in SUBSET AreaIds(map.elements), result \in Results :
          TopologyEdit(Merged(map.elements, result, sources))
    BY <1>11 DEF MergeAreas
  <2>. DEFINE ground == UNION { AreaOf(map.elements, id) : id \in sources }
              areas == << Element(result, TRUE, ground, "robot") >>
  <2>2. ground \subseteq Int
    BY <1>0, AreaOfTyped
  <2>3. Merged(map.elements, result, sources) = Replaced(map.elements, sources, areas)
    BY DEF Merged
  <2>. HIDE DEF ground
  <2>4. areas \in Seq(Elements)
    <3>1. Element(result, TRUE, ground, "robot") \in Elements
      BY <2>2 DEF Element, Elements, Sources, AnyId
    <3>. QED BY <3>1, ShortLists
  <2>. HIDE DEF areas
  <2>5. Merged(map.elements, result, sources) \in Seq(Elements)
    BY <1>0, <2>3, <2>4, ReplacedTyped
  <2>. QED BY <1>9, <1>11, <2>1, <2>5 DEF MergeAreas, SameVersion
<1>12. CASE ServeSave
  <2>1. PICK save \in saves :
          /\ nextVersion(save.base) <= MaxVersion
          /\ map' = [version |-> nextVersion(save.base),
                     elements |-> mergeIncrements(map.elements, save.delta)]
          /\ saves' = saves \ {save}
          /\ UNCHANGED <<base, draft, sent>>
    BY <1>12 DEF ServeSave
  <2>2. save.base \in 0..MaxVersion /\ save.delta \in Deltas \union {<<>>}
    BY DEF EditsTypes
  <2>3. nextVersion(save.base) \in 1..MaxVersion
    BY <1>0, <2>1, <2>2 DEF nextVersion
  <2>4. save.delta \in Seq(Increments)
    BY <2>2, DraftTyped
  <2>5. mergeIncrements(map.elements, save.delta) \in Seq(Elements)
    BY <1>0, <2>4, MergeIncrementsKeeps
  <2>. QED BY <2>1, <2>3, <2>5, NewMapTyped
<1>13. CASE DropOverride
  BY <1>13, FixtureTyped DEF DropOverride, EditsTypes
<1>. QED BY <1>1, <1>2, <1>3, <1>4, <1>5, <1>6, <1>7, <1>8, <1>10, <1>11, <1>12, <1>13
         DEF Next

\* It starts typed, with no answer outstanding.
LEMMA StartsTyped == Init => EditsTypes /\ AnswersAreStored
<1>1. Init => EditsTypes
  BY FixtureTyped, EditsAssumption DEF Init, EditsTypes, EditsAssumption
<1>2. Init => AnswersAreStored
  BY DEF Init, initialMapEditState, AnswersAreStored, CompletedIsStored, MapEditContext,
         MapEditPhase, EditErrors, TASK_STATES, Null
<1>. QED BY <1>1, <1>2

\* Sessions are sessions of the reducer, versions stay in their range, and every element
\* of the map has an owner.
THEOREM EditsTyped == Spec => []TypeOK
<1>1. EditsTypes /\ [Next]_vars => EditsTypes'
  <2>1. EditsTypes /\ UNCHANGED vars => EditsTypes'
    BY DEF vars, EditsTypes
  <2>. QED BY <2>1, StepKeepsTypes
<1>2. AnswersAreStored /\ [Next]_vars => AnswersAreStored'
  <2>1. AnswersAreStored /\ UNCHANGED vars => AnswersAreStored'
    BY DEF vars, AnswersAreStored, CompletedIsStored
  <2>. QED BY <2>1, StepKeepsAnswers
<1>3. EditsTypes /\ AnswersAreStored => TypeOK
  <2>. SUFFICES ASSUME EditsTypes, AnswersAreStored PROVE TypeOK
    OBVIOUS
  <2>1. \A i \in DOMAIN map.elements : map.elements[i].source \in Sources
    <3>1. map.elements \in Seq(Elements) /\ DOMAIN map.elements = 1..Len(map.elements)
      BY LenProperties DEF EditsTypes
    <3>2. \A i \in 1..Len(map.elements) : map.elements[i] \in Elements
      BY <3>1, ElementOfSeq
    <3>. QED BY <3>1, <3>2 DEF Elements
  <2>2. \A c \in Editors : session[c] \in MapEditContext /\ opened[c] \in 0..sent
    BY DEF AnswersAreStored
  <2>. QED BY <2>1, <2>2 DEF EditsTypes, MapEditContext, TypeOK
<1>. QED BY <1>1, <1>2, <1>3, StartsTyped, PTL DEF Spec

(************************** The ground and the debts ************************)

\* The areas share out the fixture's ground under names of their own, what is of a
\* drawn id is the app's and no area, and what is owed is there.  A cut gives its pieces
\* names that no element has, because a piece in the map was named for an older version.
WellDrawn ==
    /\ Apart(map.elements) /\ Ground(map.elements) = Ground(Fixture)
    /\ OwnElements(map.elements)
    /\ \A id \in Ids(map.elements) : id \in AnyId
    /\ \A id \in Ids(map.elements) \intersect PieceIds : id[2] < map.version
    /\ owed \subseteq DrawnIds \intersect Ids(map.elements)

\* Of the increments with an id there is a last one.
LEMMA LastIncrement ==
    ASSUME NEW delta \in Seq(Increments), NEW id \in Touched(delta)
    PROVE  /\ LastIn(delta, id) \in 1..Len(delta) /\ delta[LastIn(delta, id)].id = id
           /\ \A j \in 1..Len(delta) : delta[j].id = id => j <= LastIn(delta, id)
<1>1. DOMAIN delta = 1..Len(delta) /\ Len(delta) \in Nat
  BY LenProperties
<1>2. PICK N \in Nat : N = Len(delta)
  BY <1>1
<1>. DEFINE back == { n \in Nat : \E i \in 1..N : n = N - i /\ delta[i].id = id }
<1>3. \A i \in 1..N : delta[i].id = id => N - i \in back
  <2>1. \A i \in 1..N : N - i \in Nat
    OBVIOUS
  <2>. QED BY <2>1
<1>4. back \in SUBSET Nat /\ back # {}
  <2>1. PICK i \in 1..N : delta[i].id = id
    BY <1>1, <1>2 DEF Touched
  <2>. QED BY <2>1, <1>3
<1>5. \A n \in back : \E i \in 1..N : n = N - i /\ delta[i].id = id
  OBVIOUS
<1>. HIDE DEF back
<1>6. PICK n \in back : \A m \in back : n <= m
  BY <1>4, LeastOf
<1>7. PICK l \in 1..N : n = N - l /\ delta[l].id = id
  BY <1>5
<1>8. \A j \in 1..N : delta[j].id = id => j <= l
  <2>. SUFFICES ASSUME NEW j \in 1..N, delta[j].id = id
                PROVE  j <= l
    OBVIOUS
  <2>1. n <= N - j
    BY <1>3, <1>6
  <2>. QED BY <1>7, <2>1
<1>9. \E k \in DOMAIN delta : /\ delta[k].id = id
                              /\ \A j \in DOMAIN delta : delta[j].id = id => j <= k
  BY <1>1, <1>2, <1>7, <1>8
<1>10. /\ LastIn(delta, id) \in DOMAIN delta /\ delta[LastIn(delta, id)].id = id
       /\ \A j \in DOMAIN delta : delta[j].id = id => j <= LastIn(delta, id)
  BY <1>9, Zenon DEF LastIn
<1>. QED BY <1>1, <1>10

\* What is owed after a save is due.
LEMMA OwedIsDue ==
    ASSUME NEW elements \in Seq(Elements), NEW delta \in Seq(Increments),
           NEW owing \in SUBSET Ids(elements),
           NEW id \in (owing \union Touched(delta)) \ Deleted(delta)
    PROVE  Due(elements, delta, Len(delta), id)
<1>1. DOMAIN delta = 1..Len(delta) /\ Len(delta) \in Nat
  BY LenProperties
<1>2. CASE id \in Touched(delta)
  <2>. DEFINE k == LastIn(delta, id)
  <2>1. /\ k \in 1..Len(delta) /\ delta[k].id = id
        /\ \A j \in 1..Len(delta) : delta[j].id = id => j <= k
    BY <1>2, LastIncrement
  <2>2. delta[k].action # "delete"
    BY <1>2 DEF Deleted
  <2>. HIDE DEF k
  <2>3. \A j \in 1..Len(delta) : j > k => delta[j].id # id
    BY <2>1
  <2>. QED BY <2>1, <2>2, <2>3 DEF Due
<1>3. CASE id \notin Touched(delta)
  <2>1. \A k \in 1..Len(delta) : delta[k].id # id
    BY <1>1, <1>3 DEF Touched
  <2>. QED BY <1>3, <2>1 DEF Due
<1>. QED BY <1>2, <1>3

\* What a delta touches is drawn.
LEMMA TouchedIsDrawn ==
    ASSUME NEW delta \in Deltas \union {<<>>}
    PROVE  Touched(delta) \subseteq DrawnIds
<1>1. CASE delta \in Deltas
  BY <1>1 DEF DrawnIds
<1>2. CASE delta = <<>>
  BY <1>2 DEF Touched
<1>. QED BY <1>1, <1>2

\* The ids of the elements of a list.
LEMMA IdsOf ==
    ASSUME NEW elements \in Seq(Elements)
    PROVE  /\ Ids(elements) = { elements[i].id : i \in 1..Len(elements) }
           /\ \A id \in Ids(elements) : id \in AnyId
<1>1. DOMAIN elements = 1..Len(elements) /\ \A i \in 1..Len(elements) : elements[i] \in Elements
  BY LenProperties, ElementOfSeq
<1>2. Ids(elements) = { elements[i].id : i \in 1..Len(elements) }
  BY <1>1 DEF Ids
<1>. QED BY <1>1, <1>2 DEF Elements

\* A save.
LEMMA SaveKeepsDrawn ==
    ASSUME Drawings, EditsTypes, WellDrawn, ServeSave
    PROVE  WellDrawn'
<1>1. PICK save \in saves :
        /\ nextVersion(save.base) <= MaxVersion
        /\ map' = [version |-> nextVersion(save.base),
                   elements |-> mergeIncrements(map.elements, save.delta)]
        /\ owed' = (owed \union Touched(save.delta)) \ Deleted(save.delta)
  BY DEF ServeSave
<1>. DEFINE delta == save.delta
            new == mergeIncrements(map.elements, delta)
<1>2. /\ map.elements \in Seq(Elements) /\ save.base \in Nat /\ map.version \in Nat
      /\ delta \in Deltas \union {<<>>}
  BY EditsAssumption DEF EditsTypes, EditsAssumption
<1>3. delta \in Seq(Increments) /\ Touched(delta) \subseteq DrawnIds
  BY <1>2, DraftTyped, TouchedIsDrawn
<1>4. Draws(delta)
  <2>1. CASE delta \in Deltas
    BY <1>3, <2>1, LenProperties DEF Drawings, Draws
  <2>2. CASE delta = <<>>
    BY <2>2 DEF Draws
  <2>. QED BY <1>2, <2>1, <2>2
<1>5. map'.elements = new /\ map'.version = nextVersion(save.base)
  BY <1>1
<1>6. nextVersion(save.base) > map.version /\ nextVersion(save.base) \in Nat
  BY <1>2, NextVersionGrows
<1>7. /\ Apart(map.elements) /\ Ground(map.elements) = Ground(Fixture)
      /\ OwnElements(map.elements)
      /\ \A id \in Ids(map.elements) \intersect PieceIds : id[2] < map.version
      /\ owed \subseteq DrawnIds \intersect Ids(map.elements)
  BY DEF WellDrawn
<1>8. new = mergeIncrements(map.elements, delta)
  OBVIOUS
<1>. HIDE DEF new, delta
<1>9. /\ new \in Seq(Elements)
      /\ \A id : Due(map.elements, delta, Len(delta), id) => id \in Ids(new)
      /\ OwnElements(new)
      /\ Carries(new, map.elements, Boundaries(map.elements))
      /\ \A k \in 1..Len(new) : new[k].id \in DrawnIds \union Ids(map.elements)
  BY <1>2, <1>3, <1>4, <1>7, <1>8, MergeIncrementsKeeps
<1>10. CarriedOver(new, map.elements, Boundaries(map.elements))
  BY <1>7, <1>9, CarriedApart
<1>11. Apart(new) /\ Ground(new) = Ground(map.elements)
  BY <1>10, Zenon DEF CarriedOver, Ground
<1>12. \A id \in Ids(new) : id \in AnyId
  BY <1>9, IdsOf
<1>13. \A id \in Ids(new) \intersect PieceIds : id[2] < nextVersion(save.base)
  <2>. SUFFICES ASSUME NEW id \in Ids(new), id \in PieceIds
                PROVE  id[2] < nextVersion(save.base)
    OBVIOUS
  <2>1. id \notin DrawnIds
    BY EditsAssumption DEF EditsAssumption
  <2>2. id \in DrawnIds \union Ids(map.elements)
    BY <1>9, IdsOf
  <2>3. id[2] < map.version
    BY <1>7, <2>1, <2>2
  <2>4. id[2] \in Nat
    BY DEF PieceIds
  <2>. QED BY <1>2, <1>6, <2>3, <2>4
<1>14. owed' \subseteq DrawnIds \intersect Ids(new)
  <2>1. owed' = (owed \union Touched(delta)) \ Deleted(delta)
    BY <1>1 DEF delta
  <2>2. owed \in SUBSET Ids(map.elements)
    BY <1>7
  <2>3. \A id \in owed' : Due(map.elements, delta, Len(delta), id)
    BY <1>2, <1>3, <2>1, <2>2, OwedIsDue
  <2>. QED BY <1>3, <1>7, <1>9, <2>1, <2>3
<1>. QED BY <1>5, <1>7, <1>9, <1>11, <1>12, <1>13, <1>14 DEF WellDrawn

\* A cut or a merge.  Its new ids are no drawn ids; those of pieces are named for the
\* version that is replaced.
LEMMA ReshapedKeepsDrawn ==
    ASSUME EditsTypes, WellDrawn, NEW new, NEW names,
           Reshapes(map.elements, new, names), names \intersect DrawnIds = {},
           \A id \in names \intersect PieceIds : id[2] = map.version,
           TopologyEdit(new)
    PROVE  WellDrawn'
<1>1. map'.elements = new /\ map'.version = map.version + 1 /\ owed' = owed
  BY DEF TopologyEdit
<1>2. map.elements \in Seq(Elements) /\ map.version \in Nat
  BY EditsAssumption DEF EditsTypes, EditsAssumption
<1>3. /\ new \in Seq(Elements) /\ Apart(new) /\ Ground(new) = Ground(map.elements)
      /\ Ids(new) \subseteq Ids(map.elements) \union names
      /\ \A i \in 1..Len(map.elements) : ~map.elements[i].boundary =>
           \E k \in 1..Len(new) : new[k] = map.elements[i]
      /\ \A k \in 1..Len(new) :
           \/ \E i \in 1..Len(map.elements) : new[k] = map.elements[i]
           \/ new[k].id \in names
  BY DEF Reshapes
<1>4. /\ Ground(map.elements) = Ground(Fixture)
      /\ OwnElements(map.elements)
      /\ \A id \in Ids(map.elements) \intersect PieceIds : id[2] < map.version
      /\ owed \subseteq DrawnIds \intersect Ids(map.elements)
  BY DEF WellDrawn
<1>5. OwnElements(new)
  BY <1>3, <1>4 DEF OwnElements
<1>6. \A id \in Ids(new) \intersect PieceIds : id[2] < map.version + 1
  <2>. SUFFICES ASSUME NEW id \in Ids(new), id \in PieceIds
                PROVE  id[2] < map.version + 1
    OBVIOUS
  <2>1. id[2] \in Nat
    BY DEF PieceIds
  <2>2. id[2] < map.version \/ id[2] = map.version
    BY <1>3, <1>4
  <2>. QED BY <1>2, <2>1, <2>2
<1>7. owed \subseteq Ids(new)
  <2>. SUFFICES ASSUME NEW id \in owed PROVE id \in Ids(new)
    OBVIOUS
  <2>1. PICK i \in 1..Len(map.elements) : map.elements[i].id = id
    BY <1>2, <1>4, IdsOf
  <2>2. ~map.elements[i].boundary
    BY <1>4, <2>1 DEF OwnElements
  <2>3. PICK k \in 1..Len(new) : new[k] = map.elements[i]
    BY <1>3, <2>2
  <2>. QED BY <1>3, <2>1, <2>3, IdsOf
<1>8. \A id \in Ids(new) : id \in AnyId
  BY <1>3, IdsOf
<1>. QED BY <1>1, <1>3, <1>4, <1>5, <1>6, <1>7, <1>8 DEF WellDrawn

\* A cut: both pieces are named for the version that was cut, and share out its ground.
LEMMA CutKeepsDrawn ==
    ASSUME EditsTypes, WellDrawn, NEW p \in Planners, CutArea(p)
    PROVE  WellDrawn'
<1>. DEFINE one == <<"piece", map.version, 1>>
            two == <<"piece", map.version, 2>>
<1>1. PICK id \in AreaIds(map.elements) : \E pair \in Halves(AreaOf(map.elements, id)) :
        TopologyEdit(Cut(map.elements, id, pair, <<one, two>>))
  BY DEF CutArea
<1>2. PICK pair \in Halves(AreaOf(map.elements, id)) :
        TopologyEdit(Cut(map.elements, id, pair, <<one, two>>))
  BY <1>1
<1>3. one \in PieceIds /\ two \in PieceIds /\ one \in AnyId /\ two \in AnyId
  BY PiecesTyped
<1>4. one # two /\ one[2] = map.version /\ two[2] = map.version
  OBVIOUS
<1>. HIDE DEF one, two
<1>5. one \notin Ids(map.elements) /\ two \notin Ids(map.elements)
  <2>1. map.version \in Nat
    BY EditsAssumption DEF EditsTypes, EditsAssumption
  <2>2. \A name \in Ids(map.elements) \intersect PieceIds : name[2] < map.version
    BY DEF WellDrawn
  <2>3. ~(map.version < map.version)
    BY <2>1
  <2>. QED BY <1>3, <1>4, <2>2, <2>3
<1>6. map.elements \in Seq(Elements) /\ Apart(map.elements)
  BY DEF EditsTypes, WellDrawn
<1>7. Reshapes(map.elements, Cut(map.elements, id, pair, <<one, two>>), {one, two})
  BY <1>3, <1>4, <1>5, <1>6, CutReshapes
<1>8. {one, two} \intersect DrawnIds = {}
  BY <1>3, EditsAssumption DEF EditsAssumption
<1>. QED BY <1>2, <1>4, <1>7, <1>8, ReshapedKeepsDrawn

\* A merge: the new area has the ground of all its sources, and no name of a drawing or a piece.
LEMMA MergeKeepsDrawn ==
    ASSUME Drawings, EditsTypes, WellDrawn, NEW p \in Planners, MergeAreas(p)
    PROVE  WellDrawn'
<1>1. PICK sources \in SUBSET AreaIds(map.elements), result \in Results :
        /\ MayMerge(map.elements, result, sources)
        /\ TopologyEdit(Merged(map.elements, result, sources))
  BY DEF MergeAreas
<1>2. map.elements \in Seq(Elements) /\ Apart(map.elements)
  BY DEF EditsTypes, WellDrawn
<1>3. result \in AnyId /\ result \notin Ids(map.elements)
  BY <1>1 DEF AnyId, MayMerge
<1>4. Reshapes(map.elements, Merged(map.elements, result, sources), {result})
  BY <1>2, <1>3, MergedReshapes
<1>5. {result} \intersect DrawnIds = {} /\ {result} \intersect PieceIds = {}
  BY EditsAssumption DEF Drawings, EditsAssumption
<1>. QED BY <1>1, <1>4, <1>5, ReshapedKeepsDrawn

\* The fixture.
LEMMA FixtureDrawn ==
    ASSUME Drawings
    PROVE  /\ Apart(Fixture) /\ OwnElements(Fixture)
           /\ \A id \in Ids(Fixture) : id \in AnyId
           /\ Ids(Fixture) \intersect PieceIds = {}
<1>1. DOMAIN Fixture = 1..Len(Fixture)
  BY FixtureTyped, LenProperties DEF FixtureMap
<1>2. \A i \in 1..Len(Fixture) : Fixture[i].id \in Ids(Fixture)
  BY <1>1 DEF Ids
<1>3. OwnElements(Fixture)
  BY <1>2 DEF OwnElements, Drawings
<1>. QED BY <1>3, EditsAssumption DEF EditsAssumption, AnyId

\* Every step keeps the map well drawn.
LEMMA StepKeepsDrawn ==
    ASSUME Drawings, EditsTypes, WellDrawn, [Next]_vars
    PROVE  WellDrawn'
<1>1. CASE UNCHANGED <<map, owed>>
  BY <1>1 DEF WellDrawn
<1>2. ASSUME NEW p \in Planners, CutArea(p) PROVE WellDrawn'
  BY <1>2, CutKeepsDrawn
<1>3. ASSUME NEW p \in Planners, MergeAreas(p) PROVE WellDrawn'
  BY <1>3, MergeKeepsDrawn
<1>4. CASE ServeSave
  BY <1>4, SaveKeepsDrawn
<1>5. CASE DropOverride
  <2>1. map'.elements = Fixture /\ map'.version = 1 /\ owed' = {}
    BY <1>5 DEF DropOverride, FixtureMap
  <2>. QED BY <2>1, FixtureDrawn DEF WellDrawn
<1>6. ASSUME NEW c \in Editors,
             Load(c) \/ Loaded(c) \/ Edit(c) \/ Confirm(c) \/ GiveUp(c) \/ Leave(c) \/ Answer(c)
      PROVE  UNCHANGED <<map, owed>>
  BY <1>6 DEF Load, Loaded, Edit, Confirm, GiveUp, Leave, Answer, server
<1>7. ASSUME NEW p \in Planners, Read(p) PROVE UNCHANGED <<map, owed>>
  BY <1>7 DEF Read, server
<1>8. UNCHANGED vars => UNCHANGED <<map, owed>>
  BY DEF vars
<1>. QED BY <1>1, <1>2, <1>3, <1>4, <1>5, <1>6, <1>7, <1>8 DEF Next

\* The map is well drawn in every state.
LEMMA AlwaysWellDrawn ==
    ASSUME Drawings
    PROVE  Spec => [](EditsTypes /\ WellDrawn)
<1>1. Init => EditsTypes /\ WellDrawn
  <2>1. Init => WellDrawn
    BY FixtureDrawn DEF Init, FixtureMap, WellDrawn
  <2>. QED BY <2>1, StartsTyped
<1>2. EditsTypes /\ WellDrawn /\ [Next]_vars => (EditsTypes /\ WellDrawn)'
  <2>1. EditsTypes /\ UNCHANGED vars => EditsTypes'
    BY DEF vars, EditsTypes
  <2>. QED BY <2>1, StepKeepsTypes, StepKeepsDrawn
<1>. QED BY <1>1, <1>2, PTL DEF Spec

\* However areas are cut and merged and drawings are saved, the boundaries go on to share
\* out the lawn.
THEOREM EditsGroundSharedOut ==
    ASSUME Drawings
    PROVE  Spec => []GroundSharedOut
<1>1. WellDrawn => GroundSharedOut
  BY DEF WellDrawn, GroundSharedOut, Apart, Ground
<1>. QED BY <1>1, AlwaysWellDrawn, PTL

\* What was saved stays in the map, as the app's, until a save deletes it.
THEOREM EditsSavedStays ==
    ASSUME Drawings
    PROVE  Spec => []SavedStays
<1>1. EditsTypes /\ WellDrawn => SavedStays
  <2>. SUFFICES ASSUME EditsTypes, WellDrawn, NEW id \in owed
                PROVE  \E i \in DOMAIN map.elements :
                         map.elements[i].id = id /\ map.elements[i].source = "app"
    BY DEF SavedStays
  <2>1. map.elements \in Seq(Elements) /\ DOMAIN map.elements = 1..Len(map.elements)
    BY LenProperties DEF EditsTypes
  <2>2. id \in DrawnIds /\ id \in Ids(map.elements)
    BY DEF WellDrawn
  <2>3. PICK i \in 1..Len(map.elements) : map.elements[i].id = id
    BY <2>1, <2>2 DEF Ids
  <2>. QED BY <2>1, <2>2, <2>3 DEF WellDrawn, OwnElements
<1>. QED BY <1>1, AlwaysWellDrawn, PTL
=============================================================================
