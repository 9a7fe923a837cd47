------------------------------ MODULE MapEdits ------------------------------
(* Clients of one map.  An editor runs the edit session of MapEditReducer: it *)
(* loads the map, draws, and sends the draft as a delta; requests and answers *)
(* may be late or lost, and an editor that gives up sends the draft again.    *)
(* A planner reads the map and later cuts and merges its areas.  The map's    *)
(* override may be deleted, or lost with the process.  The simulator serves   *)
(* each request in one step.                                                  *)
EXTENDS MapEditReducer, SemanticMap

CONSTANTS
    Editors,       \* the clients that draw and save
    Planners,      \* the clients that cut and merge
    Fixture,       \* the elements of fixtures/maps/map_list.json
    Deltas,        \* what an editor may draw: sequences of increments
    Results,       \* ids a planner picks for the area of a merge
    MaxVersion,    \* bound: the highest version of the map
    MaxSends       \* bound: saves that are sent

Sources == {"robot", "app"}

\* The ids of the pieces of the cuts there may be (randomUUID: no other id is one).
PieceIds == { <<"piece", version, k>> : version \in 1..MaxVersion, k \in {1, 2} }

Touched(delta) == { delta[i].id : i \in DOMAIN delta }
DrawnIds == UNION { Touched(delta) : delta \in Deltas }

\* The areas of a map have names of their own and share no ground.
Apart(elements) ==
    \A i, j \in Boundaries(elements) :
       i # j => /\ elements[i].id # elements[j].id
                /\ elements[i].cells \intersect elements[j].cells = {}

ASSUME EditsAssumption ==
    /\ MaxVersion \in Nat \ {0} /\ MaxSends \in Nat
    /\ NoSource \notin Sources
    /\ Fixture \in Seq([id : Ids(Fixture), boundary : BOOLEAN, cells : SUBSET Int, source : Sources])
    /\ Apart(Fixture)
    /\ \A delta \in Deltas :
         delta \in Seq([id : DrawnIds, boundary : BOOLEAN, cells : SUBSET Int,
                       action : {"add", "update", "delete"}, source : Sources \union {NoSource}])
    /\ (Ids(Fixture) \union DrawnIds \union Results) \intersect PieceIds = {}

\* What the app draws is its own: elements that are no areas, under ids that nothing of
\* the fixture and no merged area has.
Drawings ==
    /\ \A delta \in Deltas : \A i \in DOMAIN delta :
         ~delta[i].boundary /\ delta[i].source \in {NoSource, "app"}
    /\ DrawnIds \intersect (Ids(Fixture) \union Results) = {}

VARIABLES
    map,           \* the version and the elements that map/list answers with
    session,       \* per editor: the context of its edit session
    base,          \* per editor: the version it loaded, 0 for none
    draft,         \* per editor: the increments drawn since
    copy,          \* per planner: the version it read last, and (history) the elements
    sent,          \* the saves sent so far, each numbered
    opened,        \* per editor: the number of the last save before this visit
    saves,         \* the save requests on their way (a lost one stays there)
    answers,       \* the answers on their way: whose save was done
    stored,        \* history: the saves of this visit that were done
    owed           \* history: ids that were saved and not deleted since
vars == <<map, session, base, draft, copy, sent, opened, saves, answers, stored, owed>>

FixtureMap == [version |-> 1, elements |-> Fixture]
NoCopy == [version |-> 0, elements |-> <<>>]

Init ==
    /\ map = FixtureMap
    /\ session = [c \in Editors |-> initialMapEditState]
    /\ base = [c \in Editors |-> 0] /\ draft = [c \in Editors |-> <<>>]
    /\ copy = [c \in Planners |-> NoCopy]
    /\ sent = 0 /\ opened = [c \in Editors |-> 0]
    /\ saves = {} /\ answers = {}
    /\ stored = {} /\ owed = {}

Happens(c, event) == session' = [session EXCEPT ![c] = mapEditReducer(@, event)]

server  == <<map, stored, owed>>
network == <<sent, saves, answers>>
editor  == <<base, draft, opened>>

(********************************* An editor ********************************)

Load(c) ==
    /\ session[c].state = "IDLE"
    /\ Happens(c, [type |-> "CMD_LOAD"])
    /\ UNCHANGED <<server, network, editor, copy>>

\* The answer of map/list is the map at the time of the request.
Loaded(c) ==
    /\ In(session[c], "EDIT_LOADING")
    /\ Happens(c, [type |-> "DEVICE_LOADED"])
    /\ base' = [base EXCEPT ![c] = map.version]
    /\ UNCHANGED <<server, network, draft, copy, opened>>

Edit(c) ==
    /\ In(session[c], "EDIT_EDITING")
    /\ Happens(c, [type |-> "CMD_MARK_DIRTY", dirty |-> TRUE])
    /\ \E delta \in Deltas : draft' = [draft EXCEPT ![c] = delta]
    /\ UNCHANGED <<server, network, base, copy, opened>>

\* The editor saves, or saves again what it could not.
Confirm(c) ==
    /\ In(session[c], "EDIT_EDITING") \/ In(session[c], "EDIT_SAVE_FAILED")
    /\ sent < MaxSends
    /\ Happens(c, [type |-> "CMD_CONFIRM"])
    /\ sent' = sent + 1
    /\ saves' = saves \union { [client |-> c, number |-> sent + 1,
                                base |-> base[c], delta |-> draft[c]] }
    /\ UNCHANGED <<server, answers, editor, copy>>

\* With the session the draft ends.
Closes(c) ==
    IF session'[c].state \in TERMINAL_TASK_STATES
    THEN base' = [base EXCEPT ![c] = 0] /\ draft' = [draft EXCEPT ![c] = <<>>]
    ELSE UNCHANGED <<base, draft>>

\* A timeout or an error, while it waits or at any other time.
GiveUp(c) ==
    /\ session[c].state = "WORKING"
    /\ \E recoverable \in BOOLEAN, type \in {"DEVICE_SAVE_FAILED", "DEVICE_ERROR"} :
         Happens(c, [type |-> type, recoverable |-> recoverable])
    /\ Closes(c)
    /\ UNCHANGED <<server, network, copy, opened>>

\* After a reset the next visit begins.
Leave(c) ==
    /\ \E type \in {"CMD_CANCEL", "CMD_RESET"} : Happens(c, [type |-> type])
    /\ session'[c] # session[c]
    /\ Closes(c)
    /\ opened' = [opened EXCEPT ![c] = sent]
    /\ stored' = { done \in stored : done.client # c }
    /\ UNCHANGED <<map, owed, network, copy>>

\* An answer counts for the visit it was asked in; an editor ignores older ones.
Answer(c) ==
    \E answer \in answers :
      /\ answer.client = c
      /\ answers' = answers \ {answer}
      /\ IF answer.number > opened[c] THEN Happens(c, [type |-> "DEVICE_SAVE_OK"])
         ELSE UNCHANGED session
      /\ Closes(c)
      /\ UNCHANGED <<server, sent, saves, copy, opened>>

(********************************* A planner ********************************)

Read(p) ==
    /\ copy' = [copy EXCEPT ![p] = map]
    /\ UNCHANGED <<server, network, session, editor>>

(******************************* The simulator ******************************)

\* (Mutant: the version follows the request.)
nextVersionOfRequest(requested) == (IF requested = 0 THEN map.version ELSE requested) + 1

nextVersion(requested) ==
    (IF requested > map.version THEN requested ELSE map.version) + 1

\* Ids by what a delta does with them in the end.
LastIn(delta, id) == CHOOSE i \in DOMAIN delta : /\ delta[i].id = id
                                               /\ \A j \in DOMAIN delta : delta[j].id = id => j <= i
Deleted(delta) == { id \in Touched(delta) : delta[LastIn(delta, id)].action = "delete" }

AnswerTo(save) == [client |-> save.client, number |-> save.number]

\* applySemanticSave.  The base is no condition: a save of an old copy is merged, too.
ServeSave ==
    \E save \in saves :
      /\ nextVersion(save.base) <= MaxVersion
      /\ map' = [version |-> nextVersion(save.base),
                 elements |-> mergeIncrements(map.elements, save.delta)]
      /\ saves' = saves \ {save}
      /\ answers' = answers \union { AnswerTo(save) }
      /\ stored' = stored \union { done \in { AnswerTo(save) } : done.number > opened[done.client] }
      /\ owed' = (owed \union Touched(save.delta)) \ Deleted(save.delta)
      /\ UNCHANGED <<session, sent, editor, copy>>

\* A topology edit is refused unless it names the version of the map.
SameVersion(p) == copy[p].version = map.version /\ map.version < MaxVersion

TopologyEdit(elements) ==
    /\ map' = [version |-> map.version + 1, elements |-> elements]
    /\ UNCHANGED <<session, editor, copy, network, stored, owed>>

\* The two pieces get fresh ids, here named for the version that is cut.
CutArea(p) ==
    /\ SameVersion(p)
    /\ \E id \in AreaIds(map.elements) :
         \E pair \in Halves(AreaOf(map.elements, id)) :
              TopologyEdit(Cut(map.elements, id, pair,
                  << <<"piece", map.version, 1>>, <<"piece", map.version, 2>> >>))

MergeAreas(p) ==
    /\ SameVersion(p)
    /\ \E sources \in SUBSET AreaIds(map.elements), result \in Results :
         /\ MayMerge(map.elements, result, sources)
         /\ TopologyEdit(Merged(map.elements, result, sources))

\* map/delete, or a restart of the process: map/list answers with the fixture again.
\* What a planner read before counts for nothing, only it has no way to know.
DropOverride ==
    /\ map # FixtureMap
    /\ map' = FixtureMap /\ owed' = {}
    /\ copy' = [p \in Planners |-> [copy[p] EXCEPT !.elements = <<>>]]
    /\ UNCHANGED <<session, editor, network, stored>>

Next ==
    \/ \E c \in Editors :
         \/ Load(c) \/ Loaded(c) \/ Edit(c) \/ Confirm(c) \/ GiveUp(c) \/ Leave(c) \/ Answer(c)
    \/ \E p \in Planners : Read(p) \/ CutArea(p) \/ MergeAreas(p)
    \/ ServeSave \/ DropOverride

Spec == Init /\ [][Next]_vars

(******************************** Properties ********************************)

\* Sessions are sessions of the reducer, versions grow from the fixture's, and
\* every element has an owner.
TypeOK ==
    /\ map.version \in 1..MaxVersion
    /\ \A i \in DOMAIN map.elements : map.elements[i].source \in Sources
    /\ \A c \in Editors :
         /\ session[c].state \in TASK_STATES /\ session[c].error \in EditErrors
         /\ session[c].phase \in MapEditPhase \union {Null}
         /\ session[c].dirty \in BOOLEAN
         /\ base[c] \in 0..MaxVersion
         /\ draft[c] \in Deltas \union {<<>>}
         /\ opened[c] \in 0..sent
    /\ sent \in 0..MaxSends

\* A version names one map (as long as the map is not deleted): a planner that read
\* the map's version read the map's elements.  This is what the check of base_version
\* (topologyEdit.ts:32) rests on, and why a save of an old copy must not push the
\* version back (semanticSave.ts:99).
VersionNamesMap ==
    \A p \in Planners :
      copy[p].elements # <<>> /\ copy[p].version = map.version => copy[p].elements = map.elements

\* However areas are cut and merged and drawings are saved, the boundaries go on to
\* share out the lawn: no ground is lost and none belongs to two areas.
GroundSharedOut ==
    LET areas == Boundaries(map.elements)
        Lawn  == UNION { Fixture[i].cells : i \in Boundaries(Fixture) }
    IN  /\ UNION { map.elements[i].cells : i \in areas } = Lawn
        /\ \A i, j \in areas : i # j => map.elements[i].cells \intersect map.elements[j].cells = {}

\* What was saved stays in the map, as the app's, until a save deletes it: neither
\* another editor's delta nor a cut or a merge takes it away (semanticSave.ts:4-9).
SavedStays ==
    \A id \in owed : \E i \in DOMAIN map.elements :
      map.elements[i].id = id /\ map.elements[i].source = "app"

\* A session that is completed has stored the draft of this visit, whichever of its
\* attempts was answered.
CompletedIsStored ==
    \A c \in Editors :
      session[c].state = "COMPLETED" =>
        \E done \in stored : done.client = c

=============================================================================
