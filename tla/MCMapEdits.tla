----------------------------- MODULE MCMapEdits -----------------------------
(* An editor and a planner of a lawn of three cells in two areas.  As in the *)
(* fixture, the channel of an area has the area's id.                        *)
EXTENDS MapEdits

North == <<"001">>
South == <<"002">>

MCFixture ==
    << Element(North, FALSE, {}, "robot"), Element(North, TRUE, {1, 2}, "robot"),
       Element(South, TRUE, {3}, "robot") >>

Draws(id, action) ==
    [id |-> <<id>>, boundary |-> FALSE, cells |-> {}, action |-> action, source |-> NoSource]

MCDeltas ==
    { << Draws("fence", "add"), Draws("bed", "add") >>,
      << Draws("fence", "delete"), Draws("bed", "delete"), Draws("bed", "update") >> }

MCResults == { North, <<"joined">> }

ASSUME MCDrawings == Drawings
=============================================================================
