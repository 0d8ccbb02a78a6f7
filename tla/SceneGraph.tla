----------------------------- MODULE SceneGraph -----------------------------
(***************************************************************************)
(* One world and its scene file under the operations the editor offers:    *)
(* the entity panel creates entities under the ones it shows, drags one    *)
(* onto another and destroys one with its subtree; the keyboard duplicates *)
(* and deletes selected entities; the scene is saved and loaded.           *)
(***************************************************************************)
EXTENDS World

VARIABLES
  world,   \* engine.world^
  file     \* the scene file at world.file_path

vars == <<world, file>>

Init ==
  /\ world = CreateWorld
  /\ file = SerializeWorld(CreateWorld)

\* generate_uuid: a handle no world, file or local id table has ever held.
Fresh(h) == h \notin world.objects \union EverNamed(world) \union DOMAIN file

\* Bound of the model, not of the code.
RoomForOneMore == world.next_local_id <= MaxLocalId

\* entity_create_menu, on the root or on an entity of the panel.
Create(h, p) ==
  /\ Fresh(h) /\ RoomForOneMore
  /\ p \in Visited(world)
  /\ world' = NewObject(world, h, p)
  /\ UNCHANGED file

\* duplicate_entity makes the copy under the root and leaves the children.
Duplicate(src, h) ==
  /\ src \in world.objects \ {Root}
  /\ Fresh(h) /\ RoomForOneMore
  /\ world' = NewObject(world, h, Root)
  /\ UNCHANGED file

\* A panel row is dropped on another row, or on the space below for the root.
\* Dear ImGui offers no drop target on the row being dragged.
Reparent(c, p) ==
  /\ c \in Visited(world) \ {Root}
  /\ p \in Visited(world) \ {c}
  /\ world' = ReparentEntity(world, c, p)
  /\ UNCHANGED file

Delete(h) ==
  /\ h \in world.objects \ {Root}
  /\ world' = DeleteObject(world, h)
  /\ UNCHANGED file

Save ==
  /\ file' = SerializeWorld(world)
  /\ UNCHANGED world

Load ==
  /\ Cardinality(DOMAIN file) <= MaxLocalId
  /\ \E num \in Numberings(DOMAIN file) : world' = DeserializeWorld(file, num)
  /\ UNCHANGED file

Next ==
  \/ \E h \in Entity, p \in Handle : Create(h, p) \/ Duplicate(p, h) \/ Reparent(h, p)
  \/ \E h \in Entity : Delete(h)
  \/ Save
  \/ Load

Spec == Init /\ [][Next]_vars

----------------------------------------------------------------------------
(* Properties *)

TypeOK ==
  /\ world \in WorldType
  /\ file \in SceneFiles

(***************************************************************************)
(* The two representations of the hierarchy agree: the children list of p  *)
(* holds exactly the living entities whose parent is p, each of them once, *)
(* and only living handles have or are parents.  add_child, remove_child,  *)
(* delete_object and the two phases of deserialize_world all have to keep  *)
(* it, or an entity is updated twice, not at all, or after its death.      *)
(***************************************************************************)
ParentAlive(w) ==
  /\ Root \in w.objects
  /\ \A h \in Handle : w.parent[h] \in w.objects

KidsAreTheChildren(w) ==
  \A p, c \in Handle :
    w.kids[p][c] = IF c \in w.objects \ {Root} /\ w.parent[c] = p THEN 1 ELSE 0

HierarchyConsistent == ParentAlive(world) /\ KidsAreTheChildren(world)

(***************************************************************************)
(* The object picking pass writes local ids and the editor maps the pixel  *)
(* under the mouse back through local_id_to_uuid: every living entity is   *)
(* found under its own id, so no two share one, also after deletions and   *)
(* after a load has renumbered them.                                       *)
(***************************************************************************)
FoundUnderTheirIds(w) ==
  \A h \in w.objects \ {Root} :
    /\ w.local_id[h] \in LocalId
    /\ w.local_id[h] < w.next_local_id
    /\ w.local_id_to_uuid[w.local_id[h]] = h

PickingFindsTheEntity == FoundUnderTheirIds(world)

(***************************************************************************)
(* A local id names one entity for as long as the world exists: delete     *)
(* leaves its entry in the table, so an id read back from the picking      *)
(* image of the frame before never selects another entity than the one     *)
(* that was drawn.  Only a load, which starts a new world, may rename it.  *)
(***************************************************************************)
LocalIdsNeverReused ==
  [][Load \/ \A i \in LocalId :
        world.local_id_to_uuid[i] \in {Root, world'.local_id_to_uuid[i]}]_vars

(***************************************************************************)
(* The recursions from the root lose sight of an entity in one way only:   *)
(* it, or an ancestor of it, was dropped on a row below itself.  Deleting, *)
(* duplicating and the other moves leave everything within reach.          *)
(***************************************************************************)
DropBelowItself == \E c \in Entity : \E p \in Subtree(world, c) : Reparent(c, p)

LostOnlyByDropBelowItself ==
  [][\/ world'.objects \ Visited(world') \subseteq world.objects \ Visited(world)
     \/ DropBelowItself
     \/ Load]_vars

(***************************************************************************)
(* ComponentVTable.update is "Called every frame" (entity.odin:27), so     *)
(* the recursion of world_update visits every entity of the world.         *)
(***************************************************************************)
EveryEntityUpdated == world.objects = Visited(world)

----------------------------------------------------------------------------
(***************************************************************************)
(* Seen through parent links alone the scene graph is a SceneTree: the     *)
(* recursion over children lists destroys what the parent links say.       *)
(***************************************************************************)
Tree == INSTANCE SceneTree WITH
          live <- world.objects \ {Root},
          up   <- SerializeWorld(world)

ImplementsTree == Tree!Spec
=============================================================================
