----------------------------- MODULE EditorScene -----------------------------
(***************************************************************************)
(* The editor around one scene while it is being edited: the selection,    *)
(* mouse picking, the keyboard, the Scene menu, the Properties window and  *)
(* the entity panel, in the order in which editor_update runs them.  A     *)
(* frame handles the queued events, then draws the menu bar, then          *)
(* Properties, then the entity panel, and at last renders the scene and    *)
(* the object picking image that the clicks of the next frame read.        *)
(***************************************************************************)
EXTENDS SceneGraph, SequencesExt

CONSTANTS
  NoEntity,    \* nil of Maybe(EntityHandle); no drag in progress
  PixelValues, \* the object ids one byte of the picking image can hold (256)
  MaxSmall     \* bound of the model: a world with more entities is not saved,
               \* and the swapchain is not out of date while it is shown

ASSUME NoEntityAssumption == NoEntity \notin Handle
ASSUME PixelAssumption == PixelValues \in Nat \ {0}
ASSUME MaxSmallAssumption == MaxSmall \in Nat

VARIABLES
  phase,             \* the part of the frame that runs next
  entity_selection,  \* Editor.entity_selection
  selected_entity,   \* Editor.selected_entity
  outlined,          \* the entities with .Outlined in their flags
  image,             \* the picking image: the entity each drawn local id stood for
  outdated,          \* history: a world was loaded since the image was drawn
  drag,              \* the handle in the WORLD_TREENODE payload
  status             \* "crashed" after a nil dereference or a failed assertion

editorVars == <<phase, entity_selection, selected_entity, outlined, image, outdated, drag,
                status>>
allVars    == <<world, file, editorVars>>

EditorInit ==
  /\ Init
  /\ phase = "events"
  /\ entity_selection = {} /\ selected_entity = NoEntity /\ outlined = {}
  /\ image = {} /\ outdated = FALSE
  /\ drag = NoEntity
  /\ status = "ok"

SmallEnough == Cardinality(world.objects \ {Root}) <= MaxSmall

At(p) == status = "ok" /\ phase = p

\* While a row is dragged the mouse button is down and clicks nothing else.
MouseFree == drag = NoEntity

\* Of a crashed editor only the file is left.
Crash ==
  /\ status' = "crashed"
  /\ world' = CreateWorld
  /\ phase' = "events"
  /\ entity_selection' = {} /\ selected_entity' = NoEntity /\ outlined' = {}
  /\ image' = {} /\ outdated' = FALSE
  /\ drag' = NoEntity
  /\ UNCHANGED file

----------------------------------------------------------------------------
(* The selection *)

\* Planted bug: the outlines stay.
AfterResetOutlined == outlined

\* reset_selection takes the outline off the selected entities that still exist.
AfterReset == outlined \ entity_selection

\* Planted bug: the root is selected like any other entity.
SelectEntityEvenRoot(h, reset) ==
  IF h \notin world.objects THEN Crash
  ELSE /\ entity_selection' = {h} \union (IF reset THEN {} ELSE entity_selection)
       /\ outlined' = {h} \union (IF reset THEN AfterReset ELSE outlined)
       /\ selected_entity' = h
       /\ UNCHANGED <<world, file, phase, image, outdated, drag, status>>

\* Planted bug: a click on nothing forgets the selection, not the selected entity.
SelectEntityKeepingLast(h, reset) ==
  IF h # Root /\ h \notin world.objects THEN Crash
  ELSE LET new == IF h = Root THEN {} ELSE {h}
       IN  /\ entity_selection' = new \union (IF reset THEN {} ELSE entity_selection)
           /\ outlined' = new \union (IF reset THEN AfterReset ELSE outlined)
           /\ selected_entity' = IF h = Root THEN selected_entity ELSE h
           /\ UNCHANGED <<world, file, phase, image, outdated, drag, status>>

\* select_entity; a handle that is gone makes get_object nil, dereferenced for
\* its flags.  Handle 0 leaves nothing selected.
SelectEntity(h, reset) ==
  IF h # Root /\ h \notin world.objects THEN Crash
  ELSE LET new == IF h = Root THEN {} ELSE {h}
       IN  /\ entity_selection' = new \union (IF reset THEN {} ELSE entity_selection)
           /\ outlined' = new \union (IF reset THEN AfterReset ELSE outlined)
           /\ selected_entity' = IF h = Root THEN NoEntity ELSE h
           /\ UNCHANGED <<world, file, phase, image, outdated, drag, status>>

----------------------------------------------------------------------------
(* Events *)

\* The map lookup on one byte of the local id under the mouse: the byte read is
\* that of any drawn id, or zero where nothing is drawn.
PickedHandle(pixel) == IF pixel \in LocalId THEN world.local_id_to_uuid[pixel] ELSE Root

Pixels == {0} \union {i % PixelValues : i \in {d[1] : d \in image}}

ClickViewport ==
  /\ At("events") /\ MouseFree
  /\ \E pixel \in Pixels, shift \in BOOLEAN : SelectEntity(PickedHandle(pixel), ~shift)

\* The Delete key: the selection itself is left as it is.  On a handle that is
\* gone, maybe with an ancestor deleted just before, delete_object does nothing.
DeleteKey ==
  /\ At("events")
  /\ \E order \in SetToSeqs(entity_selection) :
       world' = FoldLeft(DeleteObject, world, order)
  /\ outlined' = outlined \intersect world'.objects
  /\ UNCHANGED <<file, phase, entity_selection, selected_entity, image, outdated, drag, status>>

\* duplicate_entity makes the copy under the root.
CopyObject(w, h) == NewObject(w, h, Root)

\* Ctrl+D: a copy of each selected entity, in any order; the copies end up
\* selected, and the last one is the selected entity.  duplicate_entity reads the
\* original where it was before the copy made the map grow.
DuplicateKey ==
  /\ At("events")
  /\ \/ entity_selection # {} /\ Crash
     \/ /\ entity_selection \subseteq world.objects
        /\ \E copies \in {s \in SetToAllKPermutations(Entity) :
                          Len(s) = Cardinality(entity_selection)} :
             /\ \A i \in DOMAIN copies : Fresh(copies[i])
             /\ world.next_local_id + Len(copies) <= MaxLocalId + 1
             /\ world' = FoldLeft(CopyObject, world, copies)
             /\ entity_selection' = ToSet(copies)
             /\ selected_entity' = IF copies = <<>> THEN selected_entity ELSE Last(copies)
             /\ outlined' = AfterReset \union ToSet(copies)
             /\ UNCHANGED <<file, phase, image, outdated, drag, status>>

SaveKey ==
  /\ At("events")
  /\ SmallEnough /\ Save
  /\ UNCHANGED editorVars

EventsDone ==
  /\ At("events")
  /\ phase' = "menu"
  /\ UNCHANGED <<world, file, entity_selection, selected_entity, outlined, image, outdated, drag, status>>

----------------------------------------------------------------------------
(* The user interface of one frame *)

SaveMenu ==
  /\ At("menu") /\ MouseFree
  /\ SmallEnough /\ Save
  /\ UNCHANGED editorVars

\* Scene > Load hands world.file_path to deserialize_world, which frees that
\* string with the world before it opens the file.  What is read then is either
\* still the path, or it names no file and the first field read from the empty
\* document fails its assertion.
LoadMenu ==
  /\ At("menu") /\ MouseFree
  /\ \/ /\ Load
        /\ outlined' = {}
        /\ outdated' = TRUE
        /\ UNCHANGED <<phase, entity_selection, selected_entity, image, drag, status>>
     \/ Crash

\* editor_entidor, drawn every frame.
Properties ==
  /\ At("menu")
  /\ selected_entity' =
       IF Cardinality(entity_selection) = 1 /\ entity_selection \intersect world.objects = {}
       THEN NoEntity ELSE selected_entity
  /\ phase' = "panel"
  /\ UNCHANGED <<world, file, entity_selection, outlined, image, outdated, drag, status>>

\* The context menu of a row, or of the empty space for the root.  The rows being
\* drawn go on with children lists where they were before the map grew.
CreateMenu ==
  /\ At("panel") /\ MouseFree
  /\ \/ /\ \E h \in Entity, p \in Handle : Create(h, p)
        /\ UNCHANGED editorVars
     \/ Crash

ClickRow ==
  /\ At("panel") /\ MouseFree
  /\ \E h \in Visited(world) \ {Root}, shift \in BOOLEAN : SelectEntity(h, ~shift)

DragRow ==
  /\ At("panel") /\ MouseFree
  /\ drag' \in Visited(world) \ {Root}
  /\ UNCHANGED <<world, file, phase, entity_selection, selected_entity, outlined, image, outdated, status>>

\* The payload is a handle: the Delete key may have removed its entity in the
\* frame of the drop, and reparent_entity dereferences a nil pointer.
DropRow ==
  /\ At("panel")
  /\ drag # NoEntity
  /\ IF drag \notin world.objects THEN Crash
     ELSE /\ \E p \in Handle : Reparent(drag, p)
          /\ drag' = NoEntity
          /\ UNCHANGED <<phase, entity_selection, selected_entity, outlined, image, outdated, status>>

\* The mouse button is released elsewhere.
DropOutside ==
  /\ At("panel")
  /\ drag # NoEntity
  /\ drag' = NoEntity
  /\ UNCHANGED <<world, file, phase, entity_selection, selected_entity, outlined, image, outdated, status>>

\* "Destroy" in the context menu of a row.  An open row goes on to draw the rows
\* of the children list it has just freed: it finds nothing there, or a handle
\* no object has.
DestroyRow ==
  /\ At("panel") /\ MouseFree
  /\ \E h \in Visited(world) \ {Root} :
       \/ /\ Delete(h)
          /\ outlined' = outlined \intersect world'.objects
          /\ UNCHANGED <<phase, entity_selection, selected_entity, image, outdated, drag, status>>
       \/ Subtree(world, h) # {h} /\ Crash

\* editor_draw: every entity may have a mesh on screen, also a lost one.  While
\* the swapchain is out of date nothing is drawn.  A payload lives on into the
\* next frame, whether or not the row it came from is still drawn.
RenderFrame ==
  /\ At("panel")
  /\ phase' = "events"
  /\ \/ image' = {<<world.local_id[h], h>> : h \in world.objects \ {Root}} /\ outdated' = FALSE
     \/ SmallEnough /\ UNCHANGED <<image, outdated>>
  /\ UNCHANGED <<world, file, entity_selection, selected_entity, outlined, drag, status>>

EditorNext ==
  \/ ClickViewport \/ DeleteKey \/ DuplicateKey \/ SaveKey \/ EventsDone
  \/ SaveMenu \/ LoadMenu \/ Properties
  \/ CreateMenu \/ ClickRow \/ DragRow \/ DropRow \/ DropOutside \/ DestroyRow
  \/ RenderFrame

EditorSpec == EditorInit /\ [][EditorNext]_allVars

----------------------------------------------------------------------------
(* Properties *)

EditorTypeOK ==
  /\ TypeOK
  /\ phase \in {"events", "menu", "panel"}
  /\ entity_selection \subseteq Entity
  /\ selected_entity \in Entity \union {NoEntity}
  /\ outlined \subseteq Entity
  /\ image \subseteq LocalId \X Entity
  /\ outdated \in BOOLEAN
  /\ drag \in Entity \union {NoEntity}
  /\ status \in {"ok", "crashed"}

(***************************************************************************)
(* An entity with the outline flag is selected: whatever mixture of        *)
(* clicks, shift-clicks, duplications (which copy the flags), deletions    *)
(* and loads came before, no entity keeps its outline after it has left    *)
(* the selection.                                                          *)
(***************************************************************************)
OutlineOnlyWhileSelected == outlined \subseteq entity_selection \intersect world.objects

(***************************************************************************)
(* Add Component and Remove Component act on selected_entity while the     *)
(* Properties window shows the only member of entity_selection: the two    *)
(* never name different entities.                                          *)
(***************************************************************************)
PropertiesActOnWhatTheyShow ==
  selected_entity # NoEntity => selected_entity \in entity_selection

(***************************************************************************)
(* Local ids go through an image some frames old and a table that is never *)
(* cleaned: as long as the world is the one that was drawn, the handle     *)
(* found for a pixel is that of an entity drawn there, alive or not, and   *)
(* never of one that has taken over its id.                                *)
(***************************************************************************)
PickingNamesDrawnEntities ==
  status = "ok" /\ phase = "events" /\ ~outdated =>
    \A pixel \in Pixels : PickedHandle(pixel) \in {Root} \union {d[2] : d \in image}

(***************************************************************************)
(* The Delete key deletes the selected entities one by one in the order of *)
(* a map, and each deletion takes the entities below along: a selected     *)
(* entity may be gone before its turn, or lose its place in the tree.      *)
(* Whatever the order, and also in what a drop has cut off from the root,  *)
(* the selected entities and all that was below any of them are gone, and  *)
(* no other.                                                               *)
(***************************************************************************)
DeleteKeyRemovesTheSelection ==
  [][DeleteKey => world'.objects =
       world.objects \ UNION {Subtree(world, h) : h \in entity_selection}]_allVars

(***************************************************************************)
(* "Entity selection is invalide, reset it" (editor.odin:978): once the    *)
(* Properties window has met a selection whose entity is gone, nothing     *)
(* selected is left.                                                       *)
(***************************************************************************)
InvalidSelectionIsReset ==
  [][Properties /\ Cardinality(entity_selection) = 1
       => entity_selection' \subseteq world.objects]_allVars
=============================================================================
