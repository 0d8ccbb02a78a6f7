# Engin3: a verification project

Engin3 is a game engine with an editor, written in Odin. Its own code is in
`src/engine`; `src/packages` is vendored. This directory holds TLA+ models of
the parts of it that keep state over many calls, the TLC configurations that
check them on small instances, and proofs that TLAPS checks for every value of
the constants. The code has no tests; the models are written from the code.

`PROJECT.json` names, for every definition, the lines it stands for.

## The system

One thread runs the main loop (`main.odin`, `engine.odin`): poll the events,
`editor_update`, `editor_draw`, `flush_input`. Other threads are the file watcher
(Windows; on Linux the thread procedure exists and is not started), the worker
threads of the Jolt physics library, and the GPU.

| part | state | operations | what makes it correct |
|---|---|---|---|
| scene graph (`entity.odin`) | `objects`, each with `parent`, `children`, `local_id`; `local_id_to_uuid`, `next_local_id`; the scene file | new, duplicate, reparent, delete (recursive), save, load (two passes), update (recursive) | lists and parent links agree; everything is reachable; local ids name one entity; deleting takes the subtree |
| selection and picking (`editor.odin`, `object_picking_renderpass.odin`, `gpu.odin`) | `entity_selection`, `selected_entity`, the `.Outlined` flag of entities, the picking image, the drag payload | click, shift-click, Ctrl+D, Delete, rows of the entity panel, Properties | the three representations of the selection agree; an id read back from an old image names what was drawn; no dead handle is used |
| play, pause, stop (`editor.odin`) | `state`, `next_play_state`, `is_detached`, `editor_world`, `runtime_world`, the scene assets and their files | toolstrip buttons; opening, deleting, saving, loading a scene | Stop returns to the scene of Play; the running world shares no memory with the edited one; no freed world is read |
| undo, redo (`undo_redo.odin`) | items with addresses and old bytes, by stack and by tag | push, commit, undo, redo | every edit has an item, every item an edit; undoing and redoing everything restores |
| frame loop (`new_renderer.odin`, `gpu/swapchain.odin`, `gpu/descriptors.odin`, `gpu/stats.odin`) | fences, semaphores, frame indices, pools of descriptor sets, queries | begin frame, allocate, end frame, resize | nothing is reused while the GPU needs it; pools neither lost nor shared; no wait for ever |
| input (`events.odin`) | key and mouse states, event queue | GLFW callbacks, `flush_input` | each press is seen for one frame |
| notifications (`editor.odin`) | array, mutex | push (any thread), render and close | never more than ten, none lost |
| assets and watcher (`assets.odin`, `filesystem/`) | registry and its file, loaded assets, files and folders | register, create, import, reimport (watcher), rename, delete, exit, crash | assets follow their files; none is forgotten; no file is lost; a path has one asset |
| components, physics (`components.odin`, `physics.odin`) | component values, Jolt bodies and the handles in them | add, copy, init, update, remove, destroy, contacts | one body per rigid body; destroyed once; none left behind |
| serializer (`serializer.odin`) | a Lua stack | begin/end table, fields | the stack is balanced; what is written is read |
| scripting, projects, GPU wrappers, shaders, models, logging, dialogs, the OpenGL renderer | | | see `PROJECT.json`: I/O, stateless or superseded |

How they meet: `editor_update` handles the events (selection, keys, picking from
the image of the last drawn frame), then draws the menu bar, Properties and the
entity panel, each of which changes the world; then the world is updated;
`editor_draw` renders it, with the local ids into the picking image, between
`r3d_begin_frame` and `r3d_end_frame`. When the swapchain is out of date the
frame is not drawn and the picking image stays that of an earlier frame.

Hard to test here: handles and addresses that outlive what they name, between
handlers of one frame and between frames (entities, worlds, slots of maps, bodies);
two representations of one thing (children and parents; selection, selected entity
and outline flags; the two worlds of a run; the registry and its file; frame counts
of the swapchain and of the allocator); the CPU and the GPU; the watcher thread; a
crash between two writes. `PROJECT.json` lists each under "hazards" with its line.

## Modules

Constants are parameters with named assumptions. A definition named in a comment
"Planted bug" is not part of a model: it is a wrong form of the definition that
follows it, with which a run must fail (`PROJECT.json`, "mutants").

* **World** - a world as a value, with one operator per procedure of
  `entity.odin`: `AddChild`, `RemoveChild`, `ReparentEntity`, `NewObject`,
  `DeleteObject`, `SerializeWorld`, `DeserializeWorld`. A children list is a bag
  (the panel sorts each list whenever it draws it); names, transforms and
  components are left out. The UUIDs of `generate_uuid` are the set `Entity`; handle 0
  is `Root`. A recursion over children lists is a least set (`Subtree`), so that the
  module has no recursive operator and can be proved about.
* **SceneTree** - the abstract specification: living entities and their parent
  links, made, moved, destroyed with all below them, or replaced as a whole.
* **SceneGraph** - one world and its file under the operations of the editor:
  `Create`, `Duplicate`, `Reparent`, `Delete`, `Save`, `Load`.
* **SceneLoad** - the two loops of `deserialize_world` as they are, compared with the closed
  form that `Load` uses, for every order of the entities in the file.
* **SceneAlgorithms** - `delete_object` and `world_update` as the recursions they are,
  compared with the closed forms of World in every state the scene graph reaches. Each is a
  function of the calls its stack has room for (`DeleteObjectRec[depth]`, `UpdateObject[depth]`)
  and not a recursive operator, so that it can be proved about. A call that finds no room
  (`NoRoomToDelete`, `NoRoomToUpdate`) shows in the result, and the properties give room for one call
  per entity only (and the root, in an update): they say as well that the recursions end.
* **SceneGraphProofs** - the theorems about SceneGraph, SceneLoad, SceneAlgorithms and EditorScene.
* **EditorScene** - SceneGraph with the editor around it in the Edit state. A frame
  is the phases `events` (click, Delete, Ctrl+D, Ctrl+S), `menu` (Scene > Save and
  Load, then Properties) and `panel` (rows: click, drag, drop, create, destroy, then
  the frame is rendered or, out of date, skipped). A handler that dereferences nil
  or fails an assertion leads to `Crash`. Reads of freed memory are a choice:
  Scene > Load reads the path its own `destroy_world` freed, Destroy on an open row
  walks a freed list, and the two handlers that keep addresses while they insert
  into the map of objects may meet it moved; each either goes well or crashes. A drag payload
  lives until the mouse button is released, whatever becomes of the entity it names. Where the
  code uses a handle without a check, the model crashes too, and no property says that
  it does not.
* **FoldFacts** - induction over a left fold, with the procedure and the claim as constants, and the
  unfolding of a recursive function on the numbers (`RecursionHasSolution`); SceneGraphProofs and UndoRedoProofs instantiate it for the handlers that work through a list.
* **FrameLoop** - the CPU (`BeginFrame`, `AcquireFails`, `Resize`, `AllocSet`,
  `EndFrame`, `Collect`) against the GPU (`GpuStart`, `GpuFinish`). A descriptor set
  is a pool and a slot; `bound` are those of the frame being recorded, `queue` the
  submissions with the sets they read. `Frames` is `MAX_FRAMES_IN_FLIGHT`.
* **FrameLoopProofs** - the theorems about FrameLoop.
* **PlayMode** - the three states of the toolstrip and the worlds behind them. What is
  modelled of a world is the struct with its map header and path, and of a map its
  address, whether it is allocated, its contents as a version, and which structs its
  parent entities name (`go.world`, through which `world_update` finds children).
  `OnScenePlay` saves, destroys and fills `runtime_world`, and copies the struct of the
  open world into `editor_world`: the two then share one map header. `GoToState` is the
  nested switch of `editor_go_to_state`, with `is_detached` as each button sets it.
  `OpenScene` (a drop on the viewport), `DeleteScene`, `Save`, `Load`, `AddEntity`,
  `AddEntityGrowing` (the map moves) and `EditField` happen in any state, and so do Ctrl+Z and
  Ctrl+Y, which write through the addresses in the items: into the map the item was made for,
  open or not (`Undo`; during a run this is the edited world), into another map at the address
  of one that was freed (`UndoIntoAnother`), or into freed memory (`UndoIntoFreed`). `items` and
  `dangling` are the maps that items point into, there and freed. A read of freed memory may
  go well or end the program (`Fault`).
* **PlayModeProofs** - the theorems about PlayMode.
* **UndoRedo** - one operator for each procedure of `undo_redo.odin` (`Push`, `PushSingle`,
  `Commit`, `CommitSingle`, `MoveItem`) over items that are a slot of the map of
  objects and a field. Three phases of a frame drive them: keys, viewport and gizmo;
  Properties, which pushes two fields in every frame and others when a widget is
  activated; the entity panel, with the commit at the end. An insertion or an erasure
  gives every entity any slot (`Places`), for a map of Odin promises no more. A gizmo writes
  position, rotation and scale, decomposed from a matrix (`Decomposed`, any values of the
  three), and then pushes the address of the one field it is for: of the other two the
  history `status` says that they have leaked past the items. The
  history `status` says of each field whether all its changes went through items. The loop
  of a commit is a fold (`ChangedItems`).
* **UndoRedoProofs** - the theorems about UndoRedo.
* **AssetRegistry** - the registry, its file, the loaded assets, folders and files. A path
  is a sequence of names; `Extends` says which names begin with the text of another, so
  that `strings.has_prefix` is what it is. `Shown` is what of a name comes before its first zero
  byte: New > Scene registers a name padded with zeros, whose file gets the text before them
  (`Cut`), and which the registry file gives back without them (`OnFile`). `os.rename` may fail for
  any reason, after the path of the asset has changed. Operations that write two files have a state
  between them (`step`), in which a crash may come; the watcher's thread
  (`FileChanged`, `Reimported`) interleaves with all of them.
* **AssetRegistryProofs** - the theorems about AssetRegistry.
* **Notifications** - `editor_push_notification` in three steps (check, lock, append) on
  any thread, and the removal in two steps on the main thread, which takes no lock.
* **NotificationsProofs** - the theorems about Notifications.
* **RigidBodies** - components with their body ids, the bodies of Jolt with the handles
  they hold, and which world is open, across runs. `floating` are the entities that no recursion
  from the root reaches, for they hang in or below a cycle of parents (`DropBelowItself`):
  `destroy_world` does not come to their components, whose bodies stay (`stranded`). `Fault` names what ends the program:
  a body destroyed twice, a contact whose entity is not found, no room for a body.
* **RigidBodiesProofs** - the theorems about RigidBodies.
* **MCSceneGraph, MCEditorScene, MCPlayMode, MCUndoRedo, MCAssetRegistry,
  MCNotifications, MCRigidBodies** - the instances for TLC.

The modules meet in the operations they share: Play and Stop in PlayMode (memory) and
RigidBodies (bodies); Delete, Ctrl+D and the panel in SceneGraph and EditorScene
(hierarchy, selection), UndoRedo (slots) and RigidBodies (components); a scene asset in
AssetRegistry (its path) and PlayMode (its world). Each module models the whole handler
as far as its own variables go.

## Runs

| run | shows | bounds |
|---|---|---|
| `scene_graph` | lists and links agree (`HierarchyConsistent`), ids are found and never reused, `delete_object` removes exactly the subtree even when it starts in a cycle of parents, an update visits each entity once and after its parent, a load rebuilds the hierarchy whatever the order of the file, only a drop below itself loses an entity, and all this implements SceneTree | 3 entities, 4 local ids: chains of three, cycles of two and three hanging in the air, a deletion and a creation after it, the entities of a file in every order |
| `scene_graph_lost` | (violation) an entity dropped on its own descendant is not "called every frame" | the same |
| `editor_scene` | no outline outside the selection, Properties acts on what it shows, an id from an old image names what was drawn unless a world was loaded since, and the Delete key removes the selected entities and all below them in whatever order it meets them | 3 entities, 3 local ids, two selected at once; `MaxSmall` = 1: saving, and skipping a frame, only with at most one entity, which still puts a load and an old image between any two phases; symmetry in the entities (safety only) |
| `stale_selection` | (violation) "Entity selection is invalide, reset it" leaves the dead handle selected | the same |
| `frame_loop` | no set, command buffer or semaphore reused too early, pools accounted for and created only when all are full, rendering goes on | 2 images, pools of 2 sets, 3 pools, 5 meshes: a frame that needs three pools, one that needs none, resizes at every acquire |
| `play_mode` | the running world has a map of its own in every run; frames read freed memory only after a Stop or the deletion of a scene; only Ctrl+Z and Ctrl+Y reach the edited world during the first run; what was simulated comes back only through a saved file, an opened scene or an undo into memory that is in use again; items lose their map only when the open world gets another | 2 scenes, 3 addresses of maps, worlds of 2 versions (`MaxEdits`). A Play needs fewer than 2 (`MaxSessions`) Stops and maps with items before it, and an edit leaves an item while these, with its own, are at most 1 (`MaxItems`). Without items: two runs, a map that grows after a Stop, an address in use again, a scene opened during a run and another Play from it. With items: an edit, Play, and its undo during the run and after Stop; a Load that frees the map of an item, a map at that address again, and an undo into it. Symmetry in scenes and addresses |
| `undo_redo` | undoing everything restores, redoing everything returns, commits record edits only, also while entities change their slots | 2 entities in 2 slots, values 0 and 1; Properties edits the scale, and a gizmo changes the position and writes the scale with it. Items in the stacks and changes of the map are at most 2 together (`MaxItems`), of which 1 may be a change of the map (`MaxMoves`): an edit between undo and redo, a redo that waits for a field that the gizmo changes without an item; a swap, a move, a birth where another lived, each between push and commit or between undo and redo |
| `edits_lost` | (violation) "Push on start edit, commit on stop edit": the edit of a rotation leaves no item | the widget of the rotation |
| `asset_registry` | assets are saved and loaded ones registered, assets follow their files through renames that do not fail, a file is lost only by an import or a new scene over it | 2 assets, 2 files, a name and the same padded with zeros, folders `a` and `ab` nested twice, 2 folders at once: a folder moved into another, a sibling whose name begins alike, a rename that fails with the folder there, a scene created over a file, a crash in every gap |
| `second_handle` | (violation) "Returns the asset handle of the asset located at `path`": a path can have two | the same |
| `notifications` | the limit holds while threads take turns; nothing is lost unless an append overlaps with a removal | 3 threads, limit 2, 5 messages: three threads past the check at once, a push after the limit was exceeded |
| `rigid_bodies` | components that were never copied own their body; bodies name living entities; Stop leaves none, but those of overwritten components and of floating entities | 3 entities, 3 bodies, room for 3: a second run after a leak, a cycle of two with an entity below the root, a copy of a copy, another scene open at Stop |

Deadlock is checked in `scene_graph`, `frame_loop` and `asset_registry`. Not in the others: in
`editor_scene`, `play_mode` and `rigid_bodies` a crashed program stops, and in `undo_redo` and
`notifications` the bounds on items and messages stop the model.

What the violations mean. `reparent_entity` (`entity.odin:429`) and the rows that call it
(`editor.odin:1937`) do not ask whether the new parent lies below the entity. The two
then hold each other: they stay in `objects`, are saved and drawn, but no
recursion from the root reaches them. And `editor_entidor` (`editor.odin:977`) resets
`selected_entity` only: the dead handle stays in `entity_selection`, so that Ctrl+D
dereferences nil.

The rotation field pushes the address of the position (`editor.odin:1028`): its commit finds the
position unchanged and drops the item. And `import_external_asset` (`assets.odin:336`) never
asks whether the path is registered: the browser then shows one of the two assets, and deleting
it brings the other to light.

What the properties that hold say about the limits of the code is in their exceptions, which
the runs reach. FreedOnlyAfterAStop and RunningWorldIsItsOwn together say that the shared
map header of `editor_world` is harmless to frames until a Stop, after which the entities still name
the struct of the scene asset; a creation that moves the map then leaves that struct with
the old address. They speak of frames: Scene > Load reads the path it has just freed whenever it is
called, and an undo after it writes into the freed map, with no Stop needed; ItemsDangleWithTheirMap
says when items lose their map. FirstRunKeepsTheEditedWorld excepts Ctrl+Z and Ctrl+Y, which change the
edited world during a run. SimulationReturnsBySaveOrOpen speaks of the time between the first Stop and the next.
UndoAllRestores excepts the fields that an edit changes past the items, as a gizmo does with two
of its three. RedoAllReturns excepts as well those that were edited while a redo
waited, since `undo_commit` leaves the redo items. AssetsFollowTheirFiles excepts a failed `os.rename`,
since `rename_asset` has changed the path by then, and NoFileIsLost both operations that write
without asking, the import and New > Scene. LimitNeedsOverlap and
EachMessageHasItsPlace except what the check before the lock and the removal without it
allow; BodiesBelongToTheirEntities excepts copies, since `rigid_body_copy` copies the body id;
EditHasNoBodies and ContactsFindTheirEntities except what `add_component` overwrites and what
`destroy_world` does not reach: it deletes from the root (`entity.odin:329`), so that the bodies of entities
that hang in a cycle of parents outlive Stop, and once such an entity is deleted, a contact of the
next run may look up an entity that is no longer there (`physics.odin:101`).

`PixelValues` is 256, the byte the code reads, and never reached by three local
ids: that an id above 255 selects another drawn entity is a listed hazard, not checked.

## Fairness

Only `frame_loop` has a liveness property. `FairSpec` asks for weak fairness of the
CPU as a whole (the main loop never yields) and of the GPU as a whole (a device
that is not lost finishes what is submitted). Nothing forces the surface to be
in date: `RenderingGoesOn` says that *if* acquires fail only finitely often, frames are
recorded for ever. No other run assumes fairness.

## Proofs

`SceneGraphProofs`, for any finite set of UUIDs, any root outside it and any bound on the
local ids:

* `Invariance`: `IInv` is inductive. TypeOK and HierarchyConsistent are not inductive
  alone: `NewObject` needs that a fresh handle has no fields, no list it appears
  in and no entry in the table; `DeleteObject` needs that the lists hold each child
  once. `IInv` (`GoodWorld` and a well-formed file) says so for every handle.
* From it `TypeCorrect`, `HierarchyStaysConsistent`, `PickingWorks`, the action
  property `NamesAreForEver` and `Refinement`, which maps each action to a step
  of SceneTree or a stutter.
* `OnlyDropsBelowLose`, the action property LostOnlyByDropBelowItself: one lemma for each
  procedure says that what was visited is visited afterwards (`CreateLosesNothing`,
  `MoveLosesNothing`, `DeleteLosesNothing`). After a move the new parent is still visited,
  for what is visited then is closed under the old lists once the moved subtree is added.
* `LoadsRebuild`, LoadRebuildsTheHierarchy for any number of entities in any order. `ReadSoFar` and
  `ResolvedFrom` are what the two loops have done after some of their turns: an entity that was
  read is under its parent, or under the root and waiting; one that waited is moved once. Both
  are carried through the folds by FoldFacts, and `SameWorld` says that objects, parents and ids
  leave only one world for the end of the loops and the closed form.
* `DeletionsRemoveSubtrees` and `UpdatesFollowParents`, the two properties of SceneAlgorithms, for any
  number of entities: the recursions end, with no more calls inside each other than there are entities.
  Both walk the children lists, so both proofs rest on one description of a walk. `Reach(w, U, h)`
  is what a walk from h comes across when it has met U before; `Walked` is the invariant of the loop
  over the children (`WalkStart`, `WalkStep`, `WalkEnd`). Its hard part is that no child that waits for
  its turn is met through another one, which holds because in a good world each entity is in one
  list, once. A deletion changes the world under its own feet: `Cut` is the world in the
  middle of one, with the handles of U out of their parents' lists and those of X erased, and a
  deletion takes one Cut to another (`DeletesReach`). In an update `GoodOrder` says of what was updated so
  far that nobody is in it twice or before its parent. The induction is over the room on the stack
  (`DeleteDeeper`, `UpdateDeeper`): a call meets one entity more, and so leaves one fewer to meet.

`SceneGraphProofs` on EditorScene, for the same constants, any number of pixel values and selections of any size:

* `EditorInvariance`: `EInv` is `IInv` of the scene graph with EditorTypeOK, the two invariants of
  the selection, and `ImageStillNamed`: while no world was loaded since the image was drawn,
  the table still gives, for each local id in it, the entity that was drawn with it.
  Picking is not inductive without this fact, which rests on the local ids of SceneGraph.
* Ctrl+D and Delete work through the whole selection. That the world stays good for a selection of
  any size is induction over the fold (`CopyAll`, `DeleteAll`, by FoldFacts). The induction is
  over the numbers 0..n, by the well-founded order of the naturals; the library's induction
  theorems cannot be used, for they take an operator as a parameter.
* From it `EditorTypeCorrect`, `OutlinesFollowTheSelection`, `PropertiesShowTheSelected`,
  `EditorKeepsHierarchy` and the action property `DeletesWhatIsSelected`. The latter needs that a
  deletion takes from what is left below a handle only what is gone (`SubtreeOfWhatIsLeft`): since no
  entity is left whose ancestor was deleted, the closed form over the world before the key does
  not depend on the order.
* `PickingIsExact` assumes `MaxLocalId < PixelValues`. The assumption is needed: the id is
  written to a channel of one byte and comes back modulo 256 (see the hazards).

`FrameLoopProofs`, for any positive number of frames in flight, any images and any pools:

* `PoolsInvariant`, by `PoolInv` (pools that do not exist yet are unused; all used pools but the
  current one are full); from it `FrameTypeCorrect`, `PoolsStayAccountedFor`,
  `PoolsGrowWithDemand`.
* With the assumption `Frames = 1`, the value in `swapchain.odin`: `SafeInvariant`, by
  `FenceInv` (the fence is unsignaled while anything is queued, and nothing is
  queued while a frame is recorded), and from it `SetsAreSafe` and
  `FenceCoversReuse`. The assumption is needed: the allocator steps to its next frame at the
  reset and the swapchain at the present, and a resize sets back the swapchain's
  count only, so with `Frames` = 2 TLC finds a reset that frees sets the GPU still reads.

`PlayModeProofs`, for any scenes, addresses and bounds:

* `IInv` adds to the invariants it proves (those of the run, and `ToolstripAgrees` of the three
  buttons and the state) that loaded scenes and the edited world
  of a run know their files (`Typed`), that `runtime_world` has no map before the first
  run (`FirstRun`), and that, as long as nothing was stopped or deleted, each world in use
  owns an allocated map that names no other world, which holds of deleted scenes too
  (`Owned`), that registered scenes that a map names are loaded (`NamesAreLoaded`), and that,
  between the first Stop and the next, what is simulated in the edited world came from a file,
  from the map of a scene, or by an undo into memory in use again (`CleanReturn`). The
  step lemmas say what `FillWorld`, `DestroyWorld` and a growing map leave to the
  other worlds, at one map and one world at a time.
* From it `WorldsKnowTheirFiles`, `ButtonsAgree`, `RunOwnsItsMap`, `FirstStopReturns`,
  `FramesAreSafeAtFirst`, `RunsStayApart` and the action property `ItemsKeepTheirMaps`: until the
  first Stop, `runtime_world` has no map when Play fills it, and a scene none when it is first
  loaded, so that Play and the opening of a scene free no map at all.

`AssetRegistryProofs`, for any handles, files and names, and folders nested to any depth:

* `NoCrashForgetsAnAsset` and `MainThreadLoadsRegisteredAssets`, from one more fact (a material
  that is being written is registered).
* `AssetTypesAreKept`, by `TInv`: AssetTypeOK is not inductive, for a new material is written
  two steps after its path was checked; `MaterialIsNew` says that the check still holds
  then. The work is in the paths: lemmas say part by part what `Moved` and `Rebased` make of a
  path (`Spliced`, `MovedParts`), that it is a path again (`MovedPath`, `RepathPath`), that the
  front of a moved path is the moved front (`MovedFront`), so that no file is left without
  its folder, and that two files never move to one path (`MovedInjective`).
* `PInv` adds that every file has a plain name, and so has a material that is being written: what
  is written at a path with zeros in it is at the path without them.
* From these the action properties `OnlyOverwritesLoseFiles` and `AssetsKeepTheirFiles`. The
  second shows where the exceptions come from: `FollowsRenamedFolder` splits on
  IsPrefix and HasPrefix, and a sibling whose name begins alike keeps its path exactly when the new
  name has one part.

`UndoRedoProofs`, for any entities, slots, widgets and values, stacks of any length and any
number of changes of the map:

* `UndoInvariance`: `UInv` is inductive. It speaks of addresses, not of entities, since that is
  what the items hold. An address is clean when an entity lives there whose field has not leaked;
  no step makes one clean, so that a step is followed at the clean addresses only (`Keeps`).
  For those, `Restores` says that the first item of the stack, or else every open item, or else the
  memory, has the value of the beginning; `Returns` the same of the redo items and the latest value;
  `NoStray` that an open item belongs to the widget in use, without which an item left behind
  by one edit could be committed by another; `Accounted` that bytes that differ from an
  open item were touched by a widget. The three properties of the runs are not inductive without them, and
  `GoodItem` adds that the items of `flags` and `enabled` are bits, for the check box inverts
  what an undo has written.
* From it `UndoTypeCorrect`, `UndoRestores`, `RedoReturns` and the action property
  `CommitsAreExplained`. That a commit keeps the changed items and only those, whatever their
  number, is induction over its fold (`ChangedFacts`, by FoldFacts).

`NotificationsProofs`, for any threads, limit and number of pushes:
`LimitHoldsInTurns`; its invariant says that one thread at most is past the check, and that
the length it has seen leaves room. And `NothingGetsLost`, from `PlaceInv`: what an append or a
removal has read is still the length, the places hold messages of their own, and none is
missing; that an append stays inside the array takes a pigeonhole argument.
`RigidBodiesProofs`, for any entities and bodies: `OwnBodies`, `CallbacksFindEntities` and
`StopEmptiesPhysics`, from an invariant that relates ids given, ids alive and the
components outside a run. A body belongs to a component that is there or to one of the
histories (`dropped`, `stranded`), and `DestroyStep` follows each operation that destroys bodies to
where the rest of them go.

Assumptions of the proofs are the named ASSUMEs of the modules (for SceneGraph those of
World), which every run evaluates on its instance.

Model-checked only:

* `RenderingGoesOn` (liveness under fairness is beyond the prover). All other properties of the
  passing runs are theorems.

## Not modelled

Within the modules:

* In EditorScene: Play/Pause/Stop and undo (PlayMode, UndoRedo), the flags box of Properties
  (which can switch the outline of the selected entity by hand), drops of assets, a picking
  image read before the first frame or just after the viewport was resized.
* In FrameLoop: the presentation engine and its semaphore, the number of
  swapchain images beyond that of the command buffers, failed Vulkan calls (only logged).
* In PlayMode: the entities of a map one by one (it asks only which structs they name), the order of
  the items in the stacks (any item may be the next to be undone), what else a write into memory that is
  in use again destroys, and files that cannot be read or written. An edit and its commit are one
  step. `clear_log_on_play` only concerns the log.
* In UndoRedo: the memory of a map that grew (an item may then point into freed memory, which
  shows as the slot of nobody), the address that `delete_object` uses after `delete_key`,
  the window that lists the items, the 512 bytes of an item.
* In AssetRegistry: the importers, the writing of each kind of asset, and the virtual assets of
  the renderer (registered at start-up, never saved). New > Primitives > Cube is AddFile. A registry file
  that a crash has left empty most likely stops every start until it is removed, which `Crash` takes
  as done. The bounds keep paths to two folders.
* In Notifications: two closed in one frame (one click closes one), and the memory of an array
  that grows while it is drawn.
* In RigidBodies: shapes and motion; Jolt's threads inside one operation of the editor;
  the memory of the component, which `remove_component` frees twice.

Parts without a module, and why:

* **Input events**: one pass from a queue to states per poll; a press and a release in one
  poll are listed as a hazard.
* **Serializer**: the position in a Lua stack within one procedure; what its files mean is in
  World, PlayMode and AssetRegistry. The dump writes the entries of a table in order
  and without gaps, so that assets skipped in the registry lose none of the others.
* **Scripting**: bindings, whose behaviour is that of the scripts.
* **Project files**, **GPU resource wrappers**, **shaders and models**, **logger, arguments, dialogs,
  style, meta generator**: sequential input and output, or calls without state.
* **OpenGL renderer and old runtime**: superseded, reached by no path of the editor.

Most of the repository by size is vendored (`src/packages`: bindings, Tracy, nuklear, the Vulkan
allocator) and is not this program's logic.

## Plan

Done: everything under Modules and Proofs. Left to model: the states of the keys between two
polls (`events.odin`), where a press and a release within one poll leave only the release.
