------------------------------ MODULE PlayMode ------------------------------
(***************************************************************************)
(* Edit, Play and Paused, and the worlds behind them.  A World is a struct *)
(* with a map of entities; Play saves the edited world, reads the file     *)
(* into runtime_world, copies the struct of the edited world into          *)
(* editor_world and runs; Stop destroys runtime_world and goes on with     *)
(* editor_world.  The copy shares the map with the struct it was copied    *)
(* from, and the entities keep the address of the struct they were made    *)
(* for, through which world_update looks up their children.  What is       *)
(* modelled of a map is its memory: its address, whether it is allocated,  *)
(* and the structs its parent entities name.  Ctrl+Z and Ctrl+Y write to   *)
(* the addresses of fields inside maps, whichever world is open.           *)
(***************************************************************************)
EXTENDS Naturals, FiniteSets

CONSTANTS
  Scene,           \* the scene assets; each has one file
  Runtime, Editor, \* Editor.runtime_world and Editor.editor_world
  NoWorld,         \* nil, and the file of a world that was never loaded
  MapAddress,      \* addresses the allocator gives to maps (a bound)
  NoMap,           \* the nil map
  MaxEdits,        \* bound of the model on the versions of a world
  MaxSessions,     \* bound of the model on Play: Stops and maps with items before it
  MaxItems         \* bound of the model on the maps with items, and Stops before them

World == Scene \union {Runtime, Editor}

ASSUME WorldAssumption ==
  /\ Runtime # Editor /\ Runtime \notin Scene /\ Editor \notin Scene
  /\ NoWorld \notin World
ASSUME AddressAssumption == NoMap \notin MapAddress
ASSUME BoundAssumption == MaxEdits \in Nat /\ MaxSessions \in Nat /\ MaxItems \in Nat

VARIABLES
  state, next_play_state, is_detached,  \* of Editor
  current,     \* Engine.world
  registered,  \* the scenes the asset manager knows
  loaded,      \* its loaded_assets
  memory,      \* the worlds and their maps, see MemoryType
  file,        \* the contents of the scene files
  items,       \* the live maps that the undo and redo items point into
  dangling,    \* the addresses of freed maps that items still point to
  strayed,     \* history: maps that undo or redo wrote to since Play, see Undo
  entry,       \* history: the contents Play started from
  sessions,    \* history: how often Stop has ended a run
  fault        \* how the program crashed

undo == <<items, dangling, strayed>>
vars == <<state, next_play_state, is_detached, current, registered, loaded, memory, file,
          undo, entry, sessions, fault>>

EditorState == {"Edit", "Play", "Paused"}

\* A version of a scene, and whether components have run in it.
Contents == [version : 0..MaxEdits, simulated : BOOLEAN]
Fresh    == [version |-> 0, simulated |-> FALSE]

(***************************************************************************)
(* objects: the address in the map header of each world.  live: allocated  *)
(* maps.  address: for each map the worlds its parent entities name.       *)
(* Freed memory holds nothing.                                             *)
(***************************************************************************)
MemoryType ==
  [objects   : [World -> MapAddress \union {NoMap}],
   live      : SUBSET MapAddress,
   address   : [MapAddress -> SUBSET World],
   contents  : [MapAddress -> Contents],
   file_path : [World -> Scene \union {NoWorld}]]

\* Before the first scene.
NoMemory == [objects   |-> [w \in World |-> NoMap],
             live      |-> {},
             address   |-> [m \in MapAddress |-> {}],
             contents  |-> [m \in MapAddress |-> Fresh],
             file_path |-> [w \in World |-> NoWorld]]

Init ==
  /\ state = "Edit" /\ next_play_state = "Play" /\ is_detached = FALSE
  /\ current = NoWorld
  /\ registered = Scene /\ loaded = {}
  /\ memory = NoMemory
  /\ file = [s \in Scene |-> Fresh]
  /\ items = {} /\ dangling = {} /\ strayed = {}
  /\ entry = Fresh
  /\ sessions = 0
  /\ fault = "none"

----------------------------------------------------------------------------
(* Worlds and their maps *)

(***************************************************************************)
(* destroy_world deletes the entities and the map.  On runtime_world that  *)
(* Stop has destroyed, whose header counts no entities, it only frees the  *)
(* map again: the tracking allocator ignores that, unless the address is   *)
(* in use again.                                                           *)
(***************************************************************************)
FreeMap(mem, m) ==
  [mem EXCEPT !.live = @ \ {m},
              !.address  = [x \in MapAddress |-> IF x = m THEN {} ELSE @[x]],
              !.contents = [x \in MapAddress |-> IF x = m THEN Fresh ELSE @[x]]]

DestroyWorld(mem, w) == FreeMap(mem, mem.objects[w])

\* create_world and the entities that deserialize_world then reads from s.
FillWorld(mem, w, m, s) ==
  [mem EXCEPT !.objects[w] = m, !.live = @ \union {m},
              !.address[m] = {w}, !.contents[m] = file[s], !.file_path[w] = s]

\* deserialize_world(w, s), whose map the allocator puts at m.
DeserializeWorld(mem, w, m, s) == FillWorld(DestroyWorld(mem, w), w, m, s)

\* The map at m is free once w has been destroyed.
FreeFor(w, m) == m \notin DestroyWorld(memory, w).live

\* The items that point into the map at m keep its address when it is freed.
ItemsOutlive(m) ==
  /\ items' = items \ {m}
  /\ dangling' = dangling \union (items \intersect {m})

Map == memory.objects[current]

\* The struct and the map of Engine.world are there to be read.
Readable ==
  /\ current # NoWorld
  /\ current \notin Scene \ registered
  /\ Map \in memory.live

\* Each parent that world_update meets names a struct with the same map.
FrameSafe ==
  /\ Readable
  /\ \A w \in memory.address[Map] :
       w \notin Scene \ registered /\ memory.objects[w] = Map

----------------------------------------------------------------------------
(* Crashes.  A read of freed memory goes well or ends the program; the     *)
(* first is a stutter.  Every frame updates the world, so that one action  *)
(* stands for all reads of an unreadable world.                            *)

\* Of a crashed program only the files are left; the histories are kept.
Fault(kind) ==
  /\ fault' = kind
  /\ state' = "Edit" /\ next_play_state' = "Play" /\ is_detached' = FALSE
  /\ current' = NoWorld /\ loaded' = {} /\ memory' = NoMemory
  /\ items' = {} /\ dangling' = {} /\ strayed' = {}
  /\ UNCHANGED <<registered, file, entry, sessions>>

FrameReadsFreed == current # NoWorld /\ ~FrameSafe /\ Fault("freed")

\* Save, Load and Play dereference Engine.world.
NoSceneOpen == current = NoWorld /\ Fault("nil")

\* Scene > Load passes the path of the world that it destroys first.
LoadReadsFreedPath == Readable /\ Fault("path")

----------------------------------------------------------------------------
(* Scenes *)

\* Planted bug: the scene that was open is destroyed when another one is opened.
OpenSceneInItsPlace(s) ==
  /\ s \in registered
  /\ current' = s
  /\ loaded' = loaded \union {s}
  /\ LET old == IF Readable THEN Map ELSE NoMap
     IN /\ \E m \in MapAddress \ memory.live : memory' = FillWorld(FreeMap(memory, old), s, m, s)
        /\ ItemsOutlive(old) /\ strayed' = strayed \ {old}
  /\ UNCHANGED <<state, next_play_state, is_detached, registered, file, entry, sessions, fault>>

\* A scene dropped on the viewport: get_asset imports it, unless it is loaded.
OpenScene(s) ==
  /\ s \in registered
  /\ current' = s
  /\ loaded' = loaded \union {s}
  /\ IF s \in loaded THEN UNCHANGED <<memory, undo>>
     ELSE /\ \E m \in MapAddress : FreeFor(s, m) /\ memory' = DeserializeWorld(memory, s, m, s)
          /\ ItemsOutlive(memory.objects[s]) /\ strayed' = strayed \ {memory.objects[s]}
  /\ UNCHANGED <<state, next_play_state, is_detached, registered, file, entry, sessions, fault>>

\* Delete in the content browser: delete_asset frees the struct, not the file.
DeleteScene(s) ==
  /\ s \in registered
  /\ registered' = registered \ {s}
  /\ loaded' = loaded \ {s}
  /\ UNCHANGED <<state, next_play_state, is_detached, current, memory, file, undo, entry,
                 sessions, fault>>

\* new_object in Engine.world; the entity may get children of its own.
AddEntity(asParent) ==
  /\ Readable /\ memory.contents[Map].version < MaxEdits
  /\ memory' = [memory EXCEPT !.contents[Map].version = @ + 1,
                              !.address[Map] = @ \union (IF asParent THEN {current} ELSE {})]
  /\ UNCHANGED <<state, next_play_state, is_detached, current, registered, loaded, file, undo,
                 entry, sessions, fault>>

\* A field edited in Properties or with the gizmo, in any state, and its item committed.
EditField ==
  /\ Readable /\ memory.contents[Map].version < MaxEdits
  /\ sessions + Cardinality(items \union {Map}) + Cardinality(dangling) <= MaxItems
  /\ memory' = [memory EXCEPT !.contents[Map].version = @ + 1]
  /\ items' = items \union {Map}
  /\ UNCHANGED <<state, next_play_state, is_detached, current, registered, loaded, file,
                 dangling, strayed, entry, sessions, fault>>

\* The same when the map is full: its entries move to new memory.
AddEntityGrowing(m) ==
  /\ Readable /\ memory.contents[Map].version < MaxEdits
  /\ m \notin memory.live
  /\ memory' = [FreeMap(memory, Map) EXCEPT
                  !.objects[current] = m,
                  !.live = @ \union {m},
                  !.address[m] = memory.address[Map],
                  !.contents[m] = [memory.contents[Map] EXCEPT !.version = @ + 1]]
  /\ ItemsOutlive(Map)
  /\ strayed' = (strayed \ {Map}) \union (IF Map \in strayed THEN {m} ELSE {})
  /\ UNCHANGED <<state, next_play_state, is_detached, current, registered, loaded, file, entry,
                 sessions, fault>>

\* Ctrl+S and Scene > Save, in any state.
Save ==
  /\ Readable
  /\ file' = [file EXCEPT ![memory.file_path[current]] = memory.contents[Map]]
  /\ UNCHANGED <<state, next_play_state, is_detached, current, registered, loaded, memory,
                 undo, entry, sessions, fault>>

\* Scene > Load, in any state, when the path could still be read.
Load ==
  /\ Readable
  /\ \E m \in MapAddress :
       /\ FreeFor(current, m)
       /\ memory' = DeserializeWorld(memory, current, m, memory.file_path[current])
  /\ ItemsOutlive(Map) /\ strayed' = strayed \ {Map}
  /\ UNCHANGED <<state, next_play_state, is_detached, current, registered, loaded, file, entry,
                 sessions, fault>>

\* world_update runs the components while playing, and for one step of a pause.
Simulate ==
  /\ FrameSafe /\ state \in {"Play", "Paused"}
  /\ memory' = [memory EXCEPT !.contents[Map].simulated = TRUE]
  /\ UNCHANGED <<state, next_play_state, is_detached, current, registered, loaded, file, undo,
                 entry, sessions, fault>>

----------------------------------------------------------------------------
(* Ctrl+Z and Ctrl+Y, in any state.  Each copies the bytes of an item to   *)
(* its address and takes an item of what was there to the other stack.     *)
(* Which of the items is on top is left open; UndoRedo has their order.    *)

\* The item points into a map that is there: some version of its world is restored,
\* be the world open or not, as the edited one is not during a run.
Undo(m) ==
  /\ m \in items
  /\ \E v \in 0..MaxEdits : memory' = [memory EXCEPT !.contents[m].version = v]
  /\ strayed' = strayed \union ({m} \ {Map})
  /\ UNCHANGED <<state, next_play_state, is_detached, current, registered, loaded, file,
                 items, dangling, entry, sessions, fault>>

\* The map has been freed since, and another one is at its address: fields of an older
\* world, maybe of one that ran, are copied into it.
UndoIntoAnother(m) ==
  /\ m \in dangling \intersect memory.live
  /\ \E v \in 0..MaxEdits : \E ran \in {memory.contents[m].simulated, TRUE} :
       memory' = [memory EXCEPT !.contents[m] = [version |-> v, simulated |-> ran]]
  /\ strayed' = strayed \union {m}
  /\ UNCHANGED <<state, next_play_state, is_detached, current, registered, loaded, file,
                 items, dangling, entry, sessions, fault>>

\* An access to memory that was freed, like the reads above.
UndoIntoFreed == dangling # {} /\ Fault("item")

----------------------------------------------------------------------------
(* The toolstrip *)

\* The struct of Engine.world copied into editor_world.
CopyToEditor(mem) ==
  [mem EXCEPT !.objects[Editor] = mem.objects[current],
              !.file_path[Editor] = mem.file_path[current]]

\* Planted bug: the running world is a copy of the struct, not read from the file.
PlayInACopy ==
  /\ Readable /\ sessions + Cardinality(items) + Cardinality(dangling) < MaxSessions
  /\ LET s == memory.file_path[current]
     IN /\ file' = [file EXCEPT ![s] = memory.contents[Map]]
        /\ memory' = CopyToEditor([memory EXCEPT !.objects[Runtime] = Map,
                                                 !.file_path[Runtime] = s])
  /\ UNCHANGED <<items, dangling>> /\ strayed' = {}
  /\ entry' = memory.contents[Map]
  /\ current' = Runtime
  /\ UNCHANGED <<registered, loaded, sessions, fault>>

\* Planted bug: the copy forgets the path of the file.
PlayForgettingThePath ==
  /\ Readable /\ sessions + Cardinality(items) + Cardinality(dangling) < MaxSessions
  /\ LET s == memory.file_path[current]
     IN /\ file' = [file EXCEPT ![s] = memory.contents[Map]]
        /\ \E m \in MapAddress :
             /\ FreeFor(Runtime, m)
             /\ memory' = [CopyToEditor([DeserializeWorld(memory, Runtime, m, s)
                                           EXCEPT !.contents[m] = memory.contents[Map]])
                             EXCEPT !.file_path[Editor] = NoWorld]
  /\ ItemsOutlive(memory.objects[Runtime]) /\ strayed' = {}
  /\ entry' = memory.contents[Map]
  /\ current' = Runtime
  /\ UNCHANGED <<registered, loaded, sessions, fault>>

\* editor_on_scene_play: save, read the file into runtime_world, copy, switch.
OnScenePlay ==
  /\ Readable /\ sessions + Cardinality(items) + Cardinality(dangling) < MaxSessions
  /\ LET s == memory.file_path[current]
     IN /\ file' = [file EXCEPT ![s] = memory.contents[Map]]
        /\ \E m \in MapAddress :
             /\ FreeFor(Runtime, m)
             /\ memory' = CopyToEditor([DeserializeWorld(memory, Runtime, m, s)
                                          EXCEPT !.contents[m] = memory.contents[Map]])
  /\ ItemsOutlive(memory.objects[Runtime]) /\ strayed' = {}
  /\ entry' = memory.contents[Map]
  /\ current' = Runtime
  /\ UNCHANGED <<registered, loaded, sessions, fault>>

\* Planted bug: the editor stays in the world that was just destroyed.
StopInRuntime ==
  /\ memory' = DestroyWorld(memory, Runtime)
  /\ ItemsOutlive(memory.objects[Runtime])
  /\ strayed' = strayed \ {memory.objects[Runtime]}
  /\ current' = current
  /\ sessions' = sessions + 1
  /\ UNCHANGED <<registered, loaded, file, entry, fault>>

\* Planted bug: the run goes on although the toolstrip says Edit.
StopNothing ==
  /\ UNCHANGED <<current, registered, loaded, memory, file, undo, entry, fault>>
  /\ sessions' = sessions + 1

\* editor_on_scene_stop; is_detached is reset in GoToState.
OnSceneStop ==
  /\ memory' = DestroyWorld(memory, Runtime)
  /\ ItemsOutlive(memory.objects[Runtime])
  /\ strayed' = strayed \ {memory.objects[Runtime]}
  /\ current' = Editor
  /\ sessions' = sessions + 1
  /\ UNCHANGED <<registered, loaded, file, entry, fault>>

Worlds == <<current, registered, loaded, memory, file, undo, entry, sessions, fault>>

(***************************************************************************)
(* editor_go_to_state, with the value that is_detached has when it is      *)
(* called.  Edit to Paused does not set next_play_state: it is Play then.  *)
(***************************************************************************)
GoToState(new, detached) ==
  \/ /\ state = "Edit" /\ new = "Play"
     /\ next_play_state' = "Edit"
     /\ state' = new /\ is_detached' = detached /\ OnScenePlay
  \/ /\ state = "Edit" /\ new = "Paused"
     /\ UNCHANGED next_play_state
     /\ state' = new /\ is_detached' = detached /\ OnScenePlay
  \/ /\ state \in {"Play", "Paused"} /\ new = "Edit"
     /\ next_play_state' = "Play"
     /\ state' = new /\ is_detached' = FALSE /\ OnSceneStop
  \/ /\ state = "Play" /\ new = "Paused"
     /\ next_play_state' = "Play"
     /\ state' = new /\ is_detached' = detached /\ UNCHANGED Worlds
  \/ /\ state = "Paused" /\ new = "Play"
     /\ next_play_state' = "Edit"
     /\ state' = new /\ is_detached' = detached /\ UNCHANGED Worlds
  \/ /\ state = new
     /\ is_detached' = detached /\ UNCHANGED <<state, next_play_state, Worlds>>

PlayButton == GoToState(next_play_state, is_detached)

PauseButton == state \in {"Play", "Edit"} /\ GoToState("Paused", is_detached)

PlayDetached == GoToState("Play", TRUE)

Next ==
  /\ fault = "none"
  /\ \/ FrameReadsFreed
     \/ NoSceneOpen
     \/ LoadReadsFreedPath
     \/ \E s \in Scene : OpenScene(s) \/ DeleteScene(s)
     \/ \E asParent \in BOOLEAN : AddEntity(asParent)
     \/ \E m \in MapAddress : AddEntityGrowing(m)
     \/ EditField
     \/ \E m \in items : Undo(m)
     \/ \E m \in dangling : UndoIntoAnother(m)
     \/ UndoIntoFreed
     \/ Save
     \/ Load
     \/ Simulate
     \/ PlayButton
     \/ PauseButton
     \/ PlayDetached

Spec == Init /\ [][Next]_vars

----------------------------------------------------------------------------
(* Properties *)

\* Every variable has its type, and a world that is open knows its file: Save,
\* Load and Play all go by Engine.world.file_path.
PlayTypeOK ==
  /\ state \in EditorState /\ next_play_state \in {"Play", "Edit"} /\ is_detached \in BOOLEAN
  /\ current \in World \union {NoWorld}
  /\ registered \subseteq Scene /\ loaded \subseteq registered
  /\ memory \in MemoryType
  /\ file \in [Scene -> Contents] /\ entry \in Contents
  /\ items \subseteq MapAddress /\ dangling \subseteq MapAddress /\ strayed \subseteq MapAddress
  /\ sessions \in Nat
  /\ fault \in {"none", "nil", "freed", "path", "item"}
  /\ current # NoWorld => memory.file_path[current] \in Scene

\* The running world has a map of its own and its entities name it: no frame of a
\* run reads freed memory, also in later runs, as long as no other scene is opened.
RunningWorldIsItsOwn ==
  current = Runtime =>
    Map \in memory.live /\ memory.address[Map] = {Runtime}

\* During the first run the edited world has a map that the run does not touch, and it
\* keeps what Play found in it, but for Ctrl+Z and Ctrl+Y, which reach it through their
\* addresses: without them, the first Stop returns to the scene that Play left.
FirstRunKeepsTheEditedWorld ==
  sessions = 0 /\ current = Runtime =>
    /\ memory.objects[Editor] \in memory.live
    /\ memory.objects[Editor] # Map
    /\ \/ memory.contents[memory.objects[Editor]] = entry
       \/ memory.objects[Editor] \in strayed

\* world_update reads freed memory only after a Stop or the deletion of a scene asset:
\* until the first of these every address that a frame follows leads to a world that is
\* there.  This is about frames: Scene > Load reads the path that it has just freed
\* each time it is called (LoadReadsFreedPath), and undo has its own property, below.
FreedOnlyAfterAStop ==
  fault = "freed" => sessions > 0 \/ registered # Scene

\* Until the first Stop the items of undo and redo lose their memory only when the open
\* world itself gets another map, by Scene > Load or because the map was full: neither
\* Play nor a scene that is opened or deleted frees a map that items point into.
ItemsDangleWithTheirMap ==
  [][ sessions' = 0 => \A m \in dangling' \ dangling : m = Map /\ current' = current ]_vars

\* After the first run, and until the next Stop, what was simulated is in the world that
\* is open in Edit only if a file was saved meanwhile, or a scene was opened and so ran
\* itself, or an undo copied fields of a freed world into the map at its address.
SimulationReturnsBySaveOrOpen ==
  /\ state = "Edit" /\ FrameSafe /\ sessions = 1
  /\ memory.contents[Map].simulated
  => \/ \E s \in Scene : file[s].simulated
     \/ \E s \in loaded : memory.contents[memory.objects[s]].simulated
     \/ Map \in strayed
=============================================================================
