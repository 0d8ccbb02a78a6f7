--------------------------- MODULE PlayModeProofs ---------------------------
(***************************************************************************)
(* The toolstrip, the worlds and their maps through any mixture of runs,   *)
(* for any scenes and any behaviour of the allocator.                      *)
(***************************************************************************)
EXTENDS PlayMode, TLAPS

MapOrNone == MapAddress \union {NoMap}

----------------------------------------------------------------------------
(* What the operations on worlds do to each field of the memory *)

LEMMA FreeMapFields ==
  ASSUME NEW mem \in MemoryType, NEW m \in MapOrNone, NEW r, r = FreeMap(mem, m)
  PROVE  /\ r \in MemoryType
         /\ r.objects = mem.objects /\ r.file_path = mem.file_path
         /\ r.live = mem.live \ {m}
         /\ \A x \in MapAddress : x # m => r.address[x] = mem.address[x]
         /\ \A x \in MapAddress : x # m => r.contents[x] = mem.contents[x]
<1>1. r = [mem EXCEPT !.live = mem.live \ {m},
                      !.address  = [x \in MapAddress |-> IF x = m THEN {} ELSE mem.address[x]],
                      !.contents = [x \in MapAddress |-> IF x = m THEN Fresh
                                                         ELSE mem.contents[x]]]
  BY DEF FreeMap
<1>2. Fresh \in Contents
  BY BoundAssumption DEF Fresh, Contents
<1> DEFINE a == [x \in MapAddress |-> IF x = m THEN {} ELSE mem.address[x]]
           c == [x \in MapAddress |-> IF x = m THEN Fresh ELSE mem.contents[x]]
<1>3. a \in [MapAddress -> SUBSET World] /\ c \in [MapAddress -> Contents]
  BY <1>2 DEF MemoryType
<1>4. /\ \A x \in MapAddress : x # m => a[x] = mem.address[x]
      /\ \A x \in MapAddress : x # m => c[x] = mem.contents[x]
  OBVIOUS
<1>5. r = [mem EXCEPT !.live = mem.live \ {m}, !.address = a, !.contents = c]
  BY <1>1
<1> HIDE DEF a, c
<1>6. /\ r.objects = mem.objects /\ r.file_path = mem.file_path
      /\ r.live = mem.live \ {m} /\ r.address = a /\ r.contents = c
  BY <1>5 DEF MemoryType
<1>7. r \in MemoryType
  BY <1>3, <1>5 DEF MemoryType
<1> QED
  BY <1>4, <1>6, <1>7

LEMMA FillFields ==
  ASSUME NEW mem \in MemoryType, NEW w \in World, NEW m \in MapAddress, NEW s \in Scene,
         file \in [Scene -> Contents], NEW r, r = FillWorld(mem, w, m, s)
  PROVE  /\ r \in MemoryType
         /\ r.objects[w] = m /\ r.file_path[w] = s
         /\ \A v \in World : v # w => r.objects[v] = mem.objects[v]
         /\ \A v \in World : v # w => r.file_path[v] = mem.file_path[v]
         /\ r.live = mem.live \union {m}
         /\ r.address[m] = {w} /\ r.contents[m] = file[s]
         /\ \A x \in MapAddress : x # m => r.address[x] = mem.address[x]
         /\ \A x \in MapAddress : x # m => r.contents[x] = mem.contents[x]
<1> DEFINE o == [mem.objects EXCEPT ![w] = m]
           a == [mem.address EXCEPT ![m] = {w}]
           c == [mem.contents EXCEPT ![m] = file[s]]
           f == [mem.file_path EXCEPT ![w] = s]
<1>1. r = [mem EXCEPT !.objects = o, !.live = mem.live \union {m}, !.address = a,
                      !.contents = c, !.file_path = f]
  BY DEF FillWorld
<1>2. /\ o \in [World -> MapAddress \union {NoMap}] /\ a \in [MapAddress -> SUBSET World]
      /\ c \in [MapAddress -> Contents] /\ f \in [World -> Scene \union {NoWorld}]
      /\ mem.live \union {m} \in SUBSET MapAddress
  BY DEF MemoryType
<1>3. /\ o[w] = m /\ f[w] = s /\ a[m] = {w} /\ c[m] = file[s]
      /\ \A v \in World : v # w => o[v] = mem.objects[v]
      /\ \A v \in World : v # w => f[v] = mem.file_path[v]
      /\ \A x \in MapAddress : x # m => a[x] = mem.address[x]
      /\ \A x \in MapAddress : x # m => c[x] = mem.contents[x]
  BY DEF MemoryType
<1> HIDE DEF o, a, c, f
<1>4. /\ r.objects = o /\ r.live = mem.live \union {m} /\ r.address = a
      /\ r.contents = c /\ r.file_path = f
  BY <1>1 DEF MemoryType
<1>5. r = [objects |-> o, live |-> mem.live \union {m}, address |-> a, contents |-> c,
           file_path |-> f]
  BY <1>1 DEF MemoryType
<1>6. r \in MemoryType
  BY <1>2, <1>5 DEF MemoryType
<1> QED
  BY <1>3, <1>4, <1>6

\* A world is read from a file into memory that is free once it is destroyed.
LEMMA DeserializeFields ==
  ASSUME NEW mem \in MemoryType, NEW w \in World, NEW m \in MapAddress, NEW s \in Scene,
         file \in [Scene -> Contents], NEW r, r = DeserializeWorld(mem, w, m, s)
  PROVE  /\ r \in MemoryType
         /\ r.objects = [mem.objects EXCEPT ![w] = m]
         /\ r.file_path = [mem.file_path EXCEPT ![w] = s]
         /\ r.live = (mem.live \ {mem.objects[w]}) \union {m}
         /\ r.address[m] = {w} /\ r.contents[m] = file[s]
         /\ \A x \in MapAddress : x # m /\ x # mem.objects[w] => r.address[x] = mem.address[x]
         /\ \A x \in MapAddress : x # m /\ x # mem.objects[w] => r.contents[x] = mem.contents[x]
<1> DEFINE d == DestroyWorld(mem, w)
<1>1. mem.objects[w] \in MapOrNone
  BY DEF MemoryType, MapOrNone
<1>2. /\ d \in MemoryType
      /\ d.objects = mem.objects /\ d.file_path = mem.file_path
      /\ d.live = mem.live \ {mem.objects[w]}
      /\ \A x \in MapAddress : x # mem.objects[w] => d.address[x] = mem.address[x]
      /\ \A x \in MapAddress : x # mem.objects[w] => d.contents[x] = mem.contents[x]
  BY <1>1, FreeMapFields DEF DestroyWorld
<1>3. r = FillWorld(d, w, m, s)
  BY DEF DeserializeWorld
<1> HIDE DEF d
<1>4. /\ r \in MemoryType
      /\ r.objects[w] = m /\ r.file_path[w] = s
      /\ \A v \in World : v # w => r.objects[v] = d.objects[v]
      /\ \A v \in World : v # w => r.file_path[v] = d.file_path[v]
      /\ r.live = d.live \union {m}
      /\ r.address[m] = {w} /\ r.contents[m] = file[s]
      /\ \A x \in MapAddress : x # m => r.address[x] = d.address[x]
      /\ \A x \in MapAddress : x # m => r.contents[x] = d.contents[x]
  BY <1>2, <1>3, FillFields
<1>5. r.objects = [mem.objects EXCEPT ![w] = m]
  BY <1>2, <1>4 DEF MemoryType
<1>6. r.file_path = [mem.file_path EXCEPT ![w] = s]
  BY <1>2, <1>4 DEF MemoryType
<1>7. r.live = (mem.live \ {mem.objects[w]}) \union {m}
  BY <1>2, <1>4
<1> QED
  BY <1>2, <1>4, <1>5, <1>6, <1>7

\* An address that is free for w is not that of another live map.
LEMMA FreeForFact ==
  ASSUME memory \in MemoryType, NEW w \in World, NEW m \in MapAddress, FreeFor(w, m)
  PROVE  m \notin memory.live \ {memory.objects[w]}
<1>1. memory.objects[w] \in MapOrNone
  BY DEF MemoryType, MapOrNone
<1> QED
  BY <1>1, FreeMapFields DEF FreeFor, DestroyWorld

\* The struct of Engine.world becomes that of editor_world too.
LEMMA CopyFields ==
  ASSUME NEW mem \in MemoryType, current \in World, NEW r, r = CopyToEditor(mem)
  PROVE  /\ r \in MemoryType
         /\ r.objects = [mem.objects EXCEPT ![Editor] = mem.objects[current]]
         /\ r.file_path = [mem.file_path EXCEPT ![Editor] = mem.file_path[current]]
         /\ r.live = mem.live /\ r.address = mem.address /\ r.contents = mem.contents
<1> DEFINE o == [mem.objects EXCEPT ![Editor] = mem.objects[current]]
           f == [mem.file_path EXCEPT ![Editor] = mem.file_path[current]]
<1>1. o \in [World -> MapAddress \union {NoMap}] /\ f \in [World -> Scene \union {NoWorld}]
  BY DEF MemoryType
<1>2. r = [mem EXCEPT !.objects = o, !.file_path = f]
  BY DEF CopyToEditor
<1> HIDE DEF o, f
<1>3. /\ r.objects = o /\ r.file_path = f
      /\ r.live = mem.live /\ r.address = mem.address /\ r.contents = mem.contents
  BY <1>2 DEF MemoryType
<1>4. r = [objects |-> o, live |-> mem.live, address |-> mem.address,
           contents |-> mem.contents, file_path |-> f]
  BY <1>2 DEF MemoryType
<1>5. r \in MemoryType
  BY <1>1, <1>4 DEF MemoryType
<1> QED
  BY <1>3, <1>5 DEF o, f

\* Only the contents of maps change.
LEMMA WriteFields ==
  ASSUME NEW mem \in MemoryType, NEW f \in [MapAddress -> Contents],
         NEW r, r = [mem EXCEPT !.contents = f]
  PROVE  /\ r \in MemoryType
         /\ r.objects = mem.objects /\ r.file_path = mem.file_path
         /\ r.live = mem.live /\ r.address = mem.address
         /\ r.contents = f
<1>1. /\ r.objects = mem.objects /\ r.file_path = mem.file_path
      /\ r.live = mem.live /\ r.address = mem.address /\ r.contents = f
  BY DEF MemoryType
<1>2. r = [objects |-> mem.objects, live |-> mem.live, address |-> mem.address,
           contents |-> f, file_path |-> mem.file_path]
  BY DEF MemoryType
<1>3. r \in MemoryType
  BY <1>2 DEF MemoryType
<1> QED
  BY <1>1, <1>3

LEMMA NoMemoryTyped ==
  /\ NoMemory \in MemoryType /\ NoMemory.live = {}
  /\ \A w \in World : NoMemory.objects[w] = NoMap
<1>1. Fresh \in Contents
  BY BoundAssumption DEF Fresh, Contents
<1> QED
  BY <1>1 DEF NoMemory, MemoryType

----------------------------------------------------------------------------
(* The invariant *)

\* A loaded scene knows its file, and so does editor_world during a run.
Typed ==
  /\ PlayTypeOK
  /\ \A s \in loaded : memory.file_path[s] \in Scene
  /\ state # "Edit" => memory.file_path[Editor] \in Scene

\* Before the first run runtime_world has no map.
FirstRun ==
  /\ FirstRunKeepsTheEditedWorld
  /\ sessions = 0 /\ state = "Edit" => memory.objects[Runtime] = NoMap

\* The worlds in use until the first Stop, each with its own map; every map but
\* that of the run names a scene, because runs and scenes alone make maps.
Owners == loaded \union (IF state = "Edit" THEN {} ELSE {Runtime})
Owned ==
  /\ \A w \in Owners : /\ memory.objects[w] \in memory.live
                       /\ memory.address[memory.objects[w]] \subseteq {w}
  /\ \A v, w \in Owners : memory.objects[v] = memory.objects[w] => v = w
  /\ \A s \in registered \ loaded : memory.objects[s] = NoMap
  /\ current \in Owners \union {NoWorld} \union (Scene \ registered)
  /\ \A x \in memory.live : \/ memory.address[x] \intersect Scene # {}
                            \/ state # "Edit" /\ x = memory.objects[Runtime]

\* No map names a scene that is registered but not loaded.
NamesAreLoaded ==
  /\ current \in registered => current \in loaded
  /\ \A x \in memory.live : memory.address[x] \intersect registered \subseteq loaded

\* As long as editor_world stays open after the first Stop, what is simulated in
\* its map was in a file, or is the map of a scene that was simulated itself, or was
\* written there by an undo.
SimulatedFile == \E s \in Scene : file[s].simulated
CleanReturn ==
  /\ sessions = 1 /\ state = "Edit" /\ current = Editor
  /\ Map \in memory.live /\ memory.contents[Map].simulated
  => SimulatedFile \/ memory.address[Map] \intersect Scene # {} \/ Map \in strayed

\* The toolstrip shows Stop exactly while playing, the game camera is given up
\* only outside Edit, and the runtime world is open only outside Edit: whatever mixture
\* of the three buttons led there.
ToolstripAgrees ==
  /\ next_play_state = "Edit" <=> state = "Play"
  /\ is_detached => state # "Edit"
  /\ current = Runtime => state # "Edit"

Unspoilt == sessions = 0 /\ registered = Scene

IInv ==
  /\ Typed /\ ToolstripAgrees /\ RunningWorldIsItsOwn /\ FirstRun
  /\ sessions = 0 => Owned
  /\ NamesAreLoaded /\ CleanReturn
  /\ FreedOnlyAfterAStop

\* A program that has crashed satisfies it, whatever it was doing.
LEMMA FaultStep ==
  ASSUME IInv, NEW kind \in {"nil", "freed", "path", "item"}, Fault(kind),
         kind = "freed" => ~Unspoilt
  PROVE  IInv'
<1>1. /\ state' = "Edit" /\ next_play_state' = "Play" /\ is_detached' = FALSE
      /\ current' = NoWorld /\ loaded' = {} /\ memory' = NoMemory /\ fault' = kind
      /\ items' = {} /\ dangling' = {} /\ strayed' = {}
      /\ UNCHANGED <<registered, file, entry, sessions>>
  BY DEF Fault
<1>2. NoWorld # Runtime /\ NoWorld # Editor /\ Scene \subseteq World /\ Runtime \in World
  BY WorldAssumption DEF World
<1>3. Typed'
  BY <1>1, <1>2, NoMemoryTyped DEF IInv, Typed, PlayTypeOK, EditorState
<1>4. ToolstripAgrees' /\ RunningWorldIsItsOwn'
  BY <1>1, <1>2 DEF ToolstripAgrees, RunningWorldIsItsOwn
<1>5. FirstRun'
  BY <1>1, <1>2, NoMemoryTyped DEF FirstRun, FirstRunKeepsTheEditedWorld
<1>6. Owned'
  <2>1. registered \subseteq World
    BY <1>2 DEF IInv, Typed, PlayTypeOK
  <2> QED
    BY <1>1, <2>1, NoMemoryTyped DEF Owned, Owners
<1>7. FreedOnlyAfterAStop'
  BY <1>1 DEF FreedOnlyAfterAStop, Unspoilt, IInv, Typed, PlayTypeOK
<1>8. NamesAreLoaded' /\ CleanReturn'
  <2>1. NoWorld \notin registered
    BY <1>2, WorldAssumption DEF World, IInv, Typed, PlayTypeOK
  <2> QED
    BY <1>1, <1>2, <2>1, NoMemoryTyped DEF NamesAreLoaded, CleanReturn
<1> QED
  BY <1>3, <1>4, <1>5, <1>6, <1>7, <1>8 DEF IInv

\* Until a Stop or a deleted scene the frame reads what is there.
LEMMA UnspoiltFrames ==
  ASSUME IInv, Unspoilt, current # NoWorld
  PROVE  FrameSafe
<1>1. current \in Owners /\ Owned
  BY DEF IInv, Owned, Unspoilt
<1>2. Map \in memory.live /\ memory.address[Map] \subseteq {current}
  BY <1>1 DEF Owned, Map
<1> QED
  BY <1>2 DEF FrameSafe, Readable, Map, Unspoilt

----------------------------------------------------------------------------
(* Steps that work on Engine.world *)

\* What the actions on the open world have in common: it has the map m afterwards,
\* which is its old one or was free, and no other map is touched.
LEMMA CurrentWorldStep ==
  ASSUME IInv, fault = "none", Readable, NEW m \in MapAddress,
         m \notin memory.live \ {Map},
         memory' \in MemoryType,
         memory'.objects = [memory.objects EXCEPT ![current] = m],
         memory'.live = (memory.live \ {Map}) \union {m},
         memory'.address[m] \in {memory.address[Map], memory.address[Map] \union {current},
                                 {current}},
         \A x \in MapAddress : x # m /\ x # Map => /\ memory'.address[x] = memory.address[x]
                                                   /\ memory'.contents[x] = memory.contents[x],
         \A w \in World : memory'.file_path[w] = memory.file_path[w]
                          \/ memory'.file_path[w] \in Scene,
         state = "Edit" /\ memory'.contents[m].simulated =>
           SimulatedFile \/ /\ memory.contents[Map].simulated
                            /\ memory.address[Map] \subseteq memory'.address[m]
                            /\ Map \in strayed => m \in strayed',
         items' \subseteq MapAddress, dangling' \subseteq MapAddress, strayed' \subseteq MapAddress,
         strayed \ {Map} \subseteq strayed',
         UNCHANGED <<state, next_play_state, is_detached, current, registered, loaded, file,
                     entry, sessions, fault>>
  PROVE  IInv'
<1>1. /\ current \in World /\ Map \in memory.live /\ Map \in MapAddress
      /\ memory \in MemoryType /\ memory.live \subseteq MapAddress
      /\ DOMAIN memory.objects = World
  BY DEF Readable, IInv, Typed, PlayTypeOK, MemoryType
<1>2. /\ memory'.objects[current] = m /\ Map' = m
      /\ \A w \in World : w # current => memory'.objects[w] = memory.objects[w]
  BY <1>1 DEF Map
<1>3. /\ Scene \subseteq World /\ Runtime \in World /\ Editor \in World /\ Runtime # Editor
      /\ Runtime \notin Scene /\ Editor \notin Scene
  BY WorldAssumption DEF World
<1>4. Typed'
  <2>1. loaded \subseteq World
    BY <1>3 DEF IInv, Typed, PlayTypeOK
  <2>2. \A w \in World : memory.file_path[w] \in Scene => memory'.file_path[w] \in Scene
    OBVIOUS
  <2> QED
    BY <1>1, <1>3, <2>1, <2>2 DEF IInv, Typed, PlayTypeOK
<1>5. ToolstripAgrees'
  BY DEF IInv, ToolstripAgrees
<1>6. RunningWorldIsItsOwn'
  <2>1. SUFFICES ASSUME current = Runtime
                 PROVE  m \in memory'.live /\ memory'.address[m] = {Runtime}
    BY <1>2 DEF RunningWorldIsItsOwn
  <2>2. memory.address[Map] = {Runtime}
    BY <2>1 DEF IInv, RunningWorldIsItsOwn
  <2> QED
    BY <2>1, <2>2
<1>7. FirstRun'
  <2>1. FirstRunKeepsTheEditedWorld'
    <3>1. SUFFICES ASSUME sessions = 0, current = Runtime
                   PROVE  /\ memory'.objects[Editor] \in memory'.live
                          /\ memory'.objects[Editor] # m
                          /\ \/ memory'.contents[memory'.objects[Editor]] = entry
                             \/ memory'.objects[Editor] \in strayed'
      BY <1>2 DEF FirstRunKeepsTheEditedWorld
    <3>2. /\ memory.objects[Editor] \in memory.live /\ memory.objects[Editor] # Map
          /\ \/ memory.contents[memory.objects[Editor]] = entry
             \/ memory.objects[Editor] \in strayed
      BY <3>1 DEF IInv, FirstRun, FirstRunKeepsTheEditedWorld
    <3>3. memory'.objects[Editor] = memory.objects[Editor]
      BY <1>2, <1>3, <3>1
    <3> QED
      BY <1>1, <3>2, <3>3
  <2>2. state = "Edit" => current # Runtime
    BY DEF IInv, ToolstripAgrees
  <2>3. state = "Edit" => memory'.objects[Runtime] = memory.objects[Runtime]
    BY <1>2, <1>3, <2>2
  <2>4. sessions = 0 /\ state = "Edit" => memory.objects[Runtime] = NoMap
    BY DEF IInv, FirstRun
  <2>5. (sessions = 0 /\ state = "Edit" => memory.objects[Runtime] = NoMap)'
    BY <2>3, <2>4
  <2> QED
    BY <2>1, <2>5 DEF FirstRun
<1>8. sessions' = 0 => Owned'
  <2> SUFFICES ASSUME sessions = 0 PROVE Owned'
    OBVIOUS
  <2>1. Owned /\ current \in Owners /\ Owners' = Owners /\ Owners \subseteq World
    <3>1. Owned /\ Owners' = Owners
      BY DEF IInv, Owners
    <3>2. current \in Owners
      BY <1>1, <1>3, <3>1 DEF IInv, Owned, Typed, PlayTypeOK, Readable
    <3>3. loaded \subseteq World
      BY <1>3 DEF IInv, Typed, PlayTypeOK
    <3> QED
      BY <1>3, <3>1, <3>2, <3>3 DEF Owners
  <2>2. memory.address[Map] \subseteq {current}
    BY <2>1 DEF Owned, Map
  <2>3. \A w \in Owners : w # current =>
          /\ memory'.objects[w] = memory.objects[w]
          /\ memory.objects[w] \in memory.live /\ memory.objects[w] # Map
          /\ memory.objects[w] # m
    BY <1>2, <2>1 DEF Owned, Map
  <2>4. \A w \in Owners' : /\ memory'.objects[w] \in memory'.live
                           /\ memory'.address[memory'.objects[w]] \subseteq {w}
    <3>1. memory'.address[m] \subseteq {current}
      BY <2>2
    <3>2. \A w \in Owners : memory.address[memory.objects[w]] \subseteq {w}
      BY <2>1 DEF Owned
    <3> QED
      BY <1>1, <1>2, <2>1, <2>3, <3>1, <3>2
  <2>5. \A v, w \in Owners' : memory'.objects[v] = memory'.objects[w] => v = w
    <3>1. \A v, w \in Owners : memory.objects[v] = memory.objects[w] => v = w
      BY <2>1 DEF Owned
    <3> QED
      BY <1>2, <2>1, <2>3, <3>1
  <2>6. \A s \in registered' \ loaded' : memory'.objects[s] = NoMap
    <3>1. registered \subseteq Scene
      BY DEF IInv, Typed, PlayTypeOK
    <3>2. \A s \in registered \ loaded : s # current
      BY <1>3, <2>1, <3>1 DEF Owners
    <3> QED
      BY <1>2, <1>3, <2>1, <3>1, <3>2 DEF Owned
  <2>7. current' \in Owners'
    BY <2>1
  <2>8. ASSUME NEW x \in memory'.live
        PROVE  \/ memory'.address[x] \intersect Scene # {}
               \/ state' # "Edit" /\ x = memory'.objects[Runtime]
    <3>1. CASE x = m /\ current = Runtime
      BY <1>2, <2>1, <3>1 DEF IInv, ToolstripAgrees
    <3>2. CASE x = m /\ current # Runtime
      <4>1. current \in Scene /\ current \in loaded
        BY <2>1, <3>2 DEF Owners, IInv, Typed, PlayTypeOK
      <4>2. ~(state # "Edit" /\ Map = memory.objects[Runtime])
        BY <2>1, <3>2 DEF Owned, Owners, Map
      <4>3. memory.address[Map] \intersect Scene # {}
        BY <1>1, <2>1, <4>2 DEF Owned
      <4> QED
        BY <3>2, <4>1, <4>3
    <3>3. CASE x # m
      <4>1. x \in memory.live /\ x # Map /\ memory'.address[x] = memory.address[x]
        BY <1>1, <3>3
      <4>2. x = memory.objects[Runtime] => x = memory'.objects[Runtime]
        BY <1>2, <1>3, <4>1 DEF Map
      <4> QED
        BY <2>1, <4>1, <4>2 DEF Owned
    <3> QED
      BY <3>1, <3>2, <3>3
  <2> QED
    BY <2>4, <2>5, <2>6, <2>7, <2>8 DEF Owned
<1>9. FreedOnlyAfterAStop'
  BY DEF FreedOnlyAfterAStop
<1>10. NamesAreLoaded'
  <2>1. memory.address[Map] \intersect registered \subseteq loaded
        /\ (current \in registered => current \in loaded)
    BY <1>1 DEF IInv, NamesAreLoaded
  <2>2. memory'.address[m] \intersect registered \subseteq loaded
    BY <2>1
  <2>3. \A x \in memory'.live : x # m =>
          x \in memory.live /\ memory'.address[x] = memory.address[x]
    BY <1>1
  <2> QED
    BY <2>1, <2>2, <2>3 DEF IInv, NamesAreLoaded
<1>11. CleanReturn'
  BY <1>1, <1>2 DEF IInv, CleanReturn, SimulatedFile
<1> QED
  BY <1>4, <1>5, <1>6, <1>7, <1>8, <1>9, <1>10, <1>11 DEF IInv

LEMMA AddEntityStep ==
  ASSUME IInv, fault = "none", NEW asParent \in BOOLEAN, AddEntity(asParent)
  PROVE  IInv'
<1>1. /\ current \in World /\ Map \in MapAddress /\ Map \in memory.live
      /\ memory \in MemoryType /\ memory.objects[current] = Map
  BY DEF AddEntity, Readable, IInv, Typed, PlayTypeOK, MemoryType, Map
<1> DEFINE c == [memory.contents[Map] EXCEPT !.version = memory.contents[Map].version + 1]
           k == [memory.contents EXCEPT ![Map] = c]
           d == [memory EXCEPT !.contents = k]
           a == [memory.address EXCEPT ![Map] = memory.address[Map] \union
                                                  (IF asParent THEN {current} ELSE {})]
<1>2. c \in Contents
  BY <1>1, BoundAssumption DEF AddEntity, MemoryType, Contents
<1>3. /\ d \in MemoryType
      /\ d.objects = memory.objects /\ d.file_path = memory.file_path
      /\ d.live = memory.live /\ d.address = memory.address
      /\ d.contents = k
  <2>1. k \in [MapAddress -> Contents]
    <3> HIDE DEF c
    <3> QED
      BY <1>1, <1>2 DEF MemoryType
  <2> HIDE DEF k
  <2> QED
    BY <1>1, <2>1, WriteFields
<1>4. a \in [MapAddress -> SUBSET World]
  BY <1>1 DEF MemoryType
<1>5. memory' = [d EXCEPT !.address = a]
  BY <1>1 DEF AddEntity, MemoryType
<1>6. /\ memory'.objects = memory.objects /\ memory'.file_path = memory.file_path
      /\ memory'.live = memory.live /\ memory'.address = a
      /\ memory'.contents = k
  <2> HIDE DEF a, k, d
  <2> QED
    BY <1>3, <1>5 DEF MemoryType
<1>7. memory' \in MemoryType
  <2> HIDE DEF a, k, d
  <2>1. memory' = [objects |-> d.objects, live |-> d.live, address |-> a,
                   contents |-> d.contents, file_path |-> d.file_path]
    BY <1>3, <1>5 DEF MemoryType
  <2> QED
    BY <1>3, <1>4, <2>1 DEF MemoryType
<1>8. memory'.objects = [memory.objects EXCEPT ![current] = Map]
  BY <1>1, <1>6 DEF MemoryType
<1>9. memory'.address[Map] \in {memory.address[Map], memory.address[Map] \union {current},
                                {current}}
  BY <1>1, <1>6 DEF MemoryType
<1>10. \A x \in MapAddress : x # Map => /\ memory'.address[x] = memory.address[x]
                                        /\ memory'.contents[x] = memory.contents[x]
  BY <1>1, <1>6 DEF MemoryType
<1>11. Map \notin memory.live \ {Map} /\ memory'.live = (memory.live \ {Map}) \union {Map}
  BY <1>1, <1>6
<1>12. /\ memory'.contents[Map].simulated => memory.contents[Map].simulated
       /\ memory.address[Map] \subseteq memory'.address[Map]
  <2>1. c.simulated = memory.contents[Map].simulated
    BY <1>1 DEF MemoryType, Contents
  <2>2. k[Map] = c
    BY <1>1 DEF MemoryType
  <2> HIDE DEF c, k, d
  <2> QED
    BY <1>1, <1>6, <2>1, <2>2 DEF MemoryType
<1>13. UNCHANGED undo /\ strayed \subseteq MapAddress /\ items \subseteq MapAddress
       /\ dangling \subseteq MapAddress
  BY DEF AddEntity, IInv, Typed, PlayTypeOK
<1> HIDE DEF c, k, d, a
<1> QED
  BY <1>1, <1>6, <1>7, <1>8, <1>9, <1>10, <1>11, <1>12, <1>13, CurrentWorldStep
  DEF AddEntity, undo

\* An edit of a field, with its item.
LEMMA EditFieldStep ==
  ASSUME IInv, fault = "none", EditField
  PROVE  IInv'
<1>1. /\ current \in World /\ Map \in MapAddress /\ Map \in memory.live
      /\ memory \in MemoryType /\ memory.objects[current] = Map
  BY DEF EditField, Readable, IInv, Typed, PlayTypeOK, MemoryType, Map
<1> DEFINE c == [memory.contents[Map] EXCEPT !.version = memory.contents[Map].version + 1]
           k == [memory.contents EXCEPT ![Map] = c]
<1>2. c \in Contents /\ c.simulated = memory.contents[Map].simulated
  BY <1>1, BoundAssumption DEF EditField, MemoryType, Contents
<1>3. memory' = [memory EXCEPT !.contents = k]
  BY <1>1 DEF EditField, MemoryType
<1> HIDE DEF c
<1>4. /\ k \in [MapAddress -> Contents] /\ k[Map] = c
      /\ \A x \in MapAddress : x # Map => k[x] = memory.contents[x]
  BY <1>1, <1>2 DEF MemoryType
<1> HIDE DEF k
<1>5. /\ memory' \in MemoryType
      /\ memory'.objects = memory.objects /\ memory'.file_path = memory.file_path
      /\ memory'.live = memory.live /\ memory'.address = memory.address
      /\ memory'.contents = k
  BY <1>1, <1>3, <1>4, WriteFields
<1>6. /\ memory'.objects = [memory.objects EXCEPT ![current] = Map]
      /\ memory'.live = (memory.live \ {Map}) \union {Map}
  BY <1>1, <1>5 DEF MemoryType
<1>7. /\ items' \subseteq MapAddress /\ dangling' \subseteq MapAddress
      /\ strayed' = strayed /\ strayed \subseteq MapAddress
  BY <1>1 DEF EditField, IInv, Typed, PlayTypeOK
<1> QED
  BY <1>1, <1>2, <1>4, <1>5, <1>6, <1>7, CurrentWorldStep DEF EditField

LEMMA AddEntityGrowingStep ==
  ASSUME IInv, fault = "none", NEW m \in MapAddress, AddEntityGrowing(m)
  PROVE  IInv'
<1>1. /\ current \in World /\ Map \in MapAddress /\ Map \in memory.live
      /\ memory \in MemoryType /\ memory.objects[current] = Map
      /\ m \notin memory.live
  BY DEF AddEntityGrowing, Readable, IInv, Typed, PlayTypeOK, MemoryType, Map
<1> DEFINE c == [memory.contents[Map] EXCEPT !.version = memory.contents[Map].version + 1]
           d == FreeMap(memory, Map)
           o == [memory.objects EXCEPT ![current] = m]
           l == (memory.live \ {Map}) \union {m}
           a == [d.address EXCEPT ![m] = memory.address[Map]]
           k == [d.contents EXCEPT ![m] = c]
<1>2. c \in Contents
  BY <1>1, BoundAssumption DEF AddEntityGrowing, MemoryType, Contents
<1>3. /\ d \in MemoryType
      /\ d.objects = memory.objects /\ d.file_path = memory.file_path
      /\ d.live = memory.live \ {Map}
      /\ \A x \in MapAddress : x # Map => d.address[x] = memory.address[x]
      /\ \A x \in MapAddress : x # Map => d.contents[x] = memory.contents[x]
  BY <1>1, FreeMapFields DEF MapOrNone
<1>4. memory' = [d EXCEPT !.objects = o, !.live = l, !.address = a, !.contents = k]
  <2>1. memory' = [d EXCEPT !.objects[current] = m, !.live = @ \union {m},
                            !.address[m] = memory.address[Map], !.contents[m] = c]
    BY DEF AddEntityGrowing
  <2> HIDE DEF c, d
  <2> QED
    BY <1>3, <2>1 DEF MemoryType
<1>5. /\ o \in [World -> MapAddress \union {NoMap}] /\ l \in SUBSET MapAddress
      /\ a \in [MapAddress -> SUBSET World] /\ k \in [MapAddress -> Contents]
  <2> HIDE DEF c, d
  <2> QED
    BY <1>1, <1>2, <1>3 DEF MemoryType
<1>6. /\ a[m] = memory.address[Map]
      /\ \A x \in MapAddress : x # m /\ x # Map => /\ a[x] = memory.address[x]
                                                   /\ k[x] = memory.contents[x]
  <2> HIDE DEF c, d
  <2> QED
    BY <1>3 DEF MemoryType
<1>7. /\ memory' \in MemoryType
      /\ memory'.objects = o /\ memory'.live = l /\ memory'.address = a
      /\ memory'.contents = k /\ memory'.file_path = memory.file_path
  <2> HIDE DEF c, d, o, l, a, k
  <2>1. memory' = [objects |-> o, live |-> l, address |-> a, contents |-> k,
                   file_path |-> d.file_path]
    BY <1>3, <1>4 DEF MemoryType
  <2> QED
    BY <1>3, <1>5, <2>1 DEF MemoryType
<1>8. k[m].simulated = memory.contents[Map].simulated
  <2>1. c.simulated = memory.contents[Map].simulated
    BY <1>1 DEF MemoryType, Contents
  <2> HIDE DEF c, d
  <2> QED
    BY <1>3, <2>1 DEF MemoryType
<1>9. /\ items' \subseteq MapAddress /\ dangling' \subseteq MapAddress
      /\ strayed' \subseteq MapAddress /\ strayed \ {Map} \subseteq strayed'
      /\ Map \in strayed => m \in strayed'
  BY DEF AddEntityGrowing, ItemsOutlive, IInv, Typed, PlayTypeOK
<1> HIDE DEF c, d, a, k
<1> QED
  BY <1>1, <1>6, <1>7, <1>8, <1>9, CurrentWorldStep DEF AddEntityGrowing

LEMMA LoadStep ==
  ASSUME IInv, fault = "none", Load
  PROVE  IInv'
<1>1. PICK m \in MapAddress :
        /\ FreeFor(current, m)
        /\ memory' = DeserializeWorld(memory, current, m, memory.file_path[current])
  BY DEF Load
<1>2. /\ current \in World /\ Map \in MapAddress /\ memory \in MemoryType
      /\ memory.objects[current] = Map /\ memory.file_path[current] \in Scene
      /\ file \in [Scene -> Contents]
  BY DEF Load, Readable, IInv, Typed, PlayTypeOK, MemoryType, Map
<1>3. m \notin memory.live \ {Map}
  BY <1>1, <1>2, FreeForFact
<1>4. /\ memory' \in MemoryType
      /\ memory'.objects = [memory.objects EXCEPT ![current] = m]
      /\ memory'.file_path = [memory.file_path EXCEPT ![current] = memory.file_path[current]]
      /\ memory'.live = (memory.live \ {Map}) \union {m}
      /\ memory'.address[m] = {current}
      /\ memory'.contents[m] = file[memory.file_path[current]]
      /\ \A x \in MapAddress : x # m /\ x # Map => memory'.address[x] = memory.address[x]
      /\ \A x \in MapAddress : x # m /\ x # Map => memory'.contents[x] = memory.contents[x]
  BY <1>1, <1>2, DeserializeFields
<1>5. \A w \in World : memory'.file_path[w] = memory.file_path[w]
  BY <1>2, <1>4 DEF MemoryType
<1>6. memory'.contents[m].simulated => SimulatedFile
  BY <1>2, <1>4 DEF SimulatedFile
<1>7. /\ items' \subseteq MapAddress /\ dangling' \subseteq MapAddress
      /\ strayed' \subseteq MapAddress /\ strayed \ {Map} \subseteq strayed'
  BY DEF Load, ItemsOutlive, IInv, Typed, PlayTypeOK
<1> QED
  BY <1>2, <1>3, <1>4, <1>5, <1>6, <1>7, CurrentWorldStep DEF Load

LEMMA SimulateStep ==
  ASSUME IInv, fault = "none", Simulate
  PROVE  IInv'
<1>1. /\ current \in World /\ Map \in MapAddress /\ Map \in memory.live
      /\ memory \in MemoryType /\ memory.objects[current] = Map
  BY DEF Simulate, FrameSafe, Readable, IInv, Typed, PlayTypeOK, MemoryType, Map
<1> DEFINE k == [memory.contents EXCEPT ![Map].simulated = TRUE]
<1>2. /\ k \in [MapAddress -> Contents]
      /\ \A x \in MapAddress : x # Map => k[x] = memory.contents[x]
  BY <1>1 DEF MemoryType, Contents
<1>3. memory' = [memory EXCEPT !.contents = k]
  BY DEF Simulate
<1> HIDE DEF k
<1>4. /\ memory' \in MemoryType
      /\ memory'.objects = memory.objects /\ memory'.file_path = memory.file_path
      /\ memory'.live = memory.live /\ memory'.address = memory.address
      /\ memory'.contents = k
  BY <1>1, <1>2, <1>3, WriteFields
<1>5. /\ memory'.objects = [memory.objects EXCEPT ![current] = Map]
      /\ memory'.live = (memory.live \ {Map}) \union {Map}
      /\ \A x \in MapAddress : x # Map => memory'.contents[x] = memory.contents[x]
  BY <1>1, <1>2, <1>4 DEF MemoryType
<1>6. UNCHANGED undo /\ strayed \subseteq MapAddress /\ items \subseteq MapAddress
      /\ dangling \subseteq MapAddress
  BY DEF Simulate, IInv, Typed, PlayTypeOK
<1> QED
  BY <1>1, <1>4, <1>5, <1>6, CurrentWorldStep DEF Simulate, FrameSafe, undo

----------------------------------------------------------------------------
(* Undo and redo *)

\* Only the contents of the map at m change: the open world's, or those of a marked map,
\* and a map that has not run is marked if what it gets has.
LEMMA WriteStep ==
  ASSUME IInv, fault = "none", NEW m \in MapAddress, NEW k \in [MapAddress -> Contents],
         memory' = [memory EXCEPT !.contents = k],
         \A x \in MapAddress : x # m => k[x] = memory.contents[x],
         strayed \subseteq strayed', strayed' \subseteq MapAddress,
         m = Map \/ m \in strayed',
         k[m].simulated => memory.contents[m].simulated \/ m \in strayed',
         UNCHANGED <<state, next_play_state, is_detached, current, registered, loaded, file,
                     items, dangling, entry, sessions, fault>>
  PROVE  IInv'
<1>1. memory \in MemoryType
  BY DEF IInv, Typed, PlayTypeOK
<1>4. /\ memory' \in MemoryType
      /\ memory'.objects = memory.objects /\ memory'.file_path = memory.file_path
      /\ memory'.live = memory.live /\ memory'.address = memory.address
      /\ memory'.contents = k
  BY <1>1, WriteFields
<1>5. Typed'
  <2>1. memory' \in MemoryType /\ memory'.file_path = memory.file_path
    BY <1>4
  <2>2. PlayTypeOK'
    BY <2>1 DEF IInv, Typed, PlayTypeOK
  <2> QED
    BY <2>1, <2>2 DEF IInv, Typed
<1>6. ToolstripAgrees' /\ FreedOnlyAfterAStop'
  BY DEF IInv, ToolstripAgrees, FreedOnlyAfterAStop
<1>7. RunningWorldIsItsOwn' /\ Map' = Map
  BY <1>4 DEF IInv, RunningWorldIsItsOwn, Map
<1>8. FirstRun'
  <2>1. memory.live \subseteq MapAddress
    BY <1>1 DEF MemoryType
  <2> QED
    BY <1>4, <1>7, <2>1 DEF IInv, FirstRun, FirstRunKeepsTheEditedWorld
<1>9. (sessions' = 0 => Owned') /\ NamesAreLoaded'
  BY <1>4 DEF IInv, Owned, Owners, NamesAreLoaded
<1>10. CleanReturn'
  <2>1. memory.live \subseteq MapAddress
    BY <1>1 DEF MemoryType
  <2>2. Map \in memory.live /\ k[Map].simulated =>
          memory.contents[Map].simulated \/ Map \in strayed'
    BY <2>1
  <2> QED
    BY <1>4, <1>7, <2>2 DEF IInv, CleanReturn, SimulatedFile
<1> QED
  BY <1>5, <1>6, <1>7, <1>8, <1>9, <1>10 DEF IInv

LEMMA UndoStep ==
  ASSUME IInv, fault = "none", NEW m \in items, Undo(m)
  PROVE  IInv'
<1>1. /\ m \in MapAddress /\ strayed \subseteq MapAddress /\ memory \in MemoryType
  BY DEF IInv, Typed, PlayTypeOK
<1>2. PICK v \in 0..MaxEdits : memory' = [memory EXCEPT !.contents[m].version = v]
  BY DEF Undo
<1> DEFINE c == [memory.contents[m] EXCEPT !.version = v]
           k == [memory.contents EXCEPT ![m] = c]
<1>3. c \in Contents /\ c.simulated = memory.contents[m].simulated
  BY <1>1 DEF MemoryType, Contents
<1>4. memory' = [memory EXCEPT !.contents = k]
  BY <1>1, <1>2 DEF MemoryType
<1> HIDE DEF c
<1>6. /\ k \in [MapAddress -> Contents] /\ k[m] = c
      /\ \A x \in MapAddress : x # m => k[x] = memory.contents[x]
  BY <1>1, <1>3 DEF MemoryType
<1> HIDE DEF k
<1>5. /\ strayed \subseteq strayed' /\ strayed' \subseteq MapAddress
      /\ m = Map \/ m \in strayed'
      /\ UNCHANGED <<state, next_play_state, is_detached, current, registered, loaded, file,
                     items, dangling, entry, sessions, fault>>
  BY <1>1 DEF Undo
<1> QED
  BY <1>1, <1>3, <1>4, <1>5, <1>6, WriteStep

LEMMA UndoIntoAnotherStep ==
  ASSUME IInv, fault = "none", NEW m \in dangling, UndoIntoAnother(m)
  PROVE  IInv'
<1>1. /\ m \in MapAddress /\ strayed \subseteq MapAddress /\ memory \in MemoryType
  BY DEF IInv, Typed, PlayTypeOK
<1>2. PICK v \in 0..MaxEdits : \E ran \in {memory.contents[m].simulated, TRUE} :
        memory' = [memory EXCEPT !.contents[m] = [version |-> v, simulated |-> ran]]
  BY DEF UndoIntoAnother
<1>3. PICK ran \in {memory.contents[m].simulated, TRUE} :
        memory' = [memory EXCEPT !.contents[m] = [version |-> v, simulated |-> ran]]
  BY <1>2
<1> DEFINE c == [version |-> v, simulated |-> ran]
           k == [memory.contents EXCEPT ![m] = c]
<1>4. c \in Contents
  BY <1>1 DEF MemoryType, Contents
<1>5. memory' = [memory EXCEPT !.contents = k]
  BY <1>1, <1>3 DEF MemoryType
<1> HIDE DEF c
<1>7. /\ k \in [MapAddress -> Contents]
      /\ \A x \in MapAddress : x # m => k[x] = memory.contents[x]
  BY <1>1, <1>4 DEF MemoryType
<1> HIDE DEF k
<1>6. /\ strayed \subseteq strayed' /\ strayed' \subseteq MapAddress /\ m \in strayed'
      /\ UNCHANGED <<state, next_play_state, is_detached, current, registered, loaded, file,
                     items, dangling, entry, sessions, fault>>
  BY <1>1 DEF UndoIntoAnother
<1> QED
  BY <1>1, <1>5, <1>6, <1>7, WriteStep

LEMMA SaveStep ==
  ASSUME IInv, fault = "none", Save
  PROVE  IInv'
<1>1. /\ Map \in MapAddress /\ memory \in MemoryType /\ memory.contents[Map] \in Contents
  BY DEF Save, Readable, IInv, Typed, PlayTypeOK, MemoryType, Map
<1>2. file' \in [Scene -> Contents]
  BY <1>1 DEF Save, IInv, Typed, PlayTypeOK
<1>3. Typed' /\ ToolstripAgrees' /\ FreedOnlyAfterAStop'
  BY <1>2 DEF Save, IInv, Typed, PlayTypeOK, ToolstripAgrees, FreedOnlyAfterAStop, undo
<1>4. RunningWorldIsItsOwn' /\ FirstRun'
  BY DEF Save, undo, IInv, RunningWorldIsItsOwn, FirstRun, FirstRunKeepsTheEditedWorld, Map
<1>5. (sessions' = 0 => Owned') /\ NamesAreLoaded'
  BY DEF Save, IInv, Owned, Owners, NamesAreLoaded
\* Saving editor_world writes the simulated contents to its file.
<1>6. CleanReturn'
  <2> SUFFICES ASSUME memory.contents[Map].simulated PROVE SimulatedFile'
    BY DEF Save, CleanReturn, Map
  <2>1. memory.file_path[current] \in Scene
    BY DEF Save, Readable, IInv, Typed, PlayTypeOK
  <2>2. file'[memory.file_path[current]] = memory.contents[Map]
    BY <2>1 DEF Save, IInv, Typed, PlayTypeOK
  <2> QED
    BY <2>1, <2>2 DEF SimulatedFile
<1> QED
  BY <1>3, <1>4, <1>5, <1>6 DEF IInv

----------------------------------------------------------------------------
(* Scenes opened and deleted *)

LEMMA DeleteSceneStep ==
  ASSUME IInv, fault = "none", NEW s \in Scene, DeleteScene(s)
  PROVE  IInv'
<1>1. registered \subseteq Scene /\ s \notin registered'
  BY DEF DeleteScene, IInv, Typed, PlayTypeOK
<1>2. Typed' /\ ToolstripAgrees' /\ FreedOnlyAfterAStop'
  BY <1>1 DEF DeleteScene, IInv, Typed, PlayTypeOK, ToolstripAgrees, FreedOnlyAfterAStop, undo
<1>3. RunningWorldIsItsOwn' /\ FirstRun'
  BY DEF DeleteScene, undo, IInv, RunningWorldIsItsOwn, FirstRun, FirstRunKeepsTheEditedWorld, Map
<1>4. sessions' = 0 => Owned'
  BY <1>1 DEF DeleteScene, IInv, Owned, Owners
<1>5. NamesAreLoaded' /\ CleanReturn'
  BY DEF DeleteScene, undo, IInv, NamesAreLoaded, CleanReturn, SimulatedFile, Map
<1> QED
  BY <1>2, <1>3, <1>4, <1>5 DEF IInv

LEMMA OpenLoadedScene ==
  ASSUME IInv, fault = "none", NEW s \in Scene, s \in loaded, OpenScene(s)
  PROVE  IInv'
<1>1. /\ current' = s /\ loaded' = loaded /\ memory' = memory
      /\ UNCHANGED <<state, next_play_state, is_detached, registered, file, items, dangling,
                     strayed, entry, sessions, fault>>
  BY DEF OpenScene, undo
<1>2. s \in World /\ s # Runtime /\ s # NoWorld
  BY WorldAssumption DEF World
<1>3. Typed' /\ ToolstripAgrees' /\ FreedOnlyAfterAStop'
  BY <1>1, <1>2 DEF IInv, Typed, PlayTypeOK, ToolstripAgrees, FreedOnlyAfterAStop
<1>4. RunningWorldIsItsOwn' /\ FirstRun'
  BY <1>1, <1>2 DEF IInv, RunningWorldIsItsOwn, FirstRun, FirstRunKeepsTheEditedWorld
<1>5. sessions' = 0 => Owned'
  BY <1>1 DEF IInv, Owned, Owners
<1>6. NamesAreLoaded' /\ CleanReturn'
  <2>1. s # Editor
    BY WorldAssumption
  <2> QED
    BY <1>1, <2>1 DEF IInv, NamesAreLoaded, CleanReturn
<1> QED
  BY <1>3, <1>4, <1>5, <1>6 DEF IInv

LEMMA ImportScene ==
  ASSUME IInv, fault = "none", NEW s \in Scene, s \notin loaded, OpenScene(s)
  PROVE  IInv'
<1>1. PICK m \in MapAddress : FreeFor(s, m) /\ memory' = DeserializeWorld(memory, s, m, s)
  BY DEF OpenScene
<1>2. /\ current' = s /\ loaded' = loaded \union {s} /\ s \in registered
      /\ UNCHANGED <<state, next_play_state, is_detached, registered, file, entry, sessions,
                     fault>>
      /\ items' \subseteq MapAddress /\ dangling' \subseteq MapAddress
      /\ strayed' \subseteq MapAddress
  BY DEF OpenScene, ItemsOutlive, IInv, Typed, PlayTypeOK
<1>3. /\ s \in World /\ s # Runtime /\ s # Editor /\ s # NoWorld
      /\ Scene \subseteq World /\ Runtime \in World /\ Editor \in World
      /\ Runtime \notin Scene
  BY WorldAssumption DEF World
<1>4. /\ memory \in MemoryType /\ file \in [Scene -> Contents]
      /\ loaded \subseteq Scene
  BY DEF IInv, Typed, PlayTypeOK
<1>5. m \notin memory.live \ {memory.objects[s]}
  BY <1>1, <1>3, <1>4, FreeForFact
<1>6. /\ memory' \in MemoryType
      /\ memory'.objects = [memory.objects EXCEPT ![s] = m]
      /\ memory'.file_path = [memory.file_path EXCEPT ![s] = s]
      /\ memory'.live = (memory.live \ {memory.objects[s]}) \union {m}
      /\ memory'.address[m] = {s}
      /\ \A x \in MapAddress : x # m /\ x # memory.objects[s] =>
           memory'.address[x] = memory.address[x]
  BY <1>1, <1>3, <1>4, DeserializeFields
<1>7. /\ memory'.file_path[s] = s
      /\ \A w \in World : w # s => memory'.file_path[w] = memory.file_path[w]
      /\ memory'.objects[s] = m
      /\ \A w \in World : w # s => memory'.objects[w] = memory.objects[w]
  BY <1>3, <1>4, <1>6 DEF MemoryType
<1>8. Typed'
  <2>1. \A w \in loaded' : memory'.file_path[w] \in Scene
    BY <1>2, <1>3, <1>4, <1>7 DEF IInv, Typed
  <2>2. state' # "Edit" => memory'.file_path[Editor] \in Scene
    BY <1>2, <1>3, <1>7 DEF IInv, Typed
  <2>3. PlayTypeOK'
    BY <1>2, <1>3, <1>6, <1>7 DEF IInv, Typed, PlayTypeOK
  <2> QED
    BY <2>1, <2>2, <2>3 DEF Typed
<1>9. ToolstripAgrees' /\ FreedOnlyAfterAStop' /\ RunningWorldIsItsOwn'
  BY <1>2, <1>3 DEF IInv, ToolstripAgrees, FreedOnlyAfterAStop, RunningWorldIsItsOwn
<1>10. FirstRun'
  BY <1>2, <1>3, <1>7 DEF IInv, FirstRun, FirstRunKeepsTheEditedWorld
<1>11. sessions' = 0 => Owned'
  <2> SUFFICES ASSUME sessions = 0 PROVE Owned'
    BY <1>2
  <2>1. Owned /\ Owners' = Owners \union {s} /\ s \notin Owners /\ Owners \subseteq World
    BY <1>2, <1>3, <1>4 DEF IInv, Owners
  <2>2. memory.objects[s] = NoMap
    BY <1>2, <2>1 DEF Owned
  <2>3. NoMap \notin memory.live /\ memory.live \subseteq MapAddress
    BY <1>4, AddressAssumption DEF MemoryType
  <2>4. \A w \in Owners : /\ memory'.objects[w] = memory.objects[w]
                          /\ memory.objects[w] \in memory.live
                          /\ memory.objects[w] # m
                          /\ memory.address[memory.objects[w]] \subseteq {w}
    BY <1>5, <1>7, <2>1, <2>2, <2>3 DEF Owned
  <2>5. \A w \in Owners' : /\ memory'.objects[w] \in memory'.live
                           /\ memory'.address[memory'.objects[w]] \subseteq {w}
    <3>1. m \in memory'.live /\ memory'.address[m] \subseteq {s}
      BY <1>6
    <3>2. \A w \in Owners : /\ memory.objects[w] \in memory'.live
                            /\ memory'.address[memory.objects[w]]
                                 = memory.address[memory.objects[w]]
      BY <1>6, <2>2, <2>3, <2>4
    <3> QED
      BY <1>7, <2>1, <2>4, <3>1, <3>2
  <2>6. \A v, w \in Owners' : memory'.objects[v] = memory'.objects[w] => v = w
    <3>1. \A v, w \in Owners : memory.objects[v] = memory.objects[w] => v = w
      BY <2>1 DEF Owned
    <3> QED
      BY <1>7, <2>1, <2>4, <3>1
  <2>7. \A x \in registered' \ loaded' : memory'.objects[x] = NoMap
    <3>1. registered \subseteq Scene
      BY DEF IInv, Typed, PlayTypeOK
    <3> QED
      BY <1>2, <1>3, <1>7, <2>1, <3>1 DEF Owned
  <2>8. current' \in Owners'
    BY <1>2, <2>1
  <2>9. ASSUME NEW x \in memory'.live
        PROVE  \/ memory'.address[x] \intersect Scene # {}
               \/ state' # "Edit" /\ x = memory'.objects[Runtime]
    <3>1. CASE x = m
      BY <1>6, <3>1
    <3>2. CASE x # m
      <4>1. x \in memory.live /\ memory'.address[x] = memory.address[x]
        BY <1>6, <2>2, <2>3, <3>2
      <4> QED
        BY <1>2, <1>3, <1>7, <2>1, <4>1 DEF Owned
    <3> QED
      BY <3>1, <3>2
  <2> QED
    BY <2>5, <2>6, <2>7, <2>8, <2>9 DEF Owned
<1>12. NamesAreLoaded'
  <2>1. \A x \in memory'.live : x # m =>
          x \in memory.live /\ memory'.address[x] = memory.address[x]
    BY <1>4, <1>6 DEF MemoryType
  <2> QED
    BY <1>2, <1>6, <2>1 DEF IInv, NamesAreLoaded
<1>13. CleanReturn'
  BY <1>2, <1>3 DEF CleanReturn
<1> QED
  BY <1>8, <1>9, <1>10, <1>11, <1>12, <1>13 DEF IInv

----------------------------------------------------------------------------
(* Play and Stop *)

\* What Play leaves in the memory.
LEMMA PlayFields ==
  ASSUME IInv, OnScenePlay, current # Runtime
  PROVE  \E m \in MapAddress :
           /\ m \notin memory.live \ {memory.objects[Runtime]}
           /\ memory' \in MemoryType
           /\ memory'.objects[Runtime] = m /\ memory'.objects[Editor] = Map
           /\ \A s \in Scene : memory'.objects[s] = memory.objects[s]
           /\ memory'.file_path[Runtime] \in Scene /\ memory'.file_path[Editor] \in Scene
           /\ \A s \in Scene : memory'.file_path[s] = memory.file_path[s]
           /\ memory'.live = (memory.live \ {memory.objects[Runtime]}) \union {m}
           /\ memory'.address[m] = {Runtime}
           /\ \A x \in MapAddress : x # m /\ x # memory.objects[Runtime] =>
                /\ memory'.address[x] = memory.address[x]
                /\ memory'.contents[x] = memory.contents[x]
<1> DEFINE s == memory.file_path[current]
<1>1. PICK m \in MapAddress :
        /\ FreeFor(Runtime, m)
        /\ memory' = CopyToEditor([DeserializeWorld(memory, Runtime, m, s)
                                     EXCEPT !.contents[m] = memory.contents[Map]])
  BY DEF OnScenePlay
<1>2. /\ current \in World /\ current # NoWorld /\ s \in Scene
      /\ Map \in MapAddress /\ memory.objects[current] = Map
      /\ memory \in MemoryType /\ file \in [Scene -> Contents]
      /\ memory.contents[Map] \in Contents
  BY DEF OnScenePlay, Readable, IInv, Typed, PlayTypeOK, MemoryType, Map
<1>3. /\ Runtime \in World /\ Editor \in World /\ Runtime # Editor /\ Scene \subseteq World
      /\ Runtime \notin Scene /\ Editor \notin Scene
  BY WorldAssumption DEF World
<1> HIDE DEF s
<1> DEFINE d == DeserializeWorld(memory, Runtime, m, s)
<1>4. /\ d \in MemoryType
      /\ d.objects = [memory.objects EXCEPT ![Runtime] = m]
      /\ d.file_path = [memory.file_path EXCEPT ![Runtime] = s]
      /\ d.live = (memory.live \ {memory.objects[Runtime]}) \union {m}
      /\ d.address[m] = {Runtime}
      /\ \A x \in MapAddress : x # m /\ x # memory.objects[Runtime] =>
           d.address[x] = memory.address[x]
      /\ \A x \in MapAddress : x # m /\ x # memory.objects[Runtime] =>
           d.contents[x] = memory.contents[x]
  BY <1>2, <1>3, DeserializeFields
<1> HIDE DEF d
<1> DEFINE k == [d.contents EXCEPT ![m] = memory.contents[Map]]
           e == [d EXCEPT !.contents = k]
<1>5. /\ k \in [MapAddress -> Contents]
      /\ \A x \in MapAddress : x # m => k[x] = d.contents[x]
  BY <1>2, <1>4 DEF MemoryType
<1>6. memory' = CopyToEditor(e)
  BY <1>1 DEF d
<1> HIDE DEF k
<1>7. /\ e \in MemoryType
      /\ e.objects = d.objects /\ e.file_path = d.file_path
      /\ e.live = d.live /\ e.address = d.address /\ e.contents = k
  BY <1>4, <1>5, WriteFields
<1> HIDE DEF e
<1>8. /\ memory' \in MemoryType
      /\ memory'.objects = [e.objects EXCEPT ![Editor] = e.objects[current]]
      /\ memory'.file_path = [e.file_path EXCEPT ![Editor] = e.file_path[current]]
      /\ memory'.live = e.live /\ memory'.address = e.address /\ memory'.contents = e.contents
  BY <1>2, <1>6, <1>7, CopyFields
<1>9. /\ memory'.objects[Runtime] = m /\ memory'.objects[Editor] = Map
      /\ \A x \in Scene : memory'.objects[x] = memory.objects[x]
  BY <1>2, <1>3, <1>4, <1>7, <1>8 DEF MemoryType
<1>10. /\ memory'.file_path[Runtime] = s /\ memory'.file_path[Editor] = s
       /\ \A x \in Scene : memory'.file_path[x] = memory.file_path[x]
  BY <1>2, <1>3, <1>4, <1>7, <1>8 DEF MemoryType, s
<1>11. m \notin memory.live \ {memory.objects[Runtime]}
  BY <1>1, <1>2, <1>3, FreeForFact
<1>12. \A x \in MapAddress : x # m /\ x # memory.objects[Runtime] =>
                /\ memory'.address[x] = memory.address[x]
                /\ memory'.contents[x] = memory.contents[x]
  BY <1>4, <1>5, <1>7, <1>8
<1> QED
  BY <1>2, <1>4, <1>7, <1>8, <1>9, <1>10, <1>11, <1>12

LEMMA PlayStep ==
  ASSUME IInv, fault = "none", state = "Edit", OnScenePlay,
         state' \in {"Play", "Paused"}, next_play_state' \in {"Play", "Edit"},
         next_play_state' = "Edit" <=> state' = "Play", is_detached' \in BOOLEAN
  PROVE  IInv'
<1>1. /\ current # Runtime /\ Map \in memory.live /\ memory \in MemoryType
      /\ Map \in MapAddress /\ memory.live \subseteq MapAddress
      /\ memory.contents[Map] \in Contents
  BY DEF OnScenePlay, Readable, IInv, ToolstripAgrees, Typed, PlayTypeOK, MemoryType
<1>2. /\ current' = Runtime /\ entry' = memory.contents[Map]
      /\ UNCHANGED <<registered, loaded, sessions, fault>>
      /\ items' \subseteq MapAddress /\ dangling' \subseteq MapAddress /\ strayed' = {}
  BY DEF OnScenePlay, ItemsOutlive, IInv, Typed, PlayTypeOK
<1>3. PICK m \in MapAddress :
           /\ m \notin memory.live \ {memory.objects[Runtime]}
           /\ memory' \in MemoryType
           /\ memory'.objects[Runtime] = m /\ memory'.objects[Editor] = Map
           /\ \A s \in Scene : memory'.objects[s] = memory.objects[s]
           /\ memory'.file_path[Runtime] \in Scene /\ memory'.file_path[Editor] \in Scene
           /\ \A s \in Scene : memory'.file_path[s] = memory.file_path[s]
           /\ memory'.live = (memory.live \ {memory.objects[Runtime]}) \union {m}
           /\ memory'.address[m] = {Runtime}
           /\ \A x \in MapAddress : x # m /\ x # memory.objects[Runtime] =>
                /\ memory'.address[x] = memory.address[x]
                /\ memory'.contents[x] = memory.contents[x]
  BY <1>1, PlayFields
<1>4. /\ Runtime \in World /\ Editor \in World /\ Runtime # Editor /\ Scene \subseteq World
      /\ Runtime \notin Scene /\ Editor \notin Scene /\ Runtime # NoWorld
  BY WorldAssumption DEF World
<1>5. file' \in [Scene -> Contents]
  BY <1>1 DEF OnScenePlay, IInv, Typed, PlayTypeOK
<1>6. Map' = m
  BY <1>2, <1>3 DEF Map
<1>7. Typed'
  <2>1. PlayTypeOK'
    BY <1>1, <1>2, <1>3, <1>4, <1>5 DEF IInv, Typed, PlayTypeOK, EditorState
  <2>2. \A s \in loaded' : memory'.file_path[s] \in Scene
    BY <1>2, <1>3 DEF IInv, Typed, PlayTypeOK
  <2> QED
    BY <1>3, <2>1, <2>2 DEF Typed
<1>8. ToolstripAgrees'
  BY <1>2 DEF ToolstripAgrees
<1>9. RunningWorldIsItsOwn'
  BY <1>3, <1>6 DEF RunningWorldIsItsOwn
<1>10. FirstRun'
  <2> SUFFICES ASSUME sessions = 0
               PROVE  /\ memory'.objects[Editor] \in memory'.live
                      /\ memory'.objects[Editor] # m
                      /\ memory'.contents[memory'.objects[Editor]] = entry'
    BY <1>2, <1>6 DEF FirstRun, FirstRunKeepsTheEditedWorld
  <2>1. memory.objects[Runtime] = NoMap
    BY DEF IInv, FirstRun
  <2>2. NoMap \notin memory.live
    BY <1>1, AddressAssumption
  <2> QED
    BY <1>1, <1>2, <1>3, <2>1, <2>2
<1>11. sessions' = 0 => Owned'
  <2> SUFFICES ASSUME sessions = 0 PROVE Owned'
    BY <1>2
  <2>1. memory.objects[Runtime] = NoMap
    BY DEF IInv, FirstRun
  <2>2. NoMap \notin memory.live
    BY <1>1, AddressAssumption
  <2>3. /\ Owned /\ Owners = loaded /\ Owners' = loaded \union {Runtime}
        /\ loaded \subseteq Scene
    BY <1>2 DEF IInv, Owners, Typed, PlayTypeOK
  <2>4. \A w \in loaded : /\ memory'.objects[w] = memory.objects[w]
                          /\ memory.objects[w] \in memory.live
                          /\ memory.objects[w] # m
                          /\ memory.objects[w] # memory.objects[Runtime]
                          /\ memory.address[memory.objects[w]] \subseteq {w}
    BY <1>3, <2>1, <2>2, <2>3 DEF Owned
  <2>5. \A w \in Owners' : /\ memory'.objects[w] \in memory'.live
                           /\ memory'.address[memory'.objects[w]] \subseteq {w}
    BY <1>1, <1>3, <2>3, <2>4
  <2>6. \A v, w \in Owners' : memory'.objects[v] = memory'.objects[w] => v = w
    <3>1. \A v, w \in loaded : memory.objects[v] = memory.objects[w] => v = w
      BY <2>3 DEF Owned
    <3> QED
      BY <1>3, <2>3, <2>4, <3>1
  <2>7. \A s \in registered' \ loaded' : memory'.objects[s] = NoMap
    BY <1>2, <1>3, <2>3 DEF Owned, IInv, Typed, PlayTypeOK
  <2>8. current' \in Owners'
    BY <1>2, <2>3
  <2>9. ASSUME NEW x \in memory'.live, x # memory'.objects[Runtime]
        PROVE  memory'.address[x] \intersect Scene # {}
    <3>1. x \in memory.live /\ memory'.address[x] = memory.address[x]
      BY <1>1, <1>3, <2>1, <2>2, <2>9
    <3> QED
      BY <2>3, <3>1 DEF Owned
  <2> QED
    BY <2>5, <2>6, <2>7, <2>8, <2>9 DEF Owned
<1>12. FreedOnlyAfterAStop'
  BY <1>2 DEF FreedOnlyAfterAStop
<1>13. NamesAreLoaded'
  <2>1. \A x \in memory'.live : x # m =>
          x \in memory.live /\ memory'.address[x] = memory.address[x]
    BY <1>1, <1>3
  <2>2. Runtime \notin registered
    BY <1>4 DEF IInv, Typed, PlayTypeOK
  <2> QED
    BY <1>2, <1>3, <2>1, <2>2 DEF IInv, NamesAreLoaded
<1>14. CleanReturn'
  BY <1>2, <1>4 DEF CleanReturn
<1> QED
  BY <1>7, <1>8, <1>9, <1>10, <1>11, <1>12, <1>13, <1>14 DEF IInv

LEMMA StopStep ==
  ASSUME IInv, fault = "none", state # "Edit", OnSceneStop,
         state' = "Edit", next_play_state' = "Play", is_detached' = FALSE
  PROVE  IInv'
<1>1. /\ current' = Editor /\ sessions' = sessions + 1
      /\ memory' = DestroyWorld(memory, Runtime)
      /\ UNCHANGED <<registered, loaded, file, entry, fault>>
      /\ items' \subseteq MapAddress /\ dangling' \subseteq MapAddress
      /\ strayed' \subseteq MapAddress
  BY DEF OnSceneStop, ItemsOutlive, IInv, Typed, PlayTypeOK
<1>2. /\ Runtime \in World /\ Editor \in World /\ Runtime # Editor /\ Editor # NoWorld
  BY WorldAssumption DEF World
<1>3. memory \in MemoryType /\ memory.objects[Runtime] \in MapOrNone /\ sessions \in Nat
  BY <1>2 DEF IInv, Typed, PlayTypeOK, MemoryType, MapOrNone
<1>4. memory' \in MemoryType /\ memory'.file_path = memory.file_path
  BY <1>1, <1>3, FreeMapFields DEF DestroyWorld
<1>5. Typed'
  <2>1. memory'.file_path[current'] \in Scene /\ current' \in World /\ sessions' \in Nat
    BY <1>1, <1>2, <1>3, <1>4 DEF IInv, Typed
  <2>2. PlayTypeOK'
    BY <1>1, <1>4, <2>1 DEF IInv, Typed, PlayTypeOK, EditorState
  <2>3. \A s \in loaded' : memory'.file_path[s] \in Scene
    BY <1>1, <1>4 DEF IInv, Typed
  <2> QED
    BY <2>2, <2>3 DEF Typed
<1>6. ToolstripAgrees' /\ RunningWorldIsItsOwn' /\ FreedOnlyAfterAStop'
  BY <1>1, <1>2 DEF ToolstripAgrees, RunningWorldIsItsOwn, FreedOnlyAfterAStop
<1>7. sessions' # 0
  BY <1>1, <1>3
<1>8. /\ memory'.objects = memory.objects
      /\ memory'.live = memory.live \ {memory.objects[Runtime]}
      /\ \A x \in memory'.live : memory'.address[x] = memory.address[x]
                                /\ memory'.contents[x] = memory.contents[x]
  <2>1. /\ memory'.objects = memory.objects
        /\ memory'.live = memory.live \ {memory.objects[Runtime]}
        /\ \A x \in MapAddress : x # memory.objects[Runtime] =>
             memory'.address[x] = memory.address[x]
        /\ \A x \in MapAddress : x # memory.objects[Runtime] =>
             memory'.contents[x] = memory.contents[x]
    BY <1>1, <1>3, FreeMapFields DEF DestroyWorld
  <2> QED
    BY <1>3, <2>1 DEF MemoryType
<1>9. NamesAreLoaded'
  <2>1. Editor \notin registered
    BY WorldAssumption DEF IInv, Typed, PlayTypeOK
  <2> QED
    BY <1>1, <1>8, <2>1 DEF IInv, NamesAreLoaded
\* The map Stop goes back to is not that of the run, so it names a scene.
<1>10. CleanReturn'
  <2> SUFFICES ASSUME sessions = 0, Map' \in memory'.live
               PROVE  memory'.address[Map'] \intersect Scene # {}
    BY <1>1, <1>3 DEF CleanReturn
  <2> QED
    BY <1>8 DEF IInv, Owned
<1> QED
  BY <1>5, <1>6, <1>7, <1>9, <1>10 DEF IInv, FirstRun, FirstRunKeepsTheEditedWorld

\* The three buttons, whatever is_detached is when they call.
LEMMA GoToStateStep ==
  ASSUME IInv, fault = "none", NEW new \in EditorState, NEW detached \in BOOLEAN,
         detached => is_detached \/ new # "Edit", GoToState(new, detached),
         new = "Paused" => state \in {"Play", "Edit"}
  PROVE  IInv'
<1>1. /\ state \in EditorState /\ next_play_state \in {"Play", "Edit"}
      /\ next_play_state = "Edit" <=> state = "Play"
      /\ is_detached => state # "Edit"
  BY DEF IInv, Typed, PlayTypeOK, ToolstripAgrees
<1>2. CASE state = "Edit" /\ new # "Edit"
  <2>1. /\ state' = new /\ OnScenePlay /\ is_detached' = detached
        /\ next_play_state' = IF new = "Play" THEN "Edit" ELSE "Play"
    BY <1>1, <1>2 DEF GoToState, EditorState
  <2> QED
    BY <1>1, <1>2, <2>1, PlayStep DEF EditorState
<1>3. CASE state # "Edit" /\ new = "Edit"
  <2>1. /\ state' = "Edit" /\ OnSceneStop /\ is_detached' = FALSE
        /\ next_play_state' = "Play"
    BY <1>1, <1>3 DEF GoToState, EditorState
  <2> QED
    BY <1>3, <2>1, StopStep
<1>4. CASE (state = "Edit") <=> (new = "Edit")
  <2>1. /\ state' = new /\ is_detached' = detached /\ UNCHANGED Worlds
        /\ next_play_state' \in {"Play", "Edit"}
        /\ next_play_state' = "Edit" <=> new = "Play"
        /\ state' = "Edit" <=> state = "Edit"
    BY <1>1, <1>4 DEF GoToState, EditorState
  <2>2. UNCHANGED <<current, registered, loaded, memory, file, items, dangling, strayed, entry,
                    sessions, fault>>
    BY <2>1 DEF Worlds, undo
  <2>3. Typed'
    BY <2>1, <2>2 DEF IInv, Typed, PlayTypeOK
  <2>4. ToolstripAgrees'
    BY <1>1, <1>4, <2>1, <2>2 DEF IInv, ToolstripAgrees
  <2>5. RunningWorldIsItsOwn' /\ FirstRun' /\ FreedOnlyAfterAStop'
    BY <2>1, <2>2 DEF IInv, RunningWorldIsItsOwn, FirstRun, FirstRunKeepsTheEditedWorld,
                      FreedOnlyAfterAStop, Map
  <2>6. (sessions' = 0 => Owned') /\ NamesAreLoaded' /\ CleanReturn'
    BY <2>1, <2>2 DEF IInv, Owned, Owners, NamesAreLoaded, CleanReturn, SimulatedFile, Map
  <2> QED
    BY <2>3, <2>4, <2>5, <2>6 DEF IInv
<1> QED
  BY <1>2, <1>3, <1>4

----------------------------------------------------------------------------
(* The theorems *)

LEMMA InitStep ==
  Init => IInv
<1> SUFFICES ASSUME Init PROVE IInv
  OBVIOUS
<1>1. Fresh \in Contents
  BY BoundAssumption DEF Fresh, Contents
<1>2. /\ Scene \subseteq World /\ Runtime \in World /\ NoWorld # Runtime
  BY WorldAssumption DEF World
<1>3. Typed
  BY <1>1, NoMemoryTyped DEF Init, Typed, PlayTypeOK, EditorState
<1>4. ToolstripAgrees /\ RunningWorldIsItsOwn /\ FreedOnlyAfterAStop
  BY <1>2 DEF Init, ToolstripAgrees, RunningWorldIsItsOwn, FreedOnlyAfterAStop
<1>5. FirstRun
  BY <1>2, NoMemoryTyped DEF Init, FirstRun, FirstRunKeepsTheEditedWorld
<1>6. Owned
  BY <1>2, NoMemoryTyped DEF Init, Owned, Owners
<1>7. NamesAreLoaded /\ CleanReturn
  BY <1>2, NoMemoryTyped, WorldAssumption DEF Init, NamesAreLoaded, CleanReturn, World
<1> QED
  BY <1>3, <1>4, <1>5, <1>6, <1>7 DEF IInv

LEMMA NextStep ==
  IInv /\ [Next]_vars => IInv'
<1> SUFFICES ASSUME IInv, [Next]_vars PROVE IInv'
  OBVIOUS
<1>1. CASE UNCHANGED vars
  BY <1>1 DEF vars, undo, IInv, Typed, PlayTypeOK, ToolstripAgrees, RunningWorldIsItsOwn, FirstRun,
              FirstRunKeepsTheEditedWorld, Owned, Owners, NamesAreLoaded, CleanReturn,
              SimulatedFile, FreedOnlyAfterAStop, Map
<1>2. CASE Next
  <2>1. fault = "none"
    BY <1>2 DEF Next
  <2>2. CASE FrameReadsFreed
    BY <2>2, UnspoiltFrames, FaultStep DEF FrameReadsFreed
  <2>3. CASE NoSceneOpen
    BY <2>3, FaultStep DEF NoSceneOpen
  <2>4. CASE LoadReadsFreedPath
    BY <2>4, FaultStep DEF LoadReadsFreedPath
  <2>5. ASSUME NEW s \in Scene, OpenScene(s) PROVE IInv'
    BY <2>1, <2>5, OpenLoadedScene, ImportScene
  <2>6. ASSUME NEW s \in Scene, DeleteScene(s) PROVE IInv'
    BY <2>1, <2>6, DeleteSceneStep
  <2>7. ASSUME NEW asParent \in BOOLEAN, AddEntity(asParent) PROVE IInv'
    BY <2>1, <2>7, AddEntityStep
  <2>8. ASSUME NEW m \in MapAddress, AddEntityGrowing(m) PROVE IInv'
    BY <2>1, <2>8, AddEntityGrowingStep
  <2>16. CASE EditField
    BY <2>1, <2>16, EditFieldStep
  <2>17. ASSUME NEW m \in items, Undo(m) PROVE IInv'
    BY <2>1, <2>17, UndoStep
  <2>18. ASSUME NEW m \in dangling, UndoIntoAnother(m) PROVE IInv'
    BY <2>1, <2>18, UndoIntoAnotherStep
  <2>19. CASE UndoIntoFreed
    BY <2>19, FaultStep DEF UndoIntoFreed
  <2>9. CASE Save
    BY <2>1, <2>9, SaveStep
  <2>10. CASE Load
    BY <2>1, <2>10, LoadStep
  <2>11. CASE Simulate
    BY <2>1, <2>11, SimulateStep
  <2>12. /\ next_play_state \in EditorState /\ is_detached \in BOOLEAN
         /\ next_play_state # "Paused"
    BY DEF IInv, Typed, PlayTypeOK, EditorState
  <2>13. CASE PlayButton
    BY <2>1, <2>12, <2>13, GoToStateStep DEF PlayButton
  <2>14. CASE PauseButton
    BY <2>1, <2>12, <2>14, GoToStateStep DEF PauseButton, EditorState
  <2>15. CASE PlayDetached
    BY <2>1, <2>15, GoToStateStep DEF PlayDetached, EditorState
  <2> QED
    BY <1>2, <2>2, <2>3, <2>4, <2>5, <2>6, <2>7, <2>8, <2>9, <2>10, <2>11, <2>13, <2>14, <2>15,
       <2>16, <2>17, <2>18, <2>19
       DEF Next
<1> QED
  BY <1>1, <1>2

LEMMA Inductive == Spec => []IInv
  BY InitStep, NextStep, PTL DEF Spec

\* Every variable keeps its type and the open world knows its file, in any mixture of
\* runs, scenes opened and deleted, saves and loads.
THEOREM WorldsKnowTheirFiles == Spec => []PlayTypeOK
<1>1. IInv => PlayTypeOK
  BY DEF IInv, Typed
<1> QED
  BY <1>1, Inductive, PTL

\* Play, Pause and Play detached cannot bring the toolstrip out of step with the run.
THEOREM ButtonsAgree == Spec => []ToolstripAgrees
<1>1. IInv => ToolstripAgrees
  BY DEF IInv
<1> QED
  BY <1>1, Inductive, PTL

\* A run never shares the map of another world, not even a run after a Stop.
THEOREM RunOwnsItsMap == Spec => []RunningWorldIsItsOwn
<1>1. IInv => RunningWorldIsItsOwn
  BY DEF IInv
<1> QED
  BY <1>1, Inductive, PTL

\* The first run leaves the edited world as Play found it, unless an undo or a redo of
\* that run wrote into it.
THEOREM FirstStopReturns == Spec => []FirstRunKeepsTheEditedWorld
<1>1. IInv => FirstRunKeepsTheEditedWorld
  BY DEF IInv, FirstRun
<1> QED
  BY <1>1, Inductive, PTL

\* No frame reads freed memory before a Stop or a deleted scene asset, whatever was
\* loaded, edited and undone until then.
THEOREM FramesAreSafeAtFirst == Spec => []FreedOnlyAfterAStop
<1>1. IInv => FreedOnlyAfterAStop
  BY DEF IInv
<1> QED
  BY <1>1, Inductive, PTL

\* What frees the map of a world that items point into.
LEMMA DangleStep ==
  ASSUME IInv, Next, sessions' = 0, NEW m \in dangling', m \notin dangling
  PROVE  m = Map /\ current' = current
<1>1. items \subseteq MapAddress /\ sessions \in Nat /\ NoMap \notin MapAddress
  BY AddressAssumption DEF IInv, Typed, PlayTypeOK
<1>2. ASSUME NEW kind, Fault(kind) PROVE FALSE
  BY <1>2 DEF Fault
<1>3. ASSUME dangling' = dangling PROVE FALSE
  BY <1>3
<1>4. ASSUME NEW s \in Scene, OpenScene(s) PROVE FALSE
  <2>1. s \notin loaded /\ s \in registered /\ ItemsOutlive(memory.objects[s])
    BY <1>3, <1>4 DEF OpenScene, undo
  <2>2. memory.objects[s] = NoMap
    BY <1>4, <2>1 DEF OpenScene, IInv, Owned
  <2> QED
    BY <1>1, <2>1, <2>2 DEF ItemsOutlive
<1>5. ASSUME NEW x \in MapAddress, AddEntityGrowing(x) PROVE m = Map /\ current' = current
  BY <1>5 DEF AddEntityGrowing, ItemsOutlive
<1>6. ASSUME Load PROVE m = Map /\ current' = current
  BY <1>6 DEF Load, ItemsOutlive
<1>7. ASSUME NEW new, NEW detached, GoToState(new, detached) PROVE FALSE
  <2>1. CASE state = "Edit" /\ OnScenePlay
    <3>1. memory.objects[Runtime] = NoMap
      BY <2>1 DEF OnScenePlay, IInv, FirstRun
    <3> QED
      BY <1>1, <2>1, <3>1 DEF OnScenePlay, ItemsOutlive
  <2>2. CASE OnSceneStop
    BY <1>1, <2>2 DEF OnSceneStop
  <2>3. CASE UNCHANGED Worlds
    BY <1>3, <2>3 DEF Worlds, undo
  <2> QED
    BY <1>7, <2>1, <2>2, <2>3 DEF GoToState
<1>8. ASSUME NEW s \in Scene, DeleteScene(s) PROVE FALSE
  BY <1>3, <1>8 DEF DeleteScene, undo
<1>9. ASSUME NEW asParent \in BOOLEAN, AddEntity(asParent) PROVE FALSE
  BY <1>3, <1>9 DEF AddEntity, undo
<1>10. ASSUME EditField \/ (\E x \in items : Undo(x)) \/ (\E x \in dangling : UndoIntoAnother(x))
       PROVE  FALSE
  BY <1>3, <1>10 DEF EditField, Undo, UndoIntoAnother
<1>11. ASSUME Save \/ Simulate PROVE FALSE
  BY <1>3, <1>11 DEF Save, Simulate, undo
<1>12. ASSUME FrameReadsFreed \/ NoSceneOpen \/ LoadReadsFreedPath \/ UndoIntoFreed PROVE FALSE
  BY <1>2, <1>12 DEF FrameReadsFreed, NoSceneOpen, LoadReadsFreedPath, UndoIntoFreed
<1>13. ASSUME PlayButton \/ PauseButton \/ PlayDetached PROVE FALSE
  BY <1>7, <1>13 DEF PlayButton, PauseButton, PlayDetached
<1> QED
  BY <1>4, <1>5, <1>6, <1>8, <1>9, <1>10, <1>11, <1>12, <1>13 DEF Next

\* Undo and redo write to freed memory only after a Scene > Load, the growth of a map or
\* a Stop: Play and the opening of scenes leave every item its map.
THEOREM ItemsKeepTheirMaps == Spec => ItemsDangleWithTheirMap
<1>1. IInv /\ [Next]_vars =>
        [ sessions' = 0 => \A m \in dangling' \ dangling : m = Map /\ current' = current ]_vars
  BY DangleStep
<1> QED
  BY <1>1, Inductive, PTL DEF Spec, ItemsDangleWithTheirMap

\* Once stopped, the first run shows up in the edited scene only through a file that
\* holds it, through a scene that was opened and simulated meanwhile, or by an undo into
\* memory that is used again.
THEOREM RunsStayApart == Spec => []SimulationReturnsBySaveOrOpen
<1>1. IInv => SimulationReturnsBySaveOrOpen
  <2> SUFFICES ASSUME IInv, state = "Edit", FrameSafe, sessions = 1,
                      memory.contents[Map].simulated
               PROVE  \/ \E s \in Scene : file[s].simulated
                      \/ \E s \in loaded : memory.contents[memory.objects[s]].simulated
                      \/ Map \in strayed
    BY DEF SimulationReturnsBySaveOrOpen
  <2>1. /\ current \in Scene \union {Runtime, Editor} /\ Map \in memory.live
        /\ current \notin Scene \ registered /\ current # Runtime
    BY DEF FrameSafe, Readable, IInv, Typed, PlayTypeOK, ToolstripAgrees, World
  <2>2. CASE current \in Scene
    BY <2>1, <2>2 DEF IInv, NamesAreLoaded, Map
  <2>3. CASE current = Editor
    <3>1. SUFFICES ASSUME NEW s \in memory.address[Map] \intersect Scene, Map \notin strayed
                   PROVE  s \in loaded /\ memory.objects[s] = Map
      BY <2>1, <2>3 DEF IInv, CleanReturn, SimulatedFile
    <3>2. s \in registered /\ memory.objects[s] = Map
      BY DEF FrameSafe
    <3> QED
      BY <2>1, <3>2 DEF IInv, NamesAreLoaded
  <2> QED
    BY <2>1, <2>2, <2>3
<1> QED
  BY <1>1, Inductive, PTL
=============================================================================
