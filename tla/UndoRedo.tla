------------------------------ MODULE UndoRedo ------------------------------
(***************************************************************************)
(* Undo and redo of the editor.  An item of the stacks is an address and   *)
(* the bytes that were there: the address of a field of an entity, in a    *)
(* slot of the map of objects.  Inserting into the map and erasing from it *)
(* may move entities to other slots; the items stay.  Items come from      *)
(* widgets, which push when an edit starts and commit when it ends, and    *)
(* from the two fields that Properties pushes in every frame and that the  *)
(* end of the frame commits.                                               *)
(*                                                                         *)
(* A frame has three phases, each one action: an event or the gizmo, the   *)
(* Properties window, the entity panel.  imgui gives one click to one of   *)
(* its windows; an event and the gizmo in one frame, which do not meet     *)
(* items of Properties, are the same in two frames.                        *)
(***************************************************************************)
EXTENDS Naturals, FiniteSets, SequencesExt

CONSTANTS
  Entity,    \* handles
  Nobody,    \* no selection
  Slot,      \* addresses of slots of maps (a bound)
  Gone,      \* the slot of an entity that is not alive
  Widget,    \* the widgets in use
  Values,    \* of positions, rotations and scales
  Decomposed,  \* what a matrix may decompose into (a bound)
  MaxItems,  \* bound of the model on the items in the stacks and the changes of the map
  MaxMoves   \* bound of the model on the changes of the map

Transform == {"local_position", "local_rotation", "local_scale"}
Field     == Transform \union {"flags", "enabled"}

\* A new entity, as new_object makes it; flags is 1 when it holds .Outlined.
NewFields == [f \in Field |-> IF f = "enabled" THEN 1 ELSE 0]

Gizmos     == {"GizmoLocalPosition", "GizmoLocalRotation", "GizmoLocalScale"}
AllWidgets == {"Position", "LocalRotation", "LocalScale"} \union Gizmos

ASSUME UndoAssumption ==
  /\ Nobody \notin Entity /\ Gone \notin Slot /\ MaxItems \in Nat /\ MaxMoves \in Nat
  /\ {0, 1} \subseteq Values /\ Widget \subseteq AllWidgets
  /\ Decomposed \subseteq [Transform -> Values]

\* The field that a widget writes, and the one whose address it pushes.
Edits == [tag \in AllWidgets |->
            IF tag \in {"Position", "GizmoLocalPosition"} THEN "local_position"
            ELSE IF tag \in {"LocalScale", "GizmoLocalScale"} THEN "local_scale"
            ELSE "local_rotation"]
Pushes == [Edits EXCEPT !["LocalRotation"] = "local_position"]

VARIABLES
  phase,         \* of the frame
  where,         \* World.objects: the slot of each entity
  memory,        \* the fields in each slot
  selected,      \* the member of entity_selection
  undo_items, redo_items, temp_items,  \* the last is popped first
  single_items,  \* by tag
  active,        \* the tag of the widget in use
  moves,         \* how often the map was changed
  status,        \* history: how far the stacks know the changes of each field
  latest,        \* history: the last value given to each field that is kept
  touched        \* history: the addresses that widgets wrote since the push

doc  == <<where, memory, selected, moves>>
undo == <<undo_items, redo_items, temp_items, single_items>>
hist == <<status, latest, touched>>
vars == <<phase, doc, undo, active, hist>>

Phases  == {"events", "properties", "panel"}
Alive   == {e \in Entity : where[e] # Gone}
Address == Slot \X Field
Cells   == Entity \X Field

ItemType == [ptr : Address, data : Values]

\* Of a leaked field some change has no item, of an overtaken one all have, but one
\* was made while redo had an item for it.
Status == {"kept", "overtaken", "leaked"}
NoItem   == [ptr |-> "none"]
Idle     == "none"

Init ==
  /\ phase = "events"
  /\ \E e \in Entity, s \in Slot :
       where = [d \in Entity |-> IF d = e THEN s ELSE Gone]  \* a scene of one entity
  /\ memory = [s \in Slot |-> NewFields]
  /\ selected = Nobody /\ moves = 0
  /\ undo_items = <<>> /\ redo_items = <<>> /\ temp_items = <<>>
  /\ single_items = [t \in Widget |-> NoItem]
  /\ active = Idle
  /\ status = [c \in Cells |-> "kept"]
  /\ latest = [c \in Cells |-> NewFields[c[2]]]
  /\ touched = {}

----------------------------------------------------------------------------
(* Addresses *)

At(mem, a)       == mem[a[1]][a[2]]
Write(mem, a, v) == [mem EXCEPT ![a[1]][a[2]] = v]
CellsAt(a)       == {c \in Cells : where[c[1]] = a[1] /\ c[2] = a[2]}

Item(e, f) == [ptr |-> <<where[e], f>>, data |-> memory[where[e]][f]]

Pending(items) == {t \in Widget : items[t] # NoItem}

\* Has an open edit an item for the address a?
Covered(a) == \E t \in Pending(single_items) : single_items[t].ptr = a
CoveredIn(s) == {f \in Field : Covered(<<s, f>>)}
Redoable(a) == \E i \in ToSet(redo_items) : i.ptr = a

HasRoom(n) == Len(undo_items) + Len(redo_items) + moves + n <= MaxItems

----------------------------------------------------------------------------
(* The procedures of undo_redo.odin *)

\* undo_push in a list of items: not twice for one address.
Push(items, item) ==
  IF \E i \in ToSet(items) : i.ptr = item.ptr THEN items ELSE Append(items, item)

\* undo_push_single, which overwrites an older item of the tag.
PushSingle(singles, temps, tag, item) ==
  IF \E i \in ToSet(temps) : i.ptr = item.ptr THEN singles
  ELSE [singles EXCEPT ![tag] = item]

\* Planted bug: an item is kept although nothing was changed.
AllItems(items, mem) == items

\* One item of a commit, which is kept when the bytes of now differ from its own.
KeepChanged(kept, popped) ==
  IF popped.now = popped.item.data THEN kept ELSE Append(kept, popped.item)

\* The items whose bytes have changed.
ChangedItems(items, mem) ==
  FoldLeft(KeepChanged, <<>>,
           [n \in DOMAIN items |-> [item |-> items[n], now |-> At(mem, items[n].ptr)]])

\* undo_commit_single, from items with the edits of this frame.
CommitSingle(singles, tag) ==
  LET found == IF singles[tag] = NoItem THEN <<>> ELSE <<singles[tag]>>
      kept  == ChangedItems(found, memory)
  IN /\ HasRoom(Len(kept))
     /\ undo_items' = undo_items \o kept
     /\ single_items' = [singles EXCEPT ![tag] = NoItem]

\* Planted bug: what was pushed for a frame is kept for the next one.
CommitKeepingItems(mem) ==
  LET kept == ChangedItems(Reverse(temp_items), mem)
  IN /\ HasRoom(Len(kept))
     /\ undo_items' = undo_items \o kept
     /\ temp_items' = temp_items

\* undo_commit at the end of a frame, which pops what Properties has pushed.
Commit(mem) ==
  LET kept == ChangedItems(Reverse(temp_items), mem)
  IN /\ HasRoom(Len(kept))
     /\ undo_items' = undo_items \o kept
     /\ temp_items' = <<>>

\* Planted bug: the other stack gets the item as it is, not the bytes of now.
MoveItemAsItIs(from, to) ==
  [from |-> Front(from), to |-> Append(to, Last(from)),
   mem  |-> Write(memory, Last(from).ptr, Last(from).data)]

\* Planted bug: the bytes of now are read into the item that is then written back.
MoveItemUnshadowed(from, to) ==
  [from |-> Front(from), to |-> Append(to, [Last(from) EXCEPT !.data = At(memory, Last(from).ptr)]),
   mem  |-> memory]

\* undo_undo and undo_redo: what the last item of one stack does.
MoveItem(from, to) ==
  [from |-> Front(from), to |-> Append(to, [Last(from) EXCEPT !.data = At(memory, Last(from).ptr)]),
   mem  |-> Write(memory, Last(from).ptr, Last(from).data)]

----------------------------------------------------------------------------
(* Changes of the entities *)

\* Changes past the items of the fields in leaking, or while redo waits of those in late.
Note(leaking, late, last) ==
  /\ status' = [c \in Cells |-> IF c \in leaking THEN "leaked"
                               ELSE IF c \in late /\ status[c] = "kept" THEN "overtaken"
                               ELSE status[c]]
  /\ latest' = [c \in Cells |-> IF status'[c] = "kept" THEN last[c] ELSE NewFields[c[2]]]

Leak(cells) == Note(cells, {}, latest)

\* A widget gives new fields to the slot s; the open edits have items for those in covered.
UserWrites(s, fields, covered) ==
  LET changed == {f \in Field : fields[f] # memory[s][f]}
      late    == {f \in changed : Redoable(<<s, f>>)}
      CellsOf(some) == {c \in Cells : where[c[1]] = s /\ c[2] \in some}
  IN /\ memory' = [memory EXCEPT ![s] = fields]
     /\ Note(CellsOf(changed \ covered), CellsOf(late),
             [c \in Cells |-> IF c \in CellsOf(changed) THEN fields[c[2]] ELSE latest[c]])
     /\ touched' = touched \union ({s} \X changed)

\* reset_selection and select_entity: the flags of two entities, without an item.
Outlined(mem, at, e) ==
  [s \in Slot |->
     IF e # Nobody /\ at[e] = s THEN [mem[s] EXCEPT !["flags"] = 1]
     ELSE IF selected # Nobody /\ at[selected] = s THEN [mem[s] EXCEPT !["flags"] = 0]
     ELSE mem[s]]

Select(e) ==
  /\ selected' = e
  /\ memory' = Outlined(memory, where, e)
  /\ Leak({c \in Cells : c[1] \in {e, selected} /\ c[2] = "flags"})
  /\ UNCHANGED <<where, moves>>

\* The places of the living after an insertion or an erasure.
Places(alive) ==
  {w \in [Entity -> Slot \union {Gone}] :
     /\ \A e \in Entity : w[e] # Gone <=> e \in alive
     /\ \A d, e \in alive : d # e => w[d] # w[e]}

\* The map with the entities at w, where new gets its fields; free slots keep their bytes.
Moved(w, new, fields) ==
  [s \in Slot |->
     IF \E e \in Entity : w[e] = s
     THEN LET e == CHOOSE e \in Entity : w[e] = s
          IN IF e = new THEN fields ELSE memory[where[e]]
     ELSE memory[s]]

CellsMoved(w) == {c \in Cells : w[c[1]] # where[c[1]]}

----------------------------------------------------------------------------
(* Events: keys, and a click into the viewport *)

\* Ctrl+Z
UndoKey ==
  /\ phase = "events" /\ undo_items # <<>>
  /\ LET r == MoveItem(undo_items, redo_items)
         a == Last(undo_items).ptr
     IN /\ undo_items' = r.from /\ redo_items' = r.to /\ memory' = r.mem
        /\ Leak(IF Covered(a) THEN CellsAt(a) ELSE {})
  /\ phase' = "properties"
  /\ UNCHANGED <<where, selected, moves, temp_items, single_items, active, touched>>

\* Ctrl+Y
RedoKey ==
  /\ phase = "events" /\ redo_items # <<>>
  /\ LET r == MoveItem(redo_items, undo_items)
         a == Last(redo_items).ptr
     IN /\ redo_items' = r.from /\ undo_items' = r.to /\ memory' = r.mem
        /\ Leak(IF Covered(a) THEN CellsAt(a) ELSE {})
  /\ phase' = "properties"
  /\ UNCHANGED <<where, selected, moves, temp_items, single_items, active, touched>>

\* Delete: the entity stays selected.
DeleteKey ==
  /\ phase = "events" /\ selected \in Alive
  /\ moves < MaxMoves /\ HasRoom(1) /\ moves' = moves + 1
  /\ \E w \in Places(Alive \ {selected}) :
       /\ where' = w /\ memory' = Moved(w, Nobody, NewFields)
       /\ Leak(CellsMoved(w))
  /\ phase' = "properties"
  /\ UNCHANGED <<selected, undo, active, touched>>

\* Ctrl+D: the copy is selected.
DuplicateKey ==
  /\ phase = "events" /\ selected \in Alive
  /\ moves < MaxMoves /\ HasRoom(1) /\ moves' = moves + 1
  /\ \E new \in Entity \ Alive : \E w \in Places(Alive \union {new}) :
       /\ where' = w /\ selected' = new
       /\ memory' = Outlined(Moved(w, new, memory[where[selected]]), w, new)
       /\ Leak(CellsMoved(w) \union {<<selected, "flags">>})
  /\ phase' = "properties"
  /\ UNCHANGED <<undo, active, touched>>

ClickViewport(e) ==
  /\ phase = "events" /\ Select(e)
  /\ phase' = "properties"
  /\ UNCHANGED <<undo, active, touched>>

NoEvent ==
  /\ phase = "events" /\ phase' = "properties"
  /\ UNCHANGED <<doc, undo, active, hist>>

----------------------------------------------------------------------------
(* The gizmo of the selected entity, in the viewport *)

\* Fields with items that no later frame commits.
Abandoned(singles) ==
  UNION {CellsAt(singles[t].ptr) : t \in Pending(singles)}

\* The matrix of the entity with the gizmo's change, decomposed: whatever the gizmo is for,
\* all three fields may come out changed.  In global space nothing is written (v is what
\* is there).
Transformed(s, v) ==
  [f \in Field |-> IF f \in Transform THEN v[f] ELSE memory[s][f]]

\* The first frame of a drag writes before it pushes the field that the gizmo is for.
GizmoStart(tag, v) ==
  /\ phase = "events" /\ selected \in Alive /\ active = Idle
  /\ LET s == where[selected]
     IN /\ UserWrites(s, Transformed(s, v), CoveredIn(s))
        /\ single_items' = PushSingle(single_items, temp_items, tag,
                                      [Item(selected, Edits[tag]) EXCEPT !.data = v[Edits[tag]]])
        /\ active' = tag
  /\ phase' = "properties"
  /\ UNCHANGED <<where, selected, moves, undo_items, redo_items, temp_items>>

\* W, E and R change the kind of the gizmo, also during a drag.
GizmoDrag(v) ==
  /\ phase = "events" /\ selected \in Alive /\ active \in Gizmos
  /\ LET s == where[selected] IN UserWrites(s, Transformed(s, v), CoveredIn(s))
  /\ phase' = "properties"
  /\ UNCHANGED <<where, selected, moves, undo, active>>

GizmoRelease(tag) ==
  /\ phase = "events" /\ selected \in Alive /\ active \in Gizmos
  /\ CommitSingle(single_items, tag)
  /\ active' = Idle
  /\ Leak(Abandoned(single_items'))
  /\ phase' = "properties"
  /\ UNCHANGED <<doc, redo_items, temp_items, touched>>

----------------------------------------------------------------------------
(* Properties: the fields of the selected entity *)

Shown == phase = "properties" /\ selected \in Alive

PushTemps == Push(Push(temp_items, Item(selected, "flags")), Item(selected, "enabled"))

\* Nothing is shown; a widget in use is given up without its commit.
NoProperties ==
  /\ phase = "properties" /\ selected \notin Alive
  /\ active' = IF active \in Gizmos THEN active ELSE Idle
  /\ Leak(IF active' = Idle THEN Abandoned(single_items) ELSE {})
  /\ phase' = "panel"
  /\ UNCHANGED <<doc, undo, touched>>

ShowProperties ==
  /\ Shown
  /\ temp_items' = PushTemps
  /\ phase' = "panel"
  /\ UNCHANGED <<doc, undo_items, redo_items, single_items, active, hist>>

ToggleEnabled ==
  /\ Shown /\ active = Idle
  /\ LET s == where[selected]
     IN UserWrites(s, [memory[s] EXCEPT !["enabled"] = 1 - @], {"enabled"})
  /\ temp_items' = PushTemps
  /\ phase' = "panel"
  /\ UNCHANGED <<where, selected, moves, undo_items, redo_items, single_items, active>>

Activate(tag) ==
  /\ Shown /\ active = Idle
  /\ temp_items' = PushTemps
  /\ single_items' = PushSingle(single_items, PushTemps, tag, Item(selected, Pushes[tag]))
  /\ active' = tag
  /\ phase' = "panel"
  /\ UNCHANGED <<doc, undo_items, redo_items, hist>>

Drag(tag, v) ==
  /\ Shown /\ active = tag
  /\ temp_items' = PushTemps
  /\ LET s == where[selected]
     IN UserWrites(s, [memory[s] EXCEPT ![Edits[tag]] = v], CoveredIn(s))
  /\ phase' = "panel"
  /\ UNCHANGED <<where, selected, moves, undo_items, redo_items, single_items, active>>

Deactivate(tag) ==
  /\ Shown /\ active = tag
  /\ temp_items' = PushTemps
  /\ CommitSingle(single_items, tag)
  /\ active' = Idle
  /\ Leak(Abandoned(single_items'))
  /\ phase' = "panel"
  /\ UNCHANGED <<doc, redo_items, touched>>

\* From one of the three numbers to another: activated and deactivated at once, and
\* the push overwrites the item that the commit is meant for.
SwitchNumber(tag) ==
  /\ Shown /\ active = tag
  /\ temp_items' = PushTemps
  /\ CommitSingle(PushSingle(single_items, PushTemps, tag, Item(selected, Pushes[tag])), tag)
  /\ Leak(Abandoned(single_items))
  /\ phase' = "panel"
  /\ UNCHANGED <<doc, redo_items, active, touched>>

----------------------------------------------------------------------------
(* The entity panel, and the commit at the end of the frame *)

FrameEnd ==
  /\ phase = "panel" /\ phase' = "events"
  /\ touched' = {a \in touched : Covered(a)}

NoClick ==
  /\ FrameEnd /\ Commit(memory)
  /\ UNCHANGED <<doc, redo_items, single_items, active, status, latest>>

ClickRow(e) ==
  /\ FrameEnd /\ e \in Alive
  /\ Select(e)
  /\ Commit(memory')
  /\ UNCHANGED <<redo_items, single_items, active>>

\* An entity is created or destroyed after Properties pushed, before the commit.
ChangeMap(alive, new) ==
  /\ FrameEnd
  /\ moves < MaxMoves /\ HasRoom(1) /\ moves' = moves + 1
  /\ \E w \in Places(alive) :
       /\ where' = w /\ memory' = Moved(w, new, NewFields)
       /\ Commit(memory')
       /\ Leak(CellsMoved(w))
  /\ UNCHANGED <<selected, redo_items, single_items, active>>

CreateEntity == \E new \in Entity \ Alive : ChangeMap(Alive \union {new}, new)
DestroyRow   == \E e \in Alive : ChangeMap(Alive \ {e}, Nobody)

Next ==
  \/ UndoKey \/ RedoKey \/ DeleteKey \/ DuplicateKey \/ NoEvent
  \/ \E e \in Alive \union {Nobody} : ClickViewport(e)
  \/ \E tag \in Widget \intersect Gizmos :
       GizmoRelease(tag) \/ \E v \in Decomposed : GizmoStart(tag, v) \/ GizmoDrag(v)
  \/ NoProperties \/ ShowProperties \/ ToggleEnabled
  \/ \E tag \in Widget \ Gizmos :
       \/ Activate(tag) \/ Deactivate(tag) \/ SwitchNumber(tag)
       \/ \E v \in Values : Drag(tag, v)
  \/ NoClick \/ CreateEntity \/ DestroyRow
  \/ \E e \in Alive : ClickRow(e)

Spec == Init /\ [][Next]_vars

----------------------------------------------------------------------------
(* Properties *)

\* Every variable has its type, and no temporary item outlives its frame.
UndoTypeOK ==
  /\ phase \in Phases
  /\ where \in [Entity -> Slot \union {Gone}]
  /\ memory \in [Slot -> [Field -> Values]]
  /\ selected \in Entity \union {Nobody}
  /\ undo_items \in Seq(ItemType) /\ redo_items \in Seq(ItemType) /\ temp_items \in Seq(ItemType)
  /\ single_items \in [Widget -> ItemType \union {NoItem}]
  /\ active \in Widget \union {Idle}
  /\ status \in [Cells -> Status] /\ latest \in [Cells -> Values]
  /\ touched \subseteq Address /\ moves \in 0..MaxMoves
  /\ phase # "panel" => temp_items = <<>>

\* What a walk back over the items leaves in the field of an entity.
Reached(c, items) ==
  LET own == {n \in DOMAIN items : items[n].ptr = <<where[c[1]], c[2]>>}
  IN IF own = {} THEN memory[where[c[1]]][c[2]] ELSE items[Min(own)].data

Open(c) == {i \in {single_items[t] : t \in Pending(single_items)} \union ToSet(temp_items) :
              i.ptr = <<where[c[1]], c[2]>>}

\* Undoing everything leads back to the values of the beginning, also when edits
\* followed an undo and were mixed with redos: nothing that an item covers is lost.
UndoAllRestores ==
  \A c \in Cells : c[1] \in Alive /\ status[c] # "leaked" =>
    IF \E i \in ToSet(undo_items) : i.ptr = <<where[c[1]], c[2]>>
    THEN Reached(c, undo_items) = NewFields[c[2]]
    ELSE NewFields[c[2]] \in IF Open(c) # {} THEN {i.data : i \in Open(c)}
                             ELSE {memory[where[c[1]]][c[2]]}

\* Redoing everything leads to the last edits, of every field that was not edited
\* while a redo for it was waiting: redo does not know of such edits.
RedoAllReturns ==
  \A c \in Cells :
    c[1] \in Alive /\ status[c] = "kept" => Reached(c, redo_items) = latest[c]

Committed == SubSeq(undo_items', Len(undo_items) + 1, Len(undo_items'))

\* The commits keep only what a widget has changed, or what was changed past the
\* items: flags by a selection, a field by Ctrl+Z in the midst of its edit, any
\* field by a move of the map between the push and the commit.
CommitsRecordEdits ==
  [][redo_items' = redo_items =>
       \A i \in ToSet(Committed) :
         i.ptr \in touched \/ \A c \in CellsAt(i.ptr) : status'[c] = "leaked"]_vars

\* "Push on start edit, commit on stop edit": when the edit of a field in Properties
\* stops, the first value that it overwrote is in an item.
EditsLeaveAnItem ==
  [][\A tag \in Widget \ Gizmos :
       active = tag /\ selected \in Alive /\ phase = "properties" /\ memory' # memory
         => Covered(<<where[selected], Edits[tag]>>)]_vars
=============================================================================
