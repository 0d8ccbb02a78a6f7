------------------------------- MODULE World -------------------------------
(***************************************************************************)
(* The scene graph of engine/entity.odin as a value, and its operations as *)
(* operators from worlds to worlds.  The editor keeps several worlds (the  *)
(* loaded scene asset, the copy being edited, the running copy), so the    *)
(* operations are stated once here and the state machines apply them.      *)
(*                                                                         *)
(* Data left out: names, transforms and component values.  A children list *)
(* is the bag of the handles in it, because the entity panel re-sorts each *)
(* list on every frame it is drawn and nothing else reads the order.       *)
(***************************************************************************)
EXTENDS Naturals, FiniteSets

CONSTANTS
  Entity,      \* the UUIDs generate_uuid can return
  Root,        \* handle 0, the zero value of EntityHandle: every world's root
  MaxLocalId   \* bound on next_local_id - 1, the entities ever made in a world

ASSUME EntityAssumption == IsFiniteSet(Entity)
ASSUME RootAssumption == Root \notin Entity
ASSUME MaxLocalIdAssumption == MaxLocalId \in Nat

Handle  == Entity \union {Root}
LocalId == 1..MaxLocalId

(***************************************************************************)
(* A world.  The fields of a handle that is not in objects have the value  *)
(* of a zeroed Entity.  local_id_to_uuid is total: a lookup of a missing   *)
(* key of the map yields the zero handle, which is Root.                   *)
(***************************************************************************)
WorldType ==
  [objects          : SUBSET Handle,
   parent           : [Handle -> Handle],
   kids             : [Handle -> [Handle -> Nat]],
   local_id         : [Handle -> 0..MaxLocalId],
   local_id_to_uuid : [LocalId -> Handle],
   next_local_id    : 1..(MaxLocalId + 1)]

NoKids == [c \in Handle |-> 0]

\* create_world: the root alone.
CreateWorld ==
  [objects          |-> {Root},
   parent           |-> [h \in Handle |-> Root],
   kids             |-> [p \in Handle |-> NoKids],
   local_id         |-> [h \in Handle |-> 0],
   local_id_to_uuid |-> [i \in LocalId |-> Root],
   next_local_id    |-> 1]

----------------------------------------------------------------------------
(* The hierarchy *)

\* Planted bug: the index of the search is used although nothing was found.
OneLessUnchecked(n) == n - 1

OneLess(n) == IF n = 0 THEN 0 ELSE n - 1

\* remove_child drops the first occurrence of c in p's list, if there is one.
RemoveChild(w, p, c) == [w EXCEPT !.kids[p][c] = OneLess(@)]

\* add_child first takes c out of the list of its current parent.
AddChild(w, p, c) ==
  [RemoveChild(w, w.parent[c], c) EXCEPT !.kids[p][c] = @ + 1, !.parent[c] = p]

\* Planted bug: the entity stays in the list of its old parent.
ReparentWithoutRemoving(w, c, p) ==
  [w EXCEPT !.kids[p][c] = @ + 1, !.parent[c] = p]

\* reparent_entity removes c itself, then calls add_child.
ReparentEntity(w, c, p) == AddChild(RemoveChild(w, w.parent[c], c), p, c)

\* The entities a recursion over children lists from h comes across: the least
\* set with h in it that holds every child of its members.
ClosedUnderKids(w, S) == \A p \in S, c \in Handle : w.kids[p][c] > 0 => c \in S

Subtree(w, h) ==
  {x \in Handle : \A S \in SUBSET Handle :
                    h \in S /\ ClosedUnderKids(w, S) => x \in S}

\* What world_update, the entity panel and world_init_components visit.
Visited(w) == Subtree(w, Root)

----------------------------------------------------------------------------
(* Creation and destruction *)

\* The handles local_id_to_uuid has ever named: delete_object leaves them there.
EverNamed(w) == {w.local_id_to_uuid[i] : i \in LocalId}

\* Planted bug: ids are given by the number of entities.
NewObjectNumberedByCount(w, h, p) ==
  LET v  == AddChild([w EXCEPT !.objects = @ \union {h}], p, h)
      id == Cardinality(w.objects)
  IN  [v EXCEPT !.local_id[h] = id, !.local_id_to_uuid[id] = h,
                !.next_local_id = @ + 1]

NewObject(w, h, p) ==
  LET v == AddChild([w EXCEPT !.objects = @ \union {h}], p, h)
  IN  [v EXCEPT !.local_id[h] = w.next_local_id,
                !.local_id_to_uuid[w.next_local_id] = h,
                !.next_local_id = @ + 1]

\* Planted bug: the children survive their parent.
DeleteObjectAlone(w, h) ==
  [w EXCEPT !.objects = @ \ {h}, !.parent[h] = Root, !.local_id[h] = 0,
            !.kids = [RemoveChild(w, w.parent[h], h).kids EXCEPT ![h] = NoKids]]

\* Planted bug: the subtree is gone, its top still in the list of its parent.
DeleteObjectStillListed(w, h) ==
  LET gone == Subtree(w, h)
  IN  [w EXCEPT
        !.objects  = @ \ gone,
        !.parent   = [x \in Handle |-> IF x \in gone THEN Root ELSE w.parent[x]],
        !.local_id = [x \in Handle |-> IF x \in gone THEN 0 ELSE w.local_id[x]],
        !.kids     = [p \in Handle |-> IF p \in gone THEN NoKids ELSE w.kids[p]]]

\* delete_object on h and, through the copied children lists, on its subtree;
\* each of them is removed from the list of its parent.
DeleteObject(w, h) ==
  LET gone == Subtree(w, h)
  IN  [w EXCEPT
        !.objects  = @ \ gone,
        !.parent   = [x \in Handle |-> IF x \in gone THEN Root ELSE w.parent[x]],
        !.local_id = [x \in Handle |-> IF x \in gone THEN 0 ELSE w.local_id[x]],
        !.kids     = [p \in Handle |->
                       IF p \in gone THEN NoKids
                       ELSE [c \in Handle |->
                              IF c \in gone /\ w.parent[c] = p
                              THEN OneLess(w.kids[p][c])
                              ELSE w.kids[p][c]]]]

----------------------------------------------------------------------------
(***************************************************************************)
(* The scene file: the parent written with each entity.  The root is not   *)
(* written.                                                                *)
(***************************************************************************)
SceneFiles == UNION {[E -> Handle] : E \in SUBSET Entity}

SerializeWorld(w) == [h \in w.objects \ {Root} |-> w.parent[h]]

\* deserialize_world numbers the entities from 1 in the order of the file.
Numberings(E) ==
  {num \in [E -> 1..Cardinality(E)] : \A x, y \in E : num[x] = num[y] => x = y}

\* An entity whose parent is in the file ends up under it, even when the parent
\* comes later in the file; one whose parent is not stays under the root.
DeserializeWorld(file, num) ==
  LET E     == DOMAIN file
      up(h) == IF h \in E /\ file[h] \in E THEN file[h] ELSE Root
  IN  [objects          |-> {Root} \union E,
       parent           |-> [h \in Handle |-> up(h)],
       kids             |-> [p \in Handle |-> [c \in Handle |->
                              IF c \in E /\ up(c) = p THEN 1 ELSE 0]],
       local_id         |-> [h \in Handle |-> IF h \in E THEN num[h] ELSE 0],
       local_id_to_uuid |-> [i \in LocalId |->
                              IF \E h \in E : num[h] = i
                              THEN CHOOSE h \in E : num[h] = i ELSE Root],
       next_local_id    |-> Cardinality(E) + 1]
=============================================================================
