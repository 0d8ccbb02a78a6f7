------------------------------ MODULE SceneLoad ------------------------------
(***************************************************************************)
(* The loops of deserialize_world as they are written, to compare with the *)
(* closed form that Load uses.  The file lists the entities in the order   *)
(* of their UUIDs, which are random: any order of the entities of a scene  *)
(* is possible, and a parent may follow its children.                      *)
(***************************************************************************)
EXTENDS SceneGraph, SequencesExt

\* The entities of the file with their parents, in the order that num numbers them.
Entries(num) ==
  [i \in 1..Cardinality(DOMAIN file) |->
     LET h == CHOOSE h \in DOMAIN file : num[h] = i
     IN  [entity |-> h, parent |-> file[h]]]

\* One turn of the loop: under the parent if it has been read already, else under
\* the root with the pair kept for later.
ReadEntity(acc, pair) ==
  IF pair.parent \in acc.w.objects
  THEN [acc EXCEPT !.w = NewObject(@, pair.entity, pair.parent)]
  ELSE [w |-> NewObject(acc.w, pair.entity, Root), pending |-> Append(acc.pending, pair)]

\* Planted bug: the entity also stays where it waited, under the root.
ResolveWithoutMoving(w, pair) ==
  IF pair.parent \in w.objects
  THEN [w EXCEPT !.kids[pair.parent][pair.entity] = @ + 1, !.parent[pair.entity] = pair.parent]
  ELSE w

ResolveParent(w, pair) ==
  IF pair.parent \in w.objects THEN AddChild(w, pair.parent, pair.entity) ELSE w

DeserializeLoop(entries) ==
  LET read == FoldLeft(ReadEntity, [w |-> CreateWorld, pending |-> <<>>], entries)
  IN  FoldLeft(ResolveParent, read.w, read.pending)

(***************************************************************************)
(* deserialize_world rebuilds the hierarchy of the file although a parent  *)
(* may follow its children there: after the resolve pass every entity is   *)
(* in the list of its own parent only, and numbered in file order.         *)
(***************************************************************************)
LoadRebuildsTheHierarchy ==
  Cardinality(DOMAIN file) <= MaxLocalId =>
    \A num \in Numberings(DOMAIN file) :
      DeserializeLoop(Entries(num)) = DeserializeWorld(file, num)
=============================================================================
