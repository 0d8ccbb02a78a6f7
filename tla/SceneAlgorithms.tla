--------------------------- MODULE SceneAlgorithms ---------------------------
(***************************************************************************)
(* The recursions of engine/entity.odin as they are written, to compare    *)
(* with the closed forms of World that the state machines use.  Each is a  *)
(* function of the calls its stack has room for; the properties give it    *)
(* one call for each entity, and so say as well that the recursion ends.   *)
(***************************************************************************)
EXTENDS SceneLoad

\* The list of p as a loop meets it, in some order: a child once for every time it
\* is there.
Children(w, p) ==
  LET places == SetToSeq(UNION {{c} \X (1..w.kids[p][c]) : c \in Handle})
  IN  [i \in DOMAIN places |-> places[i][1]]

\* delete_key on the map, once the children are gone.
EraseObject(w, h) ==
  [w EXCEPT !.objects = @ \ {h}, !.parent[h] = Root,
            !.local_id[h] = 0, !.kids[h] = NoKids]

\* A loop that calls the procedure f for each child in a list.
ForEach(f, state, list) == FoldLeft(LAMBDA u, c : f[u][c], state, list)

\* delete_object: out of the parent's list, then a copy of the children, then h.
DeleteWith(delete) ==
  [w \in WorldType |-> [h \in Handle |->
     IF h \notin w.objects THEN w
     ELSE LET v == RemoveChild(w, w.parent[h], h)
          IN  EraseObject(ForEach(delete, v, Children(v, h)), h)]]

\* A call that finds no room takes the root away, which nothing brings back.
NoRoomToDelete == [w \in WorldType |-> [h \in Handle |-> [w EXCEPT !.objects = {}]]]

DeleteObjectRec[depth \in Nat] ==
  IF depth = 0 THEN NoRoomToDelete ELSE DeleteWith(DeleteObjectRec[depth-1])

\* update_object: h, then its children.  The result is the order of the updates.
UpdateWith(update) ==
  [w \in WorldType |-> [order \in Seq(Handle) |-> [h \in Handle |->
     ForEach(update[w], Append(order, h), Children(w, h))]]]

\* A call that finds no room shows as an entity without an update.
NoRoomToUpdate == [w \in WorldType |-> [order \in Seq(Handle) |-> [h \in Handle |-> order]]]

UpdateObject[depth \in Nat] ==
  IF depth = 0 THEN NoRoomToUpdate ELSE UpdateWith(UpdateObject[depth-1])

UpdateOrder(w) == UpdateObject[Cardinality(Handle)][w][<<>>][Root]

----------------------------------------------------------------------------
(***************************************************************************)
(* The recursion of delete_object, which edits the lists it walks over and *)
(* may meet its own start again in a parent cycle, ends and removes        *)
(* exactly the subtree, whatever entity of the world it starts from.       *)
(***************************************************************************)
DeleteRemovesTheSubtree ==
  \A h \in world.objects \ {Root} :
    DeleteObjectRec[Cardinality(Entity)][world][h] = DeleteObject(world, h)

(***************************************************************************)
(* In one frame world_update updates each entity it can reach once and no  *)
(* entity before its parent, whose matrix it is multiplied with.           *)
(***************************************************************************)
UpdatedOnceParentsFirst ==
  LET order == UpdateOrder(world)
  IN  /\ ToSet(order) = Visited(world)
      /\ Len(order) = Cardinality(ToSet(order))
      /\ \A i, j \in DOMAIN order :
           order[j] # Root /\ world.parent[order[j]] = order[i] => i < j
=============================================================================
