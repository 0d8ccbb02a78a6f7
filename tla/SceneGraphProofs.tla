--------------------------- MODULE SceneGraphProofs ---------------------------
(***************************************************************************)
(* What the model checker shows of SceneGraph and of EditorScene for three *)
(* entities, proved for any finite set of entities, any number of local    *)
(* ids and selections of any size.  The operations of World are described  *)
(* first, field by field and then by what they keep; the theorems combine  *)
(* these lemmas.  The recursions of SceneAlgorithms follow, by induction   *)
(* on the room left on their stack.                                        *)
(***************************************************************************)
EXTENDS EditorScene, SceneAlgorithms, FiniteSetTheorems, TLAPS

Kids == [Handle -> [Handle -> Nat]]

\* An update of one entry of one children list changes that entry only.
LEMMA KidsExcept ==
  ASSUME NEW k \in Kids, NEW p \in Handle, NEW c \in Handle, NEW n \in Nat
  PROVE  /\ [k EXCEPT ![p][c] = n] \in Kids
         /\ \A q, d \in Handle :
              [k EXCEPT ![p][c] = n][q][d] = IF q = p /\ d = c THEN n ELSE k[q][d]
  BY DEF Kids

\* remove_child changes nothing but children lists.
LEMMA RemoveChildFields ==
  ASSUME NEW w \in WorldType, NEW p \in Handle, NEW c \in Handle
  PROVE  /\ RemoveChild(w, p, c) \in WorldType
         /\ RemoveChild(w, p, c).objects = w.objects
         /\ RemoveChild(w, p, c).parent = w.parent
         /\ RemoveChild(w, p, c).local_id = w.local_id
         /\ RemoveChild(w, p, c).local_id_to_uuid = w.local_id_to_uuid
         /\ RemoveChild(w, p, c).next_local_id = w.next_local_id
<1> DEFINE k == [w.kids EXCEPT ![p][c] = OneLess(@)]
<1>1. w.kids \in Kids /\ w.kids[p][c] \in Nat /\ OneLess(w.kids[p][c]) \in Nat
  BY DEF WorldType, Kids, OneLess
<1>2. k \in Kids
  BY <1>1, KidsExcept
<1>3. RemoveChild(w, p, c) = [w EXCEPT !.kids = k]
  BY DEF RemoveChild, WorldType
<1> HIDE DEF k
<1>4. QED
  BY <1>2, <1>3 DEF WorldType, Kids

\* remove_child takes one occurrence of c out of the list of p only.
LEMMA RemoveChildKids ==
  ASSUME NEW w \in WorldType, NEW p \in Handle, NEW c \in Handle
  PROVE  \A q, d \in Handle :
           RemoveChild(w, p, c).kids[q][d] =
             IF q = p /\ d = c THEN OneLess(w.kids[q][d]) ELSE w.kids[q][d]
<1>1. w.kids \in Kids
  BY DEF WorldType, Kids
<1>2. w.kids[p][c] \in Nat
  BY <1>1 DEF Kids
<1>3. PICK n \in Nat : n = OneLess(w.kids[p][c])
  BY <1>2 DEF OneLess
<1>4. RemoveChild(w, p, c).kids = [w.kids EXCEPT ![p][c] = n]
  BY <1>3 DEF RemoveChild, WorldType
<1>5. \A q, d \in Handle :
        RemoveChild(w, p, c).kids[q][d] = IF q = p /\ d = c THEN n ELSE w.kids[q][d]
  BY <1>1, <1>4, KidsExcept
<1>6. QED
  BY <1>3, <1>5

\* add_child changes nothing but children lists and the parent of c.
LEMMA AddChildFields ==
  ASSUME NEW w \in WorldType, NEW p \in Handle, NEW c \in Handle
  PROVE  /\ AddChild(w, p, c) \in WorldType
         /\ AddChild(w, p, c).objects = w.objects
         /\ AddChild(w, p, c).parent = [w.parent EXCEPT ![c] = p]
         /\ AddChild(w, p, c).local_id = w.local_id
         /\ AddChild(w, p, c).local_id_to_uuid = w.local_id_to_uuid
         /\ AddChild(w, p, c).next_local_id = w.next_local_id
<1>1. PICK v : v = RemoveChild(w, w.parent[c], c)
  OBVIOUS
<1>2. w.parent[c] \in Handle
  BY DEF WorldType
<1>3. /\ v \in WorldType
      /\ v.objects = w.objects
      /\ v.parent = w.parent
      /\ v.local_id = w.local_id
      /\ v.local_id_to_uuid = w.local_id_to_uuid
      /\ v.next_local_id = w.next_local_id
  BY <1>1, <1>2, RemoveChildFields
<1>4. PICK k \in Kids : k = [v.kids EXCEPT ![p][c] = @ + 1]
  <2>1. v.kids \in Kids
    BY <1>3 DEF WorldType, Kids
  <2>2. v.kids[p][c] + 1 \in Nat
    BY <2>1 DEF Kids
  <2>3. QED
    BY <2>1, <2>2, KidsExcept
<1>5. PICK up \in [Handle -> Handle] : up = [v.parent EXCEPT ![c] = p]
  BY <1>3 DEF WorldType
<1>6. AddChild(w, p, c) = [v EXCEPT !.kids = k, !.parent = up]
  BY <1>1, <1>3, <1>4, <1>5 DEF AddChild, WorldType
<1>7. k \in [Handle -> [Handle -> Nat]]
  BY <1>4 DEF Kids
<1>8. [v EXCEPT !.kids = k, !.parent = up] \in WorldType
  BY <1>3, <1>5, <1>7 DEF WorldType
<1>9. /\ AddChild(w, p, c).objects = v.objects
      /\ AddChild(w, p, c).parent = up
      /\ AddChild(w, p, c).local_id = v.local_id
      /\ AddChild(w, p, c).local_id_to_uuid = v.local_id_to_uuid
      /\ AddChild(w, p, c).next_local_id = v.next_local_id
  BY <1>3, <1>6 DEF WorldType
<1>10. QED
  BY <1>3, <1>5, <1>6, <1>8, <1>9

\* add_child puts c into the list of p after taking it out of its parent's.
LEMMA AddChildKids ==
  ASSUME NEW w \in WorldType, NEW p \in Handle, NEW c \in Handle
  PROVE  \A q, d \in Handle :
           AddChild(w, p, c).kids[q][d] =
             LET left == RemoveChild(w, w.parent[c], c).kids[q][d]
             IN  IF q = p /\ d = c THEN left + 1 ELSE left
<1>1. PICK v : v = RemoveChild(w, w.parent[c], c)
  OBVIOUS
<1>2. v \in WorldType
  <2>1. w.parent[c] \in Handle
    BY DEF WorldType
  <2>2. QED
    BY <1>1, <2>1, RemoveChildFields
<1>3. PICK n \in Nat : n = v.kids[p][c] + 1
  BY <1>2 DEF WorldType
<1>4. v.kids \in Kids
  BY <1>2 DEF WorldType, Kids
<1>5. AddChild(w, p, c).kids = [v.kids EXCEPT ![p][c] = n]
  BY <1>1, <1>2, <1>3 DEF AddChild, WorldType
<1>6. \A q, d \in Handle :
        AddChild(w, p, c).kids[q][d] = IF q = p /\ d = c THEN n ELSE v.kids[q][d]
  BY <1>4, <1>5, KidsExcept
<1>7. QED
  BY <1>1, <1>3, <1>6

\* c is at most once in a children list, and only in that of its parent.
ListedOnce(w, c) ==
  \A q \in Handle : w.kids[q][c] <= IF q = w.parent[c] THEN 1 ELSE 0

\* An entity listed at most once ends up listed once, under its new parent.
LEMMA AddChildMoves ==
  ASSUME NEW w \in WorldType, NEW p \in Handle, NEW c \in Handle, ListedOnce(w, c)
  PROVE  \A q, d \in Handle :
           AddChild(w, p, c).kids[q][d] =
             IF d = c THEN (IF q = p THEN 1 ELSE 0) ELSE w.kids[q][d]
<1> SUFFICES ASSUME NEW q \in Handle, NEW d \in Handle
             PROVE  AddChild(w, p, c).kids[q][d] =
                      IF d = c THEN (IF q = p THEN 1 ELSE 0) ELSE w.kids[q][d]
  OBVIOUS
<1>1. w.parent[c] \in Handle /\ w.kids[q][c] \in Nat
  BY DEF WorldType
<1>2. RemoveChild(w, w.parent[c], c).kids[q][d] =
        IF q = w.parent[c] /\ d = c THEN OneLess(w.kids[q][d]) ELSE w.kids[q][d]
  BY <1>1, RemoveChildKids
<1>3. AddChild(w, p, c).kids[q][d] =
        IF q = p /\ d = c THEN RemoveChild(w, w.parent[c], c).kids[q][d] + 1
                          ELSE RemoveChild(w, w.parent[c], c).kids[q][d]
  BY AddChildKids
<1>4. w.kids[q][c] <= IF q = w.parent[c] THEN 1 ELSE 0
  BY DEF ListedOnce
<1>5. QED
  BY <1>1, <1>2, <1>3, <1>4 DEF OneLess

\* What new_object does to the fields other than the children lists.
LEMMA NewObjectFields ==
  ASSUME NEW w \in WorldType, NEW h \in Handle, NEW p \in Handle,
         w.next_local_id <= MaxLocalId
  PROVE  /\ NewObject(w, h, p) \in WorldType
         /\ NewObject(w, h, p).objects = w.objects \union {h}
         /\ NewObject(w, h, p).parent = [w.parent EXCEPT ![h] = p]
         /\ NewObject(w, h, p).local_id = [w.local_id EXCEPT ![h] = w.next_local_id]
         /\ NewObject(w, h, p).local_id_to_uuid =
              [w.local_id_to_uuid EXCEPT ![w.next_local_id] = h]
         /\ NewObject(w, h, p).next_local_id = w.next_local_id + 1
<1>1. PICK u : u = [w EXCEPT !.objects = @ \union {h}]
  OBVIOUS
<1>2. u \in WorldType
  BY <1>1 DEF WorldType
<1>3. /\ u.objects = w.objects \union {h}
      /\ u.parent = w.parent
      /\ u.local_id = w.local_id
      /\ u.local_id_to_uuid = w.local_id_to_uuid
      /\ u.next_local_id = w.next_local_id
  BY <1>1 DEF WorldType
<1>4. PICK v : v = AddChild(u, p, h)
  OBVIOUS
<1>5. /\ v \in WorldType
      /\ v.objects = u.objects
      /\ v.parent = [u.parent EXCEPT ![h] = p]
      /\ v.local_id = u.local_id
      /\ v.local_id_to_uuid = u.local_id_to_uuid
      /\ v.next_local_id = u.next_local_id
  <2>1. /\ AddChild(u, p, h) \in WorldType
        /\ AddChild(u, p, h).objects = u.objects
        /\ AddChild(u, p, h).parent = [u.parent EXCEPT ![h] = p]
        /\ AddChild(u, p, h).local_id = u.local_id
        /\ AddChild(u, p, h).local_id_to_uuid = u.local_id_to_uuid
        /\ AddChild(u, p, h).next_local_id = u.next_local_id
    BY <1>2, AddChildFields, Zenon
  <2>2. QED
    BY <1>4, <2>1, Zenon
<1>6. w.next_local_id \in LocalId /\ w.next_local_id \in 0..MaxLocalId
      /\ w.next_local_id + 1 \in 1..(MaxLocalId + 1)
  <2>1. w.next_local_id \in 1..(MaxLocalId + 1)
    BY DEF WorldType
  <2>2. QED
    BY <2>1, MaxLocalIdAssumption DEF LocalId
<1>7. PICK ids \in [Handle -> 0..MaxLocalId] :
         ids = [v.local_id EXCEPT ![h] = w.next_local_id]
  BY <1>5, <1>6 DEF WorldType
<1>8. PICK table \in [LocalId -> Handle] :
         table = [v.local_id_to_uuid EXCEPT ![w.next_local_id] = h]
  BY <1>5, <1>6 DEF WorldType
<1>9. PICK n \in 1..(MaxLocalId + 1) : n = w.next_local_id + 1
  BY <1>6
<1>10. NewObject(w, h, p) =
         [v EXCEPT !.local_id = ids, !.local_id_to_uuid = table, !.next_local_id = n]
  BY <1>1, <1>3, <1>4, <1>5, <1>7, <1>8, <1>9 DEF NewObject, WorldType
<1>11. [v EXCEPT !.local_id = ids, !.local_id_to_uuid = table, !.next_local_id = n]
         \in WorldType
  BY <1>5, <1>7, <1>8, <1>9 DEF WorldType
<1>12. /\ NewObject(w, h, p).objects = v.objects
       /\ NewObject(w, h, p).parent = v.parent
       /\ NewObject(w, h, p).local_id = ids
       /\ NewObject(w, h, p).local_id_to_uuid = table
       /\ NewObject(w, h, p).next_local_id = n
  BY <1>5, <1>10 DEF WorldType
<1>13. QED
  BY <1>3, <1>5, <1>7, <1>8, <1>9, <1>10, <1>11, <1>12

\* new_object lists the new entity once, under its parent.
LEMMA NewObjectKids ==
  ASSUME NEW w \in WorldType, NEW h \in Handle, NEW p \in Handle, ListedOnce(w, h)
  PROVE  \A q, d \in Handle :
           NewObject(w, h, p).kids[q][d] =
             IF d = h THEN (IF q = p THEN 1 ELSE 0) ELSE w.kids[q][d]
<1>1. PICK u : u = [w EXCEPT !.objects = @ \union {h}]
  OBVIOUS
<1>2. u \in WorldType /\ u.parent = w.parent /\ u.kids = w.kids
  BY <1>1 DEF WorldType
<1>3. ListedOnce(u, h)
  BY <1>2 DEF ListedOnce
<1>4. PICK v : v = AddChild(u, p, h)
  OBVIOUS
<1>5. v \in WorldType
  BY <1>2, <1>4, AddChildFields
<1>6. NewObject(w, h, p).kids = v.kids
  BY <1>1, <1>4, <1>5 DEF NewObject, WorldType
<1>7. QED
  BY <1>2, <1>3, <1>4, <1>6, AddChildMoves

----------------------------------------------------------------------------
(* The inductive invariant *)

\* delete_object clears the parent of what it deletes; the root never gets one.
DetachedHaveNoParent(w) ==
  \A h \in Handle : h \notin w.objects \ {Root} => w.parent[h] = Root

Consistent(w) ==
  /\ ParentAlive(w)
  /\ KidsAreTheChildren(w)
  /\ DetachedHaveNoParent(w)

UnusedIds(w) ==
  \A i \in LocalId : i >= w.next_local_id => w.local_id_to_uuid[i] = Root

Named(w) == FoundUnderTheirIds(w) /\ UnusedIds(w)

GoodWorld(w) == w \in WorldType /\ Consistent(w) /\ Named(w)

\* HierarchyConsistent is not inductive alone: a deleted parent must not leave
\* a parent link behind, and new ids must find their entry of the table empty.
IInv == GoodWorld(world) /\ file \in SceneFiles

\* In a consistent world every handle is listed at most once.
LEMMA ConsistentListedOnce ==
  ASSUME NEW w \in WorldType, Consistent(w), NEW c \in Handle
  PROVE  ListedOnce(w, c)
  BY DEF Consistent, KidsAreTheChildren, ListedOnce

----------------------------------------------------------------------------
(* Subtrees *)

\* A subtree is the least set with its top in it that is closed under children.
LEMMA SubtreeIsLeast ==
  ASSUME NEW w, NEW h \in Handle
  PROVE  /\ Subtree(w, h) \subseteq Handle
         /\ h \in Subtree(w, h)
         /\ ClosedUnderKids(w, Subtree(w, h))
         /\ \A S \in SUBSET Handle :
              h \in S /\ ClosedUnderKids(w, S) => Subtree(w, h) \subseteq S
  BY DEF Subtree, ClosedUnderKids

\* The children lists lead from living entities to living entities only.
LEMMA SubtreeAlive ==
  ASSUME NEW w \in WorldType, Consistent(w), NEW h \in w.objects
  PROVE  Subtree(w, h) \subseteq w.objects
<1>1. h \in Handle /\ w.objects \in SUBSET Handle
  BY DEF WorldType
<1>2. ClosedUnderKids(w, w.objects)
  BY <1>1 DEF ClosedUnderKids, Consistent, KidsAreTheChildren
<1>3. QED
  BY <1>1, <1>2, SubtreeIsLeast

\* world_update and the entity panel visit living entities only.
LEMMA VisitedAlive ==
  ASSUME NEW w \in WorldType, Consistent(w)
  PROVE  Visited(w) \subseteq w.objects
  BY SubtreeAlive DEF Visited, Consistent, ParentAlive

\* The root is below no entity, so deleting one never deletes the root.
LEMMA RootNotBelow ==
  ASSUME NEW w \in WorldType, Consistent(w), NEW h \in Entity
  PROVE  Root \notin Subtree(w, h)
<1>1. h \in Handle /\ Handle \ {Root} \in SUBSET Handle /\ h \in Handle \ {Root}
  BY RootAssumption DEF Handle
<1>2. ClosedUnderKids(w, Handle \ {Root})
  BY DEF ClosedUnderKids, Consistent, KidsAreTheChildren, Handle
<1>3. QED
  BY <1>1, <1>2, SubtreeIsLeast

----------------------------------------------------------------------------
(* Each operation keeps the world good *)

\* new_object keeps the invariant for a fresh handle under a living parent.
LEMMA NewObjectGood ==
  ASSUME NEW w, GoodWorld(w), NEW h \in Entity \ w.objects, NEW p \in w.objects,
         w.next_local_id <= MaxLocalId
  PROVE  GoodWorld(NewObject(w, h, p))
<1>1. w \in WorldType /\ Consistent(w) /\ Named(w)
  BY DEF GoodWorld
<1>2. h \in Handle /\ p \in Handle /\ h # Root
  BY <1>1, RootAssumption DEF Handle, WorldType
<1>3. ListedOnce(w, h)
  BY <1>1, <1>2, ConsistentListedOnce
<1>4. PICK v : v = NewObject(w, h, p)
  OBVIOUS
<1>5. /\ v \in WorldType
      /\ v.objects = w.objects \union {h}
      /\ v.parent = [w.parent EXCEPT ![h] = p]
      /\ v.local_id = [w.local_id EXCEPT ![h] = w.next_local_id]
      /\ v.local_id_to_uuid = [w.local_id_to_uuid EXCEPT ![w.next_local_id] = h]
      /\ v.next_local_id = w.next_local_id + 1
  BY <1>1, <1>2, <1>4, NewObjectFields
<1>6. \A q, d \in Handle :
        v.kids[q][d] = IF d = h THEN (IF q = p THEN 1 ELSE 0) ELSE w.kids[q][d]
  BY <1>1, <1>2, <1>3, <1>4, NewObjectKids
<1>7. \A x \in Handle : v.parent[x] = IF x = h THEN p ELSE w.parent[x]
  BY <1>1, <1>5 DEF WorldType
<1>8. Consistent(v)
  <2>1. ParentAlive(v)
    BY <1>1, <1>5, <1>7 DEF Consistent, ParentAlive
  <2>2. KidsAreTheChildren(v)
    BY <1>1, <1>2, <1>5, <1>6, <1>7 DEF Consistent, KidsAreTheChildren
  <2>3. DetachedHaveNoParent(v)
    BY <1>1, <1>2, <1>5, <1>7 DEF Consistent, DetachedHaveNoParent
  <2>4. QED
    BY <2>1, <2>2, <2>3 DEF Consistent
<1>9. Named(v)
  <2>1. PICK n \in LocalId : n = w.next_local_id
    <3>1. w.next_local_id \in 1..(MaxLocalId + 1)
      BY <1>1 DEF WorldType
    <3>2. QED
      BY <3>1, MaxLocalIdAssumption DEF LocalId
  <2>2. \A x \in Handle : v.local_id[x] = IF x = h THEN n ELSE w.local_id[x]
    BY <1>1, <1>5, <2>1 DEF WorldType
  <2>3. \A i \in LocalId :
          v.local_id_to_uuid[i] = IF i = n THEN h ELSE w.local_id_to_uuid[i]
    BY <1>1, <1>5, <2>1 DEF WorldType
  <2>4. v.next_local_id = n + 1 /\ n \in Nat /\ LocalId \subseteq Nat
    BY <1>5, <2>1 DEF LocalId
  <2>5. FoundUnderTheirIds(v)
    <3> SUFFICES ASSUME NEW x \in v.objects \ {Root}
                 PROVE  /\ v.local_id[x] \in LocalId
                        /\ v.local_id[x] < v.next_local_id
                        /\ v.local_id_to_uuid[v.local_id[x]] = x
      BY DEF FoundUnderTheirIds
    <3>1. CASE x = h
      BY <1>2, <2>1, <2>2, <2>3, <2>4, <3>1
    <3>2. CASE x # h
      <4>1. x \in Handle /\ x \in w.objects \ {Root}
        BY <1>1, <1>5, <3>2 DEF WorldType
      <4>2. /\ w.local_id[x] \in LocalId
            /\ w.local_id[x] < n
            /\ w.local_id_to_uuid[w.local_id[x]] = x
        BY <1>1, <2>1, <4>1 DEF Named, FoundUnderTheirIds
      <4>3. v.local_id[x] = w.local_id[x]
        BY <2>2, <3>2, <4>1
      <4>4. PICK i \in LocalId : i = w.local_id[x]
        BY <4>2
      <4>5. i < n /\ i # n /\ v.local_id_to_uuid[i] = x
        <5>1. i < n /\ w.local_id_to_uuid[i] = x
          BY <4>2, <4>4, Zenon
        <5>2. i \in Nat /\ n \in Nat
          BY <2>4
        <5>3. i # n
          BY <5>1, <5>2
        <5>4. QED
          BY <2>3, <5>1, <5>3, Zenon
      <4>6. i < v.next_local_id
        <5>1. i \in Nat /\ n \in Nat /\ i < n + 1
          BY <2>4, <4>5
        <5>2. QED
          BY <2>4, <5>1, Zenon
      <4>7. QED
        BY <4>3, <4>4, <4>5, <4>6
    <3>3. QED
      BY <3>1, <3>2
  <2>6. UnusedIds(v)
    BY <1>1, <2>1, <2>3, <2>4 DEF Named, UnusedIds
  <2>7. QED
    BY <2>5, <2>6 DEF Named
<1>10. QED
  BY <1>4, <1>5, <1>8, <1>9 DEF GoodWorld

\* reparent_entity moves its first argument and nothing else.
LEMMA ReparentFields ==
  ASSUME NEW w, GoodWorld(w), NEW c \in w.objects \ {Root}, NEW p \in w.objects,
         NEW v, v = ReparentEntity(w, c, p)
  PROVE  /\ v \in WorldType
         /\ v.objects = w.objects
         /\ v.local_id = w.local_id
         /\ v.local_id_to_uuid = w.local_id_to_uuid
         /\ v.next_local_id = w.next_local_id
         /\ \A x \in Handle : v.parent[x] = IF x = c THEN p ELSE w.parent[x]
         /\ \A q, d \in Handle :
              v.kids[q][d] = IF d = c THEN (IF q = p THEN 1 ELSE 0) ELSE w.kids[q][d]
<1>1. w \in WorldType /\ Consistent(w) /\ Named(w)
  BY DEF GoodWorld
<1>2. c \in Handle /\ p \in Handle /\ w.parent[c] \in Handle
  BY <1>1 DEF WorldType
<1>3. PICK u : u = RemoveChild(w, w.parent[c], c)
  OBVIOUS
<1>4. /\ u \in WorldType
      /\ u.objects = w.objects
      /\ u.parent = w.parent
      /\ u.local_id = w.local_id
      /\ u.local_id_to_uuid = w.local_id_to_uuid
      /\ u.next_local_id = w.next_local_id
  BY <1>1, <1>2, <1>3, RemoveChildFields
<1>5. \A q, d \in Handle :
        u.kids[q][d] = IF q = w.parent[c] /\ d = c THEN OneLess(w.kids[q][d]) ELSE w.kids[q][d]
  BY <1>1, <1>2, <1>3, RemoveChildKids
<1>6. ListedOnce(u, c)
  <2>1. ListedOnce(w, c)
    BY <1>1, <1>2, ConsistentListedOnce
  <2>2. \A q \in Handle : w.kids[q][c] \in Nat
    BY <1>1, <1>2 DEF WorldType
  <2>3. QED
    BY <1>2, <1>4, <1>5, <2>1, <2>2 DEF ListedOnce, OneLess
<1>7. v = AddChild(u, p, c)
  BY <1>3 DEF ReparentEntity
<1>8. /\ v \in WorldType
      /\ v.objects = u.objects
      /\ v.parent = [u.parent EXCEPT ![c] = p]
      /\ v.local_id = u.local_id
      /\ v.local_id_to_uuid = u.local_id_to_uuid
      /\ v.next_local_id = u.next_local_id
  BY <1>2, <1>4, <1>7, AddChildFields
<1>9. \A q, d \in Handle :
        v.kids[q][d] = IF d = c THEN (IF q = p THEN 1 ELSE 0) ELSE w.kids[q][d]
  BY <1>2, <1>4, <1>5, <1>6, <1>7, AddChildMoves
<1>10. \A x \in Handle : v.parent[x] = IF x = c THEN p ELSE w.parent[x]
  BY <1>1, <1>4, <1>8 DEF WorldType
<1>11. QED
  BY <1>4, <1>8, <1>9, <1>10

\* reparent_entity keeps the invariant between living entities, whatever the
\* new parent: a drop of an entity below itself detaches it but breaks no list.
LEMMA ReparentGood ==
  ASSUME NEW w, GoodWorld(w), NEW c \in w.objects \ {Root}, NEW p \in w.objects
  PROVE  GoodWorld(ReparentEntity(w, c, p))
<1>1. w \in WorldType /\ Consistent(w) /\ Named(w)
  BY DEF GoodWorld
<1>2. c \in Handle /\ p \in Handle /\ w.parent[c] \in Handle
  BY <1>1 DEF WorldType
<1>3. PICK v : v = ReparentEntity(w, c, p)
  OBVIOUS
<1>4. /\ v \in WorldType
      /\ v.objects = w.objects
      /\ v.local_id = w.local_id
      /\ v.local_id_to_uuid = w.local_id_to_uuid
      /\ v.next_local_id = w.next_local_id
      /\ \A x \in Handle : v.parent[x] = IF x = c THEN p ELSE w.parent[x]
      /\ \A q, d \in Handle :
           v.kids[q][d] = IF d = c THEN (IF q = p THEN 1 ELSE 0) ELSE w.kids[q][d]
  BY <1>3, ReparentFields
<1>5. Consistent(v)
  <2>1. ParentAlive(v)
    BY <1>1, <1>4 DEF Consistent, ParentAlive
  <2>2. KidsAreTheChildren(v)
    BY <1>1, <1>2, <1>4 DEF Consistent, KidsAreTheChildren
  <2>3. DetachedHaveNoParent(v)
    BY <1>1, <1>2, <1>4 DEF Consistent, DetachedHaveNoParent
  <2>4. QED
    BY <2>1, <2>2, <2>3 DEF Consistent
<1>6. Named(v)
  BY <1>1, <1>4 DEF Named, FoundUnderTheirIds, UnusedIds
<1>7. QED
  BY <1>3, <1>4, <1>5, <1>6 DEF GoodWorld

\* What delete_object does to the fields other than the children lists.
LEMMA DeleteObjectFields ==
  ASSUME NEW w \in WorldType, NEW h \in Handle
  PROVE  /\ DeleteObject(w, h) \in WorldType
         /\ DeleteObject(w, h).objects = w.objects \ Subtree(w, h)
         /\ DeleteObject(w, h).local_id_to_uuid = w.local_id_to_uuid
         /\ DeleteObject(w, h).next_local_id = w.next_local_id
         /\ \A x \in Handle : DeleteObject(w, h).parent[x] =
              IF x \in Subtree(w, h) THEN Root ELSE w.parent[x]
         /\ \A x \in Handle : DeleteObject(w, h).local_id[x] =
              IF x \in Subtree(w, h) THEN 0 ELSE w.local_id[x]
<1>1. PICK gone : gone = Subtree(w, h)
  OBVIOUS
<1>2. PICK up \in [Handle -> Handle] :
        up = [x \in Handle |-> IF x \in gone THEN Root ELSE w.parent[x]]
  BY DEF WorldType, Handle
<1>3. PICK ids \in [Handle -> 0..MaxLocalId] :
        ids = [x \in Handle |-> IF x \in gone THEN 0 ELSE w.local_id[x]]
  <2>1. \A x \in Handle : w.local_id[x] \in 0..MaxLocalId
    BY DEF WorldType
  <2>2. 0 \in 0..MaxLocalId
    BY MaxLocalIdAssumption
  <2>3. QED
    BY <2>1, <2>2
<1>4. PICK k \in Kids :
        k = [p \in Handle |->
              IF p \in gone THEN NoKids
              ELSE [c \in Handle |->
                     IF c \in gone /\ w.parent[c] = p THEN OneLess(w.kids[p][c])
                     ELSE w.kids[p][c]]]
  <2>1. \A p, c \in Handle : w.kids[p][c] \in Nat /\ OneLess(w.kids[p][c]) \in Nat
    BY DEF WorldType, OneLess
  <2>2. NoKids \in [Handle -> Nat]
    BY DEF NoKids
  <2>3. QED
    BY <2>1, <2>2 DEF Kids
<1>5. DeleteObject(w, h) =
        [w EXCEPT !.objects = @ \ gone, !.parent = up, !.local_id = ids, !.kids = k]
  BY <1>1, <1>2, <1>3, <1>4 DEF DeleteObject
<1>6. k \in [Handle -> [Handle -> Nat]]
  BY <1>4 DEF Kids
<1>7. [w EXCEPT !.objects = @ \ gone, !.parent = up, !.local_id = ids, !.kids = k]
        \in WorldType
  BY <1>2, <1>3, <1>6 DEF WorldType
<1>8. /\ DeleteObject(w, h).objects = w.objects \ gone
      /\ DeleteObject(w, h).parent = up
      /\ DeleteObject(w, h).local_id = ids
      /\ DeleteObject(w, h).local_id_to_uuid = w.local_id_to_uuid
      /\ DeleteObject(w, h).next_local_id = w.next_local_id
  BY <1>5 DEF WorldType
<1>9. QED
  BY <1>1, <1>2, <1>3, <1>5, <1>7, <1>8

\* delete_object empties the lists of what it deletes and takes each deleted
\* entity out of the list of its parent.
LEMMA DeleteObjectKids ==
  ASSUME NEW w \in WorldType, NEW h \in Handle
  PROVE  \A p, c \in Handle :
           DeleteObject(w, h).kids[p][c] =
             IF p \in Subtree(w, h) THEN 0
             ELSE IF c \in Subtree(w, h) /\ w.parent[c] = p THEN OneLess(w.kids[p][c])
             ELSE w.kids[p][c]
<1>1. DeleteObject(w, h).kids =
        [p \in Handle |->
          IF p \in Subtree(w, h) THEN NoKids
          ELSE [c \in Handle |->
                 IF c \in Subtree(w, h) /\ w.parent[c] = p THEN OneLess(w.kids[p][c])
                 ELSE w.kids[p][c]]]
  BY DEF DeleteObject, WorldType
<1>2. QED
  BY <1>1 DEF NoKids

\* delete_object keeps the invariant: what survives is no child of what is gone.
\* An entity that is gone already may be deleted again.
LEMMA DeleteGood ==
  ASSUME NEW w, GoodWorld(w), NEW h \in Entity
  PROVE  GoodWorld(DeleteObject(w, h))
<1>1. w \in WorldType /\ Consistent(w) /\ Named(w)
  BY DEF GoodWorld
<1>2. h \in Handle /\ h \in Entity /\ w.objects \subseteq Handle
  BY <1>1 DEF WorldType, Handle
<1>3. PICK gone \in SUBSET Handle : gone = Subtree(w, h)
  BY <1>2, SubtreeIsLeast
<1>4. Root \notin gone /\ ClosedUnderKids(w, gone)
  BY <1>1, <1>2, <1>3, RootNotBelow, SubtreeIsLeast
<1>5. PICK v : v = DeleteObject(w, h)
  OBVIOUS
<1>6. /\ v \in WorldType
      /\ v.objects = w.objects \ gone
      /\ v.local_id_to_uuid = w.local_id_to_uuid
      /\ v.next_local_id = w.next_local_id
      /\ \A x \in Handle : v.parent[x] = IF x \in gone THEN Root ELSE w.parent[x]
      /\ \A x \in Handle : v.local_id[x] = IF x \in gone THEN 0 ELSE w.local_id[x]
  BY <1>1, <1>2, <1>3, <1>5, DeleteObjectFields
<1>7. \A p, c \in Handle :
        v.kids[p][c] = IF p \in gone THEN 0
                       ELSE IF c \in gone /\ w.parent[c] = p THEN OneLess(w.kids[p][c])
                       ELSE w.kids[p][c]
  BY <1>1, <1>2, <1>3, <1>5, DeleteObjectKids
\* A survivor is no child of anything that is gone.
<1>8. \A c \in Handle : c \in w.objects \ {Root} /\ w.parent[c] \in gone => c \in gone
  BY <1>1, <1>4 DEF ClosedUnderKids, Consistent, KidsAreTheChildren
<1>9. Consistent(v)
  <2>1. ParentAlive(v)
    BY <1>1, <1>4, <1>6, <1>8 DEF Consistent, ParentAlive, DetachedHaveNoParent
  <2>2. KidsAreTheChildren(v)
    <3> SUFFICES ASSUME NEW p \in Handle, NEW c \in Handle
                 PROVE  v.kids[p][c] =
                          IF c \in v.objects \ {Root} /\ v.parent[c] = p THEN 1 ELSE 0
      BY DEF KidsAreTheChildren
    <3>1. w.kids[p][c] = IF c \in w.objects \ {Root} /\ w.parent[c] = p THEN 1 ELSE 0
      BY <1>1 DEF Consistent, KidsAreTheChildren
    <3>2. CASE c \in gone
      BY <1>6, <1>7, <3>1, <3>2 DEF OneLess
    <3>3. CASE c \notin gone
      BY <1>6, <1>7, <1>8, <3>1, <3>3
    <3>4. QED
      BY <3>2, <3>3
  <2>3. DetachedHaveNoParent(v)
    BY <1>1, <1>6 DEF Consistent, DetachedHaveNoParent
  <2>4. QED
    BY <2>1, <2>2, <2>3 DEF Consistent
<1>10. Named(v)
  <2>1. FoundUnderTheirIds(v)
    BY <1>1, <1>2, <1>6 DEF Named, FoundUnderTheirIds
  <2>2. UnusedIds(v)
    BY <1>1, <1>6 DEF Named, UnusedIds
  <2>3. QED
    BY <2>1, <2>2 DEF Named
<1>11. QED
  BY <1>5, <1>6, <1>9, <1>10 DEF GoodWorld

\* deserialize_world makes a good world of any scene file.
LEMMA DeserializeGood ==
  ASSUME NEW f \in SceneFiles, Cardinality(DOMAIN f) <= MaxLocalId,
         NEW num \in Numberings(DOMAIN f)
  PROVE  GoodWorld(DeserializeWorld(f, num))
<1>1. PICK E \in SUBSET Entity : E = DOMAIN f /\ f \in [E -> Handle]
  BY DEF SceneFiles
<1>2. PICK size \in Nat : size = Cardinality(E) /\ size <= MaxLocalId
  BY <1>1, EntityAssumption, FS_Subset, FS_CardinalityType
<1>3. num \in [E -> 1..size] /\ \A x, y \in E : num[x] = num[y] => x = y
  BY <1>1, <1>2 DEF Numberings
<1>4. PICK up \in [Handle -> Handle] :
        up = [h \in Handle |-> IF h \in E /\ f[h] \in E THEN f[h] ELSE Root]
  BY <1>1 DEF Handle
<1>5. PICK k \in [Handle -> [Handle -> Nat]] :
        k = [p \in Handle |-> [c \in Handle |->
              IF c \in E /\ (IF c \in E /\ f[c] \in E THEN f[c] ELSE Root) = p
              THEN 1 ELSE 0]]
  OBVIOUS
<1>6. PICK ids \in [Handle -> 0..MaxLocalId] :
        ids = [h \in Handle |-> IF h \in E THEN num[h] ELSE 0]
  <2>1. 0 \in 0..MaxLocalId /\ 1..size \subseteq 0..MaxLocalId
    BY <1>2, MaxLocalIdAssumption
  <2>2. QED
    BY <1>3, <2>1
<1>7. PICK table \in [LocalId -> Handle] :
        table = [i \in LocalId |-> IF \E h \in E : num[h] = i
                                  THEN CHOOSE h \in E : num[h] = i ELSE Root]
  BY <1>1 DEF Handle
<1>8. PICK v : v = [objects |-> {Root} \union E, parent |-> up, kids |-> k,
                    local_id |-> ids, local_id_to_uuid |-> table,
                    next_local_id |-> size + 1]
  OBVIOUS
<1>9. v = DeserializeWorld(f, num)
  BY <1>1, <1>2, <1>4, <1>5, <1>6, <1>7, <1>8 DEF DeserializeWorld
<1>10. v \in WorldType
  BY <1>1, <1>2, <1>4, <1>5, <1>6, <1>7, <1>8, MaxLocalIdAssumption DEF WorldType, Handle
<1>11. Consistent(v)
  <2>1. ParentAlive(v)
    BY <1>1, <1>4, <1>8 DEF ParentAlive
  <2>2. KidsAreTheChildren(v)
    <3>1. \A p, c \in Handle : k[p][c] = IF c \in E /\ up[c] = p THEN 1 ELSE 0
      BY <1>4, <1>5
    <3>2. QED
      BY <1>1, <1>8, <3>1, RootAssumption DEF KidsAreTheChildren
  <2>3. DetachedHaveNoParent(v)
    BY <1>1, <1>4, <1>8, RootAssumption DEF DetachedHaveNoParent
  <2>4. QED
    BY <2>1, <2>2, <2>3 DEF Consistent
<1>12. Named(v)
  <2>1. \A h \in E : num[h] \in LocalId /\ num[h] < size + 1 /\ h \in Handle
    BY <1>1, <1>2, <1>3, MaxLocalIdAssumption DEF LocalId, Handle
  <2>2. \A h \in E : table[num[h]] = h
    BY <1>3, <1>7, <2>1
  <2>3. FoundUnderTheirIds(v)
    BY <1>6, <1>8, <2>1, <2>2 DEF FoundUnderTheirIds
  <2>4. UnusedIds(v)
    BY <1>2, <1>3, <1>7, <1>8 DEF UnusedIds, LocalId
  <2>5. QED
    BY <2>3, <2>4 DEF Named
<1>13. QED
  BY <1>9, <1>10, <1>11, <1>12 DEF GoodWorld

\* serialize_world writes a scene file.
LEMMA SerializeType ==
  ASSUME NEW w \in WorldType
  PROVE  SerializeWorld(w) \in SceneFiles
<1>1. w.objects \ {Root} \in SUBSET Entity /\ w.parent \in [Handle -> Handle]
  BY DEF WorldType, Handle
<1>2. SerializeWorld(w) \in [w.objects \ {Root} -> Handle]
  BY <1>1 DEF SerializeWorld, Handle
<1>3. QED
  BY <1>1, <1>2 DEF SceneFiles

\* create_world makes a good world.
LEMMA CreateWorldGood == GoodWorld(CreateWorld)
<1>1. CreateWorld \in WorldType
  BY MaxLocalIdAssumption DEF CreateWorld, WorldType, NoKids, Handle
<1>2. Consistent(CreateWorld)
  BY DEF CreateWorld, NoKids, Consistent, ParentAlive, KidsAreTheChildren,
         DetachedHaveNoParent
<1>3. Named(CreateWorld)
  BY DEF CreateWorld, Named, FoundUnderTheirIds, UnusedIds
<1>4. QED
  BY <1>1, <1>2, <1>3 DEF GoodWorld

----------------------------------------------------------------------------
(* The theorems *)

\* The inductive invariant holds at the start.
LEMMA InitIInv == Init => IInv
<1> SUFFICES ASSUME Init PROVE IInv
  OBVIOUS
<1>1. GoodWorld(world)
  BY CreateWorldGood DEF Init
<1>2. file \in SceneFiles
  BY <1>1, SerializeType DEF Init, GoodWorld
<1>3. QED
  BY <1>1, <1>2 DEF IInv

\* Every step keeps the inductive invariant.
LEMMA NextIInv == IInv /\ [Next]_vars => IInv'
<1> SUFFICES ASSUME IInv, [Next]_vars PROVE IInv'
  OBVIOUS
<1>1. /\ GoodWorld(world) /\ file \in SceneFiles
      /\ world \in WorldType /\ Consistent(world) /\ Root \in world.objects
  BY DEF IInv, GoodWorld, Consistent, ParentAlive
<1>2. Visited(world) \subseteq world.objects
  BY <1>1, VisitedAlive
<1>3. MaxLocalId \in Nat /\ world.next_local_id \in Nat
  BY <1>1, MaxLocalIdAssumption DEF WorldType
<1>4. ASSUME NEW h \in Entity, NEW p \in Handle, Create(h, p) PROVE IInv'
  BY <1>1, <1>2, <1>4, NewObjectGood DEF Create, Fresh, RoomForOneMore, IInv
<1>5. ASSUME NEW h \in Entity, NEW p \in Handle, Duplicate(p, h) PROVE IInv'
  BY <1>1, <1>5, NewObjectGood DEF Duplicate, Fresh, RoomForOneMore, IInv
<1>6. ASSUME NEW c \in Entity, NEW p \in Handle, Reparent(c, p) PROVE IInv'
  BY <1>1, <1>2, <1>6, ReparentGood DEF Reparent, IInv
<1>7. ASSUME NEW h \in Entity, Delete(h) PROVE IInv'
  BY <1>1, <1>7, DeleteGood DEF Delete, IInv
<1>8. CASE Save
  BY <1>1, <1>8, SerializeType DEF Save, IInv
<1>9. CASE Load
  BY <1>1, <1>9, DeserializeGood DEF Load, IInv
<1>10. CASE UNCHANGED vars
  BY <1>1, <1>10 DEF vars, IInv
<1>11. QED
  BY <1>4, <1>5, <1>6, <1>7, <1>8, <1>9, <1>10 DEF Next

\* Every reachable state satisfies the inductive invariant.
THEOREM Invariance == Spec => []IInv
<1>1. QED
  BY InitIInv, NextIInv, PTL DEF Spec

\* World and file have their types in every reachable state, whatever the set
\* of entities and the bound on local ids.
THEOREM TypeCorrect == Spec => []TypeOK
<1>1. IInv => TypeOK
  BY DEF IInv, GoodWorld, TypeOK
<1>2. QED
  BY <1>1, Invariance, PTL

\* The children lists and the parent links of a world always agree.
THEOREM HierarchyStaysConsistent == Spec => []HierarchyConsistent
<1>1. IInv => HierarchyConsistent
  BY DEF IInv, GoodWorld, Consistent, HierarchyConsistent
<1>2. QED
  BY <1>1, Invariance, PTL

\* Every living entity is found in the table under its own local id.
THEOREM PickingWorks == Spec => []PickingFindsTheEntity
<1>1. IInv => PickingFindsTheEntity
  BY DEF IInv, GoodWorld, Named, PickingFindsTheEntity
<1>2. QED
  BY <1>1, Invariance, PTL

\* new_object writes to an entry of the table that names no entity.
LEMMA NewObjectKeepsNames ==
  ASSUME NEW w, GoodWorld(w), NEW h \in Entity, NEW p \in w.objects,
         w.next_local_id <= MaxLocalId, NEW i \in LocalId
  PROVE  w.local_id_to_uuid[i] \in {Root, NewObject(w, h, p).local_id_to_uuid[i]}
<1>1. w \in WorldType /\ UnusedIds(w)
  BY DEF GoodWorld, Named
<1>2. h \in Handle /\ p \in Handle
  BY <1>1 DEF WorldType, Handle
<1>3. PICK v : v = NewObject(w, h, p)
  OBVIOUS
<1>4. /\ v \in WorldType
      /\ v.objects = w.objects \union {h}
      /\ v.parent = [w.parent EXCEPT ![h] = p]
      /\ v.local_id = [w.local_id EXCEPT ![h] = w.next_local_id]
      /\ v.local_id_to_uuid = [w.local_id_to_uuid EXCEPT ![w.next_local_id] = h]
      /\ v.next_local_id = w.next_local_id + 1
  BY <1>1, <1>2, <1>3, NewObjectFields
<1>5. CASE i = w.next_local_id
  <2>1. i >= w.next_local_id
    BY <1>5 DEF LocalId
  <2>2. QED
    BY <1>1, <2>1 DEF UnusedIds
<1>6. CASE i # w.next_local_id
  BY <1>1, <1>3, <1>4, <1>6 DEF WorldType
<1>7. QED
  BY <1>5, <1>6

NamesKept ==
  \A i \in LocalId : world.local_id_to_uuid[i] \in {Root, world'.local_id_to_uuid[i]}

\* Creating, moving and deleting leave every entry that names an entity alone.
LEMMA EditsKeepNames ==
  ASSUME IInv, NEW h \in Entity, NEW p \in Handle,
         Create(h, p) \/ Duplicate(p, h) \/ Reparent(h, p) \/ Delete(h)
  PROVE  NamesKept
<1>1. /\ GoodWorld(world) /\ world \in WorldType /\ Consistent(world)
      /\ Root \in world.objects /\ h \in Handle
  BY DEF IInv, GoodWorld, Consistent, ParentAlive, Handle
<1>2. Visited(world) \subseteq world.objects
  BY <1>1, VisitedAlive
<1>3. CASE Create(h, p)
  BY <1>1, <1>2, <1>3, NewObjectKeepsNames DEF Create, RoomForOneMore, NamesKept
<1>4. CASE Duplicate(p, h)
  BY <1>1, <1>4, NewObjectKeepsNames DEF Duplicate, RoomForOneMore, NamesKept
<1>5. CASE Reparent(h, p)
  <2>1. h \in world.objects \ {Root} /\ p \in world.objects
    BY <1>2, <1>5 DEF Reparent
  <2>2. world'.local_id_to_uuid = world.local_id_to_uuid
    BY <1>1, <1>5, <2>1, ReparentFields DEF Reparent
  <2>3. QED
    BY <2>2 DEF NamesKept
<1>6. CASE Delete(h)
  BY <1>1, <1>6, DeleteObjectFields DEF Delete, NamesKept
<1>7. QED
  BY <1>3, <1>4, <1>5, <1>6

\* No step but a load makes a local id that names an entity name another one.
THEOREM NamesAreForEver == Spec => LocalIdsNeverReused
<1>1. IInv /\ [Next]_vars => [Load \/ NamesKept]_vars
  <2>1. Save => NamesKept
    BY DEF Save, NamesKept
  <2>2. QED
    BY <2>1, EditsKeepNames DEF Next, Handle
<1>2. QED
  BY <1>1, Invariance, PTL DEF Spec, LocalIdsNeverReused, NamesKept

----------------------------------------------------------------------------
(* How entities are lost *)

\* What the recursion from the root reaches is closed under children lists.
LEMMA VisitedClosed ==
  ASSUME NEW w
  PROVE  /\ Visited(w) \in SUBSET Handle
         /\ Root \in Visited(w)
         /\ \A q \in Visited(w), d \in Handle : w.kids[q][d] > 0 => d \in Visited(w)
         /\ \A S \in SUBSET Handle :
              Root \in S /\ ClosedUnderKids(w, S) => Visited(w) \subseteq S
  BY SubtreeIsLeast DEF Visited, ClosedUnderKids, Handle

\* A new entity under a visited one is visited, and so is what was before.
LEMMA CreateLosesNothing ==
  ASSUME NEW w, GoodWorld(w), NEW h \in Entity \ w.objects, NEW p \in Visited(w),
         w.next_local_id <= MaxLocalId, NEW v, v = NewObject(w, h, p)
  PROVE  v.objects \ Visited(v) \subseteq w.objects \ Visited(w)
<1>1. w \in WorldType /\ Consistent(w) /\ h \in Handle /\ p \in Handle /\ h # Root
  BY RootAssumption, VisitedClosed DEF GoodWorld, Handle
<1>2. ListedOnce(w, h)
  BY <1>1, ConsistentListedOnce
<1>3. /\ v \in WorldType
      /\ v.objects = w.objects \union {h}
      /\ v.parent = [w.parent EXCEPT ![h] = p]
      /\ v.local_id = [w.local_id EXCEPT ![h] = w.next_local_id]
      /\ v.local_id_to_uuid = [w.local_id_to_uuid EXCEPT ![w.next_local_id] = h]
      /\ v.next_local_id = w.next_local_id + 1
  BY <1>1, NewObjectFields
<1>4. \A q, d \in Handle :
        v.kids[q][d] = IF d = h THEN (IF q = p THEN 1 ELSE 0) ELSE w.kids[q][d]
  BY <1>1, <1>2, NewObjectKids
<1>5. \A q \in Handle : w.kids[q][h] = 0
  BY <1>1 DEF Consistent, KidsAreTheChildren
<1>6. ClosedUnderKids(w, Visited(v))
  <2> SUFFICES ASSUME NEW q \in Visited(v), NEW d \in Handle, w.kids[q][d] > 0
               PROVE  d \in Visited(v)
    BY DEF ClosedUnderKids
  <2>1. q \in Handle
    BY VisitedClosed
  <2>2. d # h
    BY <1>5, <2>1
  <2>3. v.kids[q][d] > 0
    BY <1>4, <2>1, <2>2
  <2>4. QED
    BY <2>3, VisitedClosed
<1>7. Visited(w) \subseteq Visited(v)
  BY <1>6, VisitedClosed
<1>8. h \in Visited(v)
  <2>1. v.kids[p][h] > 0 /\ p \in Visited(v)
    BY <1>1, <1>4, <1>7
  <2>2. QED
    BY <1>1, <2>1, VisitedClosed
<1>9. QED
  BY <1>3, <1>7, <1>8

\* A move onto an entity that is not below the moved one loses nothing.
LEMMA MoveLosesNothing ==
  ASSUME NEW w, GoodWorld(w), NEW c \in w.objects \ {Root}, NEW p \in Visited(w),
         p \notin Subtree(w, c), NEW v, v = ReparentEntity(w, c, p)
  PROVE  v.objects \ Visited(v) \subseteq w.objects \ Visited(w)
<1>1. w \in WorldType /\ Consistent(w) /\ c \in Handle /\ p \in Handle
  BY VisitedClosed DEF GoodWorld, WorldType
<1>2. p \in w.objects
  BY <1>1, VisitedAlive
<1>3. /\ v.objects = w.objects
      /\ \A q, d \in Handle :
           v.kids[q][d] = IF d = c THEN (IF q = p THEN 1 ELSE 0) ELSE w.kids[q][d]
  BY <1>2, ReparentFields
<1>4. /\ Subtree(w, c) \in SUBSET Handle /\ c \in Subtree(w, c)
      /\ ClosedUnderKids(w, Subtree(w, c))
  BY <1>1, SubtreeIsLeast
\* Away from the moved subtree nothing changes, so the new parent is visited.
<1>5. p \in Visited(v)
  <2>1. ClosedUnderKids(w, Visited(v) \union Subtree(w, c))
    <3> SUFFICES ASSUME NEW q \in Visited(v) \union Subtree(w, c), NEW d \in Handle,
                        w.kids[q][d] > 0
                 PROVE  d \in Visited(v) \union Subtree(w, c)
      BY DEF ClosedUnderKids
    <3>1. CASE q \in Subtree(w, c)
      BY <1>4, <3>1 DEF ClosedUnderKids
    <3>2. CASE q \in Visited(v) /\ d # c
      <4>1. q \in Handle
        BY <3>2, VisitedClosed
      <4>2. v.kids[q][d] > 0
        BY <1>3, <3>2, <4>1
      <4>3. QED
        BY <3>2, <4>2, VisitedClosed
    <3>3. QED
      BY <1>4, <3>1, <3>2
  <2>2. Visited(v) \union Subtree(w, c) \in SUBSET Handle
        /\ Root \in Visited(v) \union Subtree(w, c)
    BY <1>4, VisitedClosed
  <2>3. Visited(w) \subseteq Visited(v) \union Subtree(w, c)
    BY <2>1, <2>2, VisitedClosed
  <2>4. QED
    BY <2>3
<1>6. c \in Visited(v)
  <2>1. v.kids[p][c] > 0
    BY <1>1, <1>3
  <2>2. QED
    BY <1>1, <1>5, <2>1, VisitedClosed
<1>7. ClosedUnderKids(w, Visited(v))
  <2> SUFFICES ASSUME NEW q \in Visited(v), NEW d \in Handle, w.kids[q][d] > 0, d # c
               PROVE  d \in Visited(v)
    BY <1>6 DEF ClosedUnderKids
  <2>1. q \in Handle
    BY VisitedClosed
  <2>2. v.kids[q][d] > 0
    BY <1>3, <2>1
  <2>3. QED
    BY <2>2, VisitedClosed
<1>8. QED
  BY <1>3, <1>7, VisitedClosed

\* A deletion takes a subtree away and leaves the rest within reach.
LEMMA DeleteLosesNothing ==
  ASSUME NEW w, GoodWorld(w), NEW h \in Handle, NEW v, v = DeleteObject(w, h)
  PROVE  v.objects \ Visited(v) \subseteq w.objects \ Visited(w)
<1>1. w \in WorldType
  BY DEF GoodWorld
<1>2. PICK gone : gone = Subtree(w, h)
  OBVIOUS
<1>3. gone \in SUBSET Handle /\ ClosedUnderKids(w, gone)
  BY <1>2, SubtreeIsLeast
<1>4. v.objects = w.objects \ gone
  BY <1>1, <1>2, DeleteObjectFields
<1>5. \A q, d \in Handle : q \notin gone /\ d \notin gone => v.kids[q][d] = w.kids[q][d]
  BY <1>1, <1>2, DeleteObjectKids
<1>6. ClosedUnderKids(w, Visited(v) \union gone)
  <2> SUFFICES ASSUME NEW q \in Visited(v) \ gone, NEW d \in Handle \ gone,
                      w.kids[q][d] > 0
               PROVE  d \in Visited(v)
    BY <1>3 DEF ClosedUnderKids
  <2>1. q \in Handle
    BY VisitedClosed
  <2>2. v.kids[q][d] > 0
    BY <1>5, <2>1
  <2>3. QED
    BY <2>2, VisitedClosed
<1>7. Visited(w) \subseteq Visited(v) \union gone
  BY <1>3, <1>6, VisitedClosed
<1>8. QED
  BY <1>4, <1>7

\* For any number of entities: a drop on a row below itself, and a load, are the
\* only steps after which the recursions miss an entity that they did not miss
\* before.
THEOREM OnlyDropsBelowLose == Spec => LostOnlyByDropBelowItself
<1> DEFINE Kept == world'.objects \ Visited(world') \subseteq world.objects \ Visited(world)
<1>1. IInv /\ [Next]_vars => [Kept \/ DropBelowItself \/ Load]_vars
  <2> SUFFICES ASSUME IInv, Next, ~Load PROVE Kept \/ DropBelowItself
    OBVIOUS
  <2>1. /\ GoodWorld(world) /\ Root \in Visited(world)
        /\ Visited(world) \subseteq world.objects
    BY VisitedAlive, VisitedClosed DEF IInv, GoodWorld
  <2>2. ASSUME NEW h \in Entity, NEW p \in Handle, Create(h, p) PROVE Kept
    BY <2>1, <2>2, CreateLosesNothing DEF Create, Fresh, RoomForOneMore
  <2>3. ASSUME NEW h \in Entity, NEW p \in Handle, Duplicate(p, h) PROVE Kept
    BY <2>1, <2>3, CreateLosesNothing DEF Duplicate, Fresh, RoomForOneMore
  <2>4. ASSUME NEW c \in Entity, NEW p \in Handle, Reparent(c, p)
        PROVE  Kept \/ DropBelowItself
    <3>1. CASE p \in Subtree(world, c)
      BY <2>4, <3>1 DEF DropBelowItself
    <3>2. CASE p \notin Subtree(world, c)
      BY <2>1, <2>4, <3>2, MoveLosesNothing DEF Reparent
    <3>3. QED
      BY <3>1, <3>2
  <2>5. ASSUME NEW h \in Entity, Delete(h) PROVE Kept
    BY <2>1, <2>5, DeleteLosesNothing DEF Delete, Handle
  <2>6. CASE Save
    BY <2>6 DEF Save
  <2>7. QED
    BY <2>2, <2>3, <2>4, <2>5, <2>6 DEF Next
<1>2. QED
  BY <1>1, Invariance, PTL DEF Spec, LostOnlyByDropBelowItself

----------------------------------------------------------------------------
(* The scene graph implements the tree of parent links *)

\* What the recursion over children lists reaches from an entity is what the
\* parent links lead back to it from.
LEMMA SubtreeIsBelow ==
  ASSUME IInv, NEW h \in world.objects \ {Root}
  PROVE  Subtree(world, h) = Tree!Below(h)
<1> DEFINE live == world.objects \ {Root}
           up   == SerializeWorld(world)
<1>1. /\ world \in WorldType /\ Consistent(world)
      /\ h \in Handle /\ h \in Entity /\ live \in SUBSET Handle
  BY DEF IInv, GoodWorld, WorldType, Handle
<1>2. \A x \in live : up[x] = world.parent[x]
  BY DEF SerializeWorld
<1>3. \A p, c \in Handle : world.kids[p][c] > 0 <=> c \in live /\ world.parent[c] = p
  BY <1>1 DEF Consistent, KidsAreTheChildren
<1>4. Subtree(world, h) \subseteq live
  BY <1>1, SubtreeAlive, RootNotBelow
<1>5. ASSUME NEW x \in Subtree(world, h) PROVE x \in Tree!Below(h)
  <2> SUFFICES ASSUME NEW S \in SUBSET live, h \in S,
                      \A z \in live : up[z] \in S => z \in S
               PROVE  x \in S
    BY <1>4, <1>5 DEF Tree!Below
  <2>1. ClosedUnderKids(world, S) /\ S \in SUBSET Handle
    BY <1>1, <1>2, <1>3 DEF ClosedUnderKids
  <2>2. QED
    BY <1>1, <2>1, SubtreeIsLeast
<1>6. ASSUME NEW x \in Tree!Below(h) PROVE x \in Subtree(world, h)
  <2>1. /\ h \in Subtree(world, h)
        /\ ClosedUnderKids(world, Subtree(world, h))
    BY <1>1, SubtreeIsLeast
  <2>2. \A z \in live : up[z] \in Subtree(world, h) => z \in Subtree(world, h)
    BY <1>1, <1>2, <1>3, <1>4, <2>1 DEF ClosedUnderKids
  <2>3. QED
    BY <1>4, <1>6, <2>1, <2>2 DEF Tree!Below
<1>7. QED
  BY <1>5, <1>6

\* A new object is a Create of the tree.
LEMMA NewObjectIsCreate ==
  ASSUME IInv, NEW h \in Entity \ world.objects, NEW p \in world.objects,
         world.next_local_id <= MaxLocalId, world' = NewObject(world, h, p)
  PROVE  Tree!Create(h, p)
<1>1. world \in WorldType /\ h \in Handle /\ p \in Handle /\ h # Root
  BY RootAssumption DEF IInv, GoodWorld, WorldType, Handle
<1>2. /\ world' \in WorldType
      /\ world'.objects = world.objects \union {h}
      /\ world'.parent = [world.parent EXCEPT ![h] = p]
      /\ world'.local_id = [world.local_id EXCEPT ![h] = world.next_local_id]
      /\ world'.local_id_to_uuid = [world.local_id_to_uuid EXCEPT ![world.next_local_id] = h]
      /\ world'.next_local_id = world.next_local_id + 1
  BY <1>1, NewObjectFields
<1>3. \A x \in Handle : world'.parent[x] = IF x = h THEN p ELSE world.parent[x]
  BY <1>1, <1>2 DEF WorldType
<1>4. world'.objects \ {Root} = (world.objects \ {Root}) \union {h}
  BY <1>1, <1>2
<1>5. world.objects \subseteq Handle
  BY <1>1 DEF WorldType
<1>6. SerializeWorld(world') =
        [y \in world'.objects \ {Root} |-> IF y = h THEN p ELSE SerializeWorld(world)[y]]
  BY <1>1, <1>3, <1>4, <1>5 DEF SerializeWorld
<1>7. QED
  BY <1>1, <1>4, <1>6 DEF Tree!Create

\* A drop on a row is a Move of the tree.
LEMMA ReparentIsMove ==
  ASSUME IInv, NEW c \in Entity, NEW p \in Handle, Reparent(c, p)
  PROVE  Tree!Move(c, p)
<1>1. /\ world \in WorldType /\ Consistent(world)
      /\ c \in Handle /\ world.parent[c] \in Handle
  BY DEF IInv, GoodWorld, WorldType, Handle
<1>2. c \in world.objects \ {Root} /\ p \in world.objects \ {c}
  BY <1>1, VisitedAlive DEF Reparent
<1>3. PICK u : u = RemoveChild(world, world.parent[c], c)
  OBVIOUS
<1>4. /\ u \in WorldType
      /\ u.objects = world.objects
      /\ u.parent = world.parent
      /\ u.local_id = world.local_id
      /\ u.local_id_to_uuid = world.local_id_to_uuid
      /\ u.next_local_id = world.next_local_id
  BY <1>1, <1>3, RemoveChildFields
<1>5. PICK v : v = AddChild(u, p, c)
  OBVIOUS
<1>6. /\ v \in WorldType
      /\ v.objects = u.objects
      /\ v.parent = [u.parent EXCEPT ![c] = p]
      /\ v.local_id = u.local_id
      /\ v.local_id_to_uuid = u.local_id_to_uuid
      /\ v.next_local_id = u.next_local_id
  <2>1. u \in WorldType
    BY <1>4
  <2>2. c \in Handle
    BY <1>1
  <2>3. /\ AddChild(u, p, c) \in WorldType
        /\ AddChild(u, p, c).objects = u.objects
        /\ AddChild(u, p, c).parent = [u.parent EXCEPT ![c] = p]
        /\ AddChild(u, p, c).local_id = u.local_id
        /\ AddChild(u, p, c).local_id_to_uuid = u.local_id_to_uuid
        /\ AddChild(u, p, c).next_local_id = u.next_local_id
    BY <2>1, <2>2, AddChildFields, Zenon
  <2>4. QED
    BY <1>5, <2>3, Zenon
<1>7. world' = v
  BY <1>3, <1>5 DEF Reparent, ReparentEntity
<1>8. \A x \in Handle : world'.parent[x] = IF x = c THEN p ELSE world.parent[x]
  BY <1>1, <1>4, <1>6, <1>7 DEF WorldType
<1>9. world'.objects = world.objects /\ world.objects \subseteq Handle
  BY <1>1, <1>4, <1>6, <1>7 DEF WorldType
<1>10. SerializeWorld(world') = [SerializeWorld(world) EXCEPT ![c] = p]
  BY <1>2, <1>8, <1>9 DEF SerializeWorld
<1>11. QED
  BY <1>2, <1>9, <1>10 DEF Tree!Move

\* Deleting an entity is a Destroy of the tree.
LEMMA DeleteIsDestroy ==
  ASSUME IInv, NEW h \in Entity, Delete(h)
  PROVE  Tree!Destroy(h)
<1>1. /\ world \in WorldType /\ Consistent(world)
      /\ h \in Handle /\ h \in world.objects \ {Root}
  BY DEF IInv, GoodWorld, Delete, Handle
<1>2. Subtree(world, h) = Tree!Below(h)
  BY <1>1, SubtreeIsBelow
<1>3. /\ world'.objects = world.objects \ Subtree(world, h)
      /\ \A x \in Handle : world'.parent[x] =
           IF x \in Subtree(world, h) THEN Root ELSE world.parent[x]
  BY <1>1, DeleteObjectFields DEF Delete
<1>4. world.objects \subseteq Handle
  BY <1>1 DEF WorldType
<1>5. SerializeWorld(world') = [y \in world'.objects \ {Root} |-> SerializeWorld(world)[y]]
  BY <1>3, <1>4 DEF SerializeWorld
<1>6. world'.objects \ {Root} = (world.objects \ {Root}) \ Tree!Below(h)
  BY <1>2, <1>3
<1>7. QED
  BY <1>1, <1>5, <1>6 DEF Tree!Destroy

\* Loading a scene is a Replace of the tree.
LEMMA LoadIsReplace ==
  ASSUME IInv, Load
  PROVE  \E E \in SUBSET Entity : \E f \in [E -> E \union {Root}] : Tree!Replace(E, f)
<1>1. IInv'
  BY NextIInv DEF Next
<1>2. world' \in WorldType /\ Consistent(world')
  BY <1>1 DEF IInv, GoodWorld
<1>3. world'.objects \ {Root} \in SUBSET Entity
  BY <1>2 DEF WorldType, Handle
<1>4. SerializeWorld(world') \in
        [world'.objects \ {Root} -> (world'.objects \ {Root}) \union {Root}]
  <2>1. \A x \in world'.objects \ {Root} : world'.parent[x] \in world'.objects
    BY <1>2, <1>3 DEF Consistent, ParentAlive, Handle
  <2>2. QED
    BY <2>1 DEF SerializeWorld
<1>5. QED
  BY <1>3, <1>4 DEF Tree!Replace

\* Through the mapping world.objects, SerializeWorld(world) every behaviour of
\* the scene graph is one of the tree of parent links.
THEOREM Refinement == Spec => ImplementsTree
<1>1. Init => Tree!Init
  BY DEF Init, CreateWorld, SerializeWorld, Tree!Init
<1>2. IInv /\ [Next]_vars => [Tree!Next]_(Tree!vars)
  <2> SUFFICES ASSUME IInv, [Next]_vars PROVE [Tree!Next]_(Tree!vars)
    OBVIOUS
  <2>1. /\ world \in WorldType /\ Consistent(world)
        /\ Root \in world.objects /\ Root \in Handle
    BY DEF IInv, GoodWorld, Consistent, ParentAlive, Handle
  <2>2. Visited(world) \subseteq world.objects
    BY <2>1, VisitedAlive
  <2>3. ASSUME NEW h \in Entity, NEW p \in Handle, Create(h, p) PROVE Tree!Next
    <3>1. Tree!Create(h, p)
      BY <2>2, <2>3, NewObjectIsCreate DEF Create, Fresh, RoomForOneMore
    <3>2. QED
      BY <3>1 DEF Tree!Next, Handle
  <2>4. ASSUME NEW h \in Entity, NEW p \in Handle, Duplicate(p, h) PROVE Tree!Next
    <3>1. Tree!Create(h, Root)
      BY <2>1, <2>4, NewObjectIsCreate DEF Duplicate, Fresh, RoomForOneMore
    <3>2. QED
      BY <3>1 DEF Tree!Next
  <2>5. ASSUME NEW c \in Entity, NEW p \in Handle, Reparent(c, p) PROVE Tree!Next
    BY <2>5, ReparentIsMove DEF Tree!Next, Handle
  <2>6. ASSUME NEW h \in Entity, Delete(h) PROVE Tree!Next
    BY <2>6, DeleteIsDestroy DEF Tree!Next
  <2>7. CASE Save
    BY <2>7 DEF Save, Tree!vars
  <2>8. CASE Load
    BY <2>8, LoadIsReplace DEF Tree!Next
  <2>9. CASE UNCHANGED vars
    BY <2>9 DEF vars, Tree!vars
  <2>10. QED
    BY <2>3, <2>4, <2>5, <2>6, <2>7, <2>8, <2>9 DEF Next
<1>3. QED
  BY <1>1, <1>2, Invariance, PTL DEF Spec, ImplementsTree, Tree!Spec

----------------------------------------------------------------------------
(* The loops of deserialize_world *)

Pair == [entity : Entity, parent : Handle]

\* The state of the first loop after some of the pairs of the file: each entity that was
\* read is under its parent, or under the root and waiting.
ReadSoFar(acc, done, pairs) ==
  /\ acc = [w |-> acc.w, pending |-> acc.pending]
  /\ GoodWorld(acc.w)
  /\ acc.w.objects = {Root} \union {pairs[j].entity : j \in 1..done}
  /\ acc.w.next_local_id = done + 1
  /\ \A j \in 1..done : acc.w.local_id[pairs[j].entity] = j
  /\ \A h \in Handle \ acc.w.objects : acc.w.local_id[h] = 0
  /\ acc.w.local_id[Root] = 0
  /\ acc.pending \in Seq(Pair)
  /\ \A k \in DOMAIN acc.pending : \E j \in 1..done : acc.pending[k] = pairs[j]
  /\ \A j \in 1..done :
       \/ acc.w.parent[pairs[j].entity] = pairs[j].parent
       \/ /\ acc.w.parent[pairs[j].entity] = Root
          /\ \E k \in DOMAIN acc.pending : acc.pending[k] = pairs[j]

Reads    == INSTANCE FoldFacts WITH Op <- ReadEntity, P <- ReadSoFar
Resolves == INSTANCE FoldFacts WITH Op <- ResolveParent, P <- ReadSoFar  \* for its chain

\* The pairs of a file with at most as many entities as the bound allows.
GoodPairs(pairs, n) ==
  /\ n \in Nat /\ n <= MaxLocalId /\ pairs \in [1..n -> Pair]
  /\ \A i, j \in 1..n : i # j => pairs[i].entity # pairs[j].entity

LEMMA PendingGrows ==
  ASSUME NEW s \in Seq(Pair), NEW pair \in Pair
  PROVE  /\ Append(s, pair) \in Seq(Pair)
         /\ \A k \in DOMAIN Append(s, pair) :
              Append(s, pair)[k] = pair \/ (k \in DOMAIN s /\ Append(s, pair)[k] = s[k])
         /\ \A k \in DOMAIN s : k \in DOMAIN Append(s, pair) /\ Append(s, pair)[k] = s[k]
         /\ \E k \in DOMAIN Append(s, pair) : Append(s, pair)[k] = pair
<1>1. Len(s) \in Nat /\ DOMAIN s = 1..Len(s)
  OBVIOUS
<1>2. /\ Append(s, pair) \in Seq(Pair) /\ DOMAIN Append(s, pair) = 1..(Len(s) + 1)
      /\ \A k \in 1..Len(s) : Append(s, pair)[k] = s[k]
      /\ Append(s, pair)[Len(s) + 1] = pair
  OBVIOUS
<1>3. \A k \in 1..(Len(s) + 1) : k = Len(s) + 1 \/ k \in 1..Len(s)
  BY <1>1
<1>4. Len(s) + 1 \in 1..(Len(s) + 1) /\ 1..Len(s) \subseteq 1..(Len(s) + 1)
  BY <1>1
<1> QED
  BY <1>1, <1>2, <1>3, <1>4

\* One turn of the first loop.
LEMMA ReadOne ==
  ASSUME NEW n, NEW pairs, GoodPairs(pairs, n), NEW acc, NEW i \in 1..n,
         ReadSoFar(acc, i-1, pairs)
  PROVE  ReadSoFar(ReadEntity(acc, pairs[i]), i, pairs)
<1>1. PICK w : w = acc.w
  OBVIOUS
<1>2. PICK pair \in Pair : pair = pairs[i]
  BY DEF GoodPairs
<1>3. PICK h \in Entity : h = pair.entity
  BY DEF Pair
<1>4. PICK p \in Handle : p = IF pair.parent \in w.objects THEN pair.parent ELSE Root
  BY DEF Pair, Handle
<1>5. PICK pending : pending = IF pair.parent \in w.objects THEN acc.pending
                               ELSE Append(acc.pending, pair)
  OBVIOUS
<1>6. /\ GoodWorld(w) /\ w \in WorldType /\ Root \in w.objects /\ acc.pending \in Seq(Pair)
      /\ w.objects = {Root} \union {pairs[j].entity : j \in 1..(i-1)}
      /\ w.next_local_id = (i - 1) + 1
      /\ \A j \in 1..(i-1) : w.local_id[pairs[j].entity] = j
      /\ \A x \in Handle \ w.objects : w.local_id[x] = 0
      /\ w.local_id[Root] = 0
  BY <1>1 DEF ReadSoFar, GoodWorld
<1>7. i \in Nat /\ i <= MaxLocalId /\ w.next_local_id = i /\ 1..i = (1..(i-1)) \union {i}
      /\ MaxLocalId \in Nat
  BY <1>6, MaxLocalIdAssumption DEF GoodPairs
<1>8. /\ h \in Handle /\ h # Root /\ h \notin w.objects
      /\ \A j \in 1..(i-1) : pairs[j].entity # h /\ pairs[j].entity \in Handle
  <2>1. \A j \in 1..(i-1) : j \in 1..n /\ j # i
    BY DEF GoodPairs
  <2>2. h \in Handle /\ h # Root
    BY RootAssumption DEF Handle
  <2>3. \A j \in 1..(i-1) : pairs[j].entity # h /\ pairs[j].entity \in Handle
    BY <1>2, <1>3, <2>1 DEF GoodPairs, Pair, Handle
  <2> QED
    BY <1>6, <2>2, <2>3
<1>9. p \in w.objects
  BY <1>4, <1>6
<1>10. PICK v : v = NewObject(w, h, p)
  OBVIOUS
<1>11. /\ GoodWorld(v)
       /\ v.objects = w.objects \union {h}
       /\ v.parent = [w.parent EXCEPT ![h] = p]
       /\ v.local_id = [w.local_id EXCEPT ![h] = i]
       /\ v.next_local_id = i + 1
  <2>1. GoodWorld(v)
    BY <1>6, <1>7, <1>8, <1>9, <1>10, NewObjectGood
  <2>2. w.next_local_id <= MaxLocalId
    BY <1>7
  <2>3. w \in WorldType /\ h \in Handle
    BY <1>6, <1>8
  <2>4. /\ v \in WorldType
        /\ v.objects = w.objects \union {h}
        /\ v.parent = [w.parent EXCEPT ![h] = p]
        /\ v.local_id = [w.local_id EXCEPT ![h] = w.next_local_id]
        /\ v.local_id_to_uuid = [w.local_id_to_uuid EXCEPT ![w.next_local_id] = h]
        /\ v.next_local_id = w.next_local_id + 1
    BY <1>10, <2>2, <2>3, NewObjectFields
  <2> QED
    BY <1>7, <2>1, <2>4
<1>12. PICK next : next = ReadEntity(acc, pairs[i])
  OBVIOUS
<1>13. next = [w |-> v, pending |-> pending]
  <2>1. CASE pair.parent \in w.objects
    <3>1. next = [acc EXCEPT !.w = NewObject(@, h, p)]
      BY <1>1, <1>2, <1>3, <1>4, <1>12, <2>1 DEF ReadEntity
    <3>2. acc = [w |-> w, pending |-> pending]
      BY <1>1, <1>5, <2>1 DEF ReadSoFar
    <3> QED
      BY <1>10, <3>1, <3>2
  <2>2. CASE pair.parent \notin w.objects
    BY <1>1, <1>2, <1>3, <1>4, <1>5, <1>10, <1>12, <2>2 DEF ReadEntity
  <2> QED
    BY <2>1, <2>2
<1>14. v.objects = {Root} \union {pairs[j].entity : j \in 1..i}
  BY <1>2, <1>3, <1>6, <1>7, <1>11
<1>15. \A j \in 1..i : v.local_id[pairs[j].entity] = j
  <2>1. w.local_id \in [Handle -> 0..MaxLocalId]
    BY <1>6 DEF WorldType
  <2>2. \A x \in Handle : v.local_id[x] = IF x = h THEN i ELSE w.local_id[x]
    BY <1>8, <1>11, <2>1
  <2> QED
    BY <1>2, <1>3, <1>6, <1>7, <1>8, <2>2
<1>16. v.local_id[Root] = 0 /\ \A x \in Handle \ v.objects : v.local_id[x] = 0
  <2>1. w.local_id \in [Handle -> 0..MaxLocalId]
    BY <1>6 DEF WorldType
  <2> QED
    BY <1>6, <1>8, <1>11, <2>1 DEF Handle
<1>17. /\ pending \in Seq(Pair)
       /\ \A k \in DOMAIN pending : \E j \in 1..i : pending[k] = pairs[j]
       /\ \A k \in DOMAIN acc.pending : \E l \in DOMAIN pending : pending[l] = acc.pending[k]
       /\ pair.parent \notin w.objects => \E k \in DOMAIN pending : pending[k] = pair
  <2>1. \A k \in DOMAIN acc.pending : \E j \in 1..i : acc.pending[k] = pairs[j]
    BY <1>7 DEF ReadSoFar
  <2>2. CASE pair.parent \in w.objects
    BY <1>5, <1>6, <2>1, <2>2
  <2>3. CASE pair.parent \notin w.objects
    <3>1. PICK s \in Seq(Pair) : s = acc.pending
      BY <1>6
    <3>2. pending = Append(s, pair) /\ i \in 1..i
      BY <1>5, <1>7, <2>3, <3>1
    <3>3. /\ pending \in Seq(Pair)
          /\ \A k \in DOMAIN pending : pending[k] = pair \/ (k \in DOMAIN s /\ pending[k] = s[k])
          /\ \A k \in DOMAIN s : k \in DOMAIN pending /\ pending[k] = s[k]
          /\ \E k \in DOMAIN pending : pending[k] = pair
      BY <3>2, PendingGrows
    <3>4. \A k \in DOMAIN pending : \E j \in 1..i : pending[k] = pairs[j]
      BY <1>2, <2>1, <3>1, <3>2, <3>3
    <3>5. \A k \in DOMAIN acc.pending : \E l \in DOMAIN pending : pending[l] = acc.pending[k]
      BY <3>1, <3>3
    <3> QED
      BY <3>3, <3>4, <3>5
  <2> QED
    BY <2>2, <2>3
<1>18. ASSUME NEW j \in 1..i
       PROVE  \/ v.parent[pairs[j].entity] = pairs[j].parent
              \/ /\ v.parent[pairs[j].entity] = Root
                 /\ \E k \in DOMAIN pending : pending[k] = pairs[j]
  <2>0. w.parent \in [Handle -> Handle]
    BY <1>6 DEF WorldType
  <2>1. \A x \in Handle : v.parent[x] = IF x = h THEN p ELSE w.parent[x]
    BY <1>8, <1>11, <2>0
  <2>2. CASE j = i
    BY <1>2, <1>3, <1>4, <1>8, <1>17, <2>1, <2>2
  <2>3. CASE j # i
    <3>1. j \in 1..(i-1)
      BY <1>7, <2>3
    <3>2. v.parent[pairs[j].entity] = w.parent[pairs[j].entity]
      BY <1>8, <2>1, <3>1
    <3> QED
      BY <1>1, <1>17, <3>1, <3>2 DEF ReadSoFar
  <2> QED
    BY <2>2, <2>3
<1>19. next.w = v /\ next.pending = pending /\ next = [w |-> next.w, pending |-> next.pending]
  BY <1>13
<1>20. ReadSoFar(next, i, pairs)
  BY <1>11, <1>14, <1>15, <1>16, <1>17, <1>18, <1>19 DEF ReadSoFar
<1> QED
  BY <1>12, <1>20

LEMMA ReadAll ==
  ASSUME NEW n, NEW pairs, GoodPairs(pairs, n)
  PROVE  ReadSoFar(FoldLeft(ReadEntity, [w |-> CreateWorld, pending |-> <<>>], pairs), n, pairs)
<1>1. PICK start : start = [w |-> CreateWorld, pending |-> <<>>]
  OBVIOUS
<1>2. DOMAIN pairs = 1..n /\ n \in Nat
  BY DEF GoodPairs
<1>3. ReadSoFar(start, 0, pairs)
  <2>1. start.w = CreateWorld /\ start.pending = <<>> /\ 1..0 = {} /\ <<>> \in Seq(Pair)
    BY <1>1
  <2>2. GoodWorld(start.w)
    BY <2>1, CreateWorldGood
  <2>3. /\ start.w.objects = {Root} /\ start.w.next_local_id = 0 + 1
        /\ \A h \in Handle : start.w.local_id[h] = 0
    BY <2>1 DEF CreateWorld
  <2> QED
    BY <1>1, <2>1, <2>2, <2>3 DEF ReadSoFar, Handle
<1>4. \A acc : \A i \in 1..n :
        ReadSoFar(acc, i-1, pairs) => ReadSoFar(ReadEntity(acc, pairs[i]), i, pairs)
  BY ReadOne
<1>5. FoldLeft(ReadEntity, start, pairs) = Reads!FoldLeft(ReadEntity, start, pairs)
  BY DEF FoldLeft, MapThenFoldSet, Max, Reads!FoldLeft, Reads!MapThenFoldSet, Reads!Max
<1>6. ReadSoFar(FoldLeft(ReadEntity, start, pairs), n, pairs)
  BY <1>2, <1>3, <1>4, <1>5, Reads!FoldInduction
<1> QED
  BY <1>1, <1>6

\* add_child on an entity of the world keeps the world good.
LEMMA AddChildGood ==
  ASSUME NEW w, GoodWorld(w), NEW c \in w.objects \ {Root}, NEW p \in w.objects
  PROVE  GoodWorld(AddChild(w, p, c))
<1>1. w \in WorldType /\ Consistent(w) /\ Named(w)
  BY DEF GoodWorld
<1>2. c \in Handle /\ p \in Handle /\ ListedOnce(w, c)
  BY <1>1, ConsistentListedOnce DEF WorldType
<1>3. PICK v : v = AddChild(w, p, c)
  OBVIOUS
<1>4. /\ v \in WorldType /\ v.objects = w.objects
      /\ v.parent = [w.parent EXCEPT ![c] = p]
      /\ v.local_id = w.local_id /\ v.local_id_to_uuid = w.local_id_to_uuid
      /\ v.next_local_id = w.next_local_id
  BY <1>1, <1>2, <1>3, AddChildFields
<1>5. \A x \in Handle : v.parent[x] = IF x = c THEN p ELSE w.parent[x]
  BY <1>1, <1>2, <1>4 DEF WorldType
<1>6. \A q, d \in Handle :
        v.kids[q][d] = IF d = c THEN (IF q = p THEN 1 ELSE 0) ELSE w.kids[q][d]
  BY <1>1, <1>2, <1>3, AddChildMoves
<1>7. ParentAlive(v)
  BY <1>1, <1>4, <1>5 DEF Consistent, ParentAlive
<1>8. KidsAreTheChildren(v)
  BY <1>1, <1>2, <1>4, <1>5, <1>6 DEF Consistent, KidsAreTheChildren
<1>9. DetachedHaveNoParent(v)
  BY <1>1, <1>2, <1>4, <1>5 DEF Consistent, DetachedHaveNoParent
<1>10. Named(v)
  BY <1>1, <1>4 DEF Named, FoundUnderTheirIds, UnusedIds
<1> QED
  BY <1>3, <1>4, <1>7, <1>8, <1>9, <1>10 DEF GoodWorld, Consistent

\* The world after some of the waiting entities have been moved, seen from the one
\* that the second loop started with.
ResolvedFrom(w, read, done, pending) ==
  /\ GoodWorld(w)
  /\ w.objects = read.objects /\ w.local_id = read.local_id
  /\ w.next_local_id = read.next_local_id
  /\ \A k \in 1..done : pending[k].parent \in w.objects =>
       w.parent[pending[k].entity] = pending[k].parent
  /\ \A h \in Handle :
       (\A k \in 1..done : pending[k].entity = h => pending[k].parent \notin w.objects)
         => w.parent[h] = read.parent[h]

\* The pairs that wait: of living entities, and not two for one of them.
GoodPending(read, pending, m) ==
  /\ m \in Nat /\ pending \in [1..m -> Pair]
  /\ \A k \in 1..m : pending[k].entity \in read.objects
  /\ \A k, l \in 1..m : pending[k].entity = pending[l].entity => pending[k] = pending[l]

\* One turn of the second loop.
LEMMA ResolveOne ==
  ASSUME NEW read, NEW pending, NEW m, GoodPending(read, pending, m), NEW w, NEW i \in 1..m,
         ResolvedFrom(w, read, i-1, pending)
  PROVE  ResolvedFrom(ResolveParent(w, pending[i]), read, i, pending)
<1>1. PICK pair \in Pair : pair = pending[i]
  BY DEF GoodPending
<1>2. i \in Nat /\ 1..i = (1..(i-1)) \union {i} /\ \A k \in 1..i : k \in 1..m
  BY DEF GoodPending
<1>3. /\ GoodWorld(w) /\ w \in WorldType
      /\ w.objects = read.objects /\ w.local_id = read.local_id
      /\ w.next_local_id = read.next_local_id
      /\ pair.entity \in w.objects \ {Root} /\ pair.entity \in Handle
  BY <1>1, RootAssumption DEF ResolvedFrom, GoodWorld, GoodPending, Pair, Handle
<1>4. PICK v : v = ResolveParent(w, pair)
  OBVIOUS
<1>5. CASE pair.parent \notin w.objects
  <2>1. v = w
    BY <1>4, <1>5 DEF ResolveParent
  <2> QED
    BY <1>1, <1>2, <1>4, <1>5, <2>1 DEF ResolvedFrom
<1>6. CASE pair.parent \in w.objects
  <2>1. v = AddChild(w, pair.parent, pair.entity)
    BY <1>4, <1>6 DEF ResolveParent
  <2>2. GoodWorld(v)
    BY <1>3, <1>6, <2>1, AddChildGood
  <2>3. PICK p \in Handle : p = pair.parent
    BY DEF Pair
  <2>4. PICK c \in Handle : c = pair.entity
    BY <1>3
  <2>5. /\ v \in WorldType /\ v.objects = w.objects
        /\ v.parent = [w.parent EXCEPT ![c] = p]
        /\ v.local_id = w.local_id /\ v.local_id_to_uuid = w.local_id_to_uuid
        /\ v.next_local_id = w.next_local_id
    <3>1. w \in WorldType
      BY <1>3
    <3>2. v = AddChild(w, p, c)
      BY <2>1, <2>3, <2>4
    <3> QED
      BY <3>1, <3>2, AddChildFields
  <2>6. /\ v.objects = w.objects /\ v.local_id = w.local_id
        /\ v.next_local_id = w.next_local_id
        /\ \A x \in Handle : v.parent[x] = IF x = c THEN p ELSE w.parent[x]
    BY <1>3, <2>5 DEF WorldType
  <2>7. ASSUME NEW k \in 1..i, pending[k].parent \in v.objects
        PROVE  v.parent[pending[k].entity] = pending[k].parent
    <3>1. CASE pending[k].entity = c
      <4>1. pending[k] = pair
        BY <1>1, <1>2, <2>4, <3>1 DEF GoodPending
      <4> QED
        BY <2>3, <2>4, <2>6, <4>1
    <3>2. CASE pending[k].entity # c
      <4>1. k \in 1..(i-1) /\ pending[k].entity \in Handle
        BY <1>1, <1>2, <2>4, <3>2 DEF GoodPending, Pair, Handle
      <4>2. w.parent[pending[k].entity] = pending[k].parent
        BY <2>6, <2>7, <4>1 DEF ResolvedFrom
      <4> QED
        BY <2>6, <3>2, <4>1, <4>2
    <3> QED
      BY <3>1, <3>2
  <2>8. ASSUME NEW h \in Handle,
               \A k \in 1..i : pending[k].entity = h => pending[k].parent \notin v.objects
        PROVE  v.parent[h] = read.parent[h]
    <3>1. h # c
      BY <1>1, <1>2, <1>6, <2>4, <2>6, <2>8
    <3>2. w.parent[h] = read.parent[h]
      BY <1>2, <2>6, <2>8 DEF ResolvedFrom
    <3> QED
      BY <2>6, <3>1, <3>2
  <2>9. ResolvedFrom(v, read, i, pending)
    BY <1>3, <2>2, <2>6, <2>7, <2>8 DEF ResolvedFrom
  <2> QED
    BY <1>1, <1>4, <2>9
<1> QED
  BY <1>5, <1>6

LEMMA ResolveAll ==
  ASSUME NEW read, GoodWorld(read), NEW pending, NEW m, GoodPending(read, pending, m)
  PROVE  ResolvedFrom(FoldLeft(ResolveParent, read, pending), read, m, pending)
<1>1. m \in Nat /\ DOMAIN pending = 1..m
  BY DEF GoodPending
<1>2. PICK c : /\ c[0] = read
               /\ \A i \in 1..m : c[i] = ResolveParent(c[i-1], pending[i])
               /\ c[m] = Resolves!FoldLeft(ResolveParent, read, pending)
  BY <1>1, Resolves!FoldChain
<1> DEFINE S == {i \in Nat : i <= m => ResolvedFrom(c[i], read, i, pending)}
<1>3. 0 \in S
  <2>1. 1..0 = {}
    OBVIOUS
  <2>2. ResolvedFrom(c[0], read, 0, pending)
    BY <1>2, <2>1 DEF ResolvedFrom
  <2> QED
    BY <2>2
<1>4. ASSUME NEW i \in S PROVE i + 1 \in S
  <2>1. ASSUME i + 1 <= m PROVE ResolvedFrom(c[i+1], read, i+1, pending)
    <3>1. i + 1 \in 1..m /\ (i + 1) - 1 = i /\ ResolvedFrom(c[i], read, i, pending)
      BY <1>1, <2>1
    <3>2. c[i+1] = ResolveParent(c[i], pending[i+1])
      BY <1>2, <3>1
    <3>3. ResolvedFrom(ResolveParent(c[i], pending[i+1]), read, i+1, pending)
      BY <3>1, ResolveOne
    <3> QED
      BY <3>2, <3>3
  <2> QED
    BY <2>1
<1>5. S = Nat
  <2> HIDE DEF S
  <2>1. S \in SUBSET Nat
    BY DEF S
  <2> QED
    BY <1>3, <1>4, <2>1, Resolves!SetInduction
<1>6. ResolvedFrom(c[m], read, m, pending)
  BY <1>1, <1>5
<1>7. FoldLeft(ResolveParent, read, pending) = Resolves!FoldLeft(ResolveParent, read, pending)
  BY DEF FoldLeft, MapThenFoldSet, Max,
         Resolves!FoldLeft, Resolves!MapThenFoldSet, Resolves!Max
<1> QED
  BY <1>2, <1>6, <1>7

\* A good world whose ids are 1, 2, ... without gaps is given by its objects, its
\* parent links and its ids.
LEMMA SameWorld ==
  ASSUME NEW v, GoodWorld(v), NEW u, GoodWorld(u),
         v.objects = u.objects, v.next_local_id = u.next_local_id, v.local_id = u.local_id,
         \A h \in v.objects \ {Root} : v.parent[h] = u.parent[h],
         \A i \in LocalId : i < v.next_local_id =>
           \E h \in v.objects \ {Root} : v.local_id[h] = i
  PROVE  v = u
<1>1. /\ v \in WorldType /\ Consistent(v) /\ Named(v)
      /\ u \in WorldType /\ Consistent(u) /\ Named(u)
  BY DEF GoodWorld
<1>2. v.parent = u.parent
  <2>1. \A h \in Handle : v.parent[h] = u.parent[h]
    BY <1>1 DEF Consistent, DetachedHaveNoParent
  <2>2. v.parent \in [Handle -> Handle] /\ u.parent \in [Handle -> Handle]
    BY <1>1 DEF WorldType
  <2> QED
    BY <2>1, <2>2
<1>3. v.kids = u.kids
  <2>1. \A p, c \in Handle : v.kids[p][c] = u.kids[p][c]
    BY <1>1, <1>2 DEF Consistent, KidsAreTheChildren
  <2>2. v.kids \in [Handle -> [Handle -> Nat]] /\ u.kids \in [Handle -> [Handle -> Nat]]
    BY <1>1 DEF WorldType
  <2>3. \A p \in Handle : v.kids[p] = u.kids[p]
    BY <2>1, <2>2
  <2> QED
    BY <2>2, <2>3
<1>4. v.local_id_to_uuid = u.local_id_to_uuid
  <2>1. ASSUME NEW i \in LocalId PROVE v.local_id_to_uuid[i] = u.local_id_to_uuid[i]
    <3>1. CASE i < v.next_local_id
      <4>1. PICK h \in v.objects \ {Root} : v.local_id[h] = i
        BY <3>1
      <4> QED
        BY <1>1, <4>1 DEF Named, FoundUnderTheirIds
    <3>2. CASE ~ (i < v.next_local_id)
      <4>1. i >= v.next_local_id
        <5>1. i \in Int /\ v.next_local_id \in Int
          BY <1>1 DEF WorldType, LocalId
        <5> QED
          BY <3>2, <5>1
      <4> QED
        BY <1>1, <4>1 DEF Named, UnusedIds
    <3> QED
      BY <3>1, <3>2
  <2>2. v.local_id_to_uuid \in [LocalId -> Handle] /\ u.local_id_to_uuid \in [LocalId -> Handle]
    BY <1>1 DEF WorldType
  <2> QED
    BY <2>1, <2>2
<1>5. \A x \in WorldType :
        x = [objects |-> x.objects, parent |-> x.parent, kids |-> x.kids,
             local_id |-> x.local_id, local_id_to_uuid |-> x.local_id_to_uuid,
             next_local_id |-> x.next_local_id]
  BY DEF WorldType
<1>6. v \in WorldType /\ u \in WorldType
  BY <1>1
<1> QED
  BY <1>2, <1>3, <1>4, <1>5, <1>6

\* A numbering of the file gives each entity one place in the list of pairs.
LEMMA EntriesFacts ==
  ASSUME file \in SceneFiles, NEW n, n = Cardinality(DOMAIN file), n <= MaxLocalId,
         NEW num \in Numberings(DOMAIN file)
  PROVE  /\ GoodPairs(Entries(num), n)
         /\ \A h \in DOMAIN file : num[h] \in 1..n /\ Entries(num)[num[h]].entity = h
         /\ \A i \in 1..n : /\ Entries(num)[i].entity \in DOMAIN file
                            /\ num[Entries(num)[i].entity] = i
                            /\ Entries(num)[i].parent = file[Entries(num)[i].entity]
<1>1. PICK E \in SUBSET Entity : E = DOMAIN file /\ file \in [E -> Handle]
  BY DEF SceneFiles
<1>2. IsFiniteSet(E) /\ n \in Nat
  BY <1>1, EntityAssumption, FS_Subset, FS_CardinalityType
<1>3. num \in [E -> 1..n] /\ \A x, y \in E : num[x] = num[y] => x = y
  BY <1>1 DEF Numberings
<1>4. \A i \in 1..n : \E h \in E : num[h] = i
  <2>1. IsFiniteSet(1..n) /\ Cardinality(1..n) = n
    BY <1>2, FS_Interval
  <2>2. num \in Injection(E, 1..n)
    BY <1>3 DEF Injection, IsInjective
  <2>3. num \in Surjection(E, 1..n)
    BY <1>1, <2>1, <2>2, FS_Injection
  <2> QED
    BY <2>3 DEF Surjection
<1>5. PICK l : l = Entries(num)
  OBVIOUS
<1>6. l = [i \in 1..n |-> LET h == CHOOSE h \in E : num[h] = i
                          IN  [entity |-> h, parent |-> file[h]]]
  BY <1>1, <1>5 DEF Entries
<1>7. ASSUME NEW i \in 1..n
      PROVE  \E h \in E : num[h] = i /\ l[i] = [entity |-> h, parent |-> file[h]]
  <2>1. PICK h \in E : h = CHOOSE x \in E : num[x] = i
    BY <1>4
  <2>2. num[h] = i
    BY <1>4, <2>1
  <2>3. l[i] = [entity |-> h, parent |-> file[h]]
    BY <1>6, <2>1
  <2> QED
    BY <2>2, <2>3
<1>8. \A h \in E : [entity |-> h, parent |-> file[h]] \in Pair
  BY <1>1 DEF Pair
<1>9. DOMAIN l = 1..n /\ \A i \in 1..n : l[i] \in Pair
  BY <1>6, <1>7, <1>8
<1>10. l \in [1..n -> Pair]
  BY <1>6, <1>9
<1>11. ASSUME NEW i \in 1..n
       PROVE  /\ l[i].entity \in E /\ num[l[i].entity] = i
              /\ l[i].parent = file[l[i].entity]
  <2>1. PICK h \in E : num[h] = i /\ l[i] = [entity |-> h, parent |-> file[h]]
    BY <1>7
  <2>2. l[i].entity = h /\ l[i].parent = file[h]
    BY <2>1
  <2> QED
    BY <2>1, <2>2
<1>12. \A h \in E : num[h] \in 1..n /\ l[num[h]].entity = h
  BY <1>3, <1>11
<1>13. GoodPairs(l, n)
  BY <1>2, <1>10, <1>11 DEF GoodPairs
<1> QED
  BY <1>1, <1>5, <1>11, <1>12, <1>13

\* The two loops make of a file the world that Load makes of it, for every order of its
\* entities.
LEMMA LoopIsLoad ==
  ASSUME file \in SceneFiles, Cardinality(DOMAIN file) <= MaxLocalId,
         NEW num \in Numberings(DOMAIN file)
  PROVE  DeserializeLoop(Entries(num)) = DeserializeWorld(file, num)
<1>1. PICK E \in SUBSET Entity : E = DOMAIN file /\ file \in [E -> Handle]
  BY DEF SceneFiles
<1>2. PICK n : n = Cardinality(DOMAIN file)
  OBVIOUS
<1>3. PICK l : l = Entries(num)
  OBVIOUS
<1>4. /\ GoodPairs(l, n)
      /\ \A h \in E : num[h] \in 1..n /\ l[num[h]].entity = h
      /\ \A i \in 1..n : /\ l[i].entity \in E /\ num[l[i].entity] = i
                         /\ l[i].parent = file[l[i].entity]
  BY <1>1, <1>2, <1>3, EntriesFacts
<1>5. n \in Nat /\ n <= MaxLocalId /\ \A h \in E : h \in Handle /\ h # Root
  BY <1>4, RootAssumption DEF GoodPairs, Handle
<1>6. PICK read : read = FoldLeft(ReadEntity, [w |-> CreateWorld, pending |-> <<>>], l)
  OBVIOUS
<1>7. ReadSoFar(read, n, l)
  BY <1>4, <1>6, ReadAll
<1>8. PICK w : w = read.w
  OBVIOUS
<1>9. PICK pending \in Seq(Pair) : pending = read.pending
  BY <1>7 DEF ReadSoFar
<1>10. PICK m \in Nat : DOMAIN pending = 1..m
  OBVIOUS
<1>11. /\ GoodWorld(w) /\ w.objects = {Root} \union E /\ w.next_local_id = n + 1
       /\ \A h \in E : w.local_id[h] = num[h]
       /\ \A h \in Handle \ E : w.local_id[h] = 0
       /\ \A k \in 1..m : /\ pending[k].entity \in E
                          /\ pending[k].parent = file[pending[k].entity]
       /\ \A h \in E : \/ w.parent[h] = file[h]
                       \/ /\ w.parent[h] = Root
                          /\ \E k \in 1..m : pending[k].entity = h
  <2>1. /\ GoodWorld(w)
        /\ w.objects = {Root} \union {l[j].entity : j \in 1..n} /\ w.next_local_id = n + 1
        /\ \A j \in 1..n : w.local_id[l[j].entity] = j
        /\ \A h \in Handle \ w.objects : w.local_id[h] = 0
        /\ w.local_id[Root] = 0
        /\ \A k \in 1..m : \E j \in 1..n : pending[k] = l[j]
        /\ \A j \in 1..n : \/ w.parent[l[j].entity] = l[j].parent
                           \/ /\ w.parent[l[j].entity] = Root
                              /\ \E k \in 1..m : pending[k] = l[j]
    BY <1>7, <1>8, <1>9, <1>10 DEF ReadSoFar
  <2>2. {l[j].entity : j \in 1..n} = E
    <3>1. \A h \in E : \E j \in 1..n : h = l[j].entity
      BY <1>4
    <3> QED
      BY <1>4, <3>1
  <2>3. \A k \in 1..m : pending[k].entity \in E /\ pending[k].parent = file[pending[k].entity]
    BY <1>4, <2>1
  <2>4. ASSUME NEW h \in E
        PROVE  /\ w.local_id[h] = num[h]
               /\ \/ w.parent[h] = file[h]
                  \/ w.parent[h] = Root /\ \E k \in 1..m : pending[k].entity = h
    <3>1. PICK j \in 1..n : j = num[h]
      BY <1>4
    <3>2. l[j].entity = h /\ l[j].parent = file[h]
      BY <1>4, <3>1
    <3> QED
      BY <2>1, <3>1, <3>2
  <2>5. \A h \in Handle \ E : w.local_id[h] = 0
    BY <2>1, <2>2
  <2> QED
    BY <2>1, <2>2, <2>3, <2>4, <2>5
<1>12. GoodPending(w, pending, m)
  <2>1. \A k \in 1..m : pending[k] \in Pair
    BY <1>10
  <2>2. pending \in [1..m -> Pair]
    BY <1>10
  <2>3. ASSUME NEW k \in 1..m, NEW i \in 1..m, pending[k].entity = pending[i].entity
        PROVE  pending[k] = pending[i]
    <3>1. pending[k].parent = pending[i].parent
      BY <1>11, <2>3
    <3> QED
      BY <2>1, <2>3, <3>1 DEF Pair
  <2> QED
    BY <1>11, <2>2, <2>3 DEF GoodPending
<1>13. PICK v : v = FoldLeft(ResolveParent, w, pending)
  OBVIOUS
<1>14. ResolvedFrom(v, w, m, pending)
  BY <1>11, <1>12, <1>13, ResolveAll
<1>15. PICK u : u = DeserializeWorld(file, num)
  OBVIOUS
<1>16. /\ GoodWorld(u) /\ u.objects = {Root} \union E /\ u.next_local_id = n + 1
       /\ \A h \in E : u.local_id[h] = num[h]
       /\ \A h \in Handle \ E : u.local_id[h] = 0
       /\ \A h \in E : u.parent[h] = IF file[h] \in E THEN file[h] ELSE Root
  <2>1. GoodWorld(u)
    BY <1>15, DeserializeGood
  <2> QED
    BY <1>1, <1>2, <1>5, <1>15, <2>1 DEF DeserializeWorld
<1>17. /\ GoodWorld(v) /\ v.objects = {Root} \union E /\ v.next_local_id = n + 1
       /\ v.local_id = w.local_id
  BY <1>11, <1>14 DEF ResolvedFrom
<1>18. ASSUME NEW h \in E
       PROVE  v.parent[h] = IF file[h] \in E THEN file[h] ELSE Root
  <2>1. h \in Handle /\ v.objects = {Root} \union E /\ w.objects = v.objects /\ Root \notin E
    BY <1>5, <1>11, <1>17
  <2>2. \A k \in 1..m : pending[k].entity = h => pending[k].parent = file[h]
    BY <1>11
  <2>3. CASE file[h] \in v.objects /\ \E k \in 1..m : pending[k].entity = h
    <3>1. v.parent[h] = file[h]
      BY <1>14, <2>2, <2>3 DEF ResolvedFrom
    <3> QED
      BY <2>1, <2>3, <3>1
  <2>4. CASE file[h] \in v.objects /\ ~ \E k \in 1..m : pending[k].entity = h
    <3>1. w.parent[h] = file[h]
      BY <1>11, <2>4
    <3>2. v.parent[h] = w.parent[h]
      BY <1>14, <2>1, <2>4 DEF ResolvedFrom
    <3> QED
      BY <2>1, <2>4, <3>1, <3>2
  <2>5. CASE file[h] \notin v.objects
    <3>1. v.parent[h] = w.parent[h]
      BY <1>14, <2>1, <2>2, <2>5 DEF ResolvedFrom
    <3>2. w.parent[h] \in w.objects
      BY <1>11, <2>1 DEF GoodWorld, Consistent, ParentAlive
    <3>3. w.parent[h] = Root
      BY <1>11, <2>1, <2>5, <3>2
    <3> QED
      BY <2>1, <2>5, <3>1, <3>3
  <2> QED
    BY <2>3, <2>4, <2>5
<1>19. v = u
  <2>1. v.local_id = u.local_id
    <3>1. \A h \in Handle : v.local_id[h] = u.local_id[h]
      BY <1>11, <1>16, <1>17
    <3>2. v.local_id \in [Handle -> 0..MaxLocalId] /\ u.local_id \in [Handle -> 0..MaxLocalId]
      BY <1>16, <1>17 DEF GoodWorld, WorldType
    <3> QED
      BY <3>1, <3>2
  <2>2. \A h \in v.objects \ {Root} : v.parent[h] = u.parent[h]
    BY <1>16, <1>17, <1>18
  <2>3. ASSUME NEW i \in LocalId, i < v.next_local_id
        PROVE  \E h \in v.objects \ {Root} : v.local_id[h] = i
    <3>1. i \in 1..n
      BY <1>5, <1>17, <2>3 DEF LocalId
    <3>2. l[i].entity \in v.objects \ {Root} /\ v.local_id[l[i].entity] = i
      BY <1>4, <1>5, <1>11, <1>17, <3>1
    <3> QED
      BY <3>2
  <2>4. v.objects = u.objects /\ v.next_local_id = u.next_local_id
    BY <1>16, <1>17
  <2> QED
    BY <1>16, <1>17, <2>1, <2>2, <2>3, <2>4, SameWorld
<1>20. DeserializeLoop(l) = v
  BY <1>6, <1>8, <1>9, <1>13 DEF DeserializeLoop
<1> QED
  BY <1>3, <1>15, <1>19, <1>20

\* deserialize_world rebuilds the hierarchy of every file the editor writes, in whatever
\* order its entities come.
THEOREM LoadsRebuild == Spec => []LoadRebuildsTheHierarchy
<1>1. IInv => LoadRebuildsTheHierarchy
  BY LoopIsLoad DEF IInv, LoadRebuildsTheHierarchy
<1> QED
  BY <1>1, Invariance, PTL

----------------------------------------------------------------------------
(***************************************************************************)
(* Walks.  delete_object and world_update both call themselves for each    *)
(* child.  What such a walk has come across when it is back from h, having *)
(* met the handles of U before, is Reach(w, U, h).                         *)
(***************************************************************************)

\* An arbitrary order of a finite set has each member once.
LEMMA SetToSeqFacts ==
  ASSUME NEW S, IsFiniteSet(S)
  PROVE  /\ Cardinality(S) \in Nat
         /\ SetToSeq(S) \in [1..Cardinality(S) -> S]
         /\ \A i, j \in 1..Cardinality(S) : SetToSeq(S)[i] = SetToSeq(S)[j] => i = j
         /\ \A x \in S : \E i \in 1..Cardinality(S) : SetToSeq(S)[i] = x
<1>1. PICK n \in Nat : n = Cardinality(S)
  BY FS_CardinalityType
<1>2. PICK f \in Bijection(1..n, S) : TRUE
  BY <1>1, FS_CardinalityType DEF ExistsBijection
<1>3. f \in [1..n -> S] /\ IsInjective(f)
  BY <1>2 DEF Bijection, Injection, IsInjective
<1>4. PICK s : s = SetToSeq(S)
  OBVIOUS
<1>5. s = CHOOSE g \in [1..n -> S] : IsInjective(g)
  BY <1>1, <1>4, Zenon DEF SetToSeq
<1>6. s \in [1..n -> S] /\ IsInjective(s)
  BY <1>3, <1>5, Zenon
<1>7. IsFiniteSet(1..n) /\ Cardinality(1..n) = n
  BY FS_Interval
<1>8. \A x \in S : \E i \in 1..n : s[i] = x
  <2>1. s \in Injection(1..n, S)
    BY <1>6 DEF Injection
  <2>2. s \in Surjection(1..n, S)
    BY <1>1, <1>7, <2>1, FS_Injection
  <2> QED
    BY <2>2 DEF Surjection
<1>9. \A i, j \in 1..n : s[i] = s[j] => i = j
  BY <1>6 DEF IsInjective
<1> QED
  BY <1>1, <1>4, <1>6, <1>8, <1>9

\* A list of entities without repetitions.
ListOf(list, n) ==
  /\ n \in Nat /\ list \in [1..n -> Handle]
  /\ \A i, j \in 1..n : list[i] = list[j] => i = j

\* A loop over a list in which nothing is twice meets each child once.
LEMMA ChildrenFacts ==
  ASSUME NEW w \in WorldType, NEW p \in Handle, \A c \in Handle : w.kids[p][c] <= 1
  PROVE  \E n \in Nat :
           /\ ListOf(Children(w, p), n)
           /\ \A c \in Handle :
                w.kids[p][c] > 0 <=> \E i \in 1..n : Children(w, p)[i] = c
<1>1. w.kids[p] \in [Handle -> Nat]
  BY DEF WorldType
<1> DEFINE C == {c \in Handle : w.kids[p][c] > 0}
<1>2. UNION {{c} \X (1..w.kids[p][c]) : c \in Handle} = C \X {1}
  <2>1. ASSUME NEW c \in Handle PROVE 1..w.kids[p][c] = IF c \in C THEN {1} ELSE {}
    <3>1. w.kids[p][c] \in {0, 1}
      BY <1>1
    <3>2. 1..0 = {} /\ 1..1 = {1}
      OBVIOUS
    <3>3. CASE w.kids[p][c] = 0
      BY <3>2, <3>3
    <3>4. CASE w.kids[p][c] = 1
      BY <3>2, <3>4
    <3> QED
      BY <3>1, <3>3, <3>4
  <2>2. \A e : e \in UNION {{c} \X (1..w.kids[p][c]) : c \in Handle}
                 <=> \E c \in Handle : e \in {c} \X (1..w.kids[p][c])
    OBVIOUS
  <2>3. \A e : e \in C \X {1} <=> \E c \in C : e = <<c, 1>>
    OBVIOUS
  <2>4. \A e, c : e \in {c} \X {1} <=> e = <<c, 1>>
    OBVIOUS
  <2>5. \A e, c : ~ (e \in {c} \X {})
    OBVIOUS
  <2>6. ASSUME NEW e
        PROVE  (\E c \in Handle : e \in {c} \X (1..w.kids[p][c])) <=> \E c \in C : e = <<c, 1>>
    <3>1. \A c \in C : c \in Handle /\ 1..w.kids[p][c] = {1}
      BY <2>1
    <3>2. \A c \in Handle \ C : 1..w.kids[p][c] = {}
      BY <2>1
    <3> HIDE DEF C
    <3> QED
      BY <2>4, <2>5, <3>1, <3>2
  <2> QED
    BY <2>2, <2>3, <2>6
<1>3. IsFiniteSet(C \X {1})
  <2>1. IsFiniteSet(Handle)
    BY EntityAssumption, FS_AddElement DEF Handle
  <2>2. C \in SUBSET Handle
    OBVIOUS
  <2>3. IsFiniteSet(C)
    BY <2>1, <2>2, FS_Subset
  <2> HIDE DEF C
  <2> QED
    BY <2>3, FS_Product, FS_Singleton
<1>4. PICK places : places = SetToSeq(C \X {1})
  OBVIOUS
<1>5. PICK n : n = Cardinality(C \X {1})
  OBVIOUS
<1>6. /\ n \in Nat /\ places \in [1..n -> C \X {1}]
      /\ \A i, j \in 1..n : places[i] = places[j] => i = j
      /\ \A e \in C \X {1} : \E i \in 1..n : places[i] = e
  <2>1. PICK S : S = C \X {1}
    OBVIOUS
  <2>2. IsFiniteSet(S)
    BY <1>3, <2>1
  <2>3. /\ Cardinality(S) \in Nat
        /\ SetToSeq(S) \in [1..Cardinality(S) -> S]
        /\ \A i, j \in 1..Cardinality(S) : SetToSeq(S)[i] = SetToSeq(S)[j] => i = j
        /\ \A x \in S : \E i \in 1..Cardinality(S) : SetToSeq(S)[i] = x
    BY <2>2, SetToSeqFacts
  <2>4. n = Cardinality(S) /\ places = SetToSeq(S)
    BY <1>4, <1>5, <2>1
  <2>5. /\ n \in Nat /\ places \in [1..n -> S]
        /\ \A i, j \in 1..n : places[i] = places[j] => i = j
        /\ \A e \in S : \E i \in 1..n : places[i] = e
    BY <2>3, <2>4
  <2> HIDE DEF C
  <2> QED
    BY <2>1, <2>5
<1>7. PICK l : l = Children(w, p)
  OBVIOUS
<1>8. l = [i \in 1..n |-> places[i][1]]
  <2> HIDE DEF C
  <2>1. l = [i \in DOMAIN places |-> places[i][1]]
    BY <1>2, <1>4, <1>7 DEF Children
  <2> QED
    BY <1>6, <2>1
<1>9. \A i \in 1..n : l[i] \in C /\ places[i] = <<l[i], 1>>
  BY <1>6, <1>8
<1>10. ListOf(l, n)
  BY <1>6, <1>8, <1>9 DEF ListOf
<1>11. \A c \in C : \E i \in 1..n : l[i] = c
  <2>1. \A c \in C : <<c, 1>> \in C \X {1}
    OBVIOUS
  <2> HIDE DEF C
  <2>2. ASSUME NEW c \in C PROVE \E i \in 1..n : l[i] = c
    <3>1. PICK i \in 1..n : places[i] = <<c, 1>>
      BY <1>6, <2>1
    <3> QED
      BY <1>8, <3>1
  <2> QED
    BY <2>2
<1>12. \A c \in Handle : w.kids[p][c] > 0 <=> \E i \in 1..n : l[i] = c
  BY <1>9, <1>11
<1> QED
  BY <1>6, <1>7, <1>10, <1>12

\* The least set with h in it that holds every child of its members outside U.
ClosedBeyond(w, U, S) ==
  \A p \in S, c \in Handle : w.kids[p][c] > 0 /\ c \notin U => c \in S

Reach(w, U, h) ==
  {x \in Handle : \A S \in SUBSET Handle : h \in S /\ ClosedBeyond(w, U, S) => x \in S}

LEMMA ReachIsLeast ==
  ASSUME NEW w, NEW U, NEW h \in Handle
  PROVE  /\ Reach(w, U, h) \in SUBSET Handle
         /\ h \in Reach(w, U, h)
         /\ ClosedBeyond(w, U, Reach(w, U, h))
         /\ \A S \in SUBSET Handle :
              h \in S /\ ClosedBeyond(w, U, S) => Reach(w, U, h) \subseteq S
  BY DEF Reach, ClosedBeyond

\* A walk does not come back to what was met before.
LEMMA ReachAvoids ==
  ASSUME NEW w, NEW U, NEW h \in Handle \ U
  PROVE  Reach(w, U, h) \cap U = {}
<1>1. Handle \ U \in SUBSET Handle /\ h \in Handle \ U
  OBVIOUS
<1>2. ClosedBeyond(w, U, Handle \ U)
  BY DEF ClosedBeyond
<1> QED
  BY <1>1, <1>2, ReachIsLeast

\* A walk that met nothing before comes across the subtree.
LEMMA ReachOfNothing ==
  ASSUME NEW w, NEW h
  PROVE  Reach(w, {}, h) = Subtree(w, h)
  BY DEF Reach, Subtree, ClosedBeyond, ClosedUnderKids

\* A call on h, with U met before and list the children to go through.
Call(w, U, h, list, n) ==
  /\ w \in WorldType /\ Consistent(w)
  /\ U \in SUBSET Handle /\ h \in Handle \ U
  /\ ListOf(list, n)
  /\ \A c \in Handle :
       (w.kids[h][c] > 0 /\ c \notin U \union {h}) <=> \E i \in 1..n : list[i] = c

\* What was met, V, when the call is back from the first children of the list.
Walked(w, U, h, list, n, done, V) ==
  /\ V \in SUBSET Handle
  /\ U \union {h} \subseteq V /\ V \subseteq U \union Reach(w, U, h)
  /\ \A i \in 1..done : list[i] \in V
  /\ \A i \in 1..n : i > done => list[i] \notin V
  /\ \A p \in V \ (U \union {h}), c \in Handle : w.kids[p][c] > 0 => c \in V

LEMMA WalkStart ==
  ASSUME NEW w, NEW U, NEW h, NEW list, NEW n, Call(w, U, h, list, n)
  PROVE  Walked(w, U, h, list, n, 0, U \union {h})
<1>1. h \in Reach(w, U, h) /\ U \union {h} \in SUBSET Handle
  BY ReachIsLeast DEF Call
<1>2. 1..0 = {}
  OBVIOUS
<1>3. \A i \in 1..n : list[i] \in Handle /\ list[i] \notin U \union {h}
  BY DEF Call, ListOf
<1> QED
  BY <1>1, <1>2, <1>3 DEF Walked

\* In a consistent world nobody has two parents.
LEMMA OneParent ==
  ASSUME NEW w \in WorldType, Consistent(w), NEW p \in Handle, NEW c \in Handle, w.kids[p][c] > 0
  PROVE  c \in w.objects \ {Root} /\ w.parent[c] = p
  BY DEF Consistent, KidsAreTheChildren

LEMMA WalkStep ==
  ASSUME NEW w, NEW U, NEW h, NEW list, NEW n, Call(w, U, h, list, n), NEW i \in 1..n,
         NEW V, Walked(w, U, h, list, n, i-1, V)
  PROVE  /\ list[i] \in Handle \ V
         /\ Walked(w, U, h, list, n, i, V \union Reach(w, V, list[i]))
<1>1. i \in Nat /\ n \in Nat /\ i > i - 1 /\ 1..i = (1..(i-1)) \union {i}
  BY DEF Call, ListOf
<1>2. PICK c : c = list[i]
  OBVIOUS
<1>3. c \in Handle \ V /\ c # h
  BY <1>1, <1>2 DEF Call, ListOf, Walked
<1>4. PICK R : R = Reach(w, V, c)
  OBVIOUS
<1>5. R \in SUBSET Handle /\ c \in R /\ ClosedBeyond(w, V, R) /\ R \cap V = {}
  BY <1>3, <1>4, ReachIsLeast, ReachAvoids
<1>6. V \in SUBSET Handle /\ U \union {h} \subseteq V /\ V \subseteq U \union Reach(w, U, h)
  BY DEF Walked
<1>7. R \subseteq Reach(w, U, h)
  <2>1. h \in Handle /\ w.kids[h][c] > 0 /\ c \notin U
    BY <1>2, <1>3 DEF Call
  <2>2. /\ Reach(w, U, h) \in SUBSET Handle /\ h \in Reach(w, U, h)
        /\ ClosedBeyond(w, U, Reach(w, U, h))
    BY <2>1, ReachIsLeast
  <2>3. c \in Reach(w, U, h)
    BY <1>3, <2>1, <2>2 DEF ClosedBeyond
  <2>4. ClosedBeyond(w, V, Reach(w, U, h))
    BY <1>6, <2>2 DEF ClosedBeyond
  <2> QED
    BY <1>3, <1>4, <2>2, <2>3, <2>4, ReachIsLeast
\* The other children are reached through their parent only, which was met before.
<1>8. \A j \in 1..n : j > i => list[j] \notin R
  <2> DEFINE Others == {list[j] : j \in {k \in 1..n : k > i}}
             T == Handle \ ({h} \union Others)
  <2>1. T \in SUBSET Handle
    OBVIOUS
  <2>2. c \in T
    BY <1>1, <1>2, <1>3 DEF Call, ListOf
  <2>3. ASSUME NEW p \in T, NEW x \in Handle, w.kids[p][x] > 0, x \notin V
        PROVE  x \in T
    <3>1. x # h
      BY <1>6, <2>3
    <3>2. ASSUME NEW j \in 1..n, x = list[j] PROVE FALSE
      <4>1. w.kids[h][x] > 0
        BY <3>2 DEF Call
      <4>2. p = h
        BY <2>3, <4>1, OneParent DEF Call
      <4> QED
        BY <4>2
    <3> QED
      BY <3>1, <3>2
  <2>4. ClosedBeyond(w, V, T)
    BY <2>3 DEF ClosedBeyond
  <2>5. R \subseteq T
    <3> HIDE DEF T
    <3> QED
      BY <1>3, <1>4, <2>1, <2>2, <2>4, ReachIsLeast
  <2> QED
    BY <2>5
<1>9. \A j \in 1..i : list[j] \in V \union R
  BY <1>1, <1>2, <1>5 DEF Walked
<1>10. \A j \in 1..n : j > i => list[j] \notin V \union R
  BY <1>1, <1>8 DEF Walked
<1>11. \A p \in (V \union R) \ (U \union {h}), x \in Handle :
         w.kids[p][x] > 0 => x \in V \union R
  BY <1>5 DEF Walked, ClosedBeyond
<1>12. Walked(w, U, h, list, n, i, V \union R)
  BY <1>5, <1>6, <1>7, <1>9, <1>10, <1>11 DEF Walked
<1> QED
  BY <1>2, <1>3, <1>4, <1>12

LEMMA WalkEnd ==
  ASSUME NEW w, NEW U, NEW h, NEW list, NEW n, Call(w, U, h, list, n),
         NEW V, Walked(w, U, h, list, n, n, V)
  PROVE  V = U \union Reach(w, U, h)
<1>1. V \in SUBSET Handle /\ U \union {h} \subseteq V /\ V \subseteq U \union Reach(w, U, h)
      /\ h \in Handle \ U
  BY DEF Walked, Call
<1>2. V \ U \in SUBSET Handle /\ h \in V \ U
  BY <1>1
<1>3. ASSUME NEW p \in V \ U, NEW c \in Handle, w.kids[p][c] > 0, c \notin U
      PROVE  c \in V \ U
  <2>1. CASE p = h
    BY <1>1, <1>3, <2>1 DEF Call, Walked
  <2>2. CASE p # h
    BY <1>3, <2>2 DEF Walked
  <2> QED
    BY <2>1, <2>2
<1>4. ClosedBeyond(w, U, V \ U)
  BY <1>3 DEF ClosedBeyond
<1>5. Reach(w, U, h) \subseteq V \ U
  BY <1>1, <1>2, <1>4, ReachIsLeast
<1> QED
  BY <1>1, <1>5

----------------------------------------------------------------------------
(* The recursion of delete_object *)

DeleteStep(f, n) == DeleteWith(f)

Deletions == INSTANCE FoldFacts WITH Op <- DeleteStep, P <- ReadSoFar  \* for its recursion

\* The state before the loop, and after each of its n calls.
LoopStates(f, state, list, n) ==
  CHOOSE c : /\ c[0] = state
             /\ \A i \in 1..n : c[i] = f[c[i-1]][list[i]]
             /\ c[n] = ForEach(f, state, list)

\* Each call of a loop works on the state that the one before it left.
LEMMA LoopChain ==
  ASSUME NEW f, NEW state, NEW list, NEW n \in Nat, DOMAIN list = 1..n
  PROVE  /\ LoopStates(f, state, list, n)[0] = state
         /\ \A i \in 1..n : LoopStates(f, state, list, n)[i] =
                             f[LoopStates(f, state, list, n)[i-1]][list[i]]
         /\ LoopStates(f, state, list, n)[n] = ForEach(f, state, list)
<1> DEFINE Q(c) == /\ c[0] = state
                   /\ \A i \in 1..n : c[i] = f[c[i-1]][list[i]]
                   /\ c[n] = ForEach(f, state, list)
<1>1. ForEach(f, state, list) = Deletions!FunctionFold(f, state, list)
  BY DEF ForEach, FoldLeft, MapThenFoldSet, Max, Deletions!FunctionFold,
         Deletions!FoldLeft, Deletions!MapThenFoldSet, Deletions!Max
<1>2. \E c : /\ c[0] = state
             /\ \A i \in 1..n : c[i] = f[c[i-1]][list[i]]
             /\ c[n] = Deletions!FunctionFold(f, state, list)
  BY Deletions!FunctionFoldChain
<1>3. \E c : Q(c)
  BY <1>1, <1>2
<1>4. LoopStates(f, state, list, n) = CHOOSE c : Q(c)
  BY DEF LoopStates
<1>5. Q(LoopStates(f, state, list, n))
  <2> HIDE DEF Q
  <2> QED
    BY <1>3, <1>4, Zenon
<1> QED
  BY <1>5

LEMMA DeleteUnfolds ==
  ASSUME NEW d \in Nat
  PROVE  DeleteObjectRec[d+1] = DeleteWith(DeleteObjectRec[d])
<1> DEFINE Solves(g) == g = [n \in Nat |-> IF n = 0 THEN NoRoomToDelete
                                         ELSE DeleteStep(g[n-1], n)]
<1>1. \E g : Solves(g)
  BY Deletions!RecursionHasSolution
<1>2. DeleteObjectRec = CHOOSE g : Solves(g)
  BY DEF DeleteObjectRec, DeleteStep
<1>3. Solves(DeleteObjectRec)
  <2> HIDE DEF Solves
  <2> QED
    BY <1>1, <1>2, Zenon
<1>4. d + 1 \in Nat /\ d + 1 # 0 /\ (d + 1) - 1 = d
  OBVIOUS
<1>5. DeleteObjectRec[d+1] = DeleteStep(DeleteObjectRec[d], d+1)
  BY <1>3, <1>4
<1> QED
  BY <1>5 DEF DeleteStep

\* A world in the middle of delete_object: the entities of U are out of the lists of their
\* parents, those of X deleted.
Cut(w, U, X) ==
  [w EXCEPT
    !.objects  = @ \ X,
    !.parent   = [x \in Handle |-> IF x \in X THEN Root ELSE w.parent[x]],
    !.local_id = [x \in Handle |-> IF x \in X THEN 0 ELSE w.local_id[x]],
    !.kids     = [p \in Handle |->
                   IF p \in X THEN NoKids
                   ELSE [c \in Handle |->
                          IF c \in U /\ w.parent[c] = p
                          THEN OneLess(w.kids[p][c])
                          ELSE w.kids[p][c]]]]

LEMMA CutFields ==
  ASSUME NEW w \in WorldType, NEW U, NEW X
  PROVE  /\ Cut(w, U, X) \in WorldType
         /\ Cut(w, U, X).objects = w.objects \ X
         /\ \A x \in Handle :
              Cut(w, U, X).parent[x] = IF x \in X THEN Root ELSE w.parent[x]
         /\ \A x \in Handle :
              Cut(w, U, X).local_id[x] = IF x \in X THEN 0 ELSE w.local_id[x]
         /\ \A p, c \in Handle :
              Cut(w, U, X).kids[p][c] =
                IF p \in X THEN 0
                ELSE IF c \in U /\ w.parent[c] = p THEN OneLess(w.kids[p][c]) ELSE w.kids[p][c]
         /\ Cut(w, U, X).local_id_to_uuid = w.local_id_to_uuid
         /\ Cut(w, U, X).next_local_id = w.next_local_id
<1> DEFINE P == [x \in Handle |-> IF x \in X THEN Root ELSE w.parent[x]]
           L == [x \in Handle |-> IF x \in X THEN 0 ELSE w.local_id[x]]
           Row(p) == [c \in Handle |->
                        IF c \in U /\ w.parent[c] = p THEN OneLess(w.kids[p][c])
                        ELSE w.kids[p][c]]
           K == [p \in Handle |-> IF p \in X THEN NoKids ELSE Row(p)]
<1>1. P \in [Handle -> Handle]
  BY DEF WorldType, Handle
<1>2. L \in [Handle -> 0..MaxLocalId]
  BY MaxLocalIdAssumption DEF WorldType
<1>3. \A p, c \in Handle : w.kids[p][c] \in Nat /\ OneLess(w.kids[p][c]) \in Nat
  BY DEF WorldType, OneLess
<1>4. \A p \in Handle : Row(p) \in [Handle -> Nat]
  BY <1>3
<1>5. NoKids \in [Handle -> Nat]
  BY DEF NoKids
<1>6. K \in [Handle -> [Handle -> Nat]]
  BY <1>4, <1>5
<1>7. \A p, c \in Handle :
        K[p][c] = IF p \in X THEN 0
                  ELSE IF c \in U /\ w.parent[c] = p THEN OneLess(w.kids[p][c]) ELSE w.kids[p][c]
  BY DEF NoKids
<1>8. PICK v : v = [w EXCEPT !.objects = @ \ X, !.parent = P, !.local_id = L, !.kids = K]
  OBVIOUS
<1>9. v = Cut(w, U, X)
  BY <1>8 DEF Cut
<1>10. \A x \in Handle : /\ P[x] = IF x \in X THEN Root ELSE w.parent[x]
                         /\ L[x] = IF x \in X THEN 0 ELSE w.local_id[x]
  OBVIOUS
<1> HIDE DEF P, L, Row, K
<1>11. /\ v.objects = w.objects \ X /\ v.parent = P /\ v.local_id = L /\ v.kids = K
       /\ v.local_id_to_uuid = w.local_id_to_uuid /\ v.next_local_id = w.next_local_id
  BY <1>8 DEF WorldType
<1>12. v \in WorldType
  BY <1>1, <1>2, <1>6, <1>8 DEF WorldType
<1> QED
  BY <1>7, <1>9, <1>10, <1>11, <1>12

\* A world is what its fields say.
LEMMA SameFields ==
  ASSUME NEW v \in WorldType, NEW u \in WorldType,
         v.objects = u.objects, v.local_id_to_uuid = u.local_id_to_uuid,
         v.next_local_id = u.next_local_id,
         \A h \in Handle : v.parent[h] = u.parent[h],
         \A h \in Handle : v.local_id[h] = u.local_id[h],
         \A p, c \in Handle : v.kids[p][c] = u.kids[p][c]
  PROVE  v = u
<1>1. v.parent = u.parent /\ v.local_id = u.local_id
  <2>1. /\ v.parent \in [Handle -> Handle] /\ u.parent \in [Handle -> Handle]
        /\ v.local_id \in [Handle -> 0..MaxLocalId] /\ u.local_id \in [Handle -> 0..MaxLocalId]
    BY DEF WorldType
  <2> QED
    BY <2>1
<1>2. v.kids = u.kids
  <2>1. v.kids \in [Handle -> [Handle -> Nat]] /\ u.kids \in [Handle -> [Handle -> Nat]]
    BY DEF WorldType
  <2>2. \A p \in Handle : v.kids[p] = u.kids[p]
    BY <2>1
  <2> QED
    BY <2>1, <2>2
<1>3. \A x \in WorldType :
        x = [objects |-> x.objects, parent |-> x.parent, kids |-> x.kids,
             local_id |-> x.local_id, local_id_to_uuid |-> x.local_id_to_uuid,
             next_local_id |-> x.next_local_id]
  BY DEF WorldType
<1> QED
  BY <1>1, <1>2, <1>3

LEMMA CutNothing ==
  ASSUME NEW w \in WorldType
  PROVE  Cut(w, {}, {}) = w
<1>1. PICK v : v = Cut(w, {}, {})
  OBVIOUS
<1>2. PICK none : none = {}
  OBVIOUS
<1>3. /\ Cut(w, none, none) \in WorldType
      /\ Cut(w, none, none).objects = w.objects \ none
      /\ \A x \in Handle :
           Cut(w, none, none).parent[x] = IF x \in none THEN Root ELSE w.parent[x]
      /\ \A x \in Handle :
           Cut(w, none, none).local_id[x] = IF x \in none THEN 0 ELSE w.local_id[x]
      /\ \A p, c \in Handle :
           Cut(w, none, none).kids[p][c] =
             IF p \in none THEN 0
             ELSE IF c \in none /\ w.parent[c] = p THEN OneLess(w.kids[p][c])
             ELSE w.kids[p][c]
      /\ Cut(w, none, none).local_id_to_uuid = w.local_id_to_uuid
      /\ Cut(w, none, none).next_local_id = w.next_local_id
  BY CutFields
<1>4. /\ v \in WorldType /\ v.objects = w.objects
      /\ \A x \in Handle : v.parent[x] = w.parent[x]
      /\ \A x \in Handle : v.local_id[x] = w.local_id[x]
      /\ \A p, c \in Handle : v.kids[p][c] = w.kids[p][c]
      /\ v.local_id_to_uuid = w.local_id_to_uuid
      /\ v.next_local_id = w.next_local_id
  BY <1>1, <1>2, <1>3
<1>5. v = w
  BY <1>4, SameFields
<1> QED
  BY <1>1, <1>5

\* The first thing that delete_object does on h.
LEMMA CutRemove ==
  ASSUME NEW w \in WorldType, NEW U, NEW X, X \subseteq U, NEW h \in Handle \ U
  PROVE  RemoveChild(Cut(w, U, X), Cut(w, U, X).parent[h], h) = Cut(w, U \union {h}, X)
<1>1. PICK v : v = Cut(w, U, X)
  OBVIOUS
<1>2. PICK u : u = Cut(w, U \union {h}, X)
  OBVIOUS
<1>3. /\ v \in WorldType /\ v.objects = w.objects \ X
      /\ \A x \in Handle : v.parent[x] = IF x \in X THEN Root ELSE w.parent[x]
      /\ \A x \in Handle : v.local_id[x] = IF x \in X THEN 0 ELSE w.local_id[x]
      /\ \A p, c \in Handle :
           v.kids[p][c] =
             IF p \in X THEN 0
             ELSE IF c \in U /\ w.parent[c] = p THEN OneLess(w.kids[p][c]) ELSE w.kids[p][c]
      /\ v.local_id_to_uuid = w.local_id_to_uuid
      /\ v.next_local_id = w.next_local_id
  BY <1>1, CutFields
<1>4. /\ u \in WorldType /\ u.objects = w.objects \ X
      /\ \A x \in Handle : u.parent[x] = IF x \in X THEN Root ELSE w.parent[x]
      /\ \A x \in Handle : u.local_id[x] = IF x \in X THEN 0 ELSE w.local_id[x]
      /\ \A p, c \in Handle :
           u.kids[p][c] =
             IF p \in X THEN 0
             ELSE IF c \in U \union {h} /\ w.parent[c] = p THEN OneLess(w.kids[p][c])
             ELSE w.kids[p][c]
      /\ u.local_id_to_uuid = w.local_id_to_uuid
      /\ u.next_local_id = w.next_local_id
  BY <1>2, CutFields
<1>5. PICK p \in Handle : p = v.parent[h] /\ p = w.parent[h]
  BY <1>3 DEF WorldType
<1>6. PICK r : r = RemoveChild(v, p, h)
  OBVIOUS
<1>7. /\ r \in WorldType /\ r.objects = v.objects /\ r.parent = v.parent
      /\ r.local_id = v.local_id /\ r.local_id_to_uuid = v.local_id_to_uuid
      /\ r.next_local_id = v.next_local_id
  BY <1>3, <1>6, RemoveChildFields
<1>8. \A q, d \in Handle :
        r.kids[q][d] = IF q = p /\ d = h THEN OneLess(v.kids[q][d]) ELSE v.kids[q][d]
  BY <1>3, <1>6, RemoveChildKids
<1>9. \A q, d \in Handle : r.kids[q][d] = u.kids[q][d]
  <2>1. OneLess(0) = 0
    BY DEF OneLess
  <2> QED
    BY <1>3, <1>4, <1>5, <1>8, <2>1
<1>10. /\ r \in WorldType /\ u \in WorldType
       /\ r.objects = u.objects /\ r.local_id_to_uuid = u.local_id_to_uuid
       /\ r.next_local_id = u.next_local_id
       /\ \A x \in Handle : r.parent[x] = u.parent[x]
       /\ \A x \in Handle : r.local_id[x] = u.local_id[x]
       /\ \A q, d \in Handle : r.kids[q][d] = u.kids[q][d]
  BY <1>3, <1>4, <1>7, <1>9
<1>11. r = u
  BY <1>10, SameFields
<1> QED
  BY <1>1, <1>2, <1>5, <1>6, <1>11

\* The last thing that delete_object does on h.
LEMMA CutErase ==
  ASSUME NEW w \in WorldType, NEW U, NEW X, NEW h \in Handle
  PROVE  EraseObject(Cut(w, U, X), h) = Cut(w, U, X \union {h})
<1>1. PICK v : v = Cut(w, U, X)
  OBVIOUS
<1>2. PICK u : u = Cut(w, U, X \union {h})
  OBVIOUS
<1>3. /\ v \in WorldType /\ v.objects = w.objects \ X
      /\ \A x \in Handle : v.parent[x] = IF x \in X THEN Root ELSE w.parent[x]
      /\ \A x \in Handle : v.local_id[x] = IF x \in X THEN 0 ELSE w.local_id[x]
      /\ \A p, c \in Handle :
           v.kids[p][c] =
             IF p \in X THEN 0
             ELSE IF c \in U /\ w.parent[c] = p THEN OneLess(w.kids[p][c]) ELSE w.kids[p][c]
      /\ v.local_id_to_uuid = w.local_id_to_uuid
      /\ v.next_local_id = w.next_local_id
  BY <1>1, CutFields
<1>4. /\ u \in WorldType /\ u.objects = w.objects \ (X \union {h})
      /\ \A x \in Handle : u.parent[x] = IF x \in X \union {h} THEN Root ELSE w.parent[x]
      /\ \A x \in Handle : u.local_id[x] = IF x \in X \union {h} THEN 0 ELSE w.local_id[x]
      /\ \A p, c \in Handle :
           u.kids[p][c] =
             IF p \in X \union {h} THEN 0
             ELSE IF c \in U /\ w.parent[c] = p THEN OneLess(w.kids[p][c]) ELSE w.kids[p][c]
      /\ u.local_id_to_uuid = w.local_id_to_uuid
      /\ u.next_local_id = w.next_local_id
  BY <1>2, CutFields
<1>5. PICK r : r = EraseObject(v, h)
  OBVIOUS
<1>6. /\ r.objects = v.objects \ {h} /\ r.parent = [v.parent EXCEPT ![h] = Root]
      /\ r.local_id = [v.local_id EXCEPT ![h] = 0] /\ r.kids = [v.kids EXCEPT ![h] = NoKids]
      /\ r.local_id_to_uuid = v.local_id_to_uuid /\ r.next_local_id = v.next_local_id
      /\ r = [objects |-> r.objects, parent |-> r.parent, kids |-> r.kids,
              local_id |-> r.local_id, local_id_to_uuid |-> r.local_id_to_uuid,
              next_local_id |-> r.next_local_id]
  BY <1>3, <1>5 DEF EraseObject, WorldType
<1>7. /\ v.parent \in [Handle -> Handle] /\ v.local_id \in [Handle -> 0..MaxLocalId]
      /\ v.kids \in [Handle -> [Handle -> Nat]] /\ Root \in Handle /\ 0 \in 0..MaxLocalId
      /\ NoKids \in [Handle -> Nat] /\ \A c \in Handle : NoKids[c] = 0
  <2>1. /\ v.parent \in [Handle -> Handle] /\ v.local_id \in [Handle -> 0..MaxLocalId]
        /\ v.kids \in [Handle -> [Handle -> Nat]]
    BY <1>3 DEF WorldType
  <2>2. NoKids \in [Handle -> Nat] /\ \A c \in Handle : NoKids[c] = 0
    BY DEF NoKids
  <2>3. Root \in Handle /\ 0 \in 0..MaxLocalId
    BY MaxLocalIdAssumption DEF Handle
  <2> QED
    BY <2>1, <2>2, <2>3
<1>8. /\ r.parent \in [Handle -> Handle] /\ r.local_id \in [Handle -> 0..MaxLocalId]
      /\ r.kids \in [Handle -> [Handle -> Nat]]
      /\ \A x \in Handle : r.parent[x] = IF x = h THEN Root ELSE v.parent[x]
      /\ \A x \in Handle : r.local_id[x] = IF x = h THEN 0 ELSE v.local_id[x]
      /\ \A p, c \in Handle : r.kids[p][c] = IF p = h THEN 0 ELSE v.kids[p][c]
  BY <1>6, <1>7
<1>9. r \in WorldType
  <2>1. /\ v.objects \in SUBSET Handle /\ v.local_id_to_uuid \in [LocalId -> Handle]
        /\ v.next_local_id \in 1..(MaxLocalId + 1)
    BY <1>3 DEF WorldType
  <2>2. r.objects \in SUBSET Handle
    BY <1>6, <2>1
  <2> QED
    BY <1>6, <1>8, <2>1, <2>2 DEF WorldType
<1>10. r = u
  <2>1. \A p, c \in Handle : r.kids[p][c] = u.kids[p][c]
    BY <1>3, <1>4, <1>8
  <2>2. \A x \in Handle : r.parent[x] = u.parent[x] /\ r.local_id[x] = u.local_id[x]
    BY <1>3, <1>4, <1>8
  <2>3. r.objects = u.objects
    BY <1>3, <1>4, <1>6
  <2>4. r.local_id_to_uuid = u.local_id_to_uuid /\ r.next_local_id = u.next_local_id
    BY <1>3, <1>4, <1>6
  <2>5. /\ r \in WorldType /\ u \in WorldType
        /\ \A x \in Handle : r.parent[x] = u.parent[x]
        /\ \A x \in Handle : r.local_id[x] = u.local_id[x]
    BY <1>4, <1>9, <2>2
  <2> QED
    BY <2>1, <2>3, <2>4, <2>5, SameFields
<1> QED
  BY <1>1, <1>2, <1>5, <1>10

\* delete_object with room for d calls does the right thing in the middle of every deletion
\* that has at most d entities left to meet.
DeletesReach(w, d) ==
  \A U, X \in SUBSET Handle : \A h \in w.objects \ {Root} :
    X \subseteq U /\ h \notin U /\ Cardinality(Entity \ U) <= d =>
      DeleteObjectRec[d][Cut(w, U, X)][h] =
        Cut(w, U \union Reach(w, U, h), X \union Reach(w, U, h))

LEMMA FewerLeft ==
  ASSUME NEW T, IsFiniteSet(T), NEW U, NEW V, NEW h \in T, h \notin U, U \subseteq V, h \in V
  PROVE  /\ Cardinality(T \ U) \in Nat /\ Cardinality(T \ V) \in Nat
         /\ Cardinality(T \ V) + 1 <= Cardinality(T \ U)
<1>1. PICK A : A = T \ U
  OBVIOUS
<1>2. PICK B : B = T \ V
  OBVIOUS
<1>3. A \in SUBSET T /\ B \in SUBSET T
  BY <1>1, <1>2
<1>4. IsFiniteSet(A) /\ IsFiniteSet(B)
  BY <1>3, FS_Subset
<1>5. h \in A /\ B \in SUBSET (A \ {h})
  BY <1>1, <1>2
<1>6. IsFiniteSet(A \ {h}) /\ Cardinality(A \ {h}) = Cardinality(A) - 1
  BY <1>4, <1>5, FS_RemoveElement
<1>7. Cardinality(B) <= Cardinality(A \ {h})
  BY <1>5, <1>6, FS_Subset
<1>8. Cardinality(A) \in Nat /\ Cardinality(B) \in Nat
  BY <1>4, FS_CardinalityType
<1>9. Cardinality(B) + 1 <= Cardinality(A)
  BY <1>6, <1>7, <1>8
<1> QED
  BY <1>1, <1>2, <1>8, <1>9

\* One call of delete_object, whose own calls have room for d more.
LEMMA DeleteDeeper ==
  ASSUME NEW w \in WorldType, Consistent(w), NEW d \in Nat, DeletesReach(w, d)
  PROVE  DeletesReach(w, d+1)
<1> SUFFICES ASSUME NEW U \in SUBSET Handle, NEW X \in SUBSET Handle,
                    NEW h \in w.objects \ {Root},
                    X \subseteq U, h \notin U, Cardinality(Entity \ U) <= d + 1
             PROVE  DeleteObjectRec[d+1][Cut(w, U, X)][h] =
                      Cut(w, U \union Reach(w, U, h), X \union Reach(w, U, h))
  BY DEF DeletesReach
<1>1. h \in Handle /\ h \in Entity
  BY DEF WorldType, Handle
<1>2. PICK here \in SUBSET Handle : here = U \union {h}
  BY <1>1
<1>3. PICK v : v = Cut(w, here, X)
  OBVIOUS
<1>4. PICK delete : delete = DeleteObjectRec[d]
  OBVIOUS
<1>5. /\ v \in WorldType
      /\ \A c \in Handle :
           v.kids[h][c] = IF c \in here /\ w.parent[c] = h THEN OneLess(w.kids[h][c])
                          ELSE w.kids[h][c]
  <2>1. h \notin X
    OBVIOUS
  <2> QED
    BY <1>1, <1>3, <2>1, CutFields
<1>6. \A c \in Handle :
        v.kids[h][c] = IF c \notin here /\ w.kids[h][c] > 0 THEN 1 ELSE 0
  <2>1. ASSUME NEW c \in Handle
        PROVE  w.kids[h][c] = IF c \in w.objects \ {Root} /\ w.parent[c] = h THEN 1 ELSE 0
    BY <1>1 DEF Consistent, KidsAreTheChildren
  <2> QED
    BY <1>5, <2>1 DEF OneLess
<1>7. PICK list : list = Children(v, h)
  OBVIOUS
<1>8. PICK n \in Nat : /\ ListOf(list, n)
                       /\ \A c \in Handle :
                            v.kids[h][c] > 0 <=> \E i \in 1..n : list[i] = c
  <2>1. \A c \in Handle : v.kids[h][c] <= 1
    BY <1>6
  <2> QED
    BY <1>1, <1>5, <1>7, <2>1, ChildrenFacts
<1>9. Call(w, U, h, list, n)
  <2>1. \A c \in Handle :
          (w.kids[h][c] > 0 /\ c \notin U \union {h}) <=> \E i \in 1..n : list[i] = c
    BY <1>2, <1>6, <1>8
  <2> QED
    BY <1>1, <1>8, <2>1 DEF Call
<1>10. PICK all : all = ForEach(delete, v, list)
  OBVIOUS
<1>11. DeleteObjectRec[d+1][Cut(w, U, X)][h] = EraseObject(all, h)
  <2>1. PICK u : u = Cut(w, U, X)
    OBVIOUS
  <2>2. u \in WorldType /\ u.objects = w.objects \ X
    BY <2>1, CutFields
  <2>3. h \in u.objects
    BY <2>2
  <2>4. DeleteObjectRec[d+1] = DeleteWith(delete)
    BY <1>4, DeleteUnfolds
  <2>5. RemoveChild(u, u.parent[h], h) = v
    BY <1>1, <1>2, <1>3, <2>1, CutRemove
  <2>6. DeleteWith(delete)[u][h] = EraseObject(ForEach(delete, v, Children(v, h)), h)
    BY <1>1, <2>2, <2>3, <2>5 DEF DeleteWith
  <2> QED
    BY <1>7, <1>10, <2>1, <2>4, <2>6
<1>12. PICK c : /\ c[0] = v
                /\ \A i \in 1..n : c[i] = delete[c[i-1]][list[i]]
                /\ c[n] = all
  <2>1. DOMAIN list = 1..n
    BY <1>8 DEF ListOf
  <2>2. PICK c : c = LoopStates(delete, v, list, n)
    OBVIOUS
  <2>3. /\ c[0] = v
        /\ \A i \in 1..n : c[i] = delete[c[i-1]][list[i]]
        /\ c[n] = ForEach(delete, v, list)
    BY <2>1, <2>2, LoopChain
  <2> QED
    BY <1>10, <2>3
<1> DEFINE Met(i, V) == Walked(w, U, h, list, n, i, V) /\ c[i] = Cut(w, V, X \union (V \ here))
           S == {i \in Nat : i <= n => \E V : Met(i, V)}
<1>13. 0 \in S
  <2>1. Walked(w, U, h, list, n, 0, here)
    BY <1>2, <1>9, WalkStart
  <2>2. X \union (here \ here) = X
    OBVIOUS
  <2>3. Met(0, here)
    BY <1>3, <1>12, <2>1, <2>2
  <2> QED
    BY <2>3
<1>14. ASSUME NEW i \in S PROVE i + 1 \in S
  <2> SUFFICES ASSUME i + 1 <= n PROVE \E V : Met(i + 1, V)
    OBVIOUS
  <2>1. i + 1 \in 1..n /\ (i + 1) - 1 = i /\ i <= n
    OBVIOUS
  <2>2. PICK V : Met(i, V)
    BY <2>1
  <2>3. PICK x : x = list[i+1]
    OBVIOUS
  <2>4. PICK R : R = Reach(w, V, x)
    OBVIOUS
  <2>5. x \in Handle \ V /\ Walked(w, U, h, list, n, i + 1, V \union R)
    <3>1. PICK k \in 1..n : k = i + 1
      BY <2>1
    <3>2. Walked(w, U, h, list, n, k - 1, V)
      BY <2>2, <3>1
    <3>3. list[k] \in Handle \ V /\ Walked(w, U, h, list, n, k, V \union Reach(w, V, list[k]))
      BY <1>9, <3>2, WalkStep
    <3> QED
      BY <2>3, <2>4, <3>1, <3>3
  <2>6. x \in w.objects \ {Root}
    <3>1. w.kids[h][x] > 0
      BY <1>9, <2>1, <2>3, <2>5 DEF Call
    <3> QED
      BY <1>1, <2>5, <3>1, OneParent
  <2>7. V \in SUBSET Handle /\ here \subseteq V /\ R \cap V = {}
    BY <1>2, <2>2, <2>4, <2>5, ReachAvoids DEF Walked
  <2>8. Cardinality(Entity \ V) <= d
    <3>1. U \subseteq V /\ h \in V
      BY <1>2, <2>7
    <3>2. /\ Cardinality(Entity \ U) \in Nat /\ Cardinality(Entity \ V) \in Nat
          /\ Cardinality(Entity \ V) + 1 <= Cardinality(Entity \ U)
      BY <1>1, <3>1, EntityAssumption, FewerLeft
    <3> QED
      BY <3>2
  <2>9. PICK Y \in SUBSET Handle : Y = X \union (V \ here)
    BY <2>7
  <2>10. Y \subseteq V
    BY <1>2, <2>7, <2>9
  <2>11. delete[Cut(w, V, Y)][x] = Cut(w, V \union R, Y \union R)
    BY <1>4, <2>4, <2>5, <2>6, <2>7, <2>8, <2>10 DEF DeletesReach
  <2>12. Y \union R = X \union ((V \union R) \ here)
    BY <2>7, <2>9
  <2>13. c[i+1] = Cut(w, V \union R, X \union ((V \union R) \ here))
    BY <1>12, <2>1, <2>2, <2>3, <2>9, <2>11, <2>12
  <2> QED
    BY <2>5, <2>13
<1>15. S = Nat
  <2> HIDE DEF S
  <2>1. S \in SUBSET Nat
    BY DEF S
  <2> QED
    BY <1>13, <1>14, <2>1, Deletions!SetInduction
<1>16. PICK V : Met(n, V)
  <2> HIDE DEF Met
  <2>1. n \in S
    <3> HIDE DEF S
    <3> QED
      BY <1>15
  <2>2. n <= n
    OBVIOUS
  <2> QED
    BY <2>1, <2>2
<1>17. V = U \union Reach(w, U, h)
  BY <1>9, <1>16, WalkEnd
<1>18. (X \union (V \ here)) \union {h} = X \union Reach(w, U, h)
  BY <1>1, <1>2, <1>17, ReachIsLeast, ReachAvoids
<1>19. EraseObject(all, h) = Cut(w, V, (X \union (V \ here)) \union {h})
  BY <1>1, <1>12, <1>16, CutErase
<1> QED
  BY <1>11, <1>17, <1>18, <1>19

\* The recursion with room for all entities and the closed form that the models use.
LEMMA DeleteRecursion ==
  ASSUME NEW w \in WorldType, Consistent(w), NEW h \in w.objects \ {Root}
  PROVE  DeleteObjectRec[Cardinality(Entity)][w][h] = DeleteObject(w, h)
<1> DEFINE S == {d \in Nat : DeletesReach(w, d)}
<1>1. 0 \in S
  <2>1. ASSUME NEW U \in SUBSET Handle, NEW x \in w.objects \ {Root}, x \notin U,
               Cardinality(Entity \ U) <= 0
        PROVE  FALSE
    <3>1. x \in Entity /\ Entity \ U \in SUBSET Entity /\ U \subseteq U \union {x}
      BY DEF WorldType, Handle
    <3>2. /\ Cardinality(Entity \ U) \in Nat /\ Cardinality(Entity \ (U \union {x})) \in Nat
          /\ Cardinality(Entity \ (U \union {x})) + 1 <= Cardinality(Entity \ U)
      BY <2>1, <3>1, EntityAssumption, FewerLeft
    <3> QED
      BY <2>1, <3>2
  <2>2. DeletesReach(w, 0)
    BY <2>1 DEF DeletesReach
  <2> QED
    BY <2>2
<1>2. \A d \in S : d + 1 \in S
  BY DeleteDeeper
<1>3. S = Nat
  <2> HIDE DEF S
  <2>1. S \in SUBSET Nat
    BY DEF S
  <2> QED
    BY <1>1, <1>2, <2>1, Deletions!SetInduction
<1>4. PICK d \in Nat : d = Cardinality(Entity)
  BY EntityAssumption, FS_CardinalityType
<1>5. DeletesReach(w, d)
  BY <1>3
<1>6. Cardinality(Entity \ {}) <= d
  <2>1. Entity \ {} = Entity
    OBVIOUS
  <2> QED
    BY <1>4, <2>1
<1>7. DeleteObjectRec[d][Cut(w, {}, {})][h] =
        Cut(w, {} \union Reach(w, {}, h), {} \union Reach(w, {}, h))
  BY <1>5, <1>6 DEF DeletesReach
<1>8. DeleteObjectRec[d][w][h] = Cut(w, Subtree(w, h), Subtree(w, h))
  <2>1. {} \union Subtree(w, h) = Subtree(w, h)
    OBVIOUS
  <2> QED
    BY <1>7, <2>1, CutNothing, ReachOfNothing
<1>9. Cut(w, Subtree(w, h), Subtree(w, h)) = DeleteObject(w, h)
  BY DEF Cut, DeleteObject
<1> QED
  BY <1>4, <1>8, <1>9

\* The recursion of delete_object ends, within one call for each entity, and removes exactly
\* the subtree, also in a cycle of parents.
THEOREM DeletionsRemoveSubtrees == Spec => []DeleteRemovesTheSubtree
<1>1. IInv => DeleteRemovesTheSubtree
  BY DeleteRecursion DEF IInv, GoodWorld, DeleteRemovesTheSubtree
<1> QED
  BY <1>1, Invariance, PTL

----------------------------------------------------------------------------
(* The recursion of world_update *)

UpdateStep(f, n) == UpdateWith(f)

Updates == INSTANCE FoldFacts WITH Op <- UpdateStep, P <- ReadSoFar  \* for its recursion

LEMMA UpdateUnfolds ==
  ASSUME NEW d \in Nat
  PROVE  UpdateObject[d+1] = UpdateWith(UpdateObject[d])
<1> DEFINE Solves(g) == g = [n \in Nat |-> IF n = 0 THEN NoRoomToUpdate
                                         ELSE UpdateStep(g[n-1], n)]
<1>1. \E g : Solves(g)
  BY Updates!RecursionHasSolution
<1>2. UpdateObject = CHOOSE g : Solves(g)
  BY DEF UpdateObject, UpdateStep
<1>3. Solves(UpdateObject)
  <2> HIDE DEF Solves
  <2> QED
    BY <1>1, <1>2, Zenon
<1>4. d + 1 \in Nat /\ d + 1 # 0 /\ (d + 1) - 1 = d
  OBVIOUS
<1>5. UpdateObject[d+1] = UpdateStep(UpdateObject[d], d+1)
  BY <1>3, <1>4
<1> QED
  BY <1>5 DEF UpdateStep

\* Nobody twice, and nobody before its parent.
GoodOrder(w, order) ==
  /\ order \in Seq(Handle)
  /\ \A i, j \in DOMAIN order : order[i] = order[j] => i = j
  /\ \A j \in DOMAIN order :
       order[j] = Root \/ \E i \in DOMAIN order : i < j /\ order[i] = w.parent[order[j]]

\* Before the update of h: its turn has come, and it has not been updated.
Awaited(w, order, h) ==
  /\ GoodOrder(w, order) /\ h \in w.objects
  /\ h \notin ToSet(order)
  /\ h = Root \/ w.parent[h] \in ToSet(order)

LEMMA AppendGood ==
  ASSUME NEW w \in WorldType, NEW order, NEW h, Awaited(w, order, h)
  PROVE  GoodOrder(w, Append(order, h)) /\ ToSet(Append(order, h)) = ToSet(order) \union {h}
<1>1. PICK n \in Nat : n = Len(order)
  BY DEF Awaited, GoodOrder
<1>2. order \in Seq(Handle) /\ DOMAIN order = 1..n /\ h \in Handle
  BY <1>1 DEF Awaited, GoodOrder, WorldType
<1>3. PICK s : s = Append(order, h)
  OBVIOUS
<1>4. /\ s \in Seq(Handle) /\ DOMAIN s = 1..(n+1) /\ s[n+1] = h
      /\ \A i \in 1..n : s[i] = order[i]
  BY <1>1, <1>2, <1>3
<1>5. 1..(n+1) = (1..n) \union {n+1} /\ \A i \in 1..n : i < n + 1
  OBVIOUS
<1>6. \A i \in 1..n : order[i] # h
  BY <1>2 DEF Awaited, ToSet
<1>7. \A i, j \in 1..(n+1) : s[i] = s[j] => i = j
  <2>1. \A i, j \in 1..n : order[i] = order[j] => i = j
    BY <1>2 DEF Awaited, GoodOrder
  <2> QED
    BY <1>4, <1>5, <1>6, <2>1
<1>8. ASSUME NEW j \in 1..(n+1)
      PROVE  s[j] = Root \/ \E i \in 1..(n+1) : i < j /\ s[i] = w.parent[s[j]]
  <2>1. CASE j = n + 1
    <3>1. h = Root \/ \E i \in 1..n : order[i] = w.parent[h]
      BY <1>2 DEF Awaited, ToSet
    <3> QED
      BY <1>4, <1>5, <2>1, <3>1
  <2>2. CASE j # n + 1
    <3>1. j \in 1..n
      BY <1>5, <2>2
    <3>2. order[j] = Root \/ \E i \in 1..n : i < j /\ order[i] = w.parent[order[j]]
      BY <1>2, <3>1 DEF Awaited, GoodOrder
    <3> QED
      BY <1>4, <1>5, <3>1, <3>2
  <2> QED
    BY <2>1, <2>2
<1>9. GoodOrder(w, s)
  BY <1>4, <1>7, <1>8 DEF GoodOrder
<1>10. ToSet(s) = ToSet(order) \union {h}
  <2>1. ToSet(s) = {s[i] : i \in 1..(n+1)} /\ ToSet(order) = {order[i] : i \in 1..n}
    BY <1>2, <1>4 DEF ToSet
  <2> QED
    BY <1>4, <1>5, <2>1
<1> QED
  BY <1>3, <1>9, <1>10

\* update_object with room for d calls updates, from h on, all that has not been updated.
UpdatesReach(w, d) ==
  \A order, h :
    Awaited(w, order, h) /\ Cardinality(Handle \ ToSet(order)) <= d =>
      /\ GoodOrder(w, UpdateObject[d][w][order][h])
      /\ ToSet(UpdateObject[d][w][order][h]) =
           ToSet(order) \union Reach(w, ToSet(order), h)

\* One call of update_object, whose own calls have room for d more.
LEMMA UpdateDeeper ==
  ASSUME NEW w \in WorldType, Consistent(w), NEW d \in Nat, UpdatesReach(w, d)
  PROVE  UpdatesReach(w, d+1)
<1> SUFFICES ASSUME NEW order, NEW h, Awaited(w, order, h),
                    Cardinality(Handle \ ToSet(order)) <= d + 1
             PROVE  /\ GoodOrder(w, UpdateObject[d+1][w][order][h])
                    /\ ToSet(UpdateObject[d+1][w][order][h]) =
                         ToSet(order) \union Reach(w, ToSet(order), h)
  BY DEF UpdatesReach
<1>1. PICK U : U = ToSet(order)
  OBVIOUS
<1>2. U \in SUBSET Handle /\ h \in Handle \ U /\ order \in Seq(Handle)
  BY <1>1 DEF Awaited, GoodOrder, ToSet, WorldType
<1>3. \A x \in U : x = Root \/ w.parent[x] \in U
  BY <1>1 DEF Awaited, GoodOrder, ToSet
<1>4. \A c \in Handle : w.kids[h][c] > 0 => c \notin U \union {h}
  <2>1. ASSUME NEW c \in Handle, w.kids[h][c] > 0, c \in U \union {h} PROVE FALSE
    <3>1. c # Root /\ w.parent[c] = h
      BY <1>2, <2>1, OneParent
    <3>2. c = h => w.parent[h] \in U
      BY <1>1, <3>1 DEF Awaited
    <3> QED
      BY <1>2, <1>3, <2>1, <3>1, <3>2
  <2> QED
    BY <2>1
<1>5. PICK list : list = Children(w, h)
  OBVIOUS
<1>6. PICK n \in Nat : /\ ListOf(list, n)
                       /\ \A c \in Handle :
                            w.kids[h][c] > 0 <=> \E i \in 1..n : list[i] = c
  <2>1. \A c \in Handle : w.kids[h][c] <= 1
    BY <1>2 DEF Consistent, KidsAreTheChildren
  <2> QED
    BY <1>2, <1>5, <2>1, ChildrenFacts
<1>7. Call(w, U, h, list, n)
  <2>1. \A c \in Handle :
          (w.kids[h][c] > 0 /\ c \notin U \union {h}) <=> \E i \in 1..n : list[i] = c
    BY <1>4, <1>6
  <2> QED
    BY <1>2, <1>6, <2>1 DEF Call
<1>8. PICK update : update = UpdateObject[d]
  OBVIOUS
<1>9. PICK start : start = Append(order, h)
  OBVIOUS
<1>10. GoodOrder(w, start) /\ ToSet(start) = U \union {h}
  BY <1>1, <1>9, AppendGood
<1>11. PICK all : all = ForEach(update[w], start, list)
  OBVIOUS
<1>12. UpdateObject[d+1][w][order][h] = all
  <2>1. UpdateObject[d+1] = UpdateWith(update)
    BY <1>8, UpdateUnfolds
  <2>2. UpdateWith(update)[w][order][h] = ForEach(update[w], Append(order, h), Children(w, h))
    BY <1>2 DEF UpdateWith
  <2> QED
    BY <1>5, <1>9, <1>11, <2>1, <2>2
<1>13. PICK c : /\ c[0] = start
                /\ \A i \in 1..n : c[i] = update[w][c[i-1]][list[i]]
                /\ c[n] = all
  <2>1. DOMAIN list = 1..n
    BY <1>6 DEF ListOf
  <2>2. PICK f : f = update[w]
    OBVIOUS
  <2>3. PICK c : c = LoopStates(f, start, list, n)
    OBVIOUS
  <2>4. /\ c[0] = start
        /\ \A i \in 1..n : c[i] = f[c[i-1]][list[i]]
        /\ c[n] = ForEach(f, start, list)
    BY <2>1, <2>3, LoopChain
  <2> QED
    BY <1>11, <2>2, <2>4
<1> DEFINE Met(i) == GoodOrder(w, c[i]) /\ Walked(w, U, h, list, n, i, ToSet(c[i]))
           S == {i \in Nat : i <= n => Met(i)}
<1>14. 0 \in S
  <2>1. Met(0)
    BY <1>7, <1>10, <1>13, WalkStart
  <2> QED
    BY <2>1
<1>15. ASSUME NEW i \in S PROVE i + 1 \in S
  <2> SUFFICES ASSUME i + 1 <= n PROVE Met(i + 1)
    OBVIOUS
  <2>1. PICK k \in 1..n : k = i + 1 /\ k - 1 = i
    OBVIOUS
  <2>2. PICK s : s = c[i]
    OBVIOUS
  <2>3. PICK V : V = ToSet(s)
    OBVIOUS
  <2>4. GoodOrder(w, s) /\ Walked(w, U, h, list, n, k - 1, V)
    BY <2>1, <2>2, <2>3
  <2>5. PICK x : x = list[k]
    OBVIOUS
  <2>6. x \in Handle \ V /\ Walked(w, U, h, list, n, k, V \union Reach(w, V, x))
    BY <1>7, <2>4, <2>5, WalkStep
  <2>7. x \in w.objects /\ w.parent[x] = h
    <3>1. w.kids[h][x] > 0
      BY <1>7, <2>1, <2>5, <2>6 DEF Call
    <3> QED
      BY <1>2, <2>6, <3>1, OneParent
  <2>8. U \subseteq V /\ h \in V
    BY <2>4 DEF Walked
  <2>9. Awaited(w, s, x)
    BY <2>3, <2>4, <2>6, <2>7, <2>8 DEF Awaited
  <2>10. Cardinality(Handle \ V) <= d
    <3>1. IsFiniteSet(Handle)
      BY EntityAssumption, FS_AddElement DEF Handle
    <3>2. /\ Cardinality(Handle \ U) \in Nat /\ Cardinality(Handle \ V) \in Nat
          /\ Cardinality(Handle \ V) + 1 <= Cardinality(Handle \ U)
      BY <1>2, <2>8, <3>1, FewerLeft
    <3> QED
      BY <1>1, <3>2
  <2>11. PICK t : t = update[w][s][x]
    OBVIOUS
  <2>12. GoodOrder(w, t) /\ ToSet(t) = V \union Reach(w, V, x)
    BY <1>8, <2>3, <2>9, <2>10, <2>11 DEF UpdatesReach
  <2>13. c[i+1] = t
    BY <1>13, <2>1, <2>2, <2>5, <2>11
  <2> QED
    BY <2>1, <2>6, <2>12, <2>13
<1>16. S = Nat
  <2> HIDE DEF S
  <2>1. S \in SUBSET Nat
    BY DEF S
  <2> QED
    BY <1>14, <1>15, <2>1, Updates!SetInduction
<1>17. Met(n)
  <2> HIDE DEF Met
  <2>1. n \in S
    <3> HIDE DEF S
    <3> QED
      BY <1>16
  <2>2. n <= n
    OBVIOUS
  <2> QED
    BY <2>1, <2>2
<1>18. ToSet(all) = U \union Reach(w, U, h)
  BY <1>7, <1>13, <1>17, WalkEnd
<1> QED
  BY <1>1, <1>12, <1>13, <1>17, <1>18

\* From the root, everything that can be visited, each once and after its parent.
LEMMA UpdateRecursion ==
  ASSUME NEW w \in WorldType, Consistent(w)
  PROVE  GoodOrder(w, UpdateOrder(w)) /\ ToSet(UpdateOrder(w)) = Visited(w)
<1>1. IsFiniteSet(Handle)
  BY EntityAssumption, FS_AddElement DEF Handle
<1> DEFINE S == {d \in Nat : UpdatesReach(w, d)}
<1>2. 0 \in S
  <2>1. ASSUME NEW order, NEW h, Awaited(w, order, h), Cardinality(Handle \ ToSet(order)) <= 0
        PROVE  FALSE
    <3>1. h \in Handle /\ h \notin ToSet(order)
      BY <2>1 DEF Awaited, WorldType
    <3>2. PICK U, V : U = ToSet(order) /\ V = U \union {h}
      OBVIOUS
    <3>3. /\ Cardinality(Handle \ U) \in Nat /\ Cardinality(Handle \ V) \in Nat
          /\ Cardinality(Handle \ V) + 1 <= Cardinality(Handle \ U)
      <4>1. h \in Handle /\ h \notin U /\ U \subseteq V /\ h \in V
        BY <3>1, <3>2
      <4> QED
        BY <1>1, <4>1, FewerLeft
    <3> QED
      BY <2>1, <3>2, <3>3
  <2>2. UpdatesReach(w, 0)
    BY <2>1 DEF UpdatesReach
  <2> QED
    BY <2>2
<1>3. \A d \in S : d + 1 \in S
  BY UpdateDeeper
<1>4. S = Nat
  <2> HIDE DEF S
  <2>1. S \in SUBSET Nat
    BY DEF S
  <2> QED
    BY <1>2, <1>3, <2>1, Updates!SetInduction
<1>5. PICK d \in Nat : d = Cardinality(Handle)
  BY <1>1, FS_CardinalityType
<1>6. UpdatesReach(w, d)
  BY <1>4
<1>7. PICK none : none = <<>>
  OBVIOUS
<1>8. ToSet(none) = {} /\ Awaited(w, none, Root)
  <2>1. none \in Seq(Handle) /\ DOMAIN none = {}
    BY <1>7
  <2>2. ToSet(none) = {}
    BY <2>1 DEF ToSet
  <2> QED
    BY <2>1, <2>2 DEF Awaited, GoodOrder, Consistent, ParentAlive
<1>9. PICK all : all = UpdateObject[d][w][none][Root]
  OBVIOUS
<1>10. GoodOrder(w, all) /\ ToSet(all) = {} \union Reach(w, {}, Root)
  <2>1. Handle \ ToSet(none) = Handle /\ d <= d
    BY <1>8
  <2>2. Cardinality(Handle \ ToSet(none)) <= d
    BY <1>5, <2>1
  <2>3. /\ GoodOrder(w, UpdateObject[d][w][none][Root])
        /\ ToSet(UpdateObject[d][w][none][Root]) =
             ToSet(none) \union Reach(w, ToSet(none), Root)
    BY <1>6, <1>8, <2>2 DEF UpdatesReach
  <2> QED
    BY <1>8, <1>9, <2>3
<1>11. ToSet(all) = Visited(w)
  BY <1>10, ReachOfNothing DEF Visited
<1> QED
  BY <1>5, <1>7, <1>9, <1>10, <1>11 DEF UpdateOrder

\* A sequence without repetitions is as long as it has members.
LEMMA LengthOfOrder ==
  ASSUME NEW w, NEW order, GoodOrder(w, order)
  PROVE  Len(order) = Cardinality(ToSet(order))
<1>1. PICK n \in Nat : n = Len(order)
  BY DEF GoodOrder
<1>2. PICK T : T = ToSet(order)
  OBVIOUS
<1>3. /\ order \in [1..n -> T] /\ \A x \in T : \E i \in 1..n : order[i] = x
      /\ \A i, j \in 1..n : order[i] = order[j] => i = j
  BY <1>1, <1>2 DEF GoodOrder, ToSet
<1>4. order \in Surjection(1..n, T) /\ order \in Injection(1..n, T)
  BY <1>3 DEF Surjection, Injection, IsInjective
<1>5. IsFiniteSet(1..n) /\ Cardinality(1..n) = n
  BY FS_Interval
<1>6. Cardinality(T) = Cardinality(1..n)
  BY <1>4, <1>5, FS_Surjection
<1> QED
  BY <1>1, <1>2, <1>5, <1>6

\* In every frame the recursion of world_update ends, and updates each entity below the root
\* once and after its parent.
THEOREM UpdatesFollowParents == Spec => []UpdatedOnceParentsFirst
<1>1. IInv => UpdatedOnceParentsFirst
  <2> SUFFICES ASSUME IInv PROVE UpdatedOnceParentsFirst
    OBVIOUS
  <2>1. world \in WorldType /\ Consistent(world)
    BY DEF IInv, GoodWorld
  <2>2. PICK order : order = UpdateOrder(world)
    OBVIOUS
  <2>3. GoodOrder(world, order) /\ ToSet(order) = Visited(world)
    BY <2>1, <2>2, UpdateRecursion
  <2>4. Len(order) = Cardinality(ToSet(order))
    BY <2>3, LengthOfOrder
  <2>5. ASSUME NEW i \in DOMAIN order, NEW j \in DOMAIN order,
               order[j] # Root, world.parent[order[j]] = order[i]
        PROVE  i < j
    <3>1. PICK k \in DOMAIN order : k < j /\ order[k] = world.parent[order[j]]
      BY <2>3, <2>5 DEF GoodOrder
    <3>2. k = i
      BY <2>3, <2>5, <3>1 DEF GoodOrder
    <3> QED
      BY <3>1, <3>2
  <2> QED
    BY <2>2, <2>3, <2>4, <2>5 DEF UpdatedOnceParentsFirst
<1> QED
  BY <1>1, Invariance, PTL

----------------------------------------------------------------------------
(***************************************************************************)
(* EditorScene.  Its world stays good by the lemmas above; the two keys    *)
(* that act on every selected entity are folds, and FoldFacts carries a    *)
(* claim from one entity of the selection to the next.                     *)
(***************************************************************************)

\* While no load has come between, the table still says of every local id in the
\* picking image which entity was drawn with it.
ImageStillNamed == ~outdated => \A d \in image : world.local_id_to_uuid[d[1]] = d[2]

EInv ==
  /\ IInv
  /\ EditorTypeOK
  /\ OutlineOnlyWhileSelected
  /\ PropertiesActOnWhatTheyShow
  /\ ImageStillNamed

----------------------------------------------------------------------------
(* The keys that act on every selected entity *)

\* Where a world has only lost entities, what is left below a handle is what is
\* left of all that was below it: a deletion leaves no entity behind whose ancestor is gone.
LEMMA SubtreeOfWhatIsLeft ==
  ASSUME NEW u, NEW w, GoodWorld(u), GoodWorld(w), w.objects \subseteq u.objects,
         \A c \in w.objects : w.parent[c] = u.parent[c], NEW h \in Handle
  PROVE  w.objects \ Subtree(w, h) = w.objects \ Subtree(u, h)
<1>1. /\ u \in WorldType /\ w \in WorldType /\ Consistent(u) /\ Consistent(w)
      /\ w.objects \in SUBSET Handle
  BY DEF GoodWorld, WorldType
<1>2. \A p, c \in Handle : w.kids[p][c] > 0 => u.kids[p][c] > 0
  BY <1>1 DEF Consistent, KidsAreTheChildren
<1>3. Subtree(w, h) \subseteq Subtree(u, h)
  <2>1. ClosedUnderKids(u, Subtree(u, h)) /\ h \in Subtree(u, h)
        /\ Subtree(u, h) \in SUBSET Handle
    BY SubtreeIsLeast
  <2>2. ClosedUnderKids(w, Subtree(u, h))
    BY <1>2, <2>1 DEF ClosedUnderKids
  <2> QED
    BY <2>1, <2>2, SubtreeIsLeast
<1>4. Subtree(u, h) \intersect w.objects \subseteq Subtree(w, h)
  <2>1. PICK S \in SUBSET Handle : S = Subtree(w, h) \union (Handle \ w.objects)
    BY SubtreeIsLeast
  <2>2. ClosedUnderKids(w, Subtree(w, h)) /\ h \in S
    BY <2>1, SubtreeIsLeast
  <2>3. ASSUME NEW p \in S, NEW c \in Handle, u.kids[p][c] > 0 PROVE c \in S
    <3>1. CASE c \notin w.objects
      BY <2>1, <3>1
    <3>2. CASE c \in w.objects
      <4>1. p \in Handle /\ c \in u.objects \ {Root} /\ u.parent[c] = p
        BY <1>1, <2>3, <3>2 DEF Consistent, KidsAreTheChildren
      <4>2. w.parent[c] = p
        BY <3>2, <4>1
      <4>3. p \in w.objects /\ w.kids[p][c] > 0
        BY <1>1, <3>2, <4>1, <4>2 DEF Consistent, ParentAlive, KidsAreTheChildren
      <4>4. p \in Subtree(w, h)
        BY <2>1, <4>3
      <4> QED
        BY <2>1, <2>2, <4>3, <4>4 DEF ClosedUnderKids
    <3> QED
      BY <3>1, <3>2
  <2>4. ClosedUnderKids(u, S)
    BY <2>3 DEF ClosedUnderKids
  <2>5. Subtree(u, h) \subseteq S
    BY <2>2, <2>4, SubtreeIsLeast
  <2> QED
    BY <2>1, <2>5
<1> QED
  BY <1>3, <1>4

\* What the first entities of the list take along when they are deleted.
TakenAlong(order, done) == UNION {Subtree(world, order[j]) : j \in 1..done}

\* The world after some of the selected entities have been deleted.
Deleted(w, done, order) ==
  /\ GoodWorld(w)
  /\ w.objects = world.objects \ TakenAlong(order, done)
  /\ \A c \in w.objects : w.parent[c] = world.parent[c]
  /\ w.local_id_to_uuid = world.local_id_to_uuid

Deletes == INSTANCE FoldFacts WITH Op <- DeleteObject, P <- Deleted

\* The Delete key leaves a good world without the selected entities and what was
\* below them, and takes no entry out of the table of local ids, whatever the order.
LEMMA DeleteAll ==
  ASSUME GoodWorld(world), NEW n \in Nat, NEW order \in [1..n -> Entity]
  PROVE  Deleted(FoldLeft(DeleteObject, world, order), n, order)
<1>1. DOMAIN order = 1..n
  OBVIOUS
<1>2. Deleted(world, 0, order)
  <2>1. 1..0 = {}
    OBVIOUS
  <2>2. TakenAlong(order, 0) = {}
    BY <2>1 DEF TakenAlong
  <2> QED
    BY <2>2 DEF Deleted
<1>3. ASSUME NEW w, NEW i \in 1..n, Deleted(w, i-1, order)
      PROVE  Deleted(DeleteObject(w, order[i]), i, order)
  <2>1. PICK h \in Entity : h = order[i]
    OBVIOUS
  <2>2. h \in Handle
    BY DEF Handle
  <2>3. /\ GoodWorld(w) /\ w \in WorldType
        /\ w.objects = world.objects \ TakenAlong(order, i-1)
        /\ \A c \in w.objects : w.parent[c] = world.parent[c]
        /\ w.local_id_to_uuid = world.local_id_to_uuid
    BY <1>3 DEF Deleted, GoodWorld
  <2>4. PICK v : v = DeleteObject(w, h)
    OBVIOUS
  <2>5. GoodWorld(v)
    BY <2>3, <2>4, DeleteGood
  <2>6. /\ v.objects = w.objects \ Subtree(w, h)
        /\ v.local_id_to_uuid = w.local_id_to_uuid
        /\ \A x \in Handle : v.parent[x] = IF x \in Subtree(w, h) THEN Root ELSE w.parent[x]
    BY <2>2, <2>3, <2>4, DeleteObjectFields
  <2>7. w.objects \subseteq world.objects /\ w.objects \subseteq Handle
    BY <2>3 DEF WorldType
  <2>8. v.objects = w.objects \ Subtree(world, h)
    BY <2>2, <2>3, <2>6, <2>7, SubtreeOfWhatIsLeft
  <2>9. TakenAlong(order, i) = TakenAlong(order, i-1) \union Subtree(world, h)
    <3>1. 1..i = (1..(i-1)) \union {i}
      OBVIOUS
    <3> QED
      BY <2>1, <3>1 DEF TakenAlong
  <2>10. v.objects = world.objects \ TakenAlong(order, i)
    BY <2>3, <2>8, <2>9
  <2>11. \A c \in v.objects : v.parent[c] = world.parent[c]
    BY <2>3, <2>6, <2>7
  <2> QED
    BY <2>1, <2>3, <2>4, <2>5, <2>6, <2>10, <2>11 DEF Deleted
<1>4. FoldLeft(DeleteObject, world, order) = Deletes!FoldLeft(DeleteObject, world, order)
  BY DEF FoldLeft, MapThenFoldSet, Max,
         Deletes!FoldLeft, Deletes!MapThenFoldSet, Deletes!Max
<1> QED
  BY <1>1, <1>2, <1>3, <1>4, Deletes!FoldInduction

LEMMA CopyObjectFields ==
  ASSUME NEW w, GoodWorld(w), NEW h \in Entity, w.next_local_id <= MaxLocalId
  PROVE  /\ CopyObject(w, h).objects = w.objects \union {h}
         /\ CopyObject(w, h).next_local_id = w.next_local_id + 1
<1>1. w \in WorldType /\ h \in Handle
  BY DEF GoodWorld, Handle
<1>2. PICK p \in Handle : p = Root
  BY DEF Handle
<1>3. PICK v : v = NewObject(w, h, p)
  OBVIOUS
<1>4. /\ v \in WorldType
      /\ v.objects = w.objects \union {h}
      /\ v.parent = [w.parent EXCEPT ![h] = p]
      /\ v.local_id = [w.local_id EXCEPT ![h] = w.next_local_id]
      /\ v.local_id_to_uuid = [w.local_id_to_uuid EXCEPT ![w.next_local_id] = h]
      /\ v.next_local_id = w.next_local_id + 1
  BY <1>1, <1>3, NewObjectFields
<1> QED
  BY <1>2, <1>3, <1>4 DEF CopyObject

\* The world after some of the copies have been made.
Copied(w, done, copies) ==
  /\ GoodWorld(w)
  /\ w.next_local_id = world.next_local_id + done
  /\ w.objects = world.objects \union {copies[j] : j \in 1..done}
  /\ \A k \in LocalId : world.local_id_to_uuid[k] \in {Root, w.local_id_to_uuid[k]}

Copies == INSTANCE FoldFacts WITH Op <- CopyObject, P <- Copied

\* Ctrl+D adds the copies and writes only to entries of the table that named
\* nothing.
LEMMA CopyAll ==
  ASSUME GoodWorld(world), NEW n \in Nat, NEW copies \in [1..n -> Entity],
         \A i, j \in 1..n : i # j => copies[i] # copies[j],
         \A i \in 1..n : copies[i] \notin world.objects,
         world.next_local_id + n <= MaxLocalId + 1
  PROVE  Copied(FoldLeft(CopyObject, world, copies), n, copies)
<1>1. DOMAIN copies = 1..n
  OBVIOUS
<1>2. world.next_local_id \in Nat /\ MaxLocalId \in Nat
  BY MaxLocalIdAssumption DEF GoodWorld, WorldType
<1>3. Copied(world, 0, copies)
  <2>1. 1..0 = {}
    OBVIOUS
  <2> QED
    BY <1>2, <2>1 DEF Copied
<1>4. ASSUME NEW w, NEW i \in 1..n, Copied(w, i-1, copies)
      PROVE  Copied(CopyObject(w, copies[i]), i, copies)
  <2>1. GoodWorld(w) /\ w \in WorldType /\ Root \in w.objects /\ Root \in Handle
    BY <1>4 DEF Copied, GoodWorld, Consistent, ParentAlive, Handle
  <2>2. /\ w.objects = world.objects \union {copies[j] : j \in 1..(i-1)}
        /\ w.next_local_id = world.next_local_id + (i - 1)
    BY <1>4 DEF Copied
  <2>3. copies[i] \in Entity \ w.objects /\ copies[i] \in Handle
    BY <2>2 DEF Handle
  <2>4. w.next_local_id <= MaxLocalId
    BY <1>2, <2>2
  <2>5. GoodWorld(CopyObject(w, copies[i]))
    BY <2>1, <2>3, <2>4, NewObjectGood DEF CopyObject
  <2>6. /\ CopyObject(w, copies[i]).objects = w.objects \union {copies[i]}
        /\ CopyObject(w, copies[i]).next_local_id = w.next_local_id + 1
    BY <2>1, <2>3, <2>4, CopyObjectFields
  <2>7. CopyObject(w, copies[i]).next_local_id = world.next_local_id + i
    BY <1>2, <2>2, <2>6
  <2>8. 1..i = (1..(i-1)) \union {i}
    OBVIOUS
  <2>9. CopyObject(w, copies[i]).objects = world.objects \union {copies[j] : j \in 1..i}
    BY <2>2, <2>6, <2>8
  <2>10. ASSUME NEW k \in LocalId
         PROVE  world.local_id_to_uuid[k]
                  \in {Root, CopyObject(w, copies[i]).local_id_to_uuid[k]}
    <3>1. world.local_id_to_uuid[k] \in {Root, w.local_id_to_uuid[k]}
      BY <1>4 DEF Copied
    <3>2. w.local_id_to_uuid[k] \in {Root, CopyObject(w, copies[i]).local_id_to_uuid[k]}
      BY <2>1, <2>3, <2>4, NewObjectKeepsNames DEF CopyObject
    <3> QED
      BY <3>1, <3>2
  <2> QED
    BY <2>5, <2>7, <2>9, <2>10 DEF Copied
<1>5. FoldLeft(CopyObject, world, copies) = Copies!FoldLeft(CopyObject, world, copies)
  BY DEF FoldLeft, MapThenFoldSet, Max,
         Copies!FoldLeft, Copies!MapThenFoldSet, Copies!Max
<1> QED
  BY <1>1, <1>3, <1>4, <1>5, Copies!FoldInduction

----------------------------------------------------------------------------
(* The inductive invariant *)

LEMMA GoodHasType == IInv => TypeOK
  BY DEF IInv, GoodWorld, TypeOK

\* What the invariant of the scene says of worlds and handles.
LEMMA EInvFacts ==
  ASSUME EInv
  PROVE  /\ IInv /\ GoodWorld(world) /\ world \in WorldType /\ file \in SceneFiles
         /\ Root \in world.objects /\ Root \in Handle /\ Entity = Handle \ {Root}
         /\ world.objects \subseteq Handle
         /\ Visited(world) \subseteq world.objects
<1>1. IInv /\ GoodWorld(world) /\ world \in WorldType /\ file \in SceneFiles
  BY DEF EInv, IInv, GoodWorld
<1>2. Consistent(world)
  BY <1>1 DEF GoodWorld
<1>3. Visited(world) \subseteq world.objects
  BY <1>1, <1>2, VisitedAlive
<1>4. Entity = Handle \ {Root} /\ Root \in Handle
  BY RootAssumption DEF Handle
<1>5. world.objects \subseteq Handle /\ Root \in world.objects
  BY <1>1, <1>2 DEF WorldType, Consistent, ParentAlive
<1> QED
  BY <1>1, <1>3, <1>4, <1>5

LEMMA InitEInv == EditorInit => EInv
<1> SUFFICES ASSUME EditorInit PROVE EInv
  OBVIOUS
<1>1. IInv /\ TypeOK
  BY InitIInv, GoodHasType DEF EditorInit
<1>2. EditorTypeOK
  BY <1>1 DEF EditorInit, EditorTypeOK
<1>3. OutlineOnlyWhileSelected /\ PropertiesActOnWhatTheyShow /\ ImageStillNamed
  BY DEF EditorInit, OutlineOnlyWhileSelected, PropertiesActOnWhatTheyShow, ImageStillNamed
<1> QED
  BY <1>1, <1>2, <1>3 DEF EInv

\* A crash leaves an empty editor.
LEMMA CrashKeeps == ASSUME EInv, Crash PROVE EInv'
<1>1. IInv'
  BY EInvFacts, CreateWorldGood DEF Crash, IInv
<1>2. EditorTypeOK'
  <2>1. TypeOK'
    BY <1>1 DEF IInv, GoodWorld, TypeOK
  <2> QED
    BY <2>1 DEF Crash, EditorTypeOK
<1>3. (OutlineOnlyWhileSelected /\ PropertiesActOnWhatTheyShow /\ ImageStillNamed)'
  BY DEF Crash, OutlineOnlyWhileSelected, PropertiesActOnWhatTheyShow, ImageStillNamed
<1> QED
  BY <1>1, <1>2, <1>3 DEF EInv

\* select_entity, whatever handle it is given.
LEMMA SelectKeeps ==
  ASSUME EInv, NEW h \in Handle, NEW reset \in BOOLEAN, SelectEntity(h, reset)
  PROVE  EInv'
<1>1. CASE Crash
  BY <1>1, CrashKeeps
<1>2. CASE h = Root \/ h \in world.objects
  <2> DEFINE new == IF h = Root THEN {} ELSE {h}
  <2>1. /\ entity_selection' = new \union (IF reset THEN {} ELSE entity_selection)
        /\ outlined' = new \union (IF reset THEN AfterReset ELSE outlined)
        /\ selected_entity' = IF h = Root THEN NoEntity ELSE h
        /\ UNCHANGED <<world, file, phase, image, outdated, drag, status>>
    BY <1>2 DEF SelectEntity
  <2>2. new \subseteq Entity /\ new \subseteq world.objects
    BY <1>2, EInvFacts
  <2>3. AfterReset \subseteq outlined /\ AfterReset = {}
    BY DEF EInv, OutlineOnlyWhileSelected, AfterReset
  <2>4. IInv' /\ TypeOK'
    BY <2>1, EInvFacts, GoodHasType DEF IInv, TypeOK
  <2>5. EditorTypeOK'
    <3>1. entity_selection' \subseteq Entity /\ outlined' \subseteq Entity
      BY <2>1, <2>2, <2>3 DEF EInv, EditorTypeOK
    <3>2. selected_entity' \in Entity \union {NoEntity}
      BY <2>1, EInvFacts
    <3> QED
      BY <2>1, <2>4, <3>1, <3>2 DEF EInv, EditorTypeOK
  <2>6. OutlineOnlyWhileSelected'
    BY <2>1, <2>2, <2>3 DEF EInv, OutlineOnlyWhileSelected
  <2>7. PropertiesActOnWhatTheyShow'
    BY <2>1 DEF PropertiesActOnWhatTheyShow
  <2>8. ImageStillNamed'
    BY <2>1 DEF EInv, ImageStillNamed
  <2> QED
    BY <2>4, <2>5, <2>6, <2>7, <2>8 DEF EInv
<1> QED
  BY <1>1, <1>2 DEF SelectEntity

\* The Delete key.
LEMMA DeleteKeyKeeps == ASSUME EInv, DeleteKey PROVE EInv'
<1>1. PICK order \in SetToSeqs(entity_selection) : world' = FoldLeft(DeleteObject, world, order)
  BY DEF DeleteKey
<1>2. entity_selection \subseteq Entity /\ IsFiniteSet(entity_selection)
  BY EntityAssumption, FS_Subset DEF EInv, EditorTypeOK
<1>3. PICK n \in Nat : n = Cardinality(entity_selection)
  BY <1>2, FS_CardinalityType
<1>4. order \in [1..n -> Entity]
  BY <1>2, <1>3 DEF SetToSeqs
<1>5. /\ GoodWorld(world')
      /\ world'.objects \subseteq world.objects
      /\ world'.local_id_to_uuid = world.local_id_to_uuid
  BY <1>1, <1>4, DeleteAll, EInvFacts DEF Deleted
<1>6. /\ outlined' = outlined \intersect world'.objects
      /\ UNCHANGED <<file, phase, entity_selection, selected_entity, image, outdated, drag,
                     status>>
  BY DEF DeleteKey
<1>7. IInv' /\ TypeOK'
  BY <1>5, <1>6, EInvFacts DEF IInv, TypeOK, GoodWorld
<1>8. EditorTypeOK'
  BY <1>6, <1>7 DEF EInv, EditorTypeOK
<1>9. (OutlineOnlyWhileSelected /\ PropertiesActOnWhatTheyShow)'
  BY <1>6 DEF EInv, OutlineOnlyWhileSelected, PropertiesActOnWhatTheyShow
<1>10. ImageStillNamed'
  BY <1>5, <1>6 DEF EInv, ImageStillNamed
<1> QED
  BY <1>7, <1>8, <1>9, <1>10 DEF EInv

\* Ctrl+D.
LEMMA DuplicateKeyKeeps == ASSUME EInv, DuplicateKey PROVE EInv'
<1>1. CASE Crash
  BY <1>1, CrashKeeps
<1>2. ASSUME NEW copies \in SetToAllKPermutations(Entity),
             Len(copies) = Cardinality(entity_selection),
             \A i \in DOMAIN copies : Fresh(copies[i]),
             world.next_local_id + Len(copies) <= MaxLocalId + 1,
             world' = FoldLeft(CopyObject, world, copies),
             entity_selection' = ToSet(copies),
             selected_entity' = IF copies = <<>> THEN selected_entity ELSE Last(copies),
             outlined' = AfterReset \union ToSet(copies),
             UNCHANGED <<file, phase, image, outdated, drag, status>>
      PROVE  EInv'
  <2>1. entity_selection \subseteq Entity /\ IsFiniteSet(entity_selection)
    BY EntityAssumption, FS_Subset DEF EInv, EditorTypeOK
  <2>2. PICK S \in SUBSET Entity : copies \in SetToSeqs(S)
    BY <1>2 DEF SetToAllKPermutations
  <2>3. PICK n \in Nat : n = Cardinality(S)
    BY <2>2, EntityAssumption, FS_Subset, FS_CardinalityType
  <2>4. copies \in [1..n -> Entity] /\ \A i, j \in 1..n : i # j => copies[i] # copies[j]
    BY <2>2, <2>3 DEF SetToSeqs
  <2>5. Len(copies) = n /\ DOMAIN copies = 1..n
    BY <2>4
  <2>6. \A i \in 1..n : copies[i] \notin world.objects
    BY <1>2, <2>5 DEF Fresh
  <2>7. Copied(world', n, copies)
    BY <1>2, <2>4, <2>5, <2>6, CopyAll, EInvFacts
  <2>8. /\ GoodWorld(world')
        /\ world'.objects = world.objects \union {copies[j] : j \in 1..n}
        /\ \A k \in LocalId :
             world.local_id_to_uuid[k] \in {Root, world'.local_id_to_uuid[k]}
    BY <2>7 DEF Copied
  <2>9. /\ ToSet(copies) = {copies[j] : j \in 1..n}
        /\ ToSet(copies) \subseteq Entity
        /\ ToSet(copies) \subseteq world'.objects
    BY <2>4, <2>5, <2>8 DEF ToSet
  <2>10. outlined' = ToSet(copies)
    BY <1>2 DEF EInv, OutlineOnlyWhileSelected, AfterReset
  <2>11. selected_entity' \in ToSet(copies) \/ selected_entity' = NoEntity
    <3>1. CASE n = 0
      <4>1. entity_selection = {}
        BY <1>2, <2>1, <2>5, <3>1, FS_EmptySet
      <4>2. selected_entity = NoEntity
        BY <4>1 DEF EInv, PropertiesActOnWhatTheyShow
      <4>3. copies = <<>>
        BY <2>4, <2>5, <3>1
      <4> QED
        BY <1>2, <4>2, <4>3
    <3>2. CASE n # 0
      <4>1. copies # <<>> /\ n \in 1..n
        BY <2>5, <3>2
      <4>2. Last(copies) = copies[n]
        BY <2>5 DEF Last
      <4> QED
        BY <1>2, <2>9, <4>1, <4>2
    <3> QED
      BY <3>1, <3>2
  <2>12. IInv' /\ TypeOK'
    BY <1>2, <2>8, EInvFacts DEF IInv, TypeOK, GoodWorld
  <2>13. EditorTypeOK'
    BY <1>2, <2>9, <2>10, <2>11, <2>12 DEF EInv, EditorTypeOK
  <2>14. (OutlineOnlyWhileSelected /\ PropertiesActOnWhatTheyShow)'
    BY <1>2, <2>9, <2>10, <2>11 DEF OutlineOnlyWhileSelected, PropertiesActOnWhatTheyShow
  <2>15. ImageStillNamed'
    <3> SUFFICES ASSUME ~outdated', NEW d \in image'
                 PROVE  world'.local_id_to_uuid[d[1]] = d[2]
      BY DEF ImageStillNamed
    <3>1. world.local_id_to_uuid[d[1]] = d[2] /\ d[1] \in LocalId /\ d[2] \in Entity
      BY <1>2 DEF EInv, ImageStillNamed, EditorTypeOK
    <3>2. d[2] # Root
      BY <3>1, RootAssumption
    <3> QED
      BY <2>8, <3>1, <3>2
  <2> QED
    BY <2>12, <2>13, <2>14, <2>15 DEF EInv
<1> QED
  BY <1>1, <1>2 DEF DuplicateKey

\* A step that leaves the handles alone and gives no entity an outline keeps the
\* invariant, if the world stays good and the table keeps its names.
LEMMA SceneStepKeeps ==
  ASSUME EInv, IInv', NamesKept \/ outdated',
         outlined' \subseteq outlined \intersect world'.objects,
         phase' \in {"events", "menu", "panel"}, status' \in {"ok", "crashed"},
         outdated' \in BOOLEAN, drag' \in Entity \union {NoEntity},
         outdated' \/ outdated' = outdated,
         UNCHANGED <<entity_selection, selected_entity, image>>
  PROVE  EInv'
<1>1. TypeOK'
  BY DEF IInv, TypeOK, GoodWorld
<1>2. EditorTypeOK'
  BY <1>1 DEF EInv, EditorTypeOK
<1>3. (OutlineOnlyWhileSelected /\ PropertiesActOnWhatTheyShow)'
  BY DEF EInv, OutlineOnlyWhileSelected, PropertiesActOnWhatTheyShow
<1>4. ImageStillNamed'
  <2> SUFFICES ASSUME ~outdated', NEW d \in image'
               PROVE  world'.local_id_to_uuid[d[1]] = d[2]
    BY DEF ImageStillNamed
  <2>1. world.local_id_to_uuid[d[1]] = d[2] /\ d[1] \in LocalId /\ d[2] \in Entity
    BY DEF EInv, ImageStillNamed, EditorTypeOK
  <2> QED
    BY <2>1, RootAssumption DEF NamesKept
<1> QED
  BY <1>2, <1>3, <1>4 DEF EInv

\* editor_draw and the object picking pass.
LEMMA RenderKeeps == ASSUME EInv, RenderFrame PROVE EInv'
<1>1. /\ phase' = "events"
      /\ UNCHANGED <<world, file, entity_selection, selected_entity, outlined, drag, status>>
  BY DEF RenderFrame
<1>2. IInv' /\ TypeOK'
  BY <1>1, EInvFacts, GoodHasType DEF IInv, TypeOK
<1>3. FoundUnderTheirIds(world)
  BY EInvFacts DEF GoodWorld, Named
<1>4. /\ image' \subseteq LocalId \X Entity /\ outdated' \in BOOLEAN
      /\ ~outdated' => \A d \in image' : world.local_id_to_uuid[d[1]] = d[2]
  <2>1. CASE image' = {<<world.local_id[h], h>> : h \in world.objects \ {Root}}
             /\ outdated' = FALSE
    <3>1. ASSUME NEW h \in world.objects \ {Root}
          PROVE  /\ <<world.local_id[h], h>> \in LocalId \X Entity
                 /\ world.local_id_to_uuid[world.local_id[h]] = h
      BY <1>3, EInvFacts DEF FoundUnderTheirIds
    <3>2. ASSUME NEW d \in image'
          PROVE  d \in LocalId \X Entity /\ world.local_id_to_uuid[d[1]] = d[2]
      <4>1. PICK h \in world.objects \ {Root} : d = <<world.local_id[h], h>>
        BY <2>1
      <4> QED
        BY <3>1, <4>1
    <3> QED
      BY <2>1, <3>2
  <2>2. CASE UNCHANGED <<image, outdated>>
    BY <2>2 DEF EInv, EditorTypeOK, ImageStillNamed
  <2> QED
    BY <2>1, <2>2 DEF RenderFrame
<1>5. EditorTypeOK'
  BY <1>1, <1>2, <1>4 DEF EInv, EditorTypeOK
<1>6. (OutlineOnlyWhileSelected /\ PropertiesActOnWhatTheyShow)'
  BY <1>1 DEF EInv, OutlineOnlyWhileSelected, PropertiesActOnWhatTheyShow
<1>7. ImageStillNamed'
  BY <1>1, <1>4 DEF ImageStillNamed
<1> QED
  BY <1>2, <1>5, <1>6, <1>7 DEF EInv

\* The Properties window forgets the selected entity at most.
LEMMA PropertiesKeeps == ASSUME EInv, Properties PROVE EInv'
<1>1. /\ selected_entity' \in {selected_entity, NoEntity}
      /\ phase' = "panel"
      /\ UNCHANGED <<world, file, entity_selection, outlined, image, outdated, drag, status>>
  BY DEF Properties
<1>2. IInv' /\ TypeOK'
  BY <1>1, EInvFacts, GoodHasType DEF IInv, TypeOK
<1>3. EditorTypeOK'
  BY <1>1, <1>2 DEF EInv, EditorTypeOK
<1>4. (OutlineOnlyWhileSelected /\ PropertiesActOnWhatTheyShow /\ ImageStillNamed)'
  BY <1>1 DEF EInv, OutlineOnlyWhileSelected, PropertiesActOnWhatTheyShow, ImageStillNamed
<1> QED
  BY <1>2, <1>3, <1>4 DEF EInv

LEMMA NextEInv == EInv /\ [EditorNext]_allVars => EInv'
<1> SUFFICES ASSUME EInv, [EditorNext]_allVars PROVE EInv'
  OBVIOUS
<1>1. /\ IInv /\ TypeOK
      /\ phase \in {"events", "menu", "panel"} /\ status \in {"ok", "crashed"}
      /\ outdated \in BOOLEAN /\ drag \in Entity \union {NoEntity}
      /\ outlined \subseteq world.objects
      /\ Visited(world) \ {Root} \subseteq Entity
  BY EInvFacts DEF EInv, EditorTypeOK, OutlineOnlyWhileSelected
<1>2. CASE ClickViewport
  <2>1. \A pixel : PickedHandle(pixel) \in Handle
    BY EInvFacts DEF PickedHandle, WorldType
  <2> QED
    BY <1>2, <2>1, SelectKeeps DEF ClickViewport
<1>3. CASE DeleteKey
  BY <1>3, DeleteKeyKeeps
<1>4. CASE DuplicateKey
  BY <1>4, DuplicateKeyKeeps
<1>5. ASSUME Save, UNCHANGED editorVars PROVE EInv'
  <2>1. IInv' /\ NamesKept
    BY <1>1, <1>5, NextIInv DEF Next, Save, NamesKept
  <2> QED
    BY <1>1, <1>5, <2>1, SceneStepKeeps DEF Save, editorVars
<1>6. CASE EventsDone
  <2>1. IInv' /\ NamesKept
    BY <1>1, <1>6, NextIInv DEF EventsDone, vars, NamesKept
  <2> QED
    BY <1>1, <1>6, <2>1, SceneStepKeeps DEF EventsDone
<1>7. CASE LoadMenu
  <2>1. CASE Crash
    BY <2>1, CrashKeeps
  <2>2. CASE Load /\ outlined' = {} /\ outdated' = TRUE
             /\ UNCHANGED <<phase, entity_selection, selected_entity, image, drag, status>>
    <3>1. IInv'
      BY <1>1, <2>2, NextIInv DEF Next
    <3> QED
      BY <1>1, <2>2, <3>1, SceneStepKeeps
  <2> QED
    BY <1>7, <2>1, <2>2 DEF LoadMenu
<1>8. CASE Properties
  BY <1>8, PropertiesKeeps
<1>9. CASE CreateMenu
  <2>1. CASE Crash
    BY <2>1, CrashKeeps
  <2>2. ASSUME NEW h \in Entity, NEW p \in Handle, Create(h, p), UNCHANGED editorVars
        PROVE  EInv'
    <3>1. IInv' /\ NamesKept
      BY <1>1, <2>2, NextIInv, EditsKeepNames DEF Next
    <3>2. world'.objects = world.objects \union {h}
      <4>1. world' = NewObject(world, h, p) /\ world.next_local_id <= MaxLocalId
        BY <2>2 DEF Create, RoomForOneMore
      <4>2. PICK v : v = NewObject(world, h, p)
        OBVIOUS
      <4>3. world \in WorldType /\ h \in Handle
        BY EInvFacts DEF Handle
      <4>4. /\ v \in WorldType
            /\ v.objects = world.objects \union {h}
            /\ v.parent = [world.parent EXCEPT ![h] = p]
            /\ v.local_id = [world.local_id EXCEPT ![h] = world.next_local_id]
            /\ v.local_id_to_uuid =
                 [world.local_id_to_uuid EXCEPT ![world.next_local_id] = h]
            /\ v.next_local_id = world.next_local_id + 1
        BY <4>1, <4>2, <4>3, NewObjectFields
      <4> QED
        BY <4>1, <4>2, <4>4
    <3> QED
      BY <1>1, <2>2, <3>1, <3>2, SceneStepKeeps DEF editorVars
  <2> QED
    BY <1>9, <2>1, <2>2 DEF CreateMenu
<1>10. CASE ClickRow
  BY <1>1, <1>10, SelectKeeps DEF ClickRow, Handle
<1>11. CASE DragRow
  <2>1. IInv' /\ NamesKept
    BY <1>1, <1>11, NextIInv DEF DragRow, vars, NamesKept
  <2> QED
    BY <1>1, <1>11, <2>1, SceneStepKeeps DEF DragRow
<1>12. CASE DropRow
  <2>1. CASE Crash
    BY <2>1, CrashKeeps
  <2>2. ASSUME NEW p \in Handle, Reparent(drag, p), drag \in world.objects, drag' = NoEntity,
               UNCHANGED <<phase, entity_selection, selected_entity, outlined, image,
                           outdated, status>>
        PROVE  EInv'
    <3>1. drag \in Entity
      BY <1>1, <2>2, EInvFacts, NoEntityAssumption DEF Handle
    <3>2. IInv' /\ NamesKept
      BY <1>1, <2>2, <3>1, NextIInv, EditsKeepNames DEF Next
    <3>3. world'.objects = world.objects
      BY <2>2, <3>1, EInvFacts, ReparentFields DEF Reparent
    <3> QED
      BY <1>1, <2>2, <3>2, <3>3, SceneStepKeeps
  <2> QED
    BY <1>12, <2>1, <2>2 DEF DropRow
<1>13. CASE DropOutside
  <2>1. IInv' /\ NamesKept
    BY <1>1, <1>13, NextIInv DEF DropOutside, vars, NamesKept
  <2> QED
    BY <1>1, <1>13, <2>1, SceneStepKeeps DEF DropOutside
<1>14. CASE DestroyRow
  <2>1. CASE Crash
    BY <2>1, CrashKeeps
  <2>2. ASSUME NEW h \in Visited(world) \ {Root}, Delete(h),
               outlined' = outlined \intersect world'.objects,
               UNCHANGED <<phase, entity_selection, selected_entity, image, outdated, drag,
                           status>>
        PROVE  EInv'
    <3>1. IInv' /\ NamesKept
      BY <1>1, <2>2, NextIInv, EditsKeepNames DEF Next, Handle
    <3> QED
      BY <1>1, <2>2, <3>1, SceneStepKeeps
  <2> QED
    BY <1>14, <2>1, <2>2 DEF DestroyRow
<1>15. CASE RenderFrame
  BY <1>15, RenderKeeps
<1>16. CASE UNCHANGED allVars
  <2>1. IInv' /\ NamesKept
    BY <1>1, <1>16, NextIInv DEF allVars, vars, NamesKept
  <2> QED
    BY <1>1, <1>16, <2>1, SceneStepKeeps DEF allVars, editorVars
<1> QED
  BY <1>2, <1>3, <1>4, <1>5, <1>6, <1>7, <1>8, <1>9, <1>10, <1>11, <1>12, <1>13, <1>14,
     <1>15, <1>16 DEF EditorNext, SaveKey, SaveMenu

----------------------------------------------------------------------------
(* The theorems *)

\* Every reachable state of the editor satisfies the inductive invariant.
THEOREM EditorInvariance == EditorSpec => []EInv
<1> QED
  BY InitEInv, NextEInv, PTL DEF EditorSpec

\* The variables of the editor have their types in every reachable state.
THEOREM EditorTypeCorrect == EditorSpec => []EditorTypeOK
<1>1. EInv => EditorTypeOK
  BY DEF EInv
<1> QED
  BY <1>1, EditorInvariance, PTL

\* However many entities are clicked, duplicated, deleted or loaded, the flag of
\* the outline is on selected entities that exist, and on no other.
THEOREM OutlinesFollowTheSelection == EditorSpec => []OutlineOnlyWhileSelected
<1>1. EInv => OutlineOnlyWhileSelected
  BY DEF EInv
<1> QED
  BY <1>1, EditorInvariance, PTL

\* The entity that Add Component would change is always one of the selected.
THEOREM PropertiesShowTheSelected == EditorSpec => []PropertiesActOnWhatTheyShow
<1>1. EInv => PropertiesActOnWhatTheyShow
  BY DEF EInv
<1> QED
  BY <1>1, EditorInvariance, PTL

\* The two representations of the hierarchy agree through every sequence of
\* editor actions, those on whole selections and the crashes included.
THEOREM EditorKeepsHierarchy == EditorSpec => []HierarchyConsistent
<1>1. EInv => HierarchyConsistent
  BY DEF EInv, IInv, GoodWorld, Consistent, HierarchyConsistent
<1> QED
  BY <1>1, EditorInvariance, PTL

\* So long as every local id fits in the byte that is read back, a click finds
\* an entity that was drawn or none at all.  The bound is the limit of the
\* picking image itself: two ids that differ by 256 leave the same byte.
THEOREM PickingIsExact ==
  ASSUME MaxLocalId < PixelValues
  PROVE  EditorSpec => []PickingNamesDrawnEntities
<1>1. EInv => PickingNamesDrawnEntities
  <2> SUFFICES ASSUME EInv, ~outdated, NEW pixel \in Pixels
               PROVE  PickedHandle(pixel) \in {Root} \union {d[2] : d \in image}
    BY DEF PickingNamesDrawnEntities
  <2>1. CASE pixel = 0
    <3>1. 0 \notin LocalId
      BY DEF LocalId
    <3> QED
      BY <2>1, <3>1 DEF PickedHandle
  <2>2. CASE pixel # 0
    <3>1. PICK d \in image : pixel = d[1] % PixelValues
      BY <2>2 DEF Pixels
    <3>2. d[1] \in LocalId
      BY DEF EInv, EditorTypeOK
    <3>3. d[1] \in Nat /\ d[1] < PixelValues /\ PixelValues \in Nat \ {0}
      BY <3>2, MaxLocalIdAssumption, PixelAssumption DEF LocalId
    <3>4. d[1] % PixelValues = d[1]
      BY <3>3
    <3>5. world.local_id_to_uuid[d[1]] = d[2]
      BY DEF EInv, ImageStillNamed
    <3> QED
      BY <3>1, <3>2, <3>4, <3>5 DEF PickedHandle
  <2> QED
    BY <2>1, <2>2
<1> QED
  BY <1>1, EditorInvariance, PTL

\* Delete leaves nothing of the selection and nothing below it, takes nothing else,
\* and does not depend on the order of the map.
THEOREM DeletesWhatIsSelected == EditorSpec => DeleteKeyRemovesTheSelection
<1>1. EInv /\ [EditorNext]_allVars =>
        [DeleteKey => world'.objects =
           world.objects \ UNION {Subtree(world, h) : h \in entity_selection}]_allVars
  <2> SUFFICES ASSUME EInv, DeleteKey
               PROVE  world'.objects =
                        world.objects \ UNION {Subtree(world, h) : h \in entity_selection}
    OBVIOUS
  <2>1. PICK order \in SetToSeqs(entity_selection) :
          world' = FoldLeft(DeleteObject, world, order)
    BY DEF DeleteKey
  <2>2. entity_selection \subseteq Entity /\ IsFiniteSet(entity_selection)
    BY EntityAssumption, FS_Subset DEF EInv, EditorTypeOK
  <2>3. PICK n \in Nat : n = Cardinality(entity_selection)
    BY <2>2, FS_CardinalityType
  <2>4. order \in [1..n -> Entity]
    BY <2>2, <2>3 DEF SetToSeqs
  <2>5. entity_selection = {order[j] : j \in 1..n}
    <3>1. order \in [1..n -> entity_selection] /\ \A i, j \in 1..n : i # j => order[i] # order[j]
      BY <2>1, <2>3 DEF SetToSeqs
    <3>2. order \in Injection(1..n, entity_selection)
      BY <3>1 DEF Injection, IsInjective
    <3>3. Cardinality(1..n) = n
      BY FS_Interval
    <3>4. order \in Surjection(1..n, entity_selection)
      BY <2>2, <2>3, <3>2, <3>3, FS_Injection
    <3> QED
      BY <3>1, <3>4 DEF Surjection
  <2>6. world'.objects = world.objects \ TakenAlong(order, n)
    BY <2>1, <2>4, DeleteAll, EInvFacts DEF Deleted
  <2>7. TakenAlong(order, n) = UNION {Subtree(world, h) : h \in entity_selection}
    BY <2>5 DEF TakenAlong
  <2> QED
    BY <2>6, <2>7
<1> QED
  BY <1>1, EditorInvariance, PTL DEF EditorSpec, DeleteKeyRemovesTheSelection
=============================================================================
