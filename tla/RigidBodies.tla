----------------------------- MODULE RigidBodies -----------------------------
(***************************************************************************)
(* Rigid body components and the bodies of the physics system.  Play makes *)
(* a body for each component that has a collider, and Stop destroys the    *)
(* running world and its components with it; in between entities are made, *)
(* duplicated, moved and deleted, components are added and removed, and    *)
(* another scene may be opened.  A body holds the handle of its entity,    *)
(* which the contact callbacks look up in the world that is open.          *)
(*                                                                         *)
(* Of the hierarchy the module keeps one thing: the entities that float,   *)
(* in or below a cycle of parents, where no recursion from the root comes. *)
(***************************************************************************)
EXTENDS Naturals, FiniteSets, Functions

CONSTANTS
  Entity,    \* handles; a scene and its running copy have the same ones
  Body,      \* body ids, each given once (a bound; Jolt counts reuse in the id)
  Absent,    \* no rigid body component
  NoBody,    \* a component that was never initialised, with body_id 0
  MaxBodies  \* 1024 in physics_init

ASSUME BodyAssumption ==
  /\ IsFiniteSet(Body) /\ Absent \notin Body /\ NoBody \notin Body /\ Absent # NoBody
ASSUME EntityAssumption == IsFiniteSet(Entity)
ASSUME LimitAssumption == MaxBodies \in Nat /\ Cardinality(Entity) <= MaxBodies

VARIABLES
  playing,    \* Editor.state is not Edit
  components, \* the entities of the running world and their rigid bodies
  floating,   \* the entities that the root does not reach
  opened,     \* another scene was opened during the run
  bodies,     \* the entity each body of the physics system names
  used,       \* ids given so far
  shared,     \* history: bodies whose component was copied
  dropped,    \* history: bodies whose component was overwritten
  stranded,   \* history: bodies whose component went with its world, undestroyed
  fault       \* how the program crashed

hist == <<shared, dropped, stranded>>
vars == <<playing, components, floating, opened, bodies, used, hist, fault>>

Nothing == [x \in {} |-> x]

Init ==
  /\ playing = FALSE /\ components = Nothing /\ floating = {} /\ opened = FALSE
  /\ bodies = Nothing /\ used = {}
  /\ shared = {} /\ dropped = {} /\ stranded = {}
  /\ fault = "none"

Entities == DOMAIN components
InRunningWorld == playing /\ ~opened  \* Engine.world is the one that Stop destroys
BodiesOf(D) == {components[e] : e \in D} \intersect Body
Live == DOMAIN bodies
Reached == Entities \ floating  \* by a recursion from the root
MayFloat(F) == Cardinality(F) # 1  \* two entities at least make a cycle

----------------------------------------------------------------------------
(* Play and Stop *)

(***************************************************************************)
(* editor_on_scene_play with a scene of entities D, those in F floating     *)
(* since they were saved, those in R with a rigid body.  rigid_body_init   *)
(* comes to those in C, which the root reaches, for they have a collider.  *)
(***************************************************************************)
Play(D, F, R, C) ==
  /\ ~playing /\ C \subseteq R \ F /\ R \subseteq D /\ F \subseteq D /\ MayFloat(F)
  /\ Cardinality(C) + Cardinality(Live) <= MaxBodies
  /\ \E id \in Injection(C, Body \ used) :
       /\ components' = [e \in D |-> IF e \in C THEN id[e]
                                     ELSE IF e \in R THEN NoBody ELSE Absent]
       /\ bodies' = [b \in Live \union Range(id) |->
                       IF b \in Live THEN bodies[b] ELSE CHOOSE e \in C : id[e] = b]
       /\ used' = used \union Range(id)
  /\ floating' = F
  /\ playing' = TRUE /\ opened' = FALSE
  /\ UNCHANGED <<hist, fault>>

\* Of a crashed program nothing but the histories is looked at.
Fault(kind) ==
  /\ fault' = kind
  /\ UNCHANGED <<playing, components, floating, opened, bodies, used, hist>>

\* CreateBody returns nil, which rigid_body_init goes on to write to.
PlayOutOfBodies(C) ==
  ~playing /\ Cardinality(C) + Cardinality(Live) > MaxBodies /\ Fault("out of bodies")

\* rigid_body_destroy for the components of D.
DestroyBodies(D) == bodies' = Restrict(bodies, Live \ BodiesOf(D))

\* A body is destroyed that is not there, or twice: Jolt does not check.
DestroyedTwice(D) ==
  /\ \/ \E b \in BodiesOf(D) : b \notin Live
     \/ \E e, f \in D : e # f /\ components[e] = components[f] /\ components[e] \in Body
  /\ Fault("destroyed twice")

\* Planted bug: the world is freed without the components in it.
ForgetTheWorld == bodies' = bodies /\ UNCHANGED stranded

\* destroy_world: delete_object from the root destroys the components that it comes to,
\* and the map is freed with the others in it.
DestroyWorld ==
  /\ DestroyBodies(Reached)
  /\ stranded' = stranded \union (BodiesOf(floating) \intersect DOMAIN bodies')

\* destroy_world(&runtime_world), whichever scene is open.
Stop ==
  /\ playing
  /\ DestroyWorld
  /\ components' = Nothing /\ floating' = {}
  /\ playing' = FALSE /\ opened' = FALSE
  /\ UNCHANGED <<used, shared, dropped, fault>>

----------------------------------------------------------------------------
(* Entities and components while the world runs *)

\* A scene dropped on the viewport.
OpenScene ==
  /\ playing
  /\ opened' = TRUE
  /\ UNCHANGED <<playing, components, floating, bodies, used, hist, fault>>

NewEntity(e) ==
  /\ InRunningWorld /\ e \notin Entities
  /\ components' = [f \in Entities \union {e} |-> IF f = e THEN Absent ELSE components[f]]
  /\ UNCHANGED <<playing, floating, opened, bodies, used, hist, fault>>

\* A row of the entity panel with an entity below it dropped on that entity, in any state:
\* both float from then on, with all that hangs below them.
DropBelowItself(D) ==
  /\ InRunningWorld /\ D # {} /\ D \subseteq Reached /\ MayFloat(D)
  /\ floating' = floating \union D
  /\ UNCHANGED <<playing, components, opened, bodies, used, hist, fault>>

\* add_component replaces a component that is there and initialises nothing.
AddRigidBody(e) ==
  /\ InRunningWorld /\ e \in Entities
  /\ components' = [components EXCEPT ![e] = NoBody]
  /\ dropped' = dropped \union BodiesOf({e})
  /\ UNCHANGED <<playing, floating, opened, bodies, used, shared, stranded, fault>>

\* Planted bug: the component stays with the entity.
RemoveOnlyTheBody(e) ==
  /\ InRunningWorld /\ e \in Entities /\ components[e] # Absent
  /\ DestroyBodies({e})
  /\ UNCHANGED <<playing, components, floating, opened, used, hist, fault>>

RemoveRigidBody(e) ==
  /\ InRunningWorld /\ e \in Entities /\ components[e] # Absent
  /\ DestroyBodies({e})
  /\ components' = [components EXCEPT ![e] = Absent]
  /\ UNCHANGED <<playing, floating, opened, used, hist, fault>>

\* Ctrl+D: rigid_body_copy copies body_id with the rest of the component.  The copy
\* hangs below the root, also that of a floating entity.
Duplicate(e, new) ==
  /\ InRunningWorld /\ e \in Entities /\ new \notin Entities
  /\ components' = [f \in Entities \union {new} |->
                      IF f = new THEN components[e] ELSE components[f]]
  /\ shared' = shared \union BodiesOf({e})
  /\ UNCHANGED <<playing, floating, opened, bodies, used, dropped, stranded, fault>>

\* Planted bug: deleting an entity does not destroy its components.
DeleteWithoutDestroy(D) ==
  /\ InRunningWorld /\ D # {} /\ D \subseteq Entities
  /\ components' = Restrict(components, Entities \ D) /\ floating' = floating \ D
  /\ UNCHANGED <<playing, opened, bodies, used, hist, fault>>

\* The Delete key: the selected entities and those below them.  A floating entity can be
\* selected in the viewport; from a cycle of parents the whole of it is deleted.
Delete(D) ==
  /\ InRunningWorld /\ D # {} /\ D \subseteq Entities /\ MayFloat(floating \ D)
  /\ DestroyBodies(D)
  /\ components' = Restrict(components, Entities \ D) /\ floating' = floating \ D
  /\ UNCHANGED <<playing, opened, used, hist, fault>>

\* Scene > Load reads the file into the running world and initialises nothing.
Load(D, F, R) ==
  /\ InRunningWorld /\ R \subseteq D /\ F \subseteq D /\ MayFloat(F)
  /\ DestroyWorld
  /\ components' = [e \in D |-> IF e \in R THEN NoBody ELSE Absent] /\ floating' = F
  /\ UNCHANGED <<playing, opened, used, shared, dropped, fault>>

\* What destroys components: an entity's alone, a selection's, all of the world.
DestroyAgain ==
  /\ playing
  /\ \/ InRunningWorld /\ \E D \in SUBSET Entities : DestroyedTwice(D)
     \/ DestroyedTwice(Reached)

----------------------------------------------------------------------------
(* The contact callbacks *)

\* Two bodies touch, and one names an entity that get_entity does not find: it looks in
\* the open scene, whose handles may be any, or in the running world.
ContactWithNobody ==
  /\ playing /\ Cardinality(Live) > 1
  /\ opened \/ \E b \in Live : bodies[b] \notin Entities
  /\ Fault("nil")

Next ==
  /\ fault = "none"
  /\ \/ \E D, F, R, C \in SUBSET Entity : Play(D, F, R, C)
     \/ \E C \in SUBSET Entity : PlayOutOfBodies(C)
     \/ Stop
     \/ OpenScene
     \/ \E e \in Entity : NewEntity(e) \/ AddRigidBody(e) \/ RemoveRigidBody(e)
     \/ \E e, new \in Entity : Duplicate(e, new)
     \/ \E D \in SUBSET Entity : DropBelowItself(D) \/ Delete(D)
     \/ \E D, F, R \in SUBSET Entity : Load(D, F, R)
     \/ DestroyAgain
     \/ ContactWithNobody

Spec == Init /\ [][Next]_vars

----------------------------------------------------------------------------
(* Properties *)

\* A component that was never copied has its body to itself, and the body names the
\* component's entity; only copies let a body be destroyed twice.
BodiesBelongToTheirEntities ==
  /\ \A e \in Entities :
       components[e] \in Body \ shared =>
         /\ components[e] \in Live /\ bodies[components[e]] = e
         /\ \A f \in Entities : components[f] = components[e] => f = e
  /\ fault = "destroyed twice" => shared # {}

\* Every body in the running world names an entity that is there, unless its component
\* was overwritten, or went with a world in which its entity hung below itself: the
\* callbacks fail only on such a body, or after another scene was opened during the run.
ContactsFindTheirEntities ==
  /\ InRunningWorld => \A b \in Live \ (dropped \union stranded) : bodies[b] \in Entities
  /\ fault = "nil" => dropped # {} \/ stranded # {} \/ opened

\* Stop leaves no body behind but those whose component was overwritten and those of
\* entities that hung below themselves, whichever world is open then and whatever was
\* copied: without such bodies, a scene that fits into the physics system fits in each run.
EditHasNoBodies ==
  /\ ~playing => Live \subseteq dropped \union stranded
  /\ fault = "out of bodies" => dropped \union stranded # {}
=============================================================================
