-------------------------- MODULE RigidBodiesProofs --------------------------
(***************************************************************************)
(* Components, bodies and the entities they name agree in every run, for   *)
(* any scene: what the three invariants need of each other.                *)
(***************************************************************************)
EXTENDS RigidBodies, FiniteSetTheorems, TLAPS

BodiesTyped ==
  /\ components \in [Entities -> Body \union {Absent, NoBody}]
  /\ bodies \in [Live -> Entity]
  /\ Live \subseteq Body
  /\ Live \subseteq used
  /\ BodiesOf(Entities) \subseteq used
  /\ playing \in BOOLEAN
  /\ ~playing => Entities = {}
  /\ floating \subseteq Entities

\* A body that was neither dropped nor stranded is the one that its entity's component names.
BodiesAreNamed ==
  \A b \in Live \ (dropped \union stranded) : bodies[b] \in Entities /\ components[bodies[b]] = b

\* A component that was not copied has its body to itself.
BodiesAreOwn ==
  \A e \in Entities :
    components[e] \in Body \ shared =>
      /\ components[e] \in Live /\ bodies[components[e]] = e
      /\ \A f \in Entities : components[f] = components[e] => f = e

\* The crashes have the causes that the properties name.
FaultsExplained ==
  /\ fault = "destroyed twice" => shared # {}
  /\ fault = "nil" => dropped # {} \/ stranded # {} \/ opened
  /\ fault = "out of bodies" => dropped \union stranded # {}

IInv == BodiesTyped /\ BodiesAreNamed /\ BodiesAreOwn /\ FaultsExplained
Bodied == BodiesTyped /\ BodiesAreNamed /\ BodiesAreOwn

----------------------------------------------------------------------------
\* Bodies that go with the components that name them, or are stranded: Stop, Delete and
\* Remove, and the Load of a scene, are of this form.
LEMMA DestroyStep ==
  ASSUME Bodied, NEW D \in SUBSET Entities,
         DestroyBodies(D),
         components' \in [Entities' -> Body \union {Absent, NoBody}],
         \A e \in Entities' : components'[e] \in Body =>
            e \in Entities \ D /\ components'[e] = components[e],
         \A e \in Entities \ D : components[e] \in DOMAIN bodies' \ stranded' =>
            e \in Entities' /\ components'[e] = components[e],
         UNCHANGED <<used, shared, dropped>>, stranded \subseteq stranded',
         playing' \in BOOLEAN, ~playing' => Entities' = {}, floating' \subseteq Entities'
  PROVE  Bodied'
<1> USE DEF Bodied
<1>1. /\ Live' = Live \ BodiesOf(D)
      /\ \A b \in Live' : bodies'[b] = bodies[b]
      /\ bodies' \in [Live' -> Entity]
  BY DEF DestroyBodies, Restrict, Live, BodiesTyped
<1>2. BodiesTyped'
  <2>1. BodiesOf(Entities)' \subseteq used'
    BY DEF BodiesTyped, BodiesOf
  <2> QED
    BY <1>1, <2>1 DEF BodiesTyped
<1>3. BodiesAreNamed'
  <2> SUFFICES ASSUME NEW b \in Live', b \notin dropped' \union stranded'
               PROVE  bodies'[b] \in Entities' /\ components'[bodies'[b]] = b
    BY DEF BodiesAreNamed
  <2>1. b \in Live /\ b \notin BodiesOf(D) /\ bodies'[b] = bodies[b] /\ b \in Body
    BY <1>1 DEF BodiesTyped
  <2>2. bodies[b] \in Entities /\ components[bodies[b]] = b
    BY <2>1 DEF BodiesAreNamed
  <2>3. bodies[b] \notin D
    BY <2>1, <2>2 DEF BodiesOf
  <2>4. components[bodies[b]] \in DOMAIN bodies' \ stranded'
    BY <2>2 DEF Live
  <2> QED
    BY <2>1, <2>2, <2>3, <2>4
<1>4. BodiesAreOwn'
  <2> SUFFICES ASSUME NEW e \in Entities', components'[e] \in Body \ shared'
               PROVE  /\ components'[e] \in Live' /\ bodies'[components'[e]] = e
                      /\ \A f \in Entities' : components'[f] = components'[e] => f = e
    BY DEF BodiesAreOwn
  <2>1. e \in Entities \ D /\ components'[e] = components[e] /\ components[e] \in Body \ shared
    OBVIOUS
  <2>2. /\ components[e] \in Live /\ bodies[components[e]] = e
        /\ \A f \in Entities : components[f] = components[e] => f = e
    BY <2>1 DEF BodiesAreOwn
  <2>3. components[e] \notin BodiesOf(D)
    BY <2>1, <2>2 DEF BodiesOf
  <2>4. \A f \in Entities' : components'[f] = components'[e] => f = e
    BY <2>1, <2>2
  <2> QED
    BY <1>1, <2>1, <2>2, <2>3, <2>4
<1> QED
  BY <1>2, <1>3, <1>4

\* What changes neither components nor bodies.
LEMMA SameBodies ==
  ASSUME Bodied, UNCHANGED <<components, bodies, used, hist, playing>>,
         floating' \subseteq Entities
  PROVE  Bodied'
BY DEF Bodied, BodiesTyped, BodiesAreNamed, BodiesAreOwn, Entities, Live, BodiesOf, hist

\* Play gives each component with a collider a body of its own.
LEMMA PlayStep ==
  ASSUME Bodied, NEW D \in SUBSET Entity, NEW F \in SUBSET Entity, NEW R \in SUBSET Entity,
         NEW C \in SUBSET Entity, Play(D, F, R, C)
  PROVE  Bodied'
<1> USE DEF Bodied
<1> PICK id \in Injection(C, Body \ used) :
      /\ components' = [e \in D |-> IF e \in C THEN id[e]
                                    ELSE IF e \in R THEN NoBody ELSE Absent]
      /\ bodies' = [b \in Live \union Range(id) |->
                      IF b \in Live THEN bodies[b] ELSE CHOOSE e \in C : id[e] = b]
      /\ used' = used \union Range(id)
  BY DEF Play
<1>1. /\ id \in [C -> Body \ used]
      /\ \A e, f \in C : id[e] = id[f] => e = f
      /\ Range(id) = {id[e] : e \in C}
  BY DEF Injection, IsInjective, Range
<1>2. C \subseteq D /\ Entities' = D /\ Live' = Live \union Range(id)
  BY DEF Play, Entities, Live
<1>3. \A e \in C : id[e] \in Body /\ id[e] \notin used /\ id[e] \notin Live
  BY <1>1 DEF BodiesTyped
<1>4. \A e \in C : components'[e] = id[e] /\ bodies'[id[e]] = e
  <2> TAKE e \in C
  <2>1. components'[e] = id[e]
    BY <1>2
  <2>2. (CHOOSE f \in C : id[f] = id[e]) = e
    BY <1>1
  <2>3. bodies'[id[e]] = (CHOOSE f \in C : id[f] = id[e])
    BY <1>1, <1>3
  <2> QED
    BY <2>1, <2>2, <2>3
<1>5. \A e \in D : components'[e] \in Body => e \in C
  BY BodyAssumption
<1>6. /\ Live \subseteq dropped \union stranded
      /\ dropped' = dropped /\ shared' = shared /\ stranded' = stranded
  BY DEF Play, BodiesTyped, BodiesAreNamed, hist
<1>7. \A b \in Live : bodies'[b] = bodies[b]
  OBVIOUS
<1>8. BodiesTyped'
  <2>1. components' \in [Entities' -> Body \union {Absent, NoBody}]
    BY <1>1, <1>2
  <2>2. bodies' \in [Live' -> Entity]
    <3>1. \A b \in Live' : bodies'[b] \in Entity
      BY <1>1, <1>2, <1>4, <1>7 DEF BodiesTyped
    <3>2. bodies' = [b \in Live' |-> bodies'[b]]
      BY <1>2
    <3> QED
      BY <3>1, <3>2
  <2>3. Live' \subseteq Body /\ Live' \subseteq used'
    BY <1>1, <1>2, <1>3 DEF BodiesTyped
  <2>4. BodiesOf(Entities)' \subseteq used'
    BY <1>1, <1>2, <1>4, <1>5 DEF BodiesOf
  <2>5. playing' = TRUE /\ floating' \subseteq Entities'
    BY <1>2 DEF Play
  <2> QED
    BY <2>1, <2>2, <2>3, <2>4, <2>5 DEF BodiesTyped
<1>9. BodiesAreNamed'
  BY <1>1, <1>2, <1>4, <1>6 DEF BodiesAreNamed
<1>10. BodiesAreOwn'
  <2> SUFFICES ASSUME NEW e \in Entities', components'[e] \in Body
               PROVE  /\ components'[e] \in Live' /\ bodies'[components'[e]] = e
                      /\ \A f \in Entities' : components'[f] = components'[e] => f = e
    BY DEF BodiesAreOwn
  <2>1. e \in C /\ components'[e] = id[e] /\ id[e] \in Live'
    BY <1>1, <1>2, <1>4, <1>5
  <2>2. bodies'[components'[e]] = e
    BY <1>4, <2>1
  <2>3. ASSUME NEW f \in Entities', components'[f] = components'[e] PROVE f = e
    <3>1. f \in C
      BY <1>2, <1>5, <2>3
    <3>2. components'[f] = id[f]
      BY <1>4, <3>1
    <3>3. id[f] = id[e]
      BY <2>1, <2>3, <3>2
    <3> QED
      BY <1>1, <2>1, <3>1, <3>3
  <2> QED
    BY <2>1, <2>2, <2>3
<1> QED
  BY <1>8, <1>9, <1>10

LEMMA NewEntityStep ==
  ASSUME Bodied, NEW e \in Entity, NewEntity(e)
  PROVE  Bodied'
<1> USE DEF Bodied
<1>1. /\ Entities' = Entities \union {e} /\ e \notin Entities
      /\ components'[e] = Absent
      /\ \A f \in Entities : components'[f] = components[f]
      /\ components' \in [Entities' -> Body \union {Absent, NoBody}]
  BY DEF NewEntity, Entities, BodiesTyped
<1>2. UNCHANGED <<bodies, used, shared, dropped, stranded, playing, floating, Live>> /\ playing
  BY DEF NewEntity, Live, InRunningWorld, hist
<1>3. BodiesTyped'
  BY <1>1, <1>2, BodyAssumption DEF BodiesTyped, BodiesOf
<1>4. BodiesAreNamed'
  BY <1>1, <1>2 DEF BodiesAreNamed
<1>5. BodiesAreOwn'
  BY <1>1, <1>2, BodyAssumption DEF BodiesAreOwn
<1> QED
  BY <1>3, <1>4, <1>5

LEMMA AddRigidBodyStep ==
  ASSUME Bodied, NEW e \in Entity, AddRigidBody(e)
  PROVE  Bodied'
<1> USE DEF Bodied
<1>1. /\ Entities' = Entities /\ e \in Entities
      /\ components'[e] = NoBody
      /\ \A f \in Entities : f # e => components'[f] = components[f]
      /\ components' \in [Entities' -> Body \union {Absent, NoBody}]
  BY DEF AddRigidBody, Entities, BodiesTyped
<1>2. UNCHANGED <<bodies, used, shared, stranded, playing, floating, Live>> /\ playing
  BY DEF AddRigidBody, Live, InRunningWorld
<1>3. dropped' = dropped \union ({components[e]} \intersect Body)
  BY DEF AddRigidBody, BodiesOf
<1>4. BodiesTyped'
  BY <1>1, <1>2, BodyAssumption DEF BodiesTyped, BodiesOf
<1>5. BodiesAreNamed'
  BY <1>1, <1>2, <1>3 DEF BodiesAreNamed, BodiesTyped
<1>6. BodiesAreOwn'
  BY <1>1, <1>2, BodyAssumption DEF BodiesAreOwn
<1> QED
  BY <1>4, <1>5, <1>6

LEMMA DuplicateStep ==
  ASSUME Bodied, NEW e \in Entity, NEW new \in Entity, Duplicate(e, new)
  PROVE  Bodied'
<1> USE DEF Bodied
<1>1. /\ Entities' = Entities \union {new} /\ new \notin Entities /\ e \in Entities
      /\ components'[new] = components[e]
      /\ \A f \in Entities : components'[f] = components[f]
      /\ components' \in [Entities' -> Body \union {Absent, NoBody}]
  BY DEF Duplicate, Entities, BodiesTyped
<1>2. UNCHANGED <<bodies, used, dropped, stranded, playing, floating, Live>> /\ playing
  BY DEF Duplicate, Live, InRunningWorld
<1>3. shared' = shared \union ({components[e]} \intersect Body)
  BY DEF Duplicate, BodiesOf
<1>4. BodiesTyped'
  BY <1>1, <1>2 DEF BodiesTyped, BodiesOf
<1>5. BodiesAreNamed'
  BY <1>1, <1>2 DEF BodiesAreNamed
<1>6. BodiesAreOwn'
  BY <1>1, <1>2, <1>3 DEF BodiesAreOwn
<1> QED
  BY <1>4, <1>5, <1>6

LEMMA RemoveStep ==
  ASSUME Bodied, NEW e \in Entity, RemoveRigidBody(e)
  PROVE  Bodied'
<1>1. /\ Entities' = Entities /\ e \in Entities
      /\ components'[e] = Absent
      /\ \A f \in Entities : f # e => components'[f] = components[f]
      /\ components' \in [Entities' -> Body \union {Absent, NoBody}]
  BY DEF RemoveRigidBody, Entities, Bodied, BodiesTyped
<1>2. {e} \in SUBSET Entities /\ DestroyBodies({e})
  BY <1>1 DEF RemoveRigidBody
<1>3. UNCHANGED <<used, shared, dropped, stranded, floating>> /\ playing' = TRUE
  BY DEF RemoveRigidBody, InRunningWorld, Bodied, BodiesTyped, hist
<1>4. floating' \subseteq Entities'
  BY <1>1, <1>3 DEF Bodied, BodiesTyped
<1> QED
  BY <1>1, <1>2, <1>3, <1>4, DestroyStep, BodyAssumption

LEMMA DeleteStep ==
  ASSUME Bodied, NEW D \in SUBSET Entity, Delete(D)
  PROVE  Bodied'
<1>1. /\ Entities' = Entities \ D /\ D \in SUBSET Entities
      /\ \A f \in Entities \ D : components'[f] = components[f]
      /\ components' \in [Entities' -> Body \union {Absent, NoBody}]
  BY DEF Delete, Restrict, Entities, Bodied, BodiesTyped
<1>2. /\ UNCHANGED <<used, shared, dropped, stranded>> /\ playing' = TRUE
      /\ DestroyBodies(D) /\ floating' = floating \ D
  BY DEF Delete, InRunningWorld, Bodied, BodiesTyped, hist
<1>3. floating' \subseteq Entities'
  BY <1>1, <1>2 DEF Bodied, BodiesTyped
<1> QED
  BY <1>1, <1>2, <1>3, DestroyStep

\* What destroy_world leaves of the bodies that the components name is stranded.
LEMMA DestroyWorldStep ==
  ASSUME Bodied, DestroyWorld
  PROVE  /\ Reached \in SUBSET Entities /\ DestroyBodies(Reached)
         /\ stranded \subseteq stranded'
         /\ \A e \in Entities \ Reached : components[e] \notin DOMAIN bodies' \ stranded'
<1>1. Reached \in SUBSET Entities /\ DestroyBodies(Reached) /\ stranded \subseteq stranded'
  BY DEF DestroyWorld, Reached
<1>2. DOMAIN bodies' \subseteq Body
  BY <1>1 DEF DestroyBodies, Restrict, Live, Bodied, BodiesTyped
<1>3. ASSUME NEW e \in Entities \ Reached, components[e] \in DOMAIN bodies'
      PROVE  components[e] \in stranded'
  <2>1. components[e] \in BodiesOf(floating)
    BY <1>2, <1>3 DEF Reached, BodiesOf
  <2> QED
    BY <1>3, <2>1 DEF DestroyWorld
<1> QED
  BY <1>1, <1>3

LEMMA LoadStep ==
  ASSUME Bodied, NEW D \in SUBSET Entity, NEW F \in SUBSET Entity, NEW R \in SUBSET Entity,
         Load(D, F, R)
  PROVE  Bodied'
<1>1. /\ Entities' = D
      /\ \A f \in Entities' : components'[f] \in {Absent, NoBody}
      /\ components' \in [Entities' -> Body \union {Absent, NoBody}]
  BY DEF Load, Entities
<1>2. UNCHANGED <<used, shared, dropped>> /\ playing' = TRUE /\ floating' \subseteq Entities'
  BY <1>1 DEF Load, InRunningWorld, Bodied, BodiesTyped
<1>3. DestroyWorld
  BY DEF Load
<1> QED
  BY <1>1, <1>2, <1>3, DestroyWorldStep, DestroyStep, BodyAssumption

LEMMA StopStep ==
  ASSUME Bodied, Stop
  PROVE  Bodied'
<1>1. Entities' = {} /\ components' \in [Entities' -> Body \union {Absent, NoBody}]
  BY DEF Stop, Nothing, Entities
<1>2. /\ UNCHANGED <<used, shared, dropped>> /\ playing' = FALSE /\ DestroyWorld
      /\ floating' = {}
  BY DEF Stop
<1> QED
  BY <1>1, <1>2, DestroyWorldStep, DestroyStep

----------------------------------------------------------------------------
(* Crashes *)

LEMMA DestroyedTwiceStep ==
  ASSUME Bodied, fault = "none", NEW D \in SUBSET Entities, DestroyedTwice(D)
  PROVE  FaultsExplained'
<1>1. shared # {}
  <2>1. CASE \E b \in BodiesOf(D) : b \notin Live
    BY <2>1 DEF BodiesOf, Bodied, BodiesAreOwn
  <2>2. CASE \E e, f \in D : e # f /\ components[e] = components[f] /\ components[e] \in Body
    BY <2>2 DEF Bodied, BodiesAreOwn
  <2> QED
    BY <2>1, <2>2 DEF DestroyedTwice
<1>2. fault' = "destroyed twice" /\ shared' = shared
  BY DEF DestroyedTwice, Fault, hist
<1> QED
  BY <1>1, <1>2 DEF FaultsExplained

LEMMA ContactStep ==
  ASSUME Bodied, ContactWithNobody
  PROVE  FaultsExplained'
<1>1. fault' = "nil" /\ UNCHANGED <<dropped, stranded, opened>>
  BY DEF ContactWithNobody, Fault, hist
<1>2. opened \/ \E b \in Live : bodies[b] \notin Entities
  BY DEF ContactWithNobody
<1>3. opened \/ \E b \in Live : b \in dropped \union stranded
  BY <1>2 DEF Bodied, BodiesAreNamed
<1> QED
  BY <1>1, <1>3 DEF FaultsExplained

LEMMA OutOfBodiesStep ==
  ASSUME Bodied, NEW C \in SUBSET Entity, PlayOutOfBodies(C)
  PROVE  FaultsExplained'
<1>1. fault' = "out of bodies" /\ UNCHANGED <<dropped, stranded>>
  BY DEF PlayOutOfBodies, Fault, hist
<1>2. Live \subseteq dropped \union stranded
  BY DEF PlayOutOfBodies, Bodied, BodiesTyped, BodiesAreNamed
<1>3. Cardinality(C) \in Nat /\ Cardinality(C) <= Cardinality(Entity) /\ Cardinality(Entity) \in Nat
  BY EntityAssumption, FS_Subset, FS_CardinalityType
<1>4. ASSUME dropped \union stranded = {} PROVE FALSE
  <2>1. Cardinality(Live) = 0
    BY <1>2, <1>4, FS_EmptySet
  <2>2. Cardinality(C) + Cardinality(Live) > MaxBodies
    BY DEF PlayOutOfBodies
  <2> QED
    BY <1>3, <2>1, <2>2, LimitAssumption
<1> QED
  BY <1>1, <1>4 DEF FaultsExplained

----------------------------------------------------------------------------

LEMMA NextStep == IInv /\ [Next]_vars => IInv'
<1> SUFFICES ASSUME IInv, [Next]_vars PROVE IInv'
  OBVIOUS
<1>a. Bodied
  BY DEF IInv, Bodied
<1>1. CASE fault = "none" /\ fault' = fault
  <2>1. FaultsExplained'
    BY <1>1 DEF FaultsExplained
  <2>2. ASSUME Next PROVE Bodied'
    <3>1. ASSUME NEW D \in SUBSET Entity, NEW F \in SUBSET Entity, NEW R \in SUBSET Entity,
                 NEW C \in SUBSET Entity, Play(D, F, R, C)
          PROVE  Bodied'
      BY <1>a, <3>1, PlayStep
    <3>2. ASSUME Fault("out of bodies") \/ Fault("destroyed twice") \/ Fault("nil") PROVE FALSE
      BY <1>1, <3>2 DEF Fault
    <3>3. CASE Stop
      BY <1>a, <3>3, StopStep
    <3>4. CASE OpenScene
      <4>1. UNCHANGED <<components, bodies, used, hist, playing, floating>>
        BY <3>4 DEF OpenScene
      <4> QED
        BY <1>a, <4>1, SameBodies DEF Bodied, BodiesTyped
    <3>14. ASSUME NEW D \in SUBSET Entity, DropBelowItself(D) PROVE Bodied'
      <4>1. UNCHANGED <<components, bodies, used, hist, playing>>
        BY <3>14 DEF DropBelowItself
      <4>2. floating' \subseteq Entities
        BY <1>a, <3>14 DEF DropBelowItself, Reached, Bodied, BodiesTyped
      <4> QED
        BY <1>a, <4>1, <4>2, SameBodies
    <3>5. ASSUME NEW e \in Entity, NewEntity(e) PROVE Bodied'
      BY <1>a, <3>5, NewEntityStep
    <3>6. ASSUME NEW e \in Entity, AddRigidBody(e) PROVE Bodied'
      BY <1>a, <3>6, AddRigidBodyStep
    <3>7. ASSUME NEW e \in Entity, RemoveRigidBody(e) PROVE Bodied'
      BY <1>a, <3>7, RemoveStep
    <3>8. ASSUME NEW e \in Entity, NEW new \in Entity, Duplicate(e, new) PROVE Bodied'
      BY <1>a, <3>8, DuplicateStep
    <3>9. ASSUME NEW D \in SUBSET Entity, Delete(D) PROVE Bodied'
      BY <1>a, <3>9, DeleteStep
    <3>10. ASSUME NEW D \in SUBSET Entity, NEW F \in SUBSET Entity, NEW R \in SUBSET Entity,
                  Load(D, F, R)
           PROVE  Bodied'
      BY <1>a, <3>10, LoadStep
    <3>11. ASSUME NEW C \in SUBSET Entity, PlayOutOfBodies(C) PROVE FALSE
      BY <3>2, <3>11 DEF PlayOutOfBodies
    <3>12. CASE DestroyAgain
      BY <3>2, <3>12 DEF DestroyAgain, DestroyedTwice
    <3>13. CASE ContactWithNobody
      BY <3>2, <3>13 DEF ContactWithNobody
    <3> QED
      BY <2>2, <3>1, <3>3, <3>4, <3>5, <3>6, <3>7, <3>8, <3>9, <3>10, <3>11, <3>12, <3>13, <3>14
      DEF Next
  <2>3. ASSUME UNCHANGED vars PROVE Bodied'
    BY <1>a, <2>3, SameBodies DEF vars, Bodied, BodiesTyped
  <2> QED
    BY <2>1, <2>2, <2>3 DEF IInv, Bodied
<1>2. ASSUME fault = "none", fault' # fault PROVE IInv'
  <2>1. UNCHANGED <<components, bodies, used, hist, playing, floating>> /\ FaultsExplained'
    <3>1. ASSUME NEW C \in SUBSET Entity, PlayOutOfBodies(C)
          PROVE  UNCHANGED <<components, bodies, used, hist, playing, floating>>
                 /\ FaultsExplained'
      BY <1>a, <3>1, OutOfBodiesStep DEF PlayOutOfBodies, Fault
    <3>2. CASE DestroyAgain
      <4>1. PICK D \in SUBSET Entities : DestroyedTwice(D)
        BY <3>2 DEF DestroyAgain, Reached
      <4> QED
        BY <1>a, <1>2, <4>1, DestroyedTwiceStep DEF DestroyedTwice, Fault
    <3>3. CASE ContactWithNobody
      BY <1>a, <3>3, ContactStep DEF ContactWithNobody, Fault
    <3> QED
      BY <1>2, <3>1, <3>2, <3>3
      DEF Next, vars, Play, Stop, OpenScene, NewEntity, AddRigidBody, RemoveRigidBody,
          Duplicate, DropBelowItself, Delete, Load
  <2> QED
    BY <1>a, <2>1, SameBodies DEF IInv, Bodied, BodiesTyped
<1>3. CASE fault # "none"
  <2>1. UNCHANGED vars
    BY <1>3 DEF Next
  <2>2. FaultsExplained'
    BY <2>1 DEF vars, hist, IInv, FaultsExplained
  <2> QED
    BY <1>a, <2>1, <2>2, SameBodies DEF vars, IInv, Bodied, BodiesTyped
<1> QED
  BY <1>1, <1>2, <1>3

LEMMA InitInv == Init => IInv
<1> SUFFICES ASSUME Init PROVE IInv
  OBVIOUS
<1>1. DOMAIN Nothing = {} /\ Nothing \in [{} -> Body \union {Absent, NoBody}]
      /\ Nothing \in [{} -> Entity]
  BY DEF Nothing
<1> QED
  BY <1>1 DEF Init, IInv, BodiesTyped, BodiesAreNamed, BodiesAreOwn, FaultsExplained,
              Entities, Live, BodiesOf

LEMMA Invariant == Spec => []IInv
BY InitInv, NextStep, PTL DEF Spec

\* Init, update and destroy of a rigid body act on the body of their own entity,
\* as long as the component is not a copy.
THEOREM OwnBodies == Spec => []BodiesBelongToTheirEntities
<1>1. IInv => BodiesBelongToTheirEntities
  BY DEF IInv, BodiesAreOwn, FaultsExplained, BodiesBelongToTheirEntities
<1> QED
  BY <1>1, Invariant, PTL

\* The contact callbacks find the entities of the running world, but for bodies whose
\* component was overwritten or whose entity hung below itself when its world went.
THEOREM CallbacksFindEntities == Spec => []ContactsFindTheirEntities
<1>1. IInv => ContactsFindTheirEntities
  BY DEF IInv, BodiesAreNamed, FaultsExplained, ContactsFindTheirEntities
<1> QED
  BY <1>1, Invariant, PTL

\* The physics system holds nothing after Stop, run after run, but bodies whose component
\* was overwritten and bodies of entities that hung below themselves.
THEOREM StopEmptiesPhysics == Spec => []EditHasNoBodies
<1>1. IInv => EditHasNoBodies
  BY DEF IInv, BodiesTyped, BodiesAreNamed, FaultsExplained, EditHasNoBodies
<1> QED
  BY <1>1, Invariant, PTL
=============================================================================
