------------------------------ MODULE SceneTree ------------------------------
(***************************************************************************)
(* What the scene graph promises its callers, in terms of parent links     *)
(* alone: entities are made under a living entity, moved under a living    *)
(* entity, and die together with everything below them.  Children lists,   *)
(* local ids and the recursion of delete_object do not appear.             *)
(***************************************************************************)
CONSTANTS Entity, Root

VARIABLES
  live,   \* the entities of the world, the root excluded
  up      \* the parent of each of them

vars == <<live, up>>

Init == live = {} /\ up = [x \in {} |-> Root]

\* Everything whose parent links lead to x.
Below(x) ==
  {y \in live : \A S \in SUBSET live :
                  x \in S /\ (\A z \in live : up[z] \in S => z \in S) => y \in S}

Create(x, p) ==
  /\ x \in Entity \ live
  /\ p \in live \union {Root}
  /\ live' = live \union {x}
  /\ up' = [y \in live' |-> IF y = x THEN p ELSE up[y]]

Move(x, p) ==
  /\ x \in live
  /\ p \in (live \union {Root}) \ {x}
  /\ live' = live
  /\ up' = [up EXCEPT ![x] = p]

Destroy(x) ==
  /\ x \in live
  /\ live' = live \ Below(x)
  /\ up' = [y \in live' |-> up[y]]

\* Another scene takes the place of this one.
Replace(E, f) ==
  /\ live' = E
  /\ up' = f

Next ==
  \/ \E x \in Entity, p \in Entity \union {Root} : Create(x, p) \/ Move(x, p)
  \/ \E x \in Entity : Destroy(x)
  \/ \E E \in SUBSET Entity : \E f \in [E -> E \union {Root}] : Replace(E, f)

Spec == Init /\ [][Next]_vars
=============================================================================
