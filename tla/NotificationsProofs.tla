------------------------- MODULE NotificationsProofs -------------------------
(***************************************************************************)
(* The limit on notifications is kept by any number of threads that never  *)
(* pass the check together, and no notification is lost as long as no      *)
(* append overlaps with a removal.                                         *)
(***************************************************************************)
EXTENDS Notifications, FiniteSetTheorems, TLAPS

LengthsTyped ==
  /\ length \in Nat /\ seen \in [Thread -> Nat]
  /\ doing \in [Thread -> {"idle", "waiting", "appending", "removing"}]
  /\ doing[Main] = "removing" => seen[Main] > 0

\* One thread at most is past the check, and what it has seen leaves room.
OneAtATime ==
  /\ length <= MAX_NOTIFICATIONS
  /\ \A t, u \in Thread : Pushing(t) /\ Pushing(u) => t = u
  /\ \A t \in Thread : doing[t] = "waiting" => length < MAX_NOTIFICATIONS
  /\ \A t \in Thread : doing[t] = "appending" => seen[t] < MAX_NOTIFICATIONS
  /\ doing[Main] = "removing" => seen[Main] <= MAX_NOTIFICATIONS

IInv == LengthsTyped /\ (crowded \/ OneAtATime)

LEMMA NextTyped == LengthsTyped /\ [Next]_vars => LengthsTyped'
<1> SUFFICES ASSUME LengthsTyped, [Next]_vars PROVE LengthsTyped'
  OBVIOUS
<1> USE DEF LengthsTyped
<1>1. ASSUME NEW t \in Thread, Push(t) PROVE LengthsTyped'
  BY <1>1, MainAssumption DEF Push
<1>2. ASSUME NEW t \in Thread, AppendLocked(t) PROVE LengthsTyped'
  BY <1>2, MainAssumption DEF AppendLocked
<1>3. ASSUME NEW t \in Thread, Appended(t) PROVE LengthsTyped'
  BY <1>3, MainAssumption DEF Appended
<1>4. ASSUME NEW i \in Message, Close(i) PROVE LengthsTyped'
  BY <1>4, MainAssumption DEF Close, Message
<1>5. CASE Removed
  BY <1>5, MainAssumption DEF Removed
<1>6. CASE UNCHANGED vars
  BY <1>6 DEF vars
<1> QED
  BY <1>1, <1>2, <1>3, <1>4, <1>5, <1>6 DEF Next

LEMMA NextOneAtATime ==
  LengthsTyped /\ (crowded \/ OneAtATime) /\ [Next]_vars => crowded' \/ OneAtATime'
<1> SUFFICES ASSUME LengthsTyped, crowded \/ OneAtATime, [Next]_vars
             PROVE  crowded' \/ OneAtATime'
  OBVIOUS
<1>1. ASSUME crowded PROVE crowded'
  BY <1>1, Zenon
  DEF Next, Push, AppendLocked, Appended, Close, Removed, vars
<1> SUFFICES ASSUME OneAtATime PROVE crowded' \/ OneAtATime'
  BY <1>1
<1>2. ASSUME NEW t \in Thread, Push(t) PROVE crowded' \/ OneAtATime'
  <2>1. CASE \E u \in Thread : Pushing(u)
    BY <1>2, <2>1, Zenon DEF Push
  <2>2. CASE \A u \in Thread : ~Pushing(u)
    <3>1. doing' = [doing EXCEPT ![t] = "waiting"] /\ length' = length /\ seen' = seen
      BY <1>2 DEF Push
    <3>2. length < MAX_NOTIFICATIONS
      BY <1>2, LimitAssumption DEF Push, OneAtATime, LengthsTyped
    <3> QED
      BY <2>2, <3>1, <3>2, MainAssumption, LimitAssumption DEF OneAtATime, LengthsTyped, Pushing
  <2> QED
    BY <2>1, <2>2
<1>3. ASSUME NEW t \in Thread, AppendLocked(t) PROVE OneAtATime'
  BY <1>3, MainAssumption, LimitAssumption DEF AppendLocked, OneAtATime, LengthsTyped, Pushing
<1>4. ASSUME NEW t \in Thread, Appended(t) PROVE OneAtATime'
  BY <1>4, MainAssumption, LimitAssumption DEF Appended, OneAtATime, LengthsTyped, Pushing
<1>5. ASSUME NEW i \in Message, Close(i) PROVE OneAtATime'
  BY <1>5, MainAssumption, LimitAssumption DEF Close, OneAtATime, LengthsTyped, Pushing
<1>6. CASE Removed
  BY <1>6, MainAssumption, LimitAssumption DEF Removed, OneAtATime, LengthsTyped, Pushing
<1>7. CASE UNCHANGED vars
  BY <1>7 DEF vars, OneAtATime, Pushing
<1> QED
  BY <1>2, <1>3, <1>4, <1>5, <1>6, <1>7 DEF Next

\* A single thread never exceeds the limit, and neither do several, however many,
\* as long as no two of them are between the check and the append together.
THEOREM LimitHoldsInTurns == Spec => []LimitNeedsOverlap
<1>1. Init => IInv
  BY MainAssumption, LimitAssumption DEF Init, IInv, LengthsTyped, OneAtATime, Pushing
<1>2. IInv /\ [Next]_vars => IInv'
  BY NextTyped, NextOneAtATime DEF IInv
<1>3. IInv => LimitNeedsOverlap
  BY LimitAssumption DEF IInv, LengthsTyped, OneAtATime, LimitNeedsOverlap
<1> QED
  BY <1>1, <1>2, <1>3, PTL DEF Spec
----------------------------------------------------------------------------
(* The places of the messages *)

\* What is shown; during a removal the last element is shown no more.
Kept == IF doing[Main] = "removing" THEN length - 1 ELSE length

\* A thread has a message while it pushes it, and appends under the mutex.
ThreadsTyped ==
  /\ pushes \in 0..MaxPushes /\ message \in [Thread -> 0..pushes]
  /\ \A t \in Thread : message[t] # Free <=> Pushing(t)
  /\ \A t, u \in Thread : message[t] = message[u] /\ message[t] # Free => t = u
  /\ \A t \in Thread : doing[t] = "appending" => holder = t
  /\ DOMAIN memory = Message

\* What an append or a removal has read is still the length.
SeenIsCurrent ==
  /\ \A t \in Thread : doing[t] = "appending" => seen[t] = length /\ doing[Main] # "removing"
  /\ doing[Main] = "removing" => seen[Main] = length /\ length > 0

\* Each place has a message of its own, made and neither closed nor on its way.
PlacesAreOwn ==
  /\ \A i, j \in 1..Kept : memory[i] = memory[j] => i = j
  /\ \A i \in 1..Kept : /\ memory[i] \in (1..pushes) \ closed
                        /\ \A t \in Thread : message[t] # memory[i]

\* Each message made is closed, on its way, or in a place.
NothingIsLost ==
  \A m \in 1..pushes :
    m \in closed \/ (\E t \in Thread : message[t] = m) \/ (\E i \in 1..Kept : memory[i] = m)

\* No message on its way is closed already.
ClosedWereShown ==
  closed \subseteq 1..pushes /\ \A t \in Thread : message[t] \notin closed

Orderly == SeenIsCurrent /\ PlacesAreOwn /\ NothingIsLost /\ ClosedWereShown

PlaceInv == LengthsTyped /\ ThreadsTyped /\ (~collided => Orderly)

LEMMA NextThreads == LengthsTyped /\ ThreadsTyped /\ [Next]_vars => ThreadsTyped'
<1> SUFFICES ASSUME LengthsTyped, ThreadsTyped, [Next]_vars PROVE ThreadsTyped'
  OBVIOUS
<1> USE LimitAssumption, MainAssumption, ThreadAssumption DEF Free
<1>1. ASSUME NEW t \in Thread, Push(t) PROVE ThreadsTyped'
  BY <1>1 DEF Push, ThreadsTyped, LengthsTyped, Pushing
<1>2. ASSUME NEW t \in Thread, AppendLocked(t) PROVE ThreadsTyped'
  BY <1>2 DEF AppendLocked, ThreadsTyped, LengthsTyped, Pushing
<1>3. ASSUME NEW t \in Thread, Appended(t) PROVE ThreadsTyped'
  BY <1>3 DEF Appended, ThreadsTyped, LengthsTyped, Pushing
<1>4. ASSUME NEW i \in Message, Close(i) PROVE ThreadsTyped'
  BY <1>4 DEF Close, ThreadsTyped, LengthsTyped, Pushing
<1>5. CASE Removed
  BY <1>5 DEF Removed, ThreadsTyped, LengthsTyped, Pushing
<1>6. CASE UNCHANGED vars
  BY <1>6 DEF vars, ThreadsTyped, Pushing
<1> QED
  BY <1>1, <1>2, <1>3, <1>4, <1>5, <1>6 DEF Next

\* A message on its way leaves room for itself in the array.
LEMMA RoomForOneMore ==
  ASSUME LengthsTyped, ThreadsTyped, PlacesAreOwn, doing[Main] # "removing",
         NEW t \in Thread, Pushing(t)
  PROVE  length + 1 \in Message
<1> DEFINE other == (1..pushes) \ {message[t]}
           place == [i \in 1..length |-> memory[i]]
<1>1. message[t] \in 1..pushes /\ pushes \in Nat /\ length \in Nat /\ pushes <= MaxPushes
  BY LimitAssumption DEF ThreadsTyped, LengthsTyped, Free
<1>2. IsFiniteSet(1..pushes) /\ Cardinality(1..pushes) = pushes
  BY <1>1, FS_Interval
<1>3. IsFiniteSet(other) /\ Cardinality(other) = pushes - 1
  BY <1>1, <1>2, FS_RemoveElement
<1>4. place \in Injection(1..length, other)
  BY <1>1 DEF PlacesAreOwn, Kept, Injection, IsInjective
<1>5. Cardinality(1..length) <= pushes - 1
  BY <1>3, <1>4, FS_Injection
<1>6. Cardinality(1..length) = length
  BY <1>1, FS_Interval
<1> QED
  BY <1>1, <1>5, <1>6, LimitAssumption DEF Message

LEMMA PushPlaces ==
  ASSUME LengthsTyped, ThreadsTyped, Orderly, NEW t \in Thread, Push(t)
  PROVE  Orderly'
<1> USE LimitAssumption, MainAssumption DEF Free
<1>1. /\ pushes' = pushes + 1 /\ pushes \in Nat
      /\ message' = [message EXCEPT ![t] = pushes + 1] /\ doing[t] = "idle"
      /\ doing' = [doing EXCEPT ![t] = "waiting"]
      /\ UNCHANGED <<memory, length, seen, closed>>
  BY DEF Push, ThreadsTyped
<1>2. Kept' = Kept /\ Kept \in Int
  BY <1>1 DEF Kept, LengthsTyped
<1>3. message[t] = Free
  BY <1>1 DEF ThreadsTyped, Pushing
<1>4. SeenIsCurrent'
  BY <1>1 DEF Orderly, SeenIsCurrent, LengthsTyped
<1>5. PlacesAreOwn'
  BY <1>1, <1>2 DEF Orderly, PlacesAreOwn, ThreadsTyped
<1>6. NothingIsLost'
  <2> SUFFICES ASSUME NEW m \in 1..pushes'
               PROVE  \/ m \in closed' \/ (\E u \in Thread : message'[u] = m)
                      \/ (\E i \in 1..Kept' : memory'[i] = m)
    BY DEF NothingIsLost
  <2>1. CASE m = pushes + 1
    BY <2>1, <1>1 DEF ThreadsTyped
  <2>2. CASE m \in 1..pushes
    <3>1. CASE \E u \in Thread : message[u] = m
      <4>1. PICK u \in Thread : message[u] = m
        BY <3>1
      <4>2. u # t
        BY <4>1, <1>3, <2>2, <1>1
      <4> QED
        BY <4>1, <4>2, <1>1 DEF ThreadsTyped
    <3> QED
      BY <2>2, <3>1, <1>1, <1>2 DEF Orderly, NothingIsLost
  <2> QED
    BY <1>1, <2>1, <2>2
<1>7. ClosedWereShown'
  BY <1>1 DEF Orderly, ClosedWereShown, ThreadsTyped
<1> QED
  BY <1>4, <1>5, <1>6, <1>7 DEF Orderly

LEMMA AppendedPlaces ==
  ASSUME LengthsTyped, ThreadsTyped, Orderly, NEW t \in Thread, Appended(t)
  PROVE  Orderly'
<1> USE LimitAssumption, MainAssumption DEF Free
<1>1. /\ doing[t] = "appending" /\ doing[Main] # "removing" /\ seen[t] = length
      /\ message' = [message EXCEPT ![t] = 0]
      /\ doing' = [doing EXCEPT ![t] = "idle"]
      /\ UNCHANGED <<pushes, closed, seen>>
  BY DEF Appended, Orderly, SeenIsCurrent
<1>2. length + 1 \in Message
  BY <1>1, RoomForOneMore DEF Orderly, Pushing
<1>3. length' = length + 1 /\ length \in Nat /\ length \in Int
  BY <1>1 DEF Appended, LengthsTyped
<1>4. /\ memory'[length + 1] = message[t]
      /\ \A i \in 1..length : memory'[i] = memory[i]
  BY <1>1, <1>2, <1>3 DEF Appended, ThreadsTyped, Message
<1>5. Kept = length /\ Kept' = length + 1
  BY <1>1, <1>3 DEF Kept, LengthsTyped
<1>6. /\ message[t] \in (1..pushes) \ closed
      /\ message'[t] = 0
      /\ \A u \in Thread : u # t => message'[u] = message[u] /\ message[u] # message[t]
  BY <1>1 DEF ThreadsTyped, Pushing, Orderly, ClosedWereShown
<1>7. SeenIsCurrent'
  <2>1. \A u \in Thread : doing'[u] # "appending"
    BY <1>1 DEF ThreadsTyped, LengthsTyped
  <2>2. doing'[Main] # "removing"
    BY <1>1 DEF LengthsTyped
  <2> QED
    BY <2>1, <2>2 DEF SeenIsCurrent
<1>8. PlacesAreOwn'
  <2>1. \A i \in 1..length : /\ memory[i] \in (1..pushes) \ closed
                             /\ \A u \in Thread : message[u] # memory[i]
    BY <1>5 DEF Orderly, PlacesAreOwn
  <2>2. \A i, j \in 1..length : memory[i] = memory[j] => i = j
    BY <1>5 DEF Orderly, PlacesAreOwn
  <2>3. \A i \in 1..(length + 1) : i \in 1..length \/ i = length + 1
    BY <1>3
  <2>4. \A i, j \in 1..Kept' : memory'[i] = memory'[j] => i = j
    BY <1>4, <1>5, <2>1, <2>2, <2>3
  <2>5. \A i \in 1..Kept' : memory'[i] \in (1..pushes) \ closed
    BY <1>4, <1>5, <1>6, <2>1, <2>3
  <2>6. ASSUME NEW i \in 1..Kept', NEW u \in Thread PROVE message'[u] # memory'[i]
    <3>1. CASE u = t
      BY <3>1, <1>6, <2>5
    <3>2. CASE u # t
      BY <3>2, <1>4, <1>5, <1>6, <2>1, <2>3
    <3> QED
      BY <3>1, <3>2
  <2> QED
    BY <2>4, <2>5, <2>6, <1>1 DEF PlacesAreOwn
<1>9. NothingIsLost'
  <2> SUFFICES ASSUME NEW m \in 1..pushes
               PROVE  \/ m \in closed \/ (\E u \in Thread : message'[u] = m)
                      \/ (\E i \in 1..Kept' : memory'[i] = m)
    BY <1>1 DEF NothingIsLost
  <2>1. CASE m = message[t]
    <3>1. length + 1 \in 1..Kept'
      BY <1>3, <1>5
    <3> QED
      BY <2>1, <3>1, <1>4
  <2>2. CASE m # message[t] /\ \E u \in Thread : message[u] = m
    BY <2>2, <1>6
  <2>3. CASE \E i \in 1..Kept : memory[i] = m
    <3>1. PICK i \in 1..length : memory[i] = m
      BY <2>3, <1>5
    <3>2. i \in 1..Kept'
      BY <1>3, <1>5
    <3> QED
      BY <3>1, <3>2, <1>4
  <2> QED
    BY <2>1, <2>2, <2>3 DEF Orderly, NothingIsLost
<1>10. ClosedWereShown'
  <2>1. closed \subseteq 1..pushes
    BY DEF Orderly, ClosedWereShown
  <2>2. ASSUME NEW u \in Thread PROVE message'[u] \notin closed
    <3>1. CASE u = t
      BY <3>1, <2>1, <1>6
    <3>2. CASE u # t
      BY <3>2, <1>6 DEF Orderly, ClosedWereShown
    <3> QED
      BY <3>1, <3>2
  <2> QED
    BY <2>1, <2>2, <1>1 DEF ClosedWereShown
<1> QED
  BY <1>7, <1>8, <1>9, <1>10 DEF Orderly

LEMMA ClosePlaces ==
  ASSUME LengthsTyped, ThreadsTyped, Orderly, NEW k \in Message, Close(k), ~collided'
  PROVE  Orderly'
<1> USE LimitAssumption, MainAssumption DEF Free
<1>1. /\ doing[Main] = "idle" /\ k \in 1..length
      /\ doing' = [doing EXCEPT ![Main] = "removing"]
      /\ closed' = closed \union {memory[k]}
      /\ seen' = [seen EXCEPT ![Main] = length]
      /\ \A u \in Thread : doing[u] # "appending"
      /\ UNCHANGED <<length, message, pushes>>
  BY DEF Close
<1>2. length \in Nat /\ length > 0 /\ length \in Int
  BY <1>1 DEF LengthsTyped
<1>3. doing'[Main] = "removing" /\ seen'[Main] = length
  BY <1>1 DEF LengthsTyped
<1>4. Kept = length /\ Kept' = length - 1
  BY <1>1, <1>3 DEF Kept
<1>5. \A i \in 1..length : /\ memory[i] \in (1..pushes) \ closed
                           /\ \A u \in Thread : message[u] # memory[i]
  BY <1>4 DEF Orderly, PlacesAreOwn
<1>6. \A i, j \in 1..length : memory[i] = memory[j] => i = j
  BY <1>4 DEF Orderly, PlacesAreOwn
<1>7. length <= MaxPushes
  <2> DEFINE place == [i \in 1..length |-> memory[i]]
  <2>1. place \in Injection(1..length, 1..pushes)
    BY <1>5, <1>6 DEF Injection, IsInjective
  <2>2. pushes \in Nat /\ pushes <= MaxPushes
    BY DEF ThreadsTyped
  <2>3. IsFiniteSet(1..pushes) /\ Cardinality(1..pushes) = pushes
    BY <2>2, FS_Interval
  <2>4. Cardinality(1..length) <= pushes
    BY <2>1, <2>3, FS_Injection
  <2>5. Cardinality(1..length) = length
    BY <1>2, FS_Interval
  <2> QED
    BY <2>2, <2>4, <2>5, <1>2
<1>8. \A j \in 1..(length - 1) :
        memory'[j] = IF j < k THEN memory[j] ELSE memory[j + 1]
  <2>1. \A j \in 1..(length - 1) : j \in Message
    BY <1>2, <1>7 DEF Message
  <2>2. \A j \in Message :
          memory'[j] = IF j \in k..(length - 1) THEN memory[j + 1] ELSE memory[j]
    BY DEF Close
  <2> QED
    BY <1>1, <1>2, <2>1, <2>2
<1> DEFINE From(j) == IF j < k THEN j ELSE j + 1
<1>9. \A j \in 1..(length - 1) :
        memory'[j] = memory[From(j)] /\ From(j) \in 1..length /\ From(j) # k
  BY <1>1, <1>2, <1>8
<1>10. SeenIsCurrent'
  <2>1. \A u \in Thread : doing'[u] # "appending"
    BY <1>1 DEF LengthsTyped
  <2> QED
    BY <2>1, <1>1, <1>2, <1>3 DEF SeenIsCurrent
<1>11. PlacesAreOwn'
  <2>1. ASSUME NEW i \in 1..(length - 1), NEW j \in 1..(length - 1), memory'[i] = memory'[j]
        PROVE  i = j
    <3>1. From(i) = From(j)
      BY <2>1, <1>6, <1>9
    <3> QED
      BY <3>1, <1>1, <1>2
  <2>2. ASSUME NEW i \in 1..(length - 1)
        PROVE  /\ memory'[i] \in (1..pushes') \ closed'
               /\ \A u \in Thread : message'[u] # memory'[i]
    <3>1. memory[From(i)] # memory[k]
      BY <1>1, <1>6, <1>9
    <3>2. memory'[i] = memory[From(i)] /\ From(i) \in 1..length
      BY <1>9
    <3> HIDE DEF From
    <3> QED
      BY <3>1, <3>2, <1>1, <1>5
  <2> QED
    BY <2>1, <2>2, <1>4 DEF PlacesAreOwn
<1>12. NothingIsLost'
  <2> SUFFICES ASSUME NEW m \in 1..pushes
               PROVE  \/ m \in closed' \/ (\E u \in Thread : message[u] = m)
                      \/ (\E i \in 1..(length - 1) : memory'[i] = m)
    BY <1>1, <1>4 DEF NothingIsLost
  <2>1. CASE \E i \in 1..length : memory[i] = m
    <3>1. PICK i \in 1..length : memory[i] = m
      BY <2>1
    <3>2. CASE i = k
      BY <3>1, <3>2, <1>1
    <3>3. CASE i < k
      <4>1. i \in 1..(length - 1) /\ memory'[i] = memory[i]
        BY <3>3, <1>1, <1>2, <1>8
      <4> QED
        BY <4>1, <3>1
    <3>4. CASE i > k
      <4>1. (i - 1) \in 1..(length - 1) /\ memory'[i - 1] = memory[i]
        BY <3>4, <1>1, <1>2, <1>8
      <4> QED
        BY <4>1, <3>1
    <3> QED
      BY <3>2, <3>3, <3>4, <1>1, <1>2
  <2> QED
    BY <2>1, <1>1, <1>4 DEF Orderly, NothingIsLost
<1>13. ClosedWereShown'
  BY <1>1, <1>5 DEF Orderly, ClosedWereShown
<1> QED
  BY <1>10, <1>11, <1>12, <1>13 DEF Orderly

LEMMA NextOrderly ==
  ASSUME PlaceInv, [Next]_vars, ~collided'
  PROVE  Orderly'
<1>1. LengthsTyped /\ ThreadsTyped
  BY DEF PlaceInv
<1>2. ~collided
  BY Zenon DEF Next, Push, AppendLocked, Appended, Close, Removed, vars
<1>3. Orderly
  BY <1>2 DEF PlaceInv
<1>4. ASSUME NEW t \in Thread, Push(t) PROVE Orderly'
  BY <1>1, <1>3, <1>4, PushPlaces
<1>5. ASSUME NEW t \in Thread, AppendLocked(t) PROVE Orderly'
  <2>1. /\ doing' = [doing EXCEPT ![t] = "appending"] /\ doing[t] = "waiting"
        /\ doing[Main] # "removing" /\ seen' = [seen EXCEPT ![t] = length]
        /\ holder = Free
        /\ UNCHANGED <<memory, length, message, pushes, closed>>
    BY <1>5 DEF AppendLocked
  <2>2. doing'[Main] # "removing" /\ Kept' = Kept
    BY <2>1, <1>1, MainAssumption DEF LengthsTyped, Kept
  <2>3. SeenIsCurrent'
    BY <2>1, <2>2, <1>1, ThreadAssumption DEF SeenIsCurrent, LengthsTyped, ThreadsTyped
  <2>4. PlacesAreOwn' /\ NothingIsLost' /\ ClosedWereShown'
    BY <2>1, <2>2, <1>3 DEF Orderly, PlacesAreOwn, NothingIsLost, ClosedWereShown
  <2> QED
    BY <2>3, <2>4 DEF Orderly
<1>6. ASSUME NEW t \in Thread, Appended(t) PROVE Orderly'
  BY <1>1, <1>3, <1>6, AppendedPlaces
<1>7. ASSUME NEW i \in Message, Close(i) PROVE Orderly'
  BY <1>1, <1>3, <1>7, ClosePlaces
<1>8. CASE Removed
  <2>1. /\ doing[Main] = "removing" /\ doing' = [doing EXCEPT ![Main] = "idle"]
        /\ length' = length - 1 /\ length \in Nat /\ length > 0
        /\ UNCHANGED <<memory, message, seen, pushes, closed>>
    BY <1>8, <1>1, <1>3 DEF Removed, Orderly, SeenIsCurrent, LengthsTyped
  <2>2. doing'[Main] = "idle" /\ Kept' = Kept
    BY <2>1, <1>1, MainAssumption DEF LengthsTyped, Kept
  <2>3. SeenIsCurrent'
    BY <2>1, <2>2, <1>1, <1>3, MainAssumption DEF Orderly, SeenIsCurrent, LengthsTyped
  <2>4. PlacesAreOwn' /\ NothingIsLost' /\ ClosedWereShown'
    BY <2>1, <2>2, <1>3 DEF Orderly, PlacesAreOwn, NothingIsLost, ClosedWereShown
  <2> QED
    BY <2>3, <2>4 DEF Orderly
<1>9. CASE UNCHANGED vars
  BY <1>3, <1>9
  DEF vars, Orderly, SeenIsCurrent, PlacesAreOwn, NothingIsLost, ClosedWereShown, Kept
<1> QED
  BY <1>4, <1>5, <1>6, <1>7, <1>8, <1>9 DEF Next

\* The mutex is enough for the threads that push, whatever they do to each other: as
\* long as no append has overlapped with a removal, each message is shown once,
\* closed, or on its way.
THEOREM NothingGetsLost == Spec => []EachMessageHasItsPlace
<1>1. Init => PlaceInv
  <2> SUFFICES ASSUME Init PROVE PlaceInv
    OBVIOUS
  <2>1. LengthsTyped /\ Kept = 0 /\ pushes = 0 /\ message = [t \in Thread |-> 0]
    BY MainAssumption DEF Init, LengthsTyped, Kept, Free
  <2>2. ThreadsTyped
    BY <2>1, LimitAssumption DEF Init, ThreadsTyped, Pushing, Free
  <2>3. Orderly
    BY <2>1, MainAssumption
    DEF Init, Orderly, SeenIsCurrent, PlacesAreOwn, NothingIsLost, ClosedWereShown
  <2> QED
    BY <2>1, <2>2, <2>3 DEF PlaceInv
<1>2. PlaceInv /\ [Next]_vars => PlaceInv'
  BY NextTyped, NextThreads, NextOrderly DEF PlaceInv
<1>3. PlaceInv => EachMessageHasItsPlace
  <2> SUFFICES ASSUME PlaceInv, ~collided, doing[Main] # "removing"
               PROVE  /\ \A i, j \in 1..length : memory[i] = memory[j] => i = j
                      /\ {memory[i] : i \in 1..length} =
                           ((1..pushes) \ closed) \ {message[t] : t \in Thread}
    BY DEF EachMessageHasItsPlace
  <2>1. Orderly /\ Kept = length
    BY DEF PlaceInv, Kept
  <2> QED
    BY <2>1 DEF Orderly, PlacesAreOwn, NothingIsLost
<1> QED
  BY <1>1, <1>2, <1>3, PTL DEF Spec
=============================================================================
