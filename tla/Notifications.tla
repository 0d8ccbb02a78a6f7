---------------------------- MODULE Notifications ----------------------------
(***************************************************************************)
(* The editor's notifications: a dynamic array to which the main thread    *)
(* and the watchers' threads append under notification_mutex, and which    *)
(* the main thread draws and shortens without it.  The length is compared  *)
(* with the limit before the mutex is taken.  An append and a removal read *)
(* the length, move elements, and write the length.                        *)
(***************************************************************************)
EXTENDS Naturals, Sequences

CONSTANTS
  Thread,            \* threads that push notifications
  Main,              \* the one of them that draws
  MAX_NOTIFICATIONS, \* 10 in the code
  MaxPushes          \* bound of the model

ASSUME MainAssumption == Main \in Thread
ASSUME LimitAssumption == MAX_NOTIFICATIONS \in Nat \ {0} /\ MaxPushes \in Nat

Message == 1..MaxPushes
Free == 0

ASSUME ThreadAssumption == Free \notin Thread

VARIABLES
  memory,    \* the elements of e.notifications; Free beyond what was written
  length,    \* len(e.notifications)
  doing,     \* what each thread is doing
  message,   \* the message that each thread pushes
  seen,      \* the length that each thread has read
  holder,    \* who holds notification_mutex; Free if nobody does
  pushes,    \* number of messages made
  closed,    \* messages that were deleted
  crowded,   \* history: two threads have been past the limit at once
  collided   \* history: an append and a removal have overlapped

vars == <<memory, length, doing, message, seen, holder, pushes, closed, crowded, collided>>

Init ==
  /\ memory = [i \in Message |-> Free] /\ length = 0
  /\ doing = [t \in Thread |-> "idle"]
  /\ message = [t \in Thread |-> Free] /\ seen = [t \in Thread |-> 0]
  /\ holder = Free /\ pushes = 0 /\ closed = {}
  /\ crowded = FALSE /\ collided = FALSE

----------------------------------------------------------------------------
(* editor_push_notification *)

Pushing(t) == doing[t] \in {"waiting", "appending"}

\* Planted bug: the limit is not looked at.
PushUnlimited(t) ==
  /\ doing[t] = "idle" /\ pushes < MaxPushes
  /\ doing' = [doing EXCEPT ![t] = "waiting"]
  /\ message' = [message EXCEPT ![t] = pushes + 1]
  /\ pushes' = pushes + 1
  /\ crowded' = (crowded \/ \E u \in Thread : Pushing(u))
  /\ UNCHANGED <<memory, length, seen, holder, closed, collided>>

\* The limit is checked and the message cloned; at the limit it is dropped.
Push(t) ==
  /\ doing[t] = "idle" /\ pushes < MaxPushes
  /\ length # MAX_NOTIFICATIONS
  /\ doing' = [doing EXCEPT ![t] = "waiting"]
  /\ message' = [message EXCEPT ![t] = pushes + 1]
  /\ pushes' = pushes + 1
  /\ crowded' = (crowded \/ \E u \in Thread : Pushing(u))
  /\ UNCHANGED <<memory, length, seen, holder, closed, collided>>

\* Planted bug: the append does not take the mutex.
AppendUnlocked(t) ==
  /\ doing[t] = "waiting"
  /\ holder' = t
  /\ doing' = [doing EXCEPT ![t] = "appending"]
  /\ seen' = [seen EXCEPT ![t] = length]
  /\ collided' = (collided \/ doing[Main] = "removing")
  /\ UNCHANGED <<memory, length, message, pushes, closed, crowded>>

AppendLocked(t) ==
  /\ doing[t] = "waiting" /\ holder = Free
  /\ holder' = t
  /\ doing' = [doing EXCEPT ![t] = "appending"]
  /\ seen' = [seen EXCEPT ![t] = length]
  /\ collided' = (collided \/ doing[Main] = "removing")
  /\ UNCHANGED <<memory, length, message, pushes, closed, crowded>>

Appended(t) ==
  /\ doing[t] = "appending"
  /\ memory' = [memory EXCEPT ![seen[t] + 1] = message[t]]
  /\ length' = seen[t] + 1
  /\ doing' = [doing EXCEPT ![t] = "idle"] /\ message' = [message EXCEPT ![t] = Free]
  /\ holder' = Free
  /\ UNCHANGED <<seen, pushes, closed, crowded, collided>>

----------------------------------------------------------------------------
(* editor_render_notifications: a click closes one notification of a frame *)

\* The message of the closed notification is deleted, ordered_remove begins.
Close(i) ==
  /\ doing[Main] = "idle" /\ i \in 1..length
  /\ doing' = [doing EXCEPT ![Main] = "removing"]
  /\ closed' = closed \union {memory[i]}
  /\ seen' = [seen EXCEPT ![Main] = length]
  /\ memory' = [j \in Message |->
                  IF j \in i..(length - 1) THEN memory[j + 1] ELSE memory[j]]
  /\ collided' = (collided \/ \E t \in Thread : doing[t] = "appending")
  /\ UNCHANGED <<length, message, holder, pushes, crowded>>

Removed ==
  /\ doing[Main] = "removing"
  /\ length' = seen[Main] - 1
  /\ doing' = [doing EXCEPT ![Main] = "idle"]
  /\ UNCHANGED <<memory, message, seen, holder, pushes, closed, crowded, collided>>

Next ==
  \/ \E t \in Thread : Push(t) \/ AppendLocked(t) \/ Appended(t)
  \/ \E i \in Message : Close(i)
  \/ Removed

Spec == Init /\ [][Next]_vars

----------------------------------------------------------------------------
(* Properties *)

\* There are more notifications than the limit allows only after two threads were
\* between the check and the append at the same time: the check before the mutex
\* is enough for one thread, and for several as long as they take turns.
LimitNeedsOverlap == length > MAX_NOTIFICATIONS => crowded

\* As long as no append has overlapped with a removal, no notification is lost,
\* shown twice, or shown with a deleted message, whatever the threads that push do
\* to each other: each message is shown once, closed, or on its way.
EachMessageHasItsPlace ==
  ~collided /\ doing[Main] # "removing" =>
    /\ \A i, j \in 1..length : memory[i] = memory[j] => i = j
    /\ {memory[i] : i \in 1..length} =
         ((1..pushes) \ closed) \ {message[t] : t \in Thread}
=============================================================================
