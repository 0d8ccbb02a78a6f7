--------------------------- MODULE FrameLoopProofs ---------------------------
(***************************************************************************)
(* The frame allocator keeps its pools in order for any number of frames   *)
(* in flight.  That no descriptor set, command buffer or semaphore is      *)
(* reused while the GPU needs it is proved for one frame in flight, the    *)
(* value of MAX_FRAMES_IN_FLIGHT: the allocator steps to its next frame at *)
(* the reset and the swapchain at the present, so with two frames the      *)
(* fence would speak for other pools than those that are reset.            *)
(***************************************************************************)
EXTENDS FrameLoop, TLAPS

NewPoolsUnused ==
  \A p \in Pool : p > created =>
    /\ allocated[p] = 0
    /\ \A f \in Frame : p \notin used_pools[f] /\ p \notin free_pools[f]

UsedPoolsFull ==
  \A f \in Frame : \A p \in used_pools[f] :
    p = current_frame_pools[f] \/ allocated[p] = PoolSets

PoolInv == TypeOK /\ PoolsAccountedFor /\ NewPoolsUnused /\ UsedPoolsFull

RunningInv == running => queue # <<>>

\* The fence of the only frame is unsignaled while anything is queued, and
\* nothing is queued while a frame is recorded.
FenceInv ==
  /\ Len(queue) <= 1
  /\ queue # <<>> => ~signaled[0]
  /\ pc \in {"record", "resize"} => queue = <<>>
  /\ pc = "record" => ~signaled[0]
  /\ signaled[0] => ~acquired[0]

SafeInv == PoolInv /\ FenceInv /\ SetsStayAllocated

----------------------------------------------------------------------------
(* The pools, for any number of frames *)

\* The pool made at start-up is the only one, and is in use.
LEMMA InitPoolInv == Init => PoolInv
<1> SUFFICES ASSUME Init PROVE PoolInv
  OBVIOUS
<1>1. 0 \in Frame /\ 1 \in Pool /\ 1 \in 0..PoolSets /\ 0 \in 0..PoolSets /\ NoPool \notin Pool
  BY FramesAssumption, PoolAssumption DEF Frame, Pool, NoPool
<1>2. TypeOK
  BY <1>1 DEF Init, TypeOK
<1>3. PoolsAccountedFor
  BY <1>1 DEF Init, PoolsAccountedFor
<1>4. NewPoolsUnused
  BY <1>1 DEF Init, NewPoolsUnused, Pool
<1>5. UsedPoolsFull
  BY <1>1 DEF Init, UsedPoolsFull
<1>6. QED
  BY <1>2, <1>3, <1>4, <1>5 DEF PoolInv

\* The next frame in the round robin is a frame.
LEMMA NextFrame ==
  ASSUME NEW f \in Frame
  PROVE  (f + 1) % Frames \in Frame
  BY FramesAssumption DEF Frame

\* The reset empties the pools of one frame and frees them all.
LEMMA ResetPools ==
  ASSUME PoolInv, ResetAllocator
  PROVE  /\ alloc_frame' \in Frame
         /\ current_frame_pools' \in [Frame -> Pool \union {NoPool}]
         /\ used_pools' \in [Frame -> SUBSET Pool]
         /\ free_pools' \in [Frame -> SUBSET Pool]
         /\ created' \in Pool
         /\ allocated' \in [Pool -> 0..PoolSets]
         /\ bound' = {}
         /\ PoolsAccountedFor'
         /\ NewPoolsUnused'
         /\ UsedPoolsFull'
<1> DEFINE f == alloc_frame
<1>1. /\ TypeOK /\ PoolsAccountedFor /\ NewPoolsUnused /\ UsedPoolsFull
      /\ f \in Frame
  BY DEF PoolInv, TypeOK
<1>2. 0 \in 0..PoolSets
  BY PoolAssumption
<1>3. /\ \A p \in Pool :
           allocated'[p] = IF p \in used_pools[f] THEN 0 ELSE allocated[p]
      /\ allocated' \in [Pool -> 0..PoolSets]
  BY <1>1, <1>2 DEF ResetAllocator, TypeOK
<1>4. /\ \A g \in Frame : free_pools'[g] =
           IF g = f THEN free_pools[f] \union used_pools[f] ELSE free_pools[g]
      /\ free_pools' \in [Frame -> SUBSET Pool]
  BY <1>1 DEF ResetAllocator, TypeOK
<1>5. /\ \A g \in Frame : used_pools'[g] = IF g = f THEN {} ELSE used_pools[g]
      /\ used_pools' \in [Frame -> SUBSET Pool]
  BY <1>1 DEF ResetAllocator, TypeOK
<1>6. /\ \A g \in Frame : current_frame_pools'[g] =
           IF g = f THEN NoPool ELSE current_frame_pools[g]
      /\ current_frame_pools' \in [Frame -> Pool \union {NoPool}]
  BY <1>1 DEF ResetAllocator, TypeOK
<1>7. created' = created /\ created \in Pool /\ bound' = {}
  BY <1>1 DEF ResetAllocator, TypeOK
<1>8. alloc_frame' \in Frame
  BY <1>1, NextFrame DEF ResetAllocator
<1>9. \A g \in Frame : used_pools[g] \subseteq Pool /\ free_pools[g] \subseteq Pool
  BY <1>1 DEF TypeOK
<1> HIDE DEF f
<1>10. PoolsAccountedFor'
  <2>1. \A p \in 1..created' : \E g \in Frame : p \in used_pools'[g] \union free_pools'[g]
    BY <1>1, <1>4, <1>5, <1>7 DEF PoolsAccountedFor
  <2>2. \A g, h \in Frame :
          /\ used_pools'[g] \intersect free_pools'[h] = {}
          /\ g # h => /\ used_pools'[g] \intersect used_pools'[h] = {}
                      /\ free_pools'[g] \intersect free_pools'[h] = {}
    BY <1>1, <1>4, <1>5 DEF PoolsAccountedFor
  <2>3. \A g \in Frame :
          /\ \A p \in free_pools'[g] : allocated'[p] = 0
          /\ current_frame_pools'[g] \in used_pools'[g] \union {NoPool}
    BY <1>1, <1>3, <1>4, <1>5, <1>6, <1>9 DEF PoolsAccountedFor
  <2>4. QED
    BY <2>1, <2>2, <2>3 DEF PoolsAccountedFor
<1>11. NewPoolsUnused'
  BY <1>1, <1>3, <1>4, <1>5, <1>7 DEF NewPoolsUnused
<1>12. UsedPoolsFull'
  BY <1>1, <1>3, <1>5, <1>6, <1>9 DEF UsedPoolsFull, PoolsAccountedFor
<1>13. QED
  BY <1>3, <1>4, <1>5, <1>6, <1>7, <1>8, <1>10, <1>11, <1>12

\* A pool that can be taken exists or is the next one; it is empty and no frame
\* uses it.
LEMMA AvailableIsEmpty ==
  ASSUME PoolInv, NEW p \in AvailablePools(alloc_frame) \intersect Pool
  PROVE  /\ allocated[p] = 0
         /\ \A g \in Frame : p \notin used_pools[g]
         /\ \A g \in Frame : g # alloc_frame => p \notin free_pools[g]
         /\ p <= created \/ p = created + 1
<1>1. /\ alloc_frame \in Frame /\ created \in Pool /\ PoolsAccountedFor /\ NewPoolsUnused
      /\ p \in Pool /\ p \in Nat /\ created \in Nat
  BY DEF PoolInv, TypeOK, Pool
<1>2. CASE free_pools[alloc_frame] # {}
  <2>1. p \in free_pools[alloc_frame]
    BY <1>2 DEF AvailablePools
  <2>2. p <= created
    BY <1>1, <2>1 DEF NewPoolsUnused
  <2>3. QED
    BY <1>1, <2>1, <2>2 DEF PoolsAccountedFor
<1>3. CASE free_pools[alloc_frame] = {}
  <2>1. p = created + 1
    BY <1>3 DEF AvailablePools
  <2>2. QED
    BY <1>1, <2>1 DEF NewPoolsUnused
<1>4. QED
  BY <1>2, <1>3

\* An allocation from the current pool, or from a pool taken for the frame.
LEMMA AllocPools ==
  ASSUME PoolInv, AllocSet
  PROVE  PoolInv'
<1> DEFINE f == alloc_frame
<1>1. /\ TypeOK /\ PoolsAccountedFor /\ NewPoolsUnused /\ UsedPoolsFull
      /\ f \in Frame /\ created \in Pool /\ Pool \subseteq Nat
      /\ NoPool \notin Pool /\ PoolSets \in Nat \ {0}
  BY PoolAssumption DEF PoolInv, TypeOK, Pool, NoPool
<1>2. /\ alloc_frame' = alloc_frame
      /\ UNCHANGED <<pc, swapchain, gpu>>
  BY DEF AllocSet
<1>3. ASSUME NEW p \in Pool, Bind(p), allocated[p] < PoolSets
      PROVE  /\ allocated' \in [Pool -> 0..PoolSets]
             /\ \A q \in Pool : allocated'[q] = IF q = p THEN allocated[p] + 1 ELSE allocated[q]
             /\ bound' \subseteq Pool \X (1..PoolSets)
  <2>1. allocated \in [Pool -> 0..PoolSets] /\ bound \subseteq Pool \X (1..PoolSets)
    BY <1>1 DEF TypeOK
  <2>2. allocated[p] + 1 \in 0..PoolSets /\ allocated[p] + 1 \in 1..PoolSets
    BY <1>1, <1>3, <2>1
  <2>3. QED
    BY <1>3, <2>1, <2>2 DEF Bind
<1>4. CASE /\ HasRoom(current_frame_pools[f]) /\ Bind(current_frame_pools[f])
           /\ UNCHANGED <<current_frame_pools, used_pools, free_pools, created>>
  <2>1. PICK p \in Pool : p = current_frame_pools[f]
    BY <1>1, <1>4 DEF HasRoom, TypeOK
  <2>2. p \in used_pools[f]
    BY <1>1, <2>1 DEF PoolsAccountedFor
  <2>3. allocated[p] < PoolSets
    BY <1>4, <2>1 DEF HasRoom
  <2>4. /\ allocated' \in [Pool -> 0..PoolSets]
        /\ \A q \in Pool : allocated'[q] = IF q = p THEN allocated[p] + 1 ELSE allocated[q]
        /\ bound' \subseteq Pool \X (1..PoolSets)
    BY <1>3, <1>4, <2>1, <2>3
  <2>5. TypeOK'
    BY <1>1, <1>2, <1>4, <2>4 DEF TypeOK, swapchain, gpu
  <2>6. \A g \in Frame : p \notin free_pools[g]
    BY <1>1, <2>2 DEF PoolsAccountedFor
  <2>7. PoolsAccountedFor'
    <3>1. \A g \in Frame : \A q \in free_pools[g] : allocated'[q] = 0
      BY <1>1, <2>4, <2>6 DEF PoolsAccountedFor, TypeOK
    <3>2. QED
      BY <1>1, <1>4, <3>1 DEF PoolsAccountedFor
  <2>8. NewPoolsUnused'
    BY <1>1, <1>4, <2>2, <2>4 DEF NewPoolsUnused
  <2>9. UsedPoolsFull'
    <3> SUFFICES ASSUME NEW g \in Frame, NEW q \in used_pools[g]
                 PROVE  q = current_frame_pools[g] \/ allocated'[q] = PoolSets
      BY <1>4 DEF UsedPoolsFull
    <3>1. q \in Pool
      BY <1>1 DEF TypeOK
    <3>2. q = p => g = f
      BY <1>1, <2>2 DEF PoolsAccountedFor
    <3>3. QED
      BY <1>1, <2>1, <2>4, <3>1, <3>2 DEF UsedPoolsFull
  <2>10. QED
    BY <2>5, <2>7, <2>8, <2>9 DEF PoolInv
<1>5. ASSUME NEW p \in AvailablePools(f) \intersect Pool,
             ~HasRoom(current_frame_pools[f]),
             Bind(p),
             current_frame_pools' = [current_frame_pools EXCEPT ![f] = p],
             used_pools' = [used_pools EXCEPT ![f] = @ \union {p}],
             free_pools' = [free_pools EXCEPT ![f] = @ \ {p}],
             created' = IF p > created THEN p ELSE created
      PROVE  PoolInv'
  <2>1. /\ p \in Pool /\ allocated[p] = 0
        /\ \A g \in Frame : p \notin used_pools[g]
        /\ \A g \in Frame : g # f => p \notin free_pools[g]
        /\ p <= created \/ p = created + 1
    BY AvailableIsEmpty
  <2>2. /\ allocated' \in [Pool -> 0..PoolSets]
        /\ \A q \in Pool : allocated'[q] = IF q = p THEN 1 ELSE allocated[q]
        /\ bound' \subseteq Pool \X (1..PoolSets)
    BY <1>1, <1>3, <1>5, <2>1
  <2>3. /\ current_frame_pools' \in [Frame -> Pool \union {NoPool}]
        /\ used_pools' \in [Frame -> SUBSET Pool]
        /\ free_pools' \in [Frame -> SUBSET Pool]
        /\ created' \in Pool
    BY <1>1, <1>5, <2>1 DEF TypeOK
  <2>4. \A g \in Frame :
          /\ current_frame_pools'[g] = IF g = f THEN p ELSE current_frame_pools[g]
          /\ used_pools'[g] = IF g = f THEN used_pools[f] \union {p} ELSE used_pools[g]
          /\ free_pools'[g] = IF g = f THEN free_pools[f] \ {p} ELSE free_pools[g]
    BY <1>1, <1>5 DEF TypeOK
  <2>5. TypeOK'
    BY <1>1, <1>2, <2>2, <2>3 DEF TypeOK, swapchain, gpu
  <2>6. created <= created' /\ p <= created' /\ (created' = created \/ created' = p)
    BY <1>1, <1>5, <2>1
  <2>7. PoolsAccountedFor'
    <3>1. ASSUME NEW q \in 1..created'
          PROVE  \E g \in Frame : q \in used_pools'[g] \union free_pools'[g]
      <4>1. CASE q = p
        BY <1>1, <2>4, <4>1
      <4>2. CASE q # p
        <5>1. q \in 1..created
          BY <1>1, <2>1, <2>3, <2>6, <4>2
        <5>2. PICK g \in Frame : q \in used_pools[g] \union free_pools[g]
          BY <1>1, <5>1 DEF PoolsAccountedFor
        <5>3. QED
          BY <2>4, <4>2, <5>2
      <4>3. QED
        BY <4>1, <4>2
    <3>2. \A g, h \in Frame :
            /\ used_pools'[g] \intersect free_pools'[h] = {}
            /\ g # h => /\ used_pools'[g] \intersect used_pools'[h] = {}
                        /\ free_pools'[g] \intersect free_pools'[h] = {}
      BY <1>1, <2>1, <2>4 DEF PoolsAccountedFor
    <3>3. \A g \in Frame :
            /\ \A q \in free_pools'[g] : allocated'[q] = 0
            /\ current_frame_pools'[g] \in used_pools'[g] \union {NoPool}
      <4>1. ASSUME NEW g \in Frame, NEW q \in free_pools'[g]
            PROVE  allocated'[q] = 0
        <5>1. q \in Pool /\ q # p /\ q \in free_pools[g]
          BY <2>1, <2>3, <2>4, <4>1
        <5>2. allocated[q] = 0
          BY <1>1, <5>1 DEF PoolsAccountedFor
        <5>3. QED
          BY <2>2, <5>1, <5>2
      <4>2. ASSUME NEW g \in Frame
            PROVE  current_frame_pools'[g] \in used_pools'[g] \union {NoPool}
        <5>1. current_frame_pools[g] \in used_pools[g] \union {NoPool}
          BY <1>1 DEF PoolsAccountedFor
        <5>2. QED
          BY <2>4, <5>1
      <4>3. QED
        BY <4>1, <4>2
    <3>4. QED
      BY <3>1, <3>2, <3>3 DEF PoolsAccountedFor
  <2>8. NewPoolsUnused'
    <3> SUFFICES ASSUME NEW q \in Pool, q > created'
                 PROVE  /\ allocated'[q] = 0
                        /\ \A g \in Frame : q \notin used_pools'[g] /\ q \notin free_pools'[g]
      BY DEF NewPoolsUnused
    <3>1. q # p /\ q > created
      BY <1>1, <2>1, <2>3, <2>6
    <3>2. QED
      BY <1>1, <2>2, <2>4, <3>1 DEF NewPoolsUnused
  <2>9. UsedPoolsFull'
    <3> SUFFICES ASSUME NEW g \in Frame, NEW q,
                        q \in used_pools'[g], q # current_frame_pools'[g]
                 PROVE  allocated'[q] = PoolSets
      BY Zenon DEF UsedPoolsFull
    <3>1. q \in used_pools[g] /\ q # p /\ q \in Pool
      <4>1. CASE g = f
        BY <2>3, <2>4, <4>1
      <4>2. CASE g # f
        BY <2>1, <2>3, <2>4, <4>2
      <4>3. QED
        BY <4>1, <4>2
    <3>2. CASE g = f /\ q = current_frame_pools[f]
      <4>1. allocated[q] = PoolSets
        BY <1>1, <1>5, <3>1, <3>2 DEF HasRoom, TypeOK
      <4>2. QED
        BY <2>2, <3>1, <4>1
    <3>3. CASE ~(g = f /\ q = current_frame_pools[f])
      <4>1. q # current_frame_pools[g]
        BY <2>4, <3>3
      <4>2. QED
        BY <1>1, <2>2, <3>1, <4>1 DEF UsedPoolsFull
    <3>4. QED
      BY <3>2, <3>3
  <2>10. QED
    BY <2>5, <2>7, <2>8, <2>9 DEF PoolInv
<1>6. QED
  BY <1>4, <1>5 DEF AllocSet

----------------------------------------------------------------------------
(* The steps that do not touch the pools *)

\* What is submitted is a submission.
LEMMA QueueTyped ==
  ASSUME TypeOK, RunningInv, EndFrame \/ GpuFinish
  PROVE  queue' \in Seq(Submission)
<1>1. CASE EndFrame
  <2>1. [frame |-> current_frame, cmd |-> image_index, sets |-> bound] \in Submission
    BY DEF TypeOK, Submission
  <2>2. QED
    BY <1>1, <2>1 DEF EndFrame, TypeOK
<1>2. CASE GpuFinish
  <2>1. queue # <<>> /\ queue \in Seq(Submission)
    BY <1>2 DEF GpuFinish, RunningInv, TypeOK
  <2>2. QED
    BY <1>2, <2>1 DEF GpuFinish
<1>3. QED
  BY <1>1, <1>2

\* Any other step leaves the pools as they are.
LEMMA OtherSteps ==
  ASSUME PoolInv, RunningInv,
         AcquireFails \/ Resize \/ EndFrame \/ Collect \/ GpuStart \/ GpuFinish
  PROVE  PoolInv' /\ RunningInv'
<1>1. /\ TypeOK /\ PoolsAccountedFor /\ NewPoolsUnused /\ UsedPoolsFull
      /\ 0 \in Frame /\ current_frame \in Frame
  BY FramesAssumption DEF PoolInv, TypeOK, Frame
<1>2. UNCHANGED <<alloc_frame, current_frame_pools, used_pools, free_pools, created, allocated>>
  BY DEF AcquireFails, Resize, EndFrame, Collect, GpuStart, GpuFinish, allocator
<1>3. PoolsAccountedFor' /\ NewPoolsUnused' /\ UsedPoolsFull'
  BY <1>1, <1>2 DEF PoolsAccountedFor, NewPoolsUnused, UsedPoolsFull
<1>4. bound' \subseteq Pool \X (1..PoolSets)
  BY <1>1 DEF TypeOK, AcquireFails, Resize, EndFrame, Collect, GpuStart, GpuFinish, allocator
<1>5. ASSUME /\ pc' \in {"update", "record", "resize", "collect"}
             /\ current_frame' \in Frame /\ image_index' \in Images
             /\ signaled' \in [Frame -> BOOLEAN] /\ acquired' \in [Frame -> BOOLEAN]
             /\ queue' \in Seq(Submission)
             /\ running' \in BOOLEAN /\ timestamps' \in BOOLEAN
      PROVE  PoolInv'
  <2>1. TypeOK'
    BY <1>1, <1>2, <1>4, <1>5 DEF TypeOK
  <2>2. QED
    BY <1>3, <2>1 DEF PoolInv
<1>6. CASE AcquireFails
  <2>1. PoolInv'
    BY <1>1, <1>5, <1>6 DEF TypeOK, AcquireFails, AwaitFence, gpu
  <2>2. QED
    BY <1>6, <2>1 DEF RunningInv, AcquireFails, AwaitFence, gpu
<1>7. CASE Resize
  <2>1. PoolInv'
    BY <1>1, <1>5, <1>7 DEF TypeOK, Resize, gpu
  <2>2. QED
    BY <1>7, <2>1 DEF RunningInv, Resize, gpu
<1>8. CASE EndFrame
  <2>1. queue' \in Seq(Submission)
    BY <1>1, <1>8, QueueTyped
  <2>2. current_frame' \in Frame
    BY <1>1, <1>8, NextFrame DEF EndFrame
  <2>3. PoolInv'
    BY <1>1, <1>5, <1>8, <2>1, <2>2 DEF TypeOK, EndFrame
  <2>4. queue' # <<>>
    BY <1>1, <1>8 DEF EndFrame, TypeOK
  <2>5. QED
    BY <2>3, <2>4 DEF RunningInv
<1>9. CASE Collect
  <2>1. PoolInv'
    BY <1>1, <1>5, <1>9 DEF TypeOK, Collect, swapchain, gpu
  <2>2. QED
    BY <1>9, <2>1 DEF RunningInv, Collect, gpu
<1>10. CASE GpuStart
  <2>1. PoolInv'
    BY <1>1, <1>5, <1>10 DEF TypeOK, GpuStart, swapchain
  <2>2. QED
    BY <1>10, <2>1 DEF RunningInv, GpuStart
<1>11. CASE GpuFinish
  <2>1. queue' \in Seq(Submission)
    BY <1>1, <1>11, QueueTyped
  <2>2. PoolInv'
    BY <1>1, <1>5, <1>11, <2>1 DEF TypeOK, GpuFinish
  <2>3. QED
    BY <1>11, <2>2 DEF RunningInv, GpuFinish
<1>12. QED
  BY <1>6, <1>7, <1>8, <1>9, <1>10, <1>11

\* A frame begins with the pools reset.
LEMMA BeginPools ==
  ASSUME PoolInv, RunningInv, BeginFrame
  PROVE  PoolInv' /\ RunningInv'
<1>1. ResetAllocator /\ TypeOK
  BY DEF BeginFrame, PoolInv
<1>2. /\ alloc_frame' \in Frame
      /\ current_frame_pools' \in [Frame -> Pool \union {NoPool}]
      /\ used_pools' \in [Frame -> SUBSET Pool]
      /\ free_pools' \in [Frame -> SUBSET Pool]
      /\ created' \in Pool
      /\ allocated' \in [Pool -> 0..PoolSets]
      /\ bound' = {}
      /\ PoolsAccountedFor'
      /\ NewPoolsUnused'
      /\ UsedPoolsFull'
  BY <1>1, ResetPools
<1>3. /\ pc' = "record" /\ current_frame' \in Frame /\ image_index' \in Images
      /\ signaled' \in [Frame -> BOOLEAN] /\ acquired' \in [Frame -> BOOLEAN]
      /\ UNCHANGED gpu
  BY <1>1 DEF BeginFrame, AwaitFence, TypeOK
<1>4. TypeOK'
  BY <1>1, <1>2, <1>3 DEF TypeOK, gpu
<1>5. QED
  BY <1>2, <1>3, <1>4 DEF PoolInv, RunningInv, gpu

\* Every step keeps the pools in order.
LEMMA StepPools ==
  ASSUME PoolInv, RunningInv, [Next]_vars
  PROVE  PoolInv' /\ RunningInv'
<1>1. CASE BeginFrame
  BY <1>1, BeginPools
<1>2. CASE AllocSet
  <2>1. PoolInv'
    BY <1>2, AllocPools
  <2>2. RunningInv'
    BY <1>2 DEF AllocSet, RunningInv, gpu
  <2>3. QED
    BY <2>1, <2>2
<1>3. CASE AcquireFails \/ Resize \/ EndFrame \/ Collect \/ GpuStart \/ GpuFinish
  BY <1>3, OtherSteps
<1>4. CASE UNCHANGED vars
  BY <1>4 DEF vars, swapchain, allocator, gpu, PoolInv, RunningInv, TypeOK, PoolsAccountedFor,
              NewPoolsUnused, UsedPoolsFull
<1>5. QED
  BY <1>1, <1>2, <1>3, <1>4 DEF Next, CpuNext, GpuNext

\* The inductive invariant of the allocator, for any number of frames in flight.
THEOREM PoolsInvariant == Spec => [](PoolInv /\ RunningInv)
<1>1. Init => PoolInv /\ RunningInv
  BY InitPoolInv DEF Init, RunningInv
<1>2. PoolInv /\ RunningInv /\ [Next]_vars => (PoolInv /\ RunningInv)'
  BY StepPools
<1>3. QED
  BY <1>1, <1>2, PTL DEF Spec

\* Every value stays in its range: the frame indices of the swapchain and of the
\* allocator never leave 0..MAX_FRAMES_IN_FLIGHT-1, and no pool overflows.
THEOREM FrameTypeCorrect == Spec => []TypeOK
<1>1. PoolInv /\ RunningInv => TypeOK
  BY DEF PoolInv
<1>2. QED
  BY <1>1, PoolsInvariant, PTL

\* No pool is lost, owned twice, or free with sets allocated from it.
THEOREM PoolsStayAccountedFor == Spec => []PoolsAccountedFor
<1>1. PoolInv /\ RunningInv => PoolsAccountedFor
  BY DEF PoolInv
<1>2. QED
  BY <1>1, PoolsInvariant, PTL

\* Only an allocation that finds the current pool full and no pool free makes one.
LEMMA CreatedWhenFull ==
  ASSUME PoolInv, [Next]_vars, created' # created
  PROVE  \A p \in used_pools[alloc_frame] \union free_pools[alloc_frame] :
           allocated[p] = PoolSets
<1> DEFINE f == alloc_frame
<1>1. /\ TypeOK /\ PoolsAccountedFor /\ NewPoolsUnused /\ UsedPoolsFull
      /\ f \in Frame /\ created \in Pool /\ Pool \subseteq Nat /\ NoPool \notin Pool
  BY DEF PoolInv, TypeOK, Pool, NoPool
<1>2. AllocSet
  BY DEF Next, CpuNext, GpuNext, BeginFrame, ResetAllocator, AcquireFails, Resize, EndFrame,
         Collect, GpuStart, GpuFinish, vars, allocator
<1>3. PICK p \in AvailablePools(f) \intersect Pool :
        ~HasRoom(current_frame_pools[f]) /\ created' = IF p > created THEN p ELSE created
  BY <1>2 DEF AllocSet
<1>4. p > created
  BY <1>3
<1>5. free_pools[f] = {}
  <2>1. \A q \in free_pools[f] : q \in Pool /\ ~(q > created)
    BY <1>1 DEF NewPoolsUnused, TypeOK
  <2>2. QED
    BY <1>3, <1>4, <2>1 DEF AvailablePools
<1>6. ASSUME NEW q \in used_pools[f]
      PROVE  allocated[q] = PoolSets
  <2>1. q \in Pool /\ allocated[q] \in 0..PoolSets
    BY <1>1, <1>6 DEF TypeOK
  <2>2. CASE q = current_frame_pools[f]
    BY <1>1, <1>3, <2>1, <2>2, PoolAssumption DEF HasRoom
  <2>3. CASE q # current_frame_pools[f]
    BY <1>1, <1>6, <2>3 DEF UsedPoolsFull
  <2>4. QED
    BY <2>2, <2>3
<1>7. QED
  BY <1>5, <1>6

\* The pools of a frame grow only when all of them are full.
THEOREM PoolsGrowWithDemand == Spec => CreatedOnlyWhenAllFull
<1>1. PoolInv /\ [Next]_vars =>
        [created' # created =>
           \A p \in used_pools[alloc_frame] \union free_pools[alloc_frame] :
             allocated[p] = PoolSets]_vars
  BY CreatedWhenFull
<1>2. QED
  BY <1>1, PoolsInvariant, PTL DEF Spec, CreatedOnlyWhenAllFull

----------------------------------------------------------------------------
(* The fence, for one frame in flight *)

\* What a step does to the fence of the only frame.
LEMMA StepFence ==
  ASSUME Frames = 1, PoolInv, RunningInv, FenceInv, [Next]_vars
  PROVE  FenceInv'
<1>1. /\ TypeOK /\ Frame = {0} /\ current_frame = 0
      /\ signaled \in [{0} -> BOOLEAN] /\ acquired \in [{0} -> BOOLEAN]
      /\ queue \in Seq(Submission)
  BY DEF PoolInv, TypeOK, Frame
<1>2. CASE BeginFrame \/ AcquireFails
  <2>1. /\ signaled[0] /\ ~signaled'[0] /\ queue' = queue
    BY <1>1, <1>2 DEF BeginFrame, AcquireFails, AwaitFence, gpu
  <2>2. queue = <<>>
    BY <2>1 DEF FenceInv
  <2>3. QED
    BY <2>1, <2>2 DEF FenceInv
<1>3. CASE Resize
  BY <1>1, <1>3 DEF Resize, FenceInv, gpu
<1>4. CASE AllocSet
  BY <1>4 DEF AllocSet, FenceInv, swapchain, gpu
<1>5. CASE EndFrame
  <2>1. queue = <<>> /\ ~signaled[0]
    BY <1>5 DEF EndFrame, FenceInv
  <2>2. Len(queue') <= 1
    BY <1>1, <1>5, <2>1 DEF EndFrame
  <2>3. QED
    BY <1>5, <2>1, <2>2 DEF EndFrame, FenceInv
<1>6. CASE Collect
  BY <1>6 DEF Collect, FenceInv, swapchain, gpu
<1>7. CASE GpuStart
  BY <1>7 DEF GpuStart, FenceInv, swapchain
<1>8. CASE GpuFinish
  <2>1. queue # <<>> /\ Len(queue) <= 1
    BY <1>8 DEF GpuFinish, RunningInv, FenceInv
  <2>2. queue' = <<>>
    BY <1>1, <1>8, <2>1 DEF GpuFinish
  <2>3. Head(queue).frame = 0
    BY <1>1, <2>1 DEF Submission
  <2>4. signaled'[0] /\ ~acquired'[0] /\ pc' = pc
    BY <1>1, <1>8, <2>3 DEF GpuFinish
  <2>5. pc # "record"
    BY <2>1 DEF FenceInv
  <2>6. QED
    BY <2>2, <2>4, <2>5 DEF FenceInv
<1>9. CASE UNCHANGED vars
  BY <1>9 DEF vars, swapchain, gpu, FenceInv
<1>10. QED
  BY <1>2, <1>3, <1>4, <1>5, <1>6, <1>7, <1>8, <1>9 DEF Next, CpuNext, GpuNext

\* A set that is bound or submitted stays allocated: the pools are reset when
\* nothing is queued, and otherwise only fill up.
LEMMA StepSets ==
  ASSUME Frames = 1, PoolInv, RunningInv, FenceInv, SetsStayAllocated, [Next]_vars
  PROVE  SetsStayAllocated'
<1>1. /\ TypeOK /\ FenceInv' /\ queue \in Seq(Submission)
  BY StepFence DEF PoolInv, TypeOK
<1>2. CASE BeginFrame
  <2>1. queue' = <<>>
    BY <1>1, <1>2 DEF BeginFrame, FenceInv
  <2>2. bound' = {}
    BY <1>2 DEF BeginFrame, ResetAllocator
  <2>3. QED
    BY <2>1, <2>2 DEF SetsStayAllocated
<1>3. CASE AllocSet
  <2>1. queue' = <<>>
    BY <1>1, <1>3 DEF AllocSet, FenceInv, gpu
  <2>2. PICK p \in Pool : Bind(p)
    BY <1>3 DEF AllocSet, HasRoom, NoPool, TypeOK, PoolInv
  <2>3. allocated \in [Pool -> 0..PoolSets] /\ bound \subseteq Pool \X (1..PoolSets)
        /\ PoolSets \in Nat
    BY <1>1, PoolAssumption DEF TypeOK
  <2>4. ASSUME NEW s \in bound'
        PROVE  s[2] <= allocated'[s[1]]
    <3>1. CASE s \in bound
      <4>1. s[1] \in Pool /\ s[2] \in Nat /\ s[2] <= allocated[s[1]]
        BY <2>3, <3>1 DEF SetsStayAllocated
      <4>2. allocated[s[1]] \in Nat /\ allocated[s[1]] <= allocated'[s[1]]
            /\ allocated'[s[1]] \in Nat
        BY <2>2, <2>3, <4>1 DEF Bind
      <4>3. QED
        BY <4>1, <4>2
    <3>2. CASE s = <<p, allocated[p] + 1>>
      BY <2>2, <2>3, <3>2 DEF Bind
    <3>3. QED
      BY <2>2, <2>4, <3>1, <3>2 DEF Bind
  <2>5. QED
    BY <2>1, <2>4 DEF SetsStayAllocated
<1>4. CASE AcquireFails \/ Resize \/ Collect \/ GpuStart
  BY <1>4 DEF AcquireFails, AwaitFence, Resize, Collect, GpuStart, allocator, gpu,
              SetsStayAllocated
<1>5. CASE EndFrame
  <2>1. queue = <<>> /\ bound' = {} /\ allocated' = allocated
    BY <1>5 DEF EndFrame, FenceInv
  <2>2. queue' = <<[frame |-> current_frame, cmd |-> image_index, sets |-> bound]>>
    BY <1>5, <2>1 DEF EndFrame
  <2>3. QED
    BY <2>1, <2>2 DEF SetsStayAllocated
<1>6. CASE GpuFinish
  <2>1. queue' = <<>>
    BY <1>1, <1>6 DEF GpuFinish, RunningInv, FenceInv
  <2>2. bound' = bound /\ allocated' = allocated
    BY <1>6 DEF GpuFinish, allocator
  <2>3. QED
    BY <2>1, <2>2 DEF SetsStayAllocated
<1>7. CASE UNCHANGED vars
  BY <1>7 DEF vars, allocator, gpu, SetsStayAllocated
<1>8. QED
  BY <1>2, <1>3, <1>4, <1>5, <1>6, <1>7 DEF Next, CpuNext, GpuNext

\* The inductive invariant of the frame loop with one frame in flight.
THEOREM SafeInvariant == Frames = 1 /\ Spec => [](SafeInv /\ RunningInv)
<1> SUFFICES ASSUME Frames = 1
             PROVE  Spec => [](SafeInv /\ RunningInv)
  OBVIOUS
<1>1. Init => SafeInv /\ RunningInv
  <2> SUFFICES ASSUME Init PROVE SafeInv /\ RunningInv
    OBVIOUS
  <2>1. PoolInv
    BY InitPoolInv
  <2>2. Frame = {0} /\ Len(queue) = 0
    BY DEF Init, Frame
  <2>3. FenceInv
    BY <2>2 DEF Init, FenceInv
  <2>4. QED
    BY <2>1, <2>3 DEF Init, SafeInv, RunningInv, SetsStayAllocated
<1>2. SafeInv /\ RunningInv /\ [Next]_vars => (SafeInv /\ RunningInv)'
  BY StepPools, StepFence, StepSets DEF SafeInv
<1>3. QED
  BY <1>1, <1>2, PTL DEF Spec

\* With one frame in flight the allocator's reset never frees a descriptor set
\* that the GPU still reads, nor hands one out twice.
THEOREM SetsAreSafe == Frames = 1 /\ Spec => []SetsStayAllocated
<1>1. SafeInv /\ RunningInv => SetsStayAllocated
  BY DEF SafeInv
<1>2. QED
  BY <1>1, SafeInvariant, PTL

\* With one frame in flight the fence also covers the command buffer and the
\* semaphore of the frame that begins.
THEOREM FenceCoversReuse == Frames = 1 /\ Spec => ReusedOnlyWhenDone
<1> DEFINE Reuse == BeginFrame => /\ ~acquired[current_frame]
                                  /\ \A i \in DOMAIN queue : queue[i].cmd # image_index'
<1> SUFFICES ASSUME Frames = 1
             PROVE  Spec => ReusedOnlyWhenDone
  OBVIOUS
<1>1. SafeInv => Reuse
  <2> SUFFICES ASSUME SafeInv, BeginFrame
               PROVE  /\ ~acquired[current_frame]
                      /\ \A i \in DOMAIN queue : queue[i].cmd # image_index'
    OBVIOUS
  <2>1. current_frame = 0 /\ signaled[0]
    BY DEF SafeInv, PoolInv, TypeOK, Frame, BeginFrame, AwaitFence
  <2>2. QED
    BY <2>1 DEF SafeInv, FenceInv
<1>2. SafeInv /\ RunningInv /\ [Next]_vars => [Reuse]_vars
  BY <1>1
<1>3. QED
  BY <1>2, SafeInvariant, PTL DEF Spec, ReusedOnlyWhenDone
=============================================================================
