------------------------------ MODULE FrameLoop ------------------------------
(***************************************************************************)
(* One frame after another: r3d_begin_frame, the descriptor sets of the    *)
(* drawn meshes, r3d_end_frame, with the fences and semaphores of the      *)
(* swapchain and the pools of the frame allocator, against a GPU that runs *)
(* the submissions at its own pace and a surface that may go out of date   *)
(* at any acquire.                                                         *)
(***************************************************************************)
EXTENDS Naturals, Sequences, FiniteSets

CONSTANTS
  Frames,      \* MAX_FRAMES_IN_FLIGHT (1 in swapchain.odin)
  Images,      \* indices of the swapchain images, and of command_buffers
  PoolSets,    \* max_sets of a pool of the frame allocator
  MaxPools,    \* bound of the model on the pools ever created
  MaxObjects   \* bound of the model on the meshes drawn in a frame

ASSUME FramesAssumption == Frames \in Nat \ {0}
ASSUME ImagesAssumption == Images # {}
ASSUME PoolAssumption == PoolSets \in Nat \ {0} /\ MaxPools \in Nat \ {0} /\ MaxObjects \in Nat

Frame  == 0..(Frames - 1)
Pool   == 1..MaxPools
NoPool == 0                     \* the zero ResourcePool, id 0

VARIABLES
  \* the main thread and the swapchain
  pc,             \* "update", "record", "resize" or "collect"
  current_frame,  \* Swapchain.current_frame
  image_index,    \* Renderer3D.image_index
  signaled,       \* per frame: in_flight_fences is signaled
  acquired,       \* per frame: image_available is signaled or about to be
  \* the frame allocator
  alloc_frame,          \* FrameAllocator.current_frame
  current_frame_pools, used_pools, free_pools,
  created,        \* pools made so far
  allocated,      \* per pool: the sets allocated since its last reset
  bound,          \* the sets the frame being recorded binds: <<pool, slot>>
  \* the GPU
  queue,          \* submissions not finished: the frame, command buffer, sets
  running,        \* the first of them has begun
  timestamps      \* both timestamp queries are available

swapchain == <<current_frame, image_index, signaled, acquired>>
allocator == <<alloc_frame, current_frame_pools, used_pools, free_pools,
               created, allocated, bound>>
gpu       == <<queue, running, timestamps>>
vars      == <<pc, swapchain, allocator, gpu>>

\* r3d_setup allocates one object set before the first frame.
Init ==
  /\ pc = "update"
  /\ current_frame = 0 /\ image_index \in Images
  /\ signaled = [f \in Frame |-> TRUE]
  /\ acquired = [f \in Frame |-> FALSE]
  /\ alloc_frame = 0
  /\ current_frame_pools = [f \in Frame |-> IF f = 0 THEN 1 ELSE NoPool]
  /\ used_pools = [f \in Frame |-> IF f = 0 THEN {1} ELSE {}]
  /\ free_pools = [f \in Frame |-> {}]
  /\ created = 1
  /\ allocated = [p \in Pool |-> IF p = 1 THEN 1 ELSE 0]
  /\ bound = {}
  /\ queue = <<>> /\ running = FALSE /\ timestamps = FALSE

----------------------------------------------------------------------------
(* The frame allocator *)

\* Planted bug: the pools are freed and still count as used.
ResetAllocatorKeepingUsed ==
  LET f == alloc_frame
  IN  /\ allocated' = [p \in Pool |-> IF p \in used_pools[f] THEN 0 ELSE allocated[p]]
      /\ free_pools' = [free_pools EXCEPT ![f] = @ \union used_pools[f]]
      /\ current_frame_pools' = [current_frame_pools EXCEPT ![f] = NoPool]
      /\ alloc_frame' = (f + 1) % Frames
      /\ bound' = {}
      /\ UNCHANGED <<used_pools, created>>

\* frame_allocator_reset: the pools of alloc_frame, then on to the next frame.
ResetAllocator ==
  LET f == alloc_frame
  IN  /\ allocated' = [p \in Pool |-> IF p \in used_pools[f] THEN 0 ELSE allocated[p]]
      /\ free_pools' = [free_pools EXCEPT ![f] = @ \union used_pools[f]]
      /\ used_pools' = [used_pools EXCEPT ![f] = {}]
      /\ current_frame_pools' = [current_frame_pools EXCEPT ![f] = NoPool]
      /\ alloc_frame' = (f + 1) % Frames
      /\ bound' = {}
      /\ UNCHANGED created

\* Planted bug: the free pools are forgotten.
AvailablePoolsNew(f) == {created + 1}

\* get_available_pool
AvailablePools(f) == IF free_pools[f] # {} THEN free_pools[f] ELSE {created + 1}

\* Planted bug: one set too many.
HasRoomOffByOne(p) == p # NoPool /\ allocated[p] <= PoolSets

\* A pool from which nothing is freed fails to allocate only when it is full.
HasRoom(p) == p # NoPool /\ allocated[p] < PoolSets

Bind(p) ==
  /\ allocated' = [allocated EXCEPT ![p] = @ + 1]
  /\ bound' = bound \union {<<p, allocated[p] + 1>>}

\* frame_allocator_alloc, for a mesh of the frame being recorded.
AllocSet ==
  LET f == alloc_frame
  IN  /\ pc = "record"
      /\ Cardinality(bound) < MaxObjects
      /\ \/ /\ HasRoom(current_frame_pools[f])
            /\ Bind(current_frame_pools[f])
            /\ UNCHANGED <<current_frame_pools, used_pools, free_pools, created>>
         \/ /\ ~HasRoom(current_frame_pools[f])
            /\ \E p \in AvailablePools(f) \intersect Pool :
                 /\ Bind(p)
                 /\ current_frame_pools' = [current_frame_pools EXCEPT ![f] = p]
                 /\ used_pools' = [used_pools EXCEPT ![f] = @ \union {p}]
                 /\ free_pools' = [free_pools EXCEPT ![f] = @ \ {p}]
                 /\ created' = IF p > created THEN p ELSE created
      /\ UNCHANGED <<pc, alloc_frame, swapchain, gpu>>

----------------------------------------------------------------------------
(* r3d_begin_frame and r3d_end_frame *)

\* Planted bug: the fence is reset, not waited for.
AwaitNothing ==
  /\ pc = "update"
  /\ signaled' = [signaled EXCEPT ![current_frame] = FALSE]
  /\ UNCHANGED <<current_frame, gpu>>

\* swapchain_get_next_image waits for the fence and resets it before it knows
\* what the acquire returns.
AwaitFence ==
  /\ pc = "update"
  /\ signaled[current_frame]
  /\ signaled' = [signaled EXCEPT ![current_frame] = FALSE]
  /\ UNCHANGED <<current_frame, gpu>>

BeginFrame ==
  /\ AwaitFence
  /\ acquired' = [acquired EXCEPT ![current_frame] = TRUE]
  /\ image_index' \in Images
  /\ ResetAllocator
  /\ pc' = "record"

\* Out of date, or suboptimal: an image was acquired and will not be drawn.
AcquireFails ==
  /\ AwaitFence
  /\ acquired' \in {acquired, [acquired EXCEPT ![current_frame] = TRUE]}
  /\ image_index' \in Images
  /\ pc' = "resize"
  /\ UNCHANGED allocator

\* Planted bug: the fences are kept, and the one already reset stays so.
ResizeKeepingFences ==
  /\ pc = "resize"
  /\ queue = <<>>
  /\ acquired' = [f \in Frame |-> FALSE]
  /\ current_frame' = 0
  /\ pc' = "update"
  /\ UNCHANGED <<image_index, signaled, allocator, gpu>>

\* device_wait, then swapchain_resize: new fences, signaled, and new semaphores.
Resize ==
  /\ pc = "resize"
  /\ queue = <<>>
  /\ signaled' = [f \in Frame |-> TRUE]
  /\ acquired' = [f \in Frame |-> FALSE]
  /\ current_frame' = 0
  /\ pc' = "update"
  /\ UNCHANGED <<image_index, allocator, gpu>>

\* Submit and present.
EndFrame ==
  /\ pc = "record"
  /\ queue' = Append(queue, [frame |-> current_frame, cmd |-> image_index, sets |-> bound])
  /\ bound' = {}
  /\ current_frame' = (current_frame + 1) % Frames
  /\ pc' = "collect"
  /\ UNCHANGED <<image_index, signaled, acquired, alloc_frame, current_frame_pools, used_pools,
                 free_pools, created, allocated, running, timestamps>>

\* stats_collect waits until the queries are available: those of this frame, or
\* those of the last one when the GPU has not yet begun to reset them.
Collect ==
  /\ pc = "collect"
  /\ timestamps
  /\ pc' = "update"
  /\ UNCHANGED <<swapchain, allocator, gpu>>

----------------------------------------------------------------------------
(* The GPU *)

GpuStart ==
  /\ queue # <<>> /\ ~running
  /\ running' = TRUE
  /\ timestamps' = FALSE
  /\ UNCHANGED <<pc, swapchain, allocator, queue>>

GpuFinish ==
  /\ running
  /\ queue' = Tail(queue)
  /\ running' = FALSE
  /\ timestamps' = TRUE
  /\ signaled' = [signaled EXCEPT ![Head(queue).frame] = TRUE]
  /\ acquired' = [acquired EXCEPT ![Head(queue).frame] = FALSE]
  /\ UNCHANGED <<pc, current_frame, image_index, allocator>>

CpuNext == BeginFrame \/ AcquireFails \/ Resize \/ AllocSet \/ EndFrame \/ Collect
GpuNext == GpuStart \/ GpuFinish
Next    == CpuNext \/ GpuNext

Spec     == Init /\ [][Next]_vars
FairSpec == Spec /\ WF_vars(CpuNext) /\ WF_vars(GpuNext)

----------------------------------------------------------------------------
(* Properties *)

Submission == [frame : Frame, cmd : Images, sets : SUBSET (Pool \X (1..PoolSets))]

TypeOK ==
  /\ pc \in {"update", "record", "resize", "collect"}
  /\ current_frame \in Frame
  /\ image_index \in Images
  /\ signaled \in [Frame -> BOOLEAN]
  /\ acquired \in [Frame -> BOOLEAN]
  /\ alloc_frame \in Frame
  /\ current_frame_pools \in [Frame -> Pool \union {NoPool}]
  /\ used_pools \in [Frame -> SUBSET Pool]
  /\ free_pools \in [Frame -> SUBSET Pool]
  /\ created \in Pool
  /\ allocated \in [Pool -> 0..PoolSets]
  /\ bound \subseteq Pool \X (1..PoolSets)
  /\ queue \in Seq(Submission)
  /\ running \in BOOLEAN
  /\ timestamps \in BOOLEAN

(***************************************************************************)
(* The pools are reset at the start of a frame because the fence says that *)
(* the GPU is done with them: no descriptor set that a submission reads,   *)
(* or that the frame being recorded binds, is freed by a reset or handed   *)
(* out again, and none is bound to two meshes.                             *)
(***************************************************************************)
SetsStayAllocated ==
  /\ \A s \in bound : s[2] <= allocated[s[1]]
  /\ \A i \in DOMAIN queue : \A s \in queue[i].sets :
       s \notin bound /\ s[2] <= allocated[s[1]]

(***************************************************************************)
(* No pool is lost and none is owned twice: each pool ever created is in   *)
(* used_pools or free_pools of one frame; a free pool is empty, which the  *)
(* assertion "Second allocation from pool failed" relies on, and the pool  *)
(* of the current frame will be reset with the used ones.                  *)
(***************************************************************************)
PoolsAccountedFor ==
  /\ \A p \in 1..created :
       \E f \in Frame : p \in used_pools[f] \union free_pools[f]
  /\ \A f, g \in Frame :
       /\ used_pools[f] \intersect free_pools[g] = {}
       /\ f # g => /\ used_pools[f] \intersect used_pools[g] = {}
                   /\ free_pools[f] \intersect free_pools[g] = {}
  /\ \A f \in Frame :
       /\ \A p \in free_pools[f] : allocated[p] = 0
       /\ current_frame_pools[f] \in used_pools[f] \union {NoPool}

(***************************************************************************)
(* The pools grow with the largest frame only: a pool is created when all  *)
(* the pools of its frame are full within this frame, however many frames  *)
(* and resizes came before.                                                *)
(***************************************************************************)
CreatedOnlyWhenAllFull ==
  [][created' # created =>
       \A p \in used_pools[alloc_frame] \union free_pools[alloc_frame] :
         allocated[p] = PoolSets]_vars

(***************************************************************************)
(* r3d_begin_frame reuses a command buffer and a semaphore without looking *)
(* at them: the command buffer it resets is not pending, and the semaphore *)
(* it acquires with has been waited for since it was last signaled.        *)
(***************************************************************************)
ReusedOnlyWhenDone ==
  [][BeginFrame => /\ ~acquired[current_frame]
                   /\ \A i \in DOMAIN queue : queue[i].cmd # image_index']_vars

(***************************************************************************)
(* The fence is reset before the acquire can fail, and the queries are     *)
(* waited for without a timeout.  If the surface stops being out of date,  *)
(* frames are drawn for ever: the main thread waits for nothing that never *)
(* comes.                                                                  *)
(***************************************************************************)
RenderingGoesOn == <>[][~AcquireFails]_vars => []<>(pc = "record")
=============================================================================
