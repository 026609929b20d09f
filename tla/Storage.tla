------------------------------- MODULE Storage -------------------------------
(***************************************************************************)
(* Where the frames of coroutines live (coro_storage.h, alloca_storage.h,  *)
(* with_allocator.h): a reusable_storage_mtsafe, whose one buffer serves a *)
(* coroutine at a time while the others take theirs from the heap, and a   *)
(* stack_storage, which learns how much to take from the stack.            *)
(*                                                                         *)
(* The heap reuses the addresses of what was freed.                        *)
(***************************************************************************)
EXTENDS Naturals, FiniteSets

CONSTANTS
    Frames,         \* coroutines, one at a time in each thread
    Blocks,         \* addresses
    FrameSizes,     \* sizes of the frames in the reusable storage
    StackSizes,     \* sizes of the frames on a stack
    nowhere

ASSUME BlocksAssumption == nowhere \notin Blocks
ASSUME SizesAssumption == FrameSizes \subseteq Nat \ {0} /\ StackSizes \subseteq Nat \ {0}

VARIABLES
    size,       \* of each block that is allocated, or 0
    bufPtr,     \* _ptr
    bufCapacity,\* _capacity
    busy,       \* _busy
    fpc,        \* what each coroutine is doing
    frame,      \* where its frame is, or nowhere
    need,       \* the size it asks for
    learned,    \* _state: what the next stack_storage takes
    taken,      \* per coroutine: _alloc_size, what was taken from the stack
    leaked      \* a block was freed twice, or one that is on a stack

storageVars == <<size, bufPtr, bufCapacity, busy, fpc, frame, need, learned, taken, leaked>>
reusable == <<bufPtr, bufCapacity, busy>>
stack == <<learned, taken>>

AllSizes == {0} \cup FrameSizes \cup {n + 1 : n \in StackSizes}

\* "shrink" and "grow": in reusable_storage::alloc, before operator delete and before
\* operator new; "stacked": the frame is what was taken from the stack.
StorageTypeOK ==
    /\ size \in [Blocks -> AllSizes]
    /\ bufPtr \in Blocks \cup {nowhere} /\ bufCapacity \in AllSizes /\ busy \in BOOLEAN
    /\ fpc \in [Frames -> {"none", "shrink", "grow", "fallback", "runs",
                           "stack", "heaped", "stacked"}]
    /\ frame \in [Frames -> Blocks \cup {nowhere}]
    /\ need \in [Frames -> AllSizes]
    /\ learned \in AllSizes /\ taken \in [Frames -> AllSizes]
    /\ leaked \in BOOLEAN

StorageInit ==
    /\ size = [b \in Blocks |-> 0]
    /\ bufPtr = nowhere /\ bufCapacity = 0 /\ busy = FALSE
    /\ fpc = [f \in Frames |-> "none"]
    /\ frame = [f \in Frames |-> nowhere]
    /\ need = [f \in Frames |-> 0]
    /\ learned = 0 /\ taken = [f \in Frames |-> 0]
    /\ leaked = FALSE

-----------------------------------------------------------------------------
Proceeds(f, place) == fpc' = [fpc EXCEPT ![f] = place]

\* operator new: any block that is free.
New(b, sz) == size[b] = 0 /\ size' = [size EXCEPT ![b] = sz]

\* operator delete
Delete(b) ==
    IF b = nowhere THEN UNCHANGED <<size, leaked>>
    ELSE size' = [size EXCEPT ![b] = 0] /\ leaked' = (leaked \/ size[b] = 0)

Placed(f, b) == frame' = [frame EXCEPT ![f] = b]

(* reusable_storage_mtsafe *)

\* Variant: the flag is read, and set when the buffer was found large enough.
AllocBegins_Reads(f, sz) ==
    /\ fpc[f] = "none"
    /\ need' = [need EXCEPT ![f] = sz]
    /\ IF busy THEN Proceeds(f, "fallback") /\ UNCHANGED <<busy, frame>>
       ELSE IF sz > bufCapacity THEN Proceeds(f, "shrink") /\ UNCHANGED <<busy, frame>>
       ELSE Proceeds(f, "runs") /\ Placed(f, bufPtr) /\ busy' = TRUE
    /\ UNCHANGED <<size, bufPtr, bufCapacity, stack, leaked>>

\* alloc: _busy.exchange(true), and what follows when the buffer is large enough.
AllocBegins(f, sz) ==
    /\ fpc[f] = "none"
    /\ need' = [need EXCEPT ![f] = sz]
    /\ busy' = TRUE
    /\ \/ busy /\ Proceeds(f, "fallback") /\ UNCHANGED frame
       \/ ~busy /\ sz > bufCapacity /\ Proceeds(f, "shrink") /\ UNCHANGED frame
       \/ ~busy /\ sz <= bufCapacity /\ Proceeds(f, "runs") /\ Placed(f, bufPtr)
    /\ UNCHANGED <<size, bufPtr, bufCapacity, stack, leaked>>

\* The buffer is deleted; _ptr still has its address ...
Shrink(f) ==
    /\ fpc[f] = "shrink"
    /\ Delete(bufPtr)
    /\ Proceeds(f, "grow")
    /\ UNCHANGED <<reusable, frame, need, stack>>

\* ... until there is a new one.
Grow(f) ==
    /\ fpc[f] = "grow"
    /\ \E b \in Blocks : New(b, need[f]) /\ bufPtr' = b /\ Placed(f, b)
    /\ bufCapacity' = need[f]
    /\ Proceeds(f, "runs")
    /\ UNCHANGED <<busy, need, stack, leaked>>

\* Who finds it busy takes a block of its own.
Fallback(f) ==
    /\ fpc[f] = "fallback"
    /\ \E b \in Blocks : New(b, need[f]) /\ Placed(f, b)
    /\ Proceeds(f, "runs")
    /\ UNCHANGED <<reusable, need, stack, leaked>>

\* dealloc: the buffer is known by its address.
Dealloc(f) ==
    /\ fpc[f] = "runs"
    /\ IF frame[f] = bufPtr THEN busy' = FALSE /\ UNCHANGED <<size, leaked>>
                            ELSE Delete(frame[f]) /\ UNCHANGED busy
    /\ Placed(f, nowhere)
    /\ Proceeds(f, "none")
    /\ UNCHANGED <<bufPtr, bufCapacity, need, stack>>

(* stack_storage, as scheduler::start() uses it: the state is shared by the threads *)

\* The storage is made, and alloca() called with what it says.
MakeStack(f) ==
    /\ fpc[f] = "none"
    /\ taken' = [taken EXCEPT ![f] = learned]
    /\ Proceeds(f, "stack")
    /\ UNCHANGED <<size, reusable, frame, need, learned, leaked>>

\* alloc: on the stack if it fits, with the flag behind it; else on the heap, and the next
\* one takes that much.
StackAlloc(f, sz) ==
    /\ fpc[f] = "stack"
    /\ need' = [need EXCEPT ![f] = sz + 1]
    /\ \/ /\ sz + 1 <= taken[f]
          /\ Proceeds(f, "stacked")
          /\ UNCHANGED <<size, frame, learned>>
       \/ /\ sz + 1 > taken[f]
          /\ \E b \in Blocks : New(b, sz + 1) /\ Placed(f, b)
          /\ learned' = sz + 1
          /\ Proceeds(f, "heaped")
    /\ UNCHANGED <<reusable, taken, leaked>>

\* dealloc: the flag tells.
StackDealloc(f) ==
    /\ fpc[f] \in {"heaped", "stacked"}
    /\ IF fpc[f] = "heaped" THEN Delete(frame[f]) ELSE UNCHANGED <<size, leaked>>
    /\ Placed(f, nowhere)
    /\ Proceeds(f, "none")
    /\ UNCHANGED <<reusable, need, stack>>

StorageNext ==
    \E f \in Frames :
        \/ \E sz \in FrameSizes : AllocBegins(f, sz)
        \/ Shrink(f) \/ Grow(f) \/ Fallback(f) \/ Dealloc(f)
        \/ MakeStack(f) \/ StackDealloc(f)
        \/ \E sz \in StackSizes : StackAlloc(f, sz)

StorageSpec == StorageInit /\ [][StorageNext]_storageVars

-----------------------------------------------------------------------------
(* Properties *)

Live == {f \in Frames : fpc[f] \in {"runs", "heaped"}}

\* No two coroutines share a frame, and none has one that was freed or is too small ("When
\* the storage is used again while there is already running coroutine, the other
\* allocations is handled by standard allocator. This is the way how the storage is
\* protected.").
OneFrame ==
    /\ \A f, g \in Live : frame[f] = frame[g] => f = g
    /\ \A f \in Live : frame[f] \in Blocks /\ size[frame[f]] >= need[f]

\* Nothing is freed twice, and what is on the heap is somebody's frame or the buffer.
NothingLeaks ==
    /\ ~leaked
    /\ \A b \in Blocks : size[b] # 0 => b = bufPtr \/ \E f \in Live : frame[f] = b

\* A frame on the stack is not larger than what was taken from it, though threads that
\* start a scheduler at the same time change what is learned.
FitsTheStack == \A f \in Frames : fpc[f] = "stacked" => need[f] <= taken[f]
==============================================================================
