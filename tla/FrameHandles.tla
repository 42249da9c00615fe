---------------------------- MODULE FrameHandles ----------------------------
(***************************************************************************)
(* The handles of frame.rs over a FrameSource: Owned and Shared (one value *)
(* per frame), FrameMut and FrameBuf (disjoint byte windows of a frame),   *)
(* and the out-of-band RefCount that decides when the frame goes back.     *)
(*                                                                         *)
(* A handle is used by one thread at a time, and handles of one frame by   *)
(* any threads at once: so the steps of a drop are kept with the handle,   *)
(* and the handles interleave.  The pool is the abstract FrameSource,      *)
(* which FramePool implements.                                             *)
(***************************************************************************)
EXTENDS Integers, FiniteSets

CONSTANTS
  Frames,
  Handles,        \* identities of handles: bounds how many exist at once
  NoHandle,
  FrameCapacity,  \* frame_capacity(): bytes of a frame
  U16Max          \* 2^16 - 1: offsets and lengths of windows are u16

\* The handles, and the steps of their drops: "release" (Owned: the value is
\* destroyed, the count still to be released), "destroy" (Shared: last count
\* released, the value still to be destroyed), "recycle".
Kinds == {"owned", "shared", "mut", "buf"}
Steps == {"live", "release", "destroy", "recycle"}
Handle == [kind : Kinds, at : Steps, frame : Frames, off : Nat, len : Nat]

ASSUME FrameHandlesAssumption ==
  /\ IsFiniteSet(Handles) /\ NoHandle \notin Handle
  /\ FrameCapacity \in Nat \ {0} /\ U16Max \in Nat \ {0}

VARIABLES
  out,      \* how often each frame was handed out and not recycled
  count,    \* RefCount of each frame
  value,    \* whether a frame's body holds a value that was not destroyed
  handle    \* the handles that exist, each with the step its drop is at

vars == <<out, count, value, handle>>

Source == INSTANCE FrameSource

U16 == 0 .. U16Max

None == NoHandle

Init ==
  /\ Source!SInit
  /\ count = [f \in Frames |-> 0]
  /\ value = [f \in Frames |-> FALSE]
  /\ handle = [h \in Handles |-> None]

-----------------------------------------------------------------------------
Exists(h)     == handle[h] # None
Is(h, kind)   == Exists(h) /\ handle[h].kind = kind /\ handle[h].at = "live"
Unused(h)     == handle[h] = None

\* FrameMut::new caps the window at what a u16 can name.
Cap == IF FrameCapacity < U16Max THEN FrameCapacity ELSE U16Max
Wrap(n) == n % (U16Max + 1)

New(kind, f, off, len) == [kind |-> kind, at |-> "live", frame |-> f, off |-> off, len |-> len]

\* Mutant: a clone or a split takes no reference.
RetainForgotten(f) == count

\* RefCount::retain, release and on_alloc: one atomic operation each.
Retained(f) == [count EXCEPT ![f] = @ + 1]
Released(f) == [count EXCEPT ![f] = @ - 1]
OnAlloc(f)  == [count EXCEPT ![f] = 1]

\* Mutants: one too early; the new value of the count instead of the old one.
LastTooEarly(f) == count[f] <= 2
LastByNewCount(f) == count[f] = 0

\* release returns Reclaim::Free when the count was 1.
LastReference(f) == count[f] = 1

-----------------------------------------------------------------------------
(* Creation *)

\* Owned::new: alloc_frame, then the value is written.  (That a frame has only
\* one owner is FramePool's promise; that it is recycled once is checked here.)
OwnedNew(h, f) ==
  /\ Unused(h)
  /\ Source!AllocFrame(f)
  /\ count' = OnAlloc(f)
  /\ value' = [value EXCEPT ![f] = TRUE]
  /\ handle' = [handle EXCEPT ![h] = New("owned", f, 0, 0)]

\* FrameMut::new
FrameMutNew(h, f) ==
  /\ Unused(h)
  /\ Source!AllocFrame(f)
  /\ count' = OnAlloc(f)
  /\ handle' = [handle EXCEPT ![h] = New("mut", f, 0, Cap)]
  /\ UNCHANGED value

\* Either may find the pool exhausted, and changes nothing.
NewFails ==
  /\ \E h \in Handles : Unused(h)
  /\ UNCHANGED vars

\* Mutant: the Owned is not forgotten, its destructor runs.
IntoSharedDrops(h) ==
  /\ Is(h, "owned")
  /\ handle' = [handle EXCEPT ![h].kind = "shared"]
  /\ value' = [value EXCEPT ![handle[h].frame] = FALSE]
  /\ UNCHANGED <<out, count>>

\* into_shared: the handle changes its kind, the count of 1 stays.
IntoShared(h) ==
  /\ Is(h, "owned")
  /\ handle' = [handle EXCEPT ![h].kind = "shared"]
  /\ UNCHANGED <<out, count, value>>

\* Shared::clone
Clone(h, g) ==
  /\ Is(h, "shared") /\ Unused(g)
  /\ count' = Retained(handle[h].frame)
  /\ handle' = [handle EXCEPT ![g] = handle[h]]
  /\ UNCHANGED <<out, value>>

\* The first n bytes of a window.
FirstOf(w, n) == [w EXCEPT !.len = IF n < @ THEN n ELSE @]

\* freeze: the first n bytes become the window.
Freeze(h, n) ==
  /\ Is(h, "mut")
  /\ handle' = [handle EXCEPT ![h] = [FirstOf(@, n) EXCEPT !.kind = "buf"]]
  /\ UNCHANGED <<out, count, value>>

\* Mutant: the remaining window still starts where it did.
KeepsOffset(w, n) == [w EXCEPT !.len = @ - n]

\* The window without its first n bytes, in u16 arithmetic.
Advanced(w, n) == [w EXCEPT !.off = Wrap(@ + n), !.len = @ - n]

\* split_to: h keeps [n, len), the new handle g has [0, n).
SplitTo(h, g, n) ==
  /\ Is(h, "buf") /\ Unused(g) /\ n <= handle[h].len
  /\ count' = Retained(handle[h].frame)
  /\ handle' = [handle EXCEPT ![h] = Advanced(@, n),
                              ![g] = [handle[h] EXCEPT !.len = n]]
  /\ UNCHANGED <<out, value>>

Truncate(h, n) ==
  /\ Is(h, "buf")
  /\ handle' = [handle EXCEPT ![h] = FirstOf(@, n)]
  /\ UNCHANGED <<out, count, value>>

Advance(h, n) ==
  /\ Is(h, "buf") /\ n <= handle[h].len
  /\ handle' = [handle EXCEPT ![h] = Advanced(@, n)]
  /\ UNCHANGED <<out, count, value>>

-----------------------------------------------------------------------------
(* Drop *)

\* Owned::drop destroys the value first, then releases the count.
OwnedDrop(h) ==
  /\ Is(h, "owned")
  /\ value' = [value EXCEPT ![handle[h].frame] = FALSE]
  /\ handle' = [handle EXCEPT ![h].at = "release"]
  /\ UNCHANGED <<out, count>>

\* What Owned::drop and FrameMut::drop release is not looked at: the handle is
\* the only one.
ReleaseSole(h) ==
  /\ \/ Exists(h) /\ handle[h].at = "release"
     \/ Is(h, "mut")
  /\ count' = Released(handle[h].frame)
  /\ handle' = [handle EXCEPT ![h].at = "recycle"]
  /\ UNCHANGED <<out, value>>

\* Shared::drop and FrameBuf::drop: the handle that releases the last
\* reference goes on to destroy the value, if any, and to recycle the frame.
ReleaseShared(h) ==
  /\ Is(h, "shared") \/ Is(h, "buf")
  /\ LET f == handle[h].frame
         next == IF handle[h].kind = "shared" THEN "destroy" ELSE "recycle"
     IN  /\ count' = Released(f)
         /\ handle' = IF LastReference(f)
                      THEN [handle EXCEPT ![h].at = next]
                      ELSE [handle EXCEPT ![h] = None]
  /\ UNCHANGED <<out, value>>

Destroy(h) ==
  /\ Exists(h) /\ handle[h].at = "destroy"
  /\ value' = [value EXCEPT ![handle[h].frame] = FALSE]
  /\ handle' = [handle EXCEPT ![h].at = "recycle"]
  /\ UNCHANGED <<out, count>>

RecycleFrame(h) ==
  /\ Exists(h) /\ handle[h].at = "recycle"
  /\ out' = [out EXCEPT ![handle[h].frame] = @ - 1]
  /\ handle' = [handle EXCEPT ![h] = None]
  /\ UNCHANGED <<count, value>>

-----------------------------------------------------------------------------
Create ==
  \/ \E h \in Handles, f \in Frames : OwnedNew(h, f) \/ FrameMutNew(h, f)
  \/ NewFails

Use ==
  \E h \in Handles :
     \/ IntoShared(h)
     \/ \E g \in Handles : Clone(h, g)
     \/ \E n \in U16 : Freeze(h, n) \/ Truncate(h, n) \/ Advance(h, n)
     \/ \E g \in Handles, n \in U16 : SplitTo(h, g, n)

Drop(h) ==
  \/ OwnedDrop(h)
  \/ ReleaseSole(h)
  \/ ReleaseShared(h)
  \/ Destroy(h)
  \/ RecycleFrame(h)

Next == Create \/ Use \/ \E h \in Handles : Drop(h)

Spec == Init /\ [][Next]_vars

\* A drop that has started runs to its end.
Dropping(h) == Exists(h) /\ handle[h].at # "live"

FairSpec == Spec /\ \A h \in Handles : WF_vars(Dropping(h) /\ Drop(h))

-----------------------------------------------------------------------------
(* Properties *)

Of(f)    == {h \in Handles : Exists(h) /\ handle[h].frame = f}
Refs(f)  == {h \in Of(f) : handle[h].at \in {"live", "release"}}
Bytes(h) == handle[h].off .. handle[h].off + handle[h].len - 1

\* The out-of-band count is the number of references that were not released.
CountsReferences == \A f \in Frames : count[f] = Cardinality(Refs(f))

\* A handle that reads a value finds it: no other handle has destroyed it.  And
\* a frame goes back without its value (the destructor is not skipped).
ValuesAlive ==
  /\ \A h \in Handles : Is(h, "owned") \/ Is(h, "shared") => value[handle[h].frame]
  /\ \A h \in Handles : Exists(h) /\ handle[h].at = "recycle" => ~value[handle[h].frame]

\* "no two live FrameBuf windows over a frame overlap" (frame.rs:1114-1115), a
\* window stays within the frame and what a u16 can name of it, and an exclusive
\* handle (Owned, FrameMut) is the only one of its frame, however buffers are
\* split, truncated, advanced and dropped by several threads.
WindowsDisjoint ==
  \A h, g \in Handles :
     /\ Exists(h) => handle[h].off + handle[h].len <= Cap
     /\ h # g /\ Is(h, "buf") /\ Is(g, "buf") /\ handle[h].frame = handle[g].frame
          => Bytes(h) \cap Bytes(g) = {}
     /\ Is(h, "owned") \/ Is(h, "mut") => Of(handle[h].frame) = {h}

\* The handles keep the contract of the pool below them: a frame is recycled
\* exactly once for each time it was handed out.
UsesFrameSource == Source!Spec

\* A frame whose handles are all being dropped goes back to the pool.
FramesComeBack ==
  \A f \in Frames : (out[f] # 0 /\ \A h \in Of(f) : Dropping(h)) ~> out[f] = 0
=============================================================================
