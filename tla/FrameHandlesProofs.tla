------------------------- MODULE FrameHandlesProofs -------------------------
(***************************************************************************)
(* The reference count, the values and the windows of frame handles stay   *)
(* right, and every frame is recycled once, for any number of frames and   *)
(* handles and any frame size.                                             *)
(***************************************************************************)
EXTENDS FrameHandles, FiniteSetTheorems, TLAPS

-----------------------------------------------------------------------------
(* The inductive invariant *)

Types ==
  /\ out \in [Frames -> {0, 1}]
  /\ count \in [Frames -> Int]
  /\ value \in [Frames -> BOOLEAN]
  /\ handle \in [Handles -> Handle \cup {NoHandle}]

\* The steps of a drop belong to their kinds.
Shapes ==
  \A h \in Handles : Exists(h) =>
    /\ handle[h].at = "release" => handle[h].kind = "owned"
    /\ handle[h].at = "destroy" => handle[h].kind = "shared"

\* Two handles of a frame are both Shared or both FrameBuf, and neither has
\* released its reference.
Sharing ==
  \A h, g \in Handles :
    Exists(h) /\ Exists(g) /\ h # g /\ handle[h].frame = handle[g].frame =>
      /\ handle[h].at = "live" /\ handle[h].kind \in {"shared", "buf"}
      /\ handle[g].kind = handle[h].kind

\* Every handle is of a frame that is out.
HandedOut == \A h \in Handles : Exists(h) => out[handle[h].frame] = 1

\* Where there is a value: with handles that hold one, until it is destroyed.
HoldsValue(w) == w.kind \in {"owned", "shared"} /\ w.at \in {"live", "destroy"}
Values ==
  /\ \A h \in Handles : Exists(h) => (value[handle[h].frame] <=> HoldsValue(handle[h]))
  /\ \A f \in Frames : out[f] = 0 => ~value[f]

Windows ==
  /\ \A h \in Handles : Exists(h) => handle[h].off + handle[h].len <= Cap
  /\ \A h, g \in Handles :
       h # g /\ Is(h, "buf") /\ Is(g, "buf") /\ handle[h].frame = handle[g].frame
         => Bytes(h) \cap Bytes(g) = {}

\* All but the count.
StateInv == Types /\ Shapes /\ Sharing /\ HandedOut /\ Values /\ Windows
HandlesInv == StateInv /\ CountsReferences

-----------------------------------------------------------------------------
(* Facts about constants *)

\* u16 arithmetic does not wrap within a window.
LEMMA WrapSmall ==
  ASSUME NEW n \in 0 .. Cap
  PROVE  Wrap(n) = n
<1>1. U16Max \in Nat /\ n \in Nat /\ n < U16Max + 1
  BY FrameHandlesAssumption DEF Cap
<1>2. ASSUME NEW m \in Nat, NEW x \in Nat, x < m PROVE x % m = x
  BY <1>2, SMT
<1> QED
  BY <1>1, <1>2 DEF Wrap

LEMMA CapType == Cap \in Nat /\ U16 \subseteq Nat
BY FrameHandlesAssumption DEF Cap, U16

\* A handle is never None.
LEMMA HandleExists == \A w \in Handle : w # None
BY FrameHandlesAssumption DEF None

\* The record updates of the actions stay handles.
LEMMA OfKind ==
  ASSUME NEW w \in Handle, NEW k \in Kinds
  PROVE  LET v == [w EXCEPT !.kind = k]
         IN  /\ v \in Handle /\ v.kind = k /\ v.at = w.at /\ v.frame = w.frame
             /\ v.off = w.off /\ v.len = w.len
BY DEF Handle

LEMMA AtStep ==
  ASSUME NEW w \in Handle, NEW s \in Steps
  PROVE  LET v == [w EXCEPT !.at = s]
         IN  /\ v \in Handle /\ v.kind = w.kind /\ v.at = s /\ v.frame = w.frame
             /\ v.off = w.off /\ v.len = w.len
BY DEF Handle

LEMMA FirstOfWindow ==
  ASSUME NEW w \in Handle, NEW n \in Nat
  PROVE  LET v == FirstOf(w, n)
         IN  /\ v \in Handle /\ v.kind = w.kind /\ v.at = w.at /\ v.frame = w.frame
             /\ w.off <= v.off /\ v.off + v.len <= w.off + w.len
BY DEF FirstOf, Handle

LEMMA AdvancedWindow ==
  ASSUME NEW w \in Handle, NEW n \in Nat, n <= w.len, w.off + w.len <= Cap
  PROVE  LET v == Advanced(w, n)
         IN  /\ v \in Handle /\ v.kind = w.kind /\ v.at = w.at /\ v.frame = w.frame
             /\ v.off = w.off + n /\ v.off + v.len = w.off + w.len
<1>1. w.off \in Nat /\ w.len \in Nat
  BY DEF Handle
<1>2. w.len - n \in Nat /\ Wrap(w.off + n) = w.off + n /\ w.off + n \in Nat
  BY <1>1, WrapSmall, CapType
<1> DEFINE a == w.off + n  b == w.len - n
<1>4. a \in Nat /\ b \in Nat /\ a + b = w.off + w.len /\ a = w.off + n
  BY <1>1, <1>2
<1>5. Advanced(w, n) = [w EXCEPT !.off = a, !.len = b]
  BY <1>2 DEF Advanced
<1> HIDE DEF a, b
<1> DEFINE v == Advanced(w, n)
<1>6. /\ v \in Handle /\ v.kind = w.kind /\ v.at = w.at /\ v.frame = w.frame
      /\ v.off = a /\ v.len = b
  BY <1>4, <1>5 DEF Handle
<1> QED
  BY <1>4, <1>6

-----------------------------------------------------------------------------
(* What steps do to the state part, by how they change the handles. *)

USE DEF Exists, Unused, Is

\* A new handle is of a frame that nobody had.
LEMMA NewKeeps ==
  ASSUME StateInv, NEW h \in Handles, NEW f \in Frames, NEW w \in Handle,
         Unused(h), out[f] = 0, out' = [out EXCEPT ![f] = 1],
         count' \in [Frames -> Int], handle' = [handle EXCEPT ![h] = w],
         w.frame = f, w.at = "live", w.off + w.len <= Cap,
         \/ w.kind = "owned" /\ value' = [value EXCEPT ![f] = TRUE]
         \/ w.kind = "mut" /\ value' = value
  PROVE  StateInv'
<1>1. handle'[h] = w /\ w # None /\ \A g \in Handles : g # h => handle'[g] = handle[g]
  BY HandleExists DEF StateInv, Types
<1>2. \A g \in Handles : Exists(g) => handle[g] \in Handle /\ handle[g].frame # f
  BY DEF StateInv, HandedOut, Types, None
<1>3. Types'
  <2>1. handle' \in [Handles -> Handle \cup {NoHandle}]
    BY DEF StateInv, Types
  <2>2. out' \in [Frames -> {0, 1}] /\ value' \in [Frames -> BOOLEAN]
    BY DEF StateInv, Types
  <2> QED
    BY <2>1, <2>2 DEF Types
<1>4. Shapes' /\ Sharing'
  BY <1>1, <1>2 DEF StateInv, Shapes, Sharing
<1>5. HandedOut'
  BY <1>1, <1>2 DEF StateInv, HandedOut, Types, Handle
<1>6. Values'
  <2>1. \A g \in Handles : Exists(g)' => (value'[handle'[g].frame] <=> HoldsValue(handle'[g]))
    BY <1>1, <1>2 DEF StateInv, Values, Types, Handle, HoldsValue
  <2>2. \A e \in Frames : out'[e] = 0 => ~value'[e]
    BY DEF StateInv, Values, Types
  <2> QED
    BY <2>1, <2>2 DEF Values
<1>7. Windows'
  BY <1>1 DEF StateInv, Windows, Bytes
<1> QED
  BY <1>3, <1>4, <1>5, <1>6, <1>7 DEF StateInv

\* A handle changes its kind or its step only when it is the only one of its
\* frame; its window only shrinks.
Sole(h) == \A g \in Handles : Exists(g) /\ g # h => handle[g].frame # handle[h].frame

LEMMA ChangeKeeps ==
  ASSUME StateInv, NEW h \in Handles, NEW w \in Handle,
         Exists(h), handle' = [handle EXCEPT ![h] = w], out' = out,
         count' \in [Frames -> Int], w.frame = handle[h].frame,
         Sole(h) \/ (w.kind = handle[h].kind /\ w.at = handle[h].at),
         w.at = "release" => w.kind = "owned", w.at = "destroy" => w.kind = "shared",
         handle[h].off <= w.off, w.off + w.len <= handle[h].off + handle[h].len,
         value' = [value EXCEPT ![w.frame] = HoldsValue(w)]
  PROVE  StateInv'
<1>1. /\ handle'[h] = w /\ w # None /\ \A g \in Handles : g # h => handle'[g] = handle[g]
      /\ \A g \in Handles : Exists(g) => handle[g] \in Handle
  BY HandleExists DEF StateInv, Types, None
<1>2. Types'
  <2>1. handle' \in [Handles -> Handle \cup {NoHandle}]
    BY DEF StateInv, Types
  <2>2. value' \in [Frames -> BOOLEAN]
    BY DEF StateInv, Types, HoldsValue
  <2> QED
    BY <2>1, <2>2 DEF StateInv, Types
<1>3. Shapes'
  BY <1>1 DEF StateInv, Shapes
<1>4. Sharing'
  BY <1>1 DEF StateInv, Sharing, Sole
<1>5. HandedOut'
  BY <1>1 DEF StateInv, HandedOut
<1>6. Values'
  <2>1. \A g \in Handles : Exists(g)' => (value'[handle'[g].frame] <=> HoldsValue(handle'[g]))
    <3> SUFFICES ASSUME NEW g \in Handles, Exists(g)'
                 PROVE  value'[handle'[g].frame] <=> HoldsValue(handle'[g])
      OBVIOUS
    <3>1. CASE g = h
      BY <1>1, <3>1 DEF StateInv, Types, Handle
    <3>2. CASE g # h /\ handle[g].frame = w.frame
      <4>1. w.kind = handle[h].kind /\ w.at = handle[h].at
        BY <1>1, <3>2 DEF Sole
      <4>2. value' = value
        BY <1>1, <4>1 DEF StateInv, Types, Values, HoldsValue
      <4> QED
        BY <1>1, <3>2, <4>2 DEF StateInv, Values
    <3>3. CASE g # h /\ handle[g].frame # w.frame
      BY <1>1, <3>3 DEF StateInv, Types, Handle, Values
    <3> QED
      BY <3>1, <3>2, <3>3
  <2>2. \A e \in Frames : out'[e] = 0 => ~value'[e]
    BY <1>1 DEF StateInv, Values, Types, HandedOut
  <2> QED
    BY <2>1, <2>2 DEF Values
<1>7. Windows'
  <2>1. \A g \in Handles : Exists(g)' => handle'[g].off + handle'[g].len <= Cap
    BY <1>1, CapType DEF StateInv, Windows, Handle
  <2>2. Is(h, "buf")' => Is(h, "buf") \/ Sole(h)
    BY <1>1
  <2>3. handle'[h].off .. handle'[h].off + handle'[h].len - 1 \subseteq Bytes(h)
    BY <1>1 DEF Bytes, Handle
  <2> QED
    BY <1>1, <2>1, <2>2, <2>3 DEF StateInv, Windows, Bytes, Sole
<1> QED
  BY <1>2, <1>3, <1>4, <1>5, <1>6, <1>7 DEF StateInv

\* A handle goes: the frame stays out, or it is recycled by its only handle.
LEMMA RemoveKeeps ==
  ASSUME StateInv, NEW h \in Handles, Exists(h), handle' = [handle EXCEPT ![h] = None],
         count' \in [Frames -> Int], value' = value,
         \/ out' = out
         \/ /\ out' = [out EXCEPT ![handle[h].frame] = 0]
            /\ Sole(h) /\ ~HoldsValue(handle[h])
  PROVE  StateInv'
<1>1. /\ handle'[h] = None /\ \A g \in Handles : g # h => handle'[g] = handle[g]
      /\ \A g \in Handles : Exists(g) => handle[g] \in Handle
  BY DEF StateInv, Types, None
<1>2. Types'
  <2>1. handle' \in [Handles -> Handle \cup {NoHandle}]
    BY DEF StateInv, Types, None
  <2>2. out' \in [Frames -> {0, 1}]
    BY DEF StateInv, Types
  <2> QED
    BY <2>1, <2>2 DEF StateInv, Types
<1>3. Shapes' /\ Sharing' /\ Windows'
  BY <1>1 DEF StateInv, Shapes, Sharing, Windows, Bytes
<1>4. HandedOut'
  BY <1>1 DEF StateInv, HandedOut, Types, Handle, Sole
<1>5. Values'
  <2>1. \A g \in Handles : Exists(g)' => (value'[handle'[g].frame] <=> HoldsValue(handle'[g]))
    BY <1>1 DEF StateInv, Values
  <2>2. \A e \in Frames : out'[e] = 0 => ~value'[e]
    BY <1>1 DEF StateInv, Values, Types, Handle
  <2> QED
    BY <2>1, <2>2 DEF Values
<1> QED
  BY <1>2, <1>3, <1>4, <1>5 DEF StateInv

\* Handle g is made from h, which is live, shared or a buffer: it takes the
\* bytes of h below position m, and h keeps those from m on.
LEMMA ShareKeeps ==
  ASSUME StateInv, NEW h \in Handles, NEW g \in Handles, NEW w \in Handle, NEW v \in Handle,
         Exists(h), handle[h].at = "live", handle[h].kind \in {"shared", "buf"}, Unused(g),
         handle' = [handle EXCEPT ![h] = w, ![g] = v],
         count' \in [Frames -> Int], out' = out, value' = value,
         w.kind = handle[h].kind, v.kind = handle[h].kind, w.at = "live", v.at = "live",
         w.frame = handle[h].frame, v.frame = handle[h].frame,
         handle[h].off <= w.off, w.off + w.len <= handle[h].off + handle[h].len,
         handle[h].off <= v.off, v.off + v.len <= handle[h].off + handle[h].len,
         v.kind = "buf" => v.off + v.len <= w.off
  PROVE  StateInv'
<1>1. /\ handle'[h] = w /\ handle'[g] = v /\ w # None /\ v # None /\ g # h
      /\ \A k \in Handles : k # h /\ k # g => handle'[k] = handle[k]
      /\ \A k \in Handles : Exists(k) => handle[k] \in Handle
  BY HandleExists DEF StateInv, Types, None
<1>0. \A k \in Handles : Exists(k)' => \E j \in Handles :
        /\ Exists(j) /\ handle'[k].frame = handle[j].frame
        /\ handle'[k].kind = handle[j].kind /\ handle'[k].at = handle[j].at
  <2> SUFFICES ASSUME NEW k \in Handles, Exists(k)'
               PROVE  \E j \in Handles :
                        /\ Exists(j) /\ handle'[k].frame = handle[j].frame
                        /\ handle'[k].kind = handle[j].kind /\ handle'[k].at = handle[j].at
    OBVIOUS
  <2>1. CASE k \in {g, h}
    BY <1>1, <2>1
  <2>2. CASE k \notin {g, h}
    BY <1>1, <2>2
  <2> QED
    BY <2>1, <2>2
<1>2. Types'
  <2>1. handle' \in [Handles -> Handle \cup {NoHandle}]
    BY DEF StateInv, Types
  <2> QED
    BY <2>1 DEF StateInv, Types
<1>3. Shapes'
  BY <1>1 DEF StateInv, Shapes
<1>4. Sharing'
  <2> SUFFICES ASSUME NEW k \in Handles, NEW l \in Handles, Exists(k)', Exists(l)', k # l,
                      handle'[k].frame = handle'[l].frame
               PROVE  /\ handle'[k].at = "live" /\ handle'[k].kind \in {"shared", "buf"}
                      /\ handle'[l].kind = handle'[k].kind
    BY DEF Sharing
  <2>1. CASE k \in {g, h} /\ l \in {g, h}
    BY <1>1, <2>1
  <2>2. CASE k \in {g, h} /\ l \notin {g, h}
    <3>1. Exists(l) /\ l # h /\ handle[l].frame = handle[h].frame /\ handle'[l] = handle[l]
      BY <1>1, <2>2
    <3>2. handle[l].kind = handle[h].kind
      BY <3>1 DEF StateInv, Sharing
    <3> QED
      BY <1>1, <2>2, <3>1, <3>2
  <2>3. CASE k \notin {g, h} /\ l \in {g, h}
    <3>1. Exists(k) /\ k # h /\ handle[k].frame = handle[h].frame /\ handle'[k] = handle[k]
      BY <1>1, <2>3
    <3>2. handle[k].kind = handle[h].kind /\ handle[k].at = "live"
      BY <3>1 DEF StateInv, Sharing
    <3> QED
      BY <1>1, <2>3, <3>1, <3>2
  <2>4. CASE k \notin {g, h} /\ l \notin {g, h}
    <3>1. handle'[k] = handle[k] /\ handle'[l] = handle[l]
      BY <1>1, <2>4
    <3> QED
      BY <3>1 DEF StateInv, Sharing
  <2> QED
    BY <2>1, <2>2, <2>3, <2>4
<1>5. HandedOut'
  <2> SUFFICES ASSUME NEW k \in Handles, Exists(k)' PROVE out'[handle'[k].frame] = 1
    BY DEF HandedOut
  <2>1. PICK j \in Handles : Exists(j) /\ handle'[k].frame = handle[j].frame
    BY <1>0
  <2>2. out[handle[j].frame] = 1
    BY <2>1 DEF StateInv, HandedOut
  <2> QED
    BY <2>1, <2>2
<1>6. Values'
  <2>1. ASSUME NEW k \in Handles, Exists(k)'
        PROVE  value'[handle'[k].frame] <=> HoldsValue(handle'[k])
    <3>1. PICK j \in Handles :
            /\ Exists(j) /\ handle'[k].frame = handle[j].frame
            /\ handle'[k].kind = handle[j].kind /\ handle'[k].at = handle[j].at
      BY <1>0, <2>1
    <3>2. value[handle[j].frame] <=> HoldsValue(handle[j])
      BY <3>1 DEF StateInv, Values
    <3>3. HoldsValue(handle[j]) <=> HoldsValue(handle'[k])
      BY <3>1 DEF HoldsValue
    <3> QED
      BY <3>1, <3>2, <3>3
  <2>2. \A e \in Frames : out'[e] = 0 => ~value'[e]
    BY DEF StateInv, Values
  <2> QED
    BY <2>1, <2>2 DEF Values
<1>7. Windows'
  <2>1. \A k \in Handles : Exists(k)' => handle'[k].off + handle'[k].len <= Cap
    <3>1. handle[h].off + handle[h].len <= Cap
      BY DEF StateInv, Windows
    <3>2. w.off + w.len <= Cap /\ v.off + v.len <= Cap
      BY <1>1, <3>1, CapType DEF Handle
    <3> SUFFICES ASSUME NEW k \in Handles, Exists(k)'
                 PROVE  handle'[k].off + handle'[k].len <= Cap
      OBVIOUS
    <3>3. CASE k \in {g, h}
      BY <1>1, <3>2, <3>3
    <3>4. CASE k \notin {g, h}
      BY <1>1, <3>4 DEF StateInv, Windows
    <3> QED
      BY <3>3, <3>4
  <2>2. /\ Bytes(h)' \subseteq Bytes(h) /\ Bytes(g)' \subseteq Bytes(h)
        /\ v.kind = "buf" => Bytes(h)' \cap Bytes(g)' = {}
    <3>1. /\ w.off \in Nat /\ w.len \in Nat /\ v.off \in Nat /\ v.len \in Nat
          /\ handle[h].off \in Nat /\ handle[h].len \in Nat
      BY <1>1 DEF Handle
    <3>2. /\ w.off .. w.off + w.len - 1 \subseteq handle[h].off .. handle[h].off + handle[h].len - 1
          /\ v.off .. v.off + v.len - 1 \subseteq handle[h].off .. handle[h].off + handle[h].len - 1
          /\ v.kind = "buf" => (w.off .. w.off + w.len - 1) \cap (v.off .. v.off + v.len - 1) = {}
      BY <3>1
    <3> QED
      BY <1>1, <3>2 DEF Bytes
  <2>3. \A k \in Handles : k # h /\ k # g => Bytes(k)' = Bytes(k)
    BY <1>1 DEF Bytes
  <2>4. ASSUME NEW k \in Handles, NEW l \in Handles, k # l, Is(k, "buf")', Is(l, "buf")',
               handle'[k].frame = handle'[l].frame
        PROVE  Bytes(k)' \cap Bytes(l)' = {}
    <3>1. CASE k \in {g, h} /\ l \in {g, h}
      BY <1>1, <2>2, <2>4, <3>1
    <3>2. CASE k \in {g, h} /\ l \notin {g, h}
      <4>1. Is(h, "buf") /\ Is(l, "buf") /\ handle[h].frame = handle[l].frame /\ l # h
        BY <1>1, <2>4, <3>2
      <4>2. Bytes(h) \cap Bytes(l) = {}
        BY <4>1 DEF StateInv, Windows
      <4> QED
        BY <2>2, <2>3, <3>2, <4>2
    <3>3. CASE k \notin {g, h} /\ l \in {g, h}
      <4>1. Is(h, "buf") /\ Is(k, "buf") /\ handle[h].frame = handle[k].frame /\ k # h
        BY <1>1, <2>4, <3>3
      <4>2. Bytes(h) \cap Bytes(k) = {}
        BY <4>1 DEF StateInv, Windows
      <4> QED
        BY <2>2, <2>3, <3>3, <4>2
    <3>4. CASE k \notin {g, h} /\ l \notin {g, h}
      <4>1. Is(k, "buf") /\ Is(l, "buf") /\ handle[l].frame = handle[k].frame
        BY <1>1, <2>4, <3>4
      <4> QED
        BY <2>3, <2>4, <3>4, <4>1 DEF StateInv, Windows
    <3> QED
      BY <3>1, <3>2, <3>3, <3>4
  <2> QED
    BY <2>1, <2>4 DEF Windows
<1> QED
  BY <1>2, <1>3, <1>4, <1>5, <1>6, <1>7 DEF StateInv

-----------------------------------------------------------------------------
(* What they do to the references *)

LEMMA RefsFinite == \A f \in Frames : IsFiniteSet(Refs(f))
<1>1. \A f \in Frames : Refs(f) \subseteq Handles
  BY DEF Refs, Of
<1> QED
  BY <1>1, FS_Subset, FrameHandlesAssumption

LEMMA CountGains ==
  ASSUME Types, CountsReferences, NEW f \in Frames, NEW g \in Handles,
         count' = [count EXCEPT ![f] = @ + 1], g \notin Refs(f), Refs(f)' = Refs(f) \cup {g},
         \A e \in Frames : e # f => Refs(e)' = Refs(e)
  PROVE  CountsReferences'
<1>1. Cardinality(Refs(f) \cup {g}) = Cardinality(Refs(f)) + 1
  BY RefsFinite, FS_AddElement
<1>2. count'[f] = Cardinality(Refs(f)')
  BY <1>1 DEF Types, CountsReferences
<1>3. \A e \in Frames : e # f => count'[e] = Cardinality(Refs(e)')
  BY DEF Types, CountsReferences
<1> QED
  BY <1>2, <1>3 DEF CountsReferences

LEMMA CountLoses ==
  ASSUME Types, CountsReferences, NEW f \in Frames, NEW h \in Handles,
         count' = [count EXCEPT ![f] = @ - 1], h \in Refs(f), Refs(f)' = Refs(f) \ {h},
         \A e \in Frames : e # f => Refs(e)' = Refs(e)
  PROVE  CountsReferences'
<1>1. Cardinality(Refs(f) \ {h}) = Cardinality(Refs(f)) - 1
  BY RefsFinite, FS_RemoveElement
<1>2. count'[f] = Cardinality(Refs(f)')
  BY <1>1 DEF Types, CountsReferences
<1>3. \A e \in Frames : e # f => count'[e] = Cardinality(Refs(e)')
  BY DEF Types, CountsReferences
<1> QED
  BY <1>2, <1>3 DEF CountsReferences

LEMMA CountStays ==
  ASSUME CountsReferences, count' = count, \A e \in Frames : Refs(e)' = Refs(e)
  PROVE  CountsReferences'
BY DEF CountsReferences

\* A frame that is not out has no references.
LEMMA NoRefs ==
  ASSUME StateInv, NEW f \in Frames, out[f] = 0
  PROVE  Refs(f) = {}
BY DEF StateInv, HandedOut, Refs, Of

\* A handle that finds the count at one is the only one of its frame.
LEMMA LastIsSole ==
  ASSUME HandlesInv, NEW h \in Handles, Exists(h), handle[h].at = "live",
         count[handle[h].frame] = 1
  PROVE  Sole(h)
<1> DEFINE f == handle[h].frame
<1>1. f \in Frames
  BY DEF HandlesInv, StateInv, Types, Handle, None
<1>2. Cardinality(Refs(f)) = 1 /\ h \in Refs(f)
  BY <1>1 DEF HandlesInv, CountsReferences, Refs, Of
<1>3. Refs(f) = {h}
  <2>1. Cardinality(Refs(f) \ {h}) = 0 /\ IsFiniteSet(Refs(f) \ {h})
    BY <1>1, <1>2, RefsFinite, FS_RemoveElement
  <2> QED
    BY <1>2, <2>1, FS_EmptySet
<1>4. ASSUME NEW g \in Handles, Exists(g), g # h, handle[g].frame = f PROVE FALSE
  <2>1. handle[g].at = "live"
    BY <1>4 DEF HandlesInv, StateInv, Sharing
  <2>2. g \in Refs(f)
    BY <1>4, <2>1 DEF Refs, Of
  <2> QED
    BY <1>3, <1>4, <2>2
<1> QED
  BY <1>4 DEF Sole

-----------------------------------------------------------------------------
(* One lemma per action *)

LEMMA LiveHandle ==
  ASSUME Types, NEW h \in Handles, Exists(h)
  PROVE  handle[h] \in Handle /\ handle[h].frame \in Frames
BY DEF Types, Handle, None

\* A handle that changes and keeps its reference leaves the references alone.
LEMMA ChangeKeepsRefs ==
  ASSUME Types, NEW h \in Handles, NEW w \in Handle, Exists(h),
         handle' = [handle EXCEPT ![h] = w], w.frame = handle[h].frame,
         w.at \in {"live", "release"} <=> handle[h].at \in {"live", "release"}
  PROVE  \A e \in Frames : Refs(e)' = Refs(e)
<1>1. w # None /\ handle'[h] = w /\ \A g \in Handles : g # h => handle'[g] = handle[g]
  BY HandleExists DEF Types
<1> QED
  BY <1>1 DEF Refs, Of

LEMMA CreateKeeps ==
  ASSUME HandlesInv, NEW h \in Handles, NEW f \in Frames, OwnedNew(h, f) \/ FrameMutNew(h, f)
  PROVE  HandlesInv'
<1> DEFINE w == IF OwnedNew(h, f) THEN New("owned", f, 0, 0) ELSE New("mut", f, 0, Cap)
<1>1. /\ Unused(h) /\ out[f] = 0 /\ out' = [out EXCEPT ![f] = 1]
      /\ handle' = [handle EXCEPT ![h] = w] /\ count' = [count EXCEPT ![f] = 1]
  BY DEF OwnedNew, FrameMutNew, Source!AllocFrame, HandlesInv, StateInv, Types, OnAlloc
<1>2. /\ w \in Handle /\ w.frame = f /\ w.at = "live" /\ w.off + w.len <= Cap
      /\ \/ w.kind = "owned" /\ value' = [value EXCEPT ![f] = TRUE]
         \/ w.kind = "mut" /\ value' = value
  BY CapType DEF New, Handle, Kinds, Steps, OwnedNew, FrameMutNew
<1> HIDE DEF w
<1>3. StateInv'
  <2>1. count' \in [Frames -> Int]
    BY <1>1 DEF HandlesInv, StateInv, Types
  <2> QED
    BY <1>1, <1>2, <2>1, NewKeeps DEF HandlesInv
<1>4. CountsReferences'
  <2>1. Refs(f) = {} /\ count[f] = 0
    BY <1>1, NoRefs, FS_EmptySet DEF HandlesInv, CountsReferences
  <2>2. count' = [count EXCEPT ![f] = @ + 1]
    BY <1>1, <2>1 DEF HandlesInv, StateInv, Types
  <2>3. w # None /\ handle'[h] = w /\ \A g \in Handles : g # h => handle'[g] = handle[g]
    BY <1>1, <1>2, HandleExists DEF HandlesInv, StateInv, Types
  <2>4. \A e \in Frames : Refs(e)' = IF e = f THEN Refs(f) \cup {h} ELSE Refs(e)
    BY <1>1, <1>2, <2>3 DEF Refs, Of
  <2> QED
    BY <2>1, <2>2, <2>4, CountGains DEF HandlesInv, StateInv
<1> QED
  BY <1>3, <1>4 DEF HandlesInv

LEMMA IntoSharedKeeps ==
  ASSUME HandlesInv, NEW h \in Handles, IntoShared(h)
  PROVE  HandlesInv'
<1> DEFINE w == [handle[h] EXCEPT !.kind = "shared"]
<1>1. /\ handle[h] \in Handle /\ Exists(h) /\ handle[h].kind = "owned" /\ handle[h].at = "live"
      /\ handle' = [handle EXCEPT ![h] = w]
      /\ out' = out /\ count' = count /\ value' = value
  BY LiveHandle DEF IntoShared, HandlesInv, StateInv
<1>2. /\ w \in Handle /\ w.frame = handle[h].frame /\ w.kind = "shared" /\ w.at = "live"
      /\ w.off = handle[h].off /\ w.len = handle[h].len
  BY <1>1, OfKind DEF Kinds
<1> HIDE DEF w
<1>3. Sole(h)
  BY <1>1 DEF HandlesInv, StateInv, Sharing, Sole
<1>4. value' = [value EXCEPT ![w.frame] = HoldsValue(w)]
  BY <1>1, <1>2 DEF HandlesInv, StateInv, Types, Values, HoldsValue
<1>5. StateInv'
  <2>1. /\ StateInv /\ count' \in [Frames -> Int]
        /\ handle[h].off <= w.off /\ w.off + w.len <= handle[h].off + handle[h].len
    BY <1>1, <1>2 DEF HandlesInv, StateInv, Types, Handle
  <2> QED
    BY <1>1, <1>2, <1>3, <1>4, <2>1, ChangeKeeps
<1>6. CountsReferences'
  BY <1>1, <1>2, ChangeKeepsRefs, CountStays DEF HandlesInv, StateInv
<1> QED
  BY <1>5, <1>6 DEF HandlesInv

LEMMA CloneKeeps ==
  ASSUME HandlesInv, NEW h \in Handles, NEW g \in Handles, Clone(h, g)
  PROVE  HandlesInv'
<1> DEFINE w == handle[h]  f == w.frame
<1>1. /\ w \in Handle /\ f \in Frames /\ w # None /\ w.kind = "shared" /\ w.at = "live"
      /\ Unused(g) /\ g # h /\ handle' = [handle EXCEPT ![h] = w, ![g] = w]
      /\ out' = out /\ count' = [count EXCEPT ![f] = @ + 1] /\ value' = value
  BY LiveHandle DEF Clone, HandlesInv, StateInv, Types, Retained
<1>2. count' \in [Frames -> Int]
  BY <1>1 DEF HandlesInv, StateInv, Types
<1>3. w.off \in Nat /\ w.len \in Nat
  BY <1>1 DEF Handle
<1>4. StateInv'
  <2>1. w = handle[h] /\ w.off <= w.off /\ w.off + w.len <= w.off + w.len
    BY <1>3
  <2> HIDE DEF w
  <2> QED
    BY <1>1, <1>2, <2>1, ShareKeeps DEF HandlesInv
<1>5. CountsReferences'
  <2>1. handle'[g] = w /\ \A k \in Handles : k # g => handle'[k] = handle[k]
    BY <1>1 DEF HandlesInv, StateInv, Types
  <2>2. \A e \in Frames : Refs(e)' = IF e = f THEN Refs(f) \cup {g} ELSE Refs(e)
    BY <1>1, <2>1, ZenonT(60) DEF Refs, Of
  <2>3. g \notin Refs(f)
    BY <1>1 DEF Refs, Of
  <2> QED
    BY <1>1, <2>2, <2>3, CountGains DEF HandlesInv, StateInv
<1> QED
  BY <1>4, <1>5 DEF HandlesInv

\* freeze, truncate and advance: the window shrinks, and a FrameMut may become
\* a FrameBuf.
LEMMA WindowKeeps ==
  ASSUME HandlesInv, NEW h \in Handles, NEW n \in U16,
         Freeze(h, n) \/ Truncate(h, n) \/ Advance(h, n)
  PROVE  HandlesInv'
<1>1. PICK w \in Handle :
        /\ Exists(h) /\ handle[h].at = "live" /\ handle[h] \in Handle
        /\ handle' = [handle EXCEPT ![h] = w] /\ out' = out /\ count' = count /\ value' = value
        /\ w.frame = handle[h].frame /\ w.at = "live" /\ w.kind = "buf"
        /\ handle[h].kind \in {"mut", "buf"}
        /\ handle[h].off <= w.off /\ w.off + w.len <= handle[h].off + handle[h].len
  <2>1. Exists(h) /\ handle[h].at = "live" /\ handle[h] \in Handle /\ handle[h].kind \in {"mut", "buf"}
    BY LiveHandle DEF HandlesInv, StateInv, Freeze, Truncate, Advance
  <2>2. /\ handle[h].off \in Nat /\ handle[h].len \in Nat /\ n \in Nat
        /\ handle[h].off + handle[h].len <= Cap /\ Cap \in Nat
    BY <2>1, CapType DEF Handle, HandlesInv, StateInv, Windows
  <2>3. CASE Freeze(h, n)
    <3> DEFINE w == [FirstOf(handle[h], n) EXCEPT !.kind = "buf"]
    <3>1. handle' = [handle EXCEPT ![h] = w] /\ out' = out /\ count' = count /\ value' = value
      BY <2>3 DEF Freeze
    <3>2. /\ w \in Handle /\ w.frame = handle[h].frame /\ w.at = "live" /\ w.kind = "buf"
          /\ handle[h].off <= w.off /\ w.off + w.len <= handle[h].off + handle[h].len
      <4> DEFINE u == FirstOf(handle[h], n)
      <4>1. /\ u \in Handle /\ u.frame = handle[h].frame /\ u.at = handle[h].at
            /\ handle[h].off <= u.off /\ u.off + u.len <= handle[h].off + handle[h].len
        BY <2>1, <2>2, FirstOfWindow
      <4>2. w = [u EXCEPT !.kind = "buf"]
        OBVIOUS
      <4> HIDE DEF u, w
      <4> QED
        BY <2>1, <4>1, <4>2, OfKind DEF Kinds
    <3> QED
      BY <2>1, <3>1, <3>2
  <2>4. CASE Truncate(h, n)
    <3> DEFINE w == FirstOf(handle[h], n)
    <3>1. handle' = [handle EXCEPT ![h] = w] /\ out' = out /\ count' = count /\ value' = value
      BY <2>4 DEF Truncate
    <3>2. /\ w \in Handle /\ w.frame = handle[h].frame /\ w.at = "live" /\ w.kind = "buf"
          /\ handle[h].off <= w.off /\ w.off + w.len <= handle[h].off + handle[h].len
      BY <2>1, <2>2, <2>4, FirstOfWindow DEF Truncate
    <3> QED
      BY <2>1, <3>1, <3>2
  <2>5. CASE Advance(h, n)
    <3> DEFINE w == Advanced(handle[h], n)
    <3>1. handle' = [handle EXCEPT ![h] = w] /\ out' = out /\ count' = count /\ value' = value
      BY <2>5 DEF Advance
    <3>2. n <= handle[h].len /\ handle[h].kind = "buf"
      BY <2>5 DEF Advance
    <3>3. /\ w \in Handle /\ w.frame = handle[h].frame /\ w.at = "live" /\ w.kind = "buf"
          /\ handle[h].off <= w.off /\ w.off + w.len <= handle[h].off + handle[h].len
      BY <2>1, <2>2, <3>2, AdvancedWindow
    <3> QED
      BY <2>1, <3>1, <3>3
  <2> QED
    BY <2>3, <2>4, <2>5
<1>2. handle[h].kind = "mut" => Sole(h)
  BY <1>1 DEF HandlesInv, StateInv, Sharing, Sole
<1>3. value' = [value EXCEPT ![w.frame] = HoldsValue(w)]
  BY <1>1, LiveHandle DEF HandlesInv, StateInv, Types, Values, HoldsValue
<1>4. StateInv'
  BY <1>1, <1>2, <1>3, ChangeKeeps DEF HandlesInv, StateInv, Types
<1>5. CountsReferences'
  BY <1>1, ChangeKeepsRefs, CountStays DEF HandlesInv, StateInv
<1> QED
  BY <1>4, <1>5 DEF HandlesInv

LEMMA SplitToKeeps ==
  ASSUME HandlesInv, NEW h \in Handles, NEW g \in Handles, NEW n \in U16, SplitTo(h, g, n)
  PROVE  HandlesInv'
<1> DEFINE w == Advanced(handle[h], n)
           v == [handle[h] EXCEPT !.len = n]
           f == handle[h].frame
<1>1. /\ handle[h] \in Handle /\ f \in Frames /\ Exists(h) /\ handle[h].kind = "buf"
      /\ handle[h].at = "live" /\ n <= handle[h].len /\ Unused(g) /\ g # h
      /\ handle' = [handle EXCEPT ![h] = w, ![g] = v]
      /\ out' = out /\ count' = [count EXCEPT ![f] = @ + 1] /\ value' = value
  BY LiveHandle DEF SplitTo, HandlesInv, StateInv, Types, Retained
<1>2. /\ handle[h].off \in Nat /\ handle[h].len \in Nat /\ n \in Nat
      /\ handle[h].off + handle[h].len <= Cap /\ Cap \in Nat
  BY <1>1, CapType DEF Handle, HandlesInv, StateInv, Windows
<1>4. /\ w \in Handle /\ w.frame = f /\ w.at = "live" /\ w.kind = "buf"
      /\ w.off = handle[h].off + n /\ w.off + w.len = handle[h].off + handle[h].len
  BY <1>1, <1>2, AdvancedWindow
<1>5. /\ v \in Handle /\ v.frame = f /\ v.at = "live" /\ v.kind = "buf"
      /\ v.off = handle[h].off /\ v.len = n
  BY <1>1, <1>2 DEF Handle, Kinds
<1> HIDE DEF w, v
<1>6. count' \in [Frames -> Int]
  BY <1>1 DEF HandlesInv, StateInv, Types
<1>7. StateInv'
  <2>1. /\ handle[h].off <= w.off /\ w.off + w.len <= handle[h].off + handle[h].len
        /\ handle[h].off <= v.off /\ v.off + v.len <= handle[h].off + handle[h].len
        /\ v.off + v.len <= w.off
    BY <1>1, <1>2, <1>4, <1>5
  <2>2. /\ StateInv /\ w.kind = handle[h].kind /\ v.kind = handle[h].kind
        /\ handle[h].kind \in {"shared", "buf"}
    BY <1>1, <1>4, <1>5 DEF HandlesInv
  <2> QED
    BY <1>1, <1>4, <1>5, <1>6, <2>1, <2>2, ShareKeeps
<1>8. CountsReferences'
  <2>1. /\ handle'[h] = w /\ handle'[g] = v /\ w # None /\ v # None
        /\ \A k \in Handles : k \notin {g, h} => handle'[k] = handle[k]
    BY <1>1, <1>4, <1>5, HandleExists DEF HandlesInv, StateInv, Types
  <2>2. \A e \in Frames : Refs(e)' = IF e = f THEN Refs(f) \cup {g} ELSE Refs(e)
    <3>1. \A k \in Handles : k # g => /\ Exists(k)' <=> Exists(k)
                                     /\ handle'[k].frame = handle[k].frame
                                     /\ handle'[k].at = handle[k].at
      BY <1>1, <1>4, <2>1
    <3>2. Exists(g)' /\ handle'[g].frame = f /\ handle'[g].at = "live" /\ ~Exists(g)
      BY <1>1, <1>5, <2>1
    <3> QED
      BY <3>1, <3>2 DEF Refs, Of
  <2>3. g \notin Refs(f)
    BY <1>1 DEF Refs, Of
  <2> QED
    BY <1>1, <2>2, <2>3, CountGains DEF HandlesInv, StateInv
<1> QED
  BY <1>7, <1>8 DEF HandlesInv

\* The steps of a drop that keep the handle, and the reference with it.
LEMMA DestroyKeeps ==
  ASSUME HandlesInv, NEW h \in Handles, OwnedDrop(h) \/ Destroy(h)
  PROVE  HandlesInv'
<1> DEFINE s == IF OwnedDrop(h) THEN "release" ELSE "recycle"
           w == [handle[h] EXCEPT !.at = s]
<1>1. /\ Exists(h) /\ handle[h] \in Handle /\ handle' = [handle EXCEPT ![h] = w]
      /\ out' = out /\ count' = count /\ value' = [value EXCEPT ![handle[h].frame] = FALSE]
      /\ \/ handle[h].kind = "owned" /\ handle[h].at = "live" /\ s = "release"
         \/ handle[h].at = "destroy" /\ s = "recycle"
  BY LiveHandle DEF OwnedDrop, Destroy, HandlesInv, StateInv
<1> HIDE DEF s
<1>2. /\ w \in Handle /\ w.frame = handle[h].frame /\ w.kind = handle[h].kind /\ w.at = s
      /\ w.off = handle[h].off /\ w.len = handle[h].len
  <2>1. s \in Steps
    BY <1>1 DEF Steps
  <2> QED
    BY <1>1, <2>1, AtStep
<1> HIDE DEF w
<1>3. Sole(h)
  BY <1>1 DEF HandlesInv, StateInv, Sharing, Sole
<1>4. value' = [value EXCEPT ![w.frame] = HoldsValue(w)]
  BY <1>1, <1>2 DEF HoldsValue
<1>5. StateInv'
  <2>1. /\ StateInv /\ count' \in [Frames -> Int]
        /\ handle[h].off <= w.off /\ w.off + w.len <= handle[h].off + handle[h].len
        /\ w.at = "release" => w.kind = "owned"
        /\ w.at = "destroy" => w.kind = "shared"
    BY <1>1, <1>2 DEF HandlesInv, StateInv, Types, Handle
  <2> QED
    BY <1>1, <1>2, <1>3, <1>4, <2>1, ChangeKeeps
<1>6. CountsReferences'
  BY <1>1, <1>2, ChangeKeepsRefs, CountStays DEF HandlesInv, StateInv
<1> QED
  BY <1>5, <1>6 DEF HandlesInv

\* A handle that releases its reference stays to finish the drop, alone, or is
\* gone.
LEMMA ReleaseKeeps ==
  ASSUME HandlesInv, NEW h \in Handles, ReleaseSole(h) \/ ReleaseShared(h)
  PROVE  HandlesInv'
<1> DEFINE f == handle[h].frame
<1>1. /\ Exists(h) /\ handle[h] \in Handle /\ f \in Frames
      /\ out' = out /\ value' = value /\ count' = [count EXCEPT ![f] = @ - 1]
      /\ handle[h].at \in {"live", "release"}
  BY LiveHandle DEF ReleaseSole, ReleaseShared, HandlesInv, StateInv, Released
<1>2. StateInv /\ Types /\ count' \in [Frames -> Int]
  BY <1>1 DEF HandlesInv, StateInv, Types
<1>3. ASSUME NEW s \in {"destroy", "recycle"}, handle' = [handle EXCEPT ![h].at = s], Sole(h),
             s = "destroy" <=> handle[h].kind = "shared",
             handle[h].kind = "owned" => handle[h].at = "release"
      PROVE  HandlesInv'
  <2> DEFINE w == [handle[h] EXCEPT !.at = s]
  <2>1. /\ w \in Handle /\ w.frame = f /\ w.kind = handle[h].kind /\ w.at = s
        /\ w.off = handle[h].off /\ w.len = handle[h].len /\ handle' = [handle EXCEPT ![h] = w]
    <3>1. s \in Steps
      BY <1>3 DEF Steps
    <3>2. handle' = [handle EXCEPT ![h] = w]
      BY <1>3
    <3> QED
      BY <1>1, <3>1, <3>2, AtStep
  <2> HIDE DEF w
  <2>2. StateInv'
    <3>1. value' = [value EXCEPT ![w.frame] = HoldsValue(w)]
      BY <1>1, <1>2, <1>3, <2>1 DEF StateInv, Shapes, Types, Values, HoldsValue, Handle, Kinds
    <3>2. /\ handle[h].off <= w.off /\ w.off + w.len <= handle[h].off + handle[h].len
          /\ w.at = "release" => w.kind = "owned"
          /\ w.at = "destroy" => w.kind = "shared"
      BY <1>1, <1>3, <2>1 DEF Handle
    <3> QED
      BY <1>1, <1>2, <1>3, <2>1, <3>1, <3>2, ChangeKeeps
  <2>3. w # None /\ handle'[h] = w /\ \A g \in Handles : g # h => handle'[g] = handle[g]
    BY <1>2, <2>1, HandleExists DEF Types
  <2>4. h \in Refs(f) /\ \A e \in Frames : Refs(e)' = IF e = f THEN Refs(f) \ {h} ELSE Refs(e)
    BY <1>1, <1>3, <2>1, <2>3 DEF Refs, Of
  <2> QED
    BY <1>1, <1>2, <2>2, <2>4, CountLoses DEF HandlesInv
<1>4. CASE ReleaseSole(h)
  <2>1. /\ handle' = [handle EXCEPT ![h].at = "recycle"]
        /\ \/ handle[h].at = "release"
           \/ handle[h].kind = "mut"
    BY <1>4 DEF ReleaseSole
  <2>2. handle[h].kind \in {"owned", "mut"} /\ (handle[h].kind = "owned" => handle[h].at = "release")
    BY <1>1, <1>2, <2>1 DEF StateInv, Shapes
  <2>3. Sole(h)
    BY <1>1, <1>2, <2>2 DEF StateInv, Sharing, Sole
  <2> QED
    BY <1>3, <2>1, <2>2, <2>3
<1>5. CASE ReleaseShared(h) /\ LastReference(f)
  <2> DEFINE s == IF handle[h].kind = "shared" THEN "destroy" ELSE "recycle"
  <2>1. handle' = [handle EXCEPT ![h].at = s] /\ handle[h].kind \in {"shared", "buf"}
        /\ handle[h].at = "live"
    BY <1>5 DEF ReleaseShared
  <2>2. Sole(h)
    BY <1>1, <1>5, <2>1, LastIsSole DEF LastReference
  <2> QED
    BY <1>3, <2>1, <2>2
<1>6. CASE ReleaseShared(h) /\ ~LastReference(f)
  <2>1. handle' = [handle EXCEPT ![h] = None]
    BY <1>6 DEF ReleaseShared
  <2>2. StateInv'
    BY <1>1, <1>2, <2>1, RemoveKeeps
  <2>3. handle'[h] = None /\ \A g \in Handles : g # h => handle'[g] = handle[g]
    BY <1>2, <2>1 DEF Types
  <2>4. h \in Refs(f) /\ \A e \in Frames : Refs(e)' = IF e = f THEN Refs(f) \ {h} ELSE Refs(e)
    BY <1>1, <2>3 DEF Refs, Of
  <2> QED
    BY <1>1, <1>2, <2>2, <2>4, CountLoses DEF HandlesInv
<1> QED
  BY <1>4, <1>5, <1>6

LEMMA RecycleKeeps ==
  ASSUME HandlesInv, NEW h \in Handles, RecycleFrame(h)
  PROVE  /\ HandlesInv'
         /\ out[handle[h].frame] = 1 /\ handle[h].frame \in Frames
<1>1. /\ Exists(h) /\ handle[h].frame \in Frames /\ handle[h].at = "recycle"
      /\ handle' = [handle EXCEPT ![h] = None] /\ count' = count /\ value' = value
      /\ out' = [out EXCEPT ![handle[h].frame] = @ - 1]
  BY LiveHandle DEF RecycleFrame, HandlesInv, StateInv
<1>2. out[handle[h].frame] = 1
  BY <1>1 DEF HandlesInv, StateInv, HandedOut
<1>3. StateInv'
  <2>1. out' = [out EXCEPT ![handle[h].frame] = 0]
    BY <1>1, <1>2
  <2>2. Sole(h) /\ ~HoldsValue(handle[h])
    BY <1>1 DEF HandlesInv, StateInv, Sharing, Sole, HoldsValue
  <2>3. StateInv /\ count' \in [Frames -> Int]
    BY <1>1 DEF HandlesInv, StateInv, Types
  <2> QED
    BY <1>1, <2>1, <2>2, <2>3, RemoveKeeps
<1>4. CountsReferences'
  <2>1. handle'[h] = None /\ \A g \in Handles : g # h => handle'[g] = handle[g]
    BY <1>1 DEF HandlesInv, StateInv, Types
  <2>2. \A e \in Frames : Refs(e)' = Refs(e)
    BY <1>1, <2>1 DEF Refs, Of
  <2> QED
    BY <1>1, <2>2, CountStays DEF HandlesInv
<1> QED
  BY <1>1, <1>2, <1>3, <1>4 DEF HandlesInv

-----------------------------------------------------------------------------
(* The theorems *)

LEMMA InitHandles == Init => HandlesInv
<1> SUFFICES ASSUME Init PROVE HandlesInv
  OBVIOUS
<1>1. StateInv
  BY DEF Init, Source!SInit, StateInv, Types, Shapes, Sharing, HandedOut, Values, Windows, None
<1>2. \A f \in Frames : Refs(f) = {} /\ count[f] = 0
  BY DEF Init, Refs, Of
<1>3. CountsReferences
  BY <1>2, FS_EmptySet DEF CountsReferences
<1> QED
  BY <1>1, <1>3 DEF HandlesInv

LEMMA UnchangedHandles ==
  ASSUME HandlesInv, UNCHANGED vars
  PROVE  HandlesInv'
BY DEF HandlesInv, StateInv, Types, Shapes, Sharing, HandedOut, Values, Windows, Bytes, HoldsValue,
       CountsReferences, Refs, Of, vars

LEMMA NextHandles == HandlesInv /\ [Next]_vars => HandlesInv'
<1> SUFFICES ASSUME HandlesInv, [Next]_vars PROVE HandlesInv'
  OBVIOUS
<1>1. ASSUME NEW h \in Handles, NEW f \in Frames, OwnedNew(h, f) \/ FrameMutNew(h, f)
      PROVE  HandlesInv'
  BY <1>1, CreateKeeps
<1>2. CASE NewFails \/ UNCHANGED vars
  BY <1>2, UnchangedHandles DEF NewFails
<1>3. ASSUME NEW h \in Handles, IntoShared(h) PROVE HandlesInv'
  BY <1>3, IntoSharedKeeps
<1>4. ASSUME NEW h \in Handles, NEW g \in Handles, Clone(h, g) PROVE HandlesInv'
  BY <1>4, CloneKeeps
<1>5. ASSUME NEW h \in Handles, NEW n \in U16, Freeze(h, n) \/ Truncate(h, n) \/ Advance(h, n)
      PROVE  HandlesInv'
  BY <1>5, WindowKeeps
<1>6. ASSUME NEW h \in Handles, NEW g \in Handles, NEW n \in U16, SplitTo(h, g, n)
      PROVE  HandlesInv'
  BY <1>6, SplitToKeeps
<1>7. ASSUME NEW h \in Handles, Drop(h) PROVE HandlesInv'
  BY <1>7, DestroyKeeps, ReleaseKeeps, RecycleKeeps DEF Drop
<1> QED
  BY <1>1, <1>2, <1>3, <1>4, <1>5, <1>6, <1>7 DEF Next, Create, Use

\* The count kept out of band (frame.rs, RefCount) is the number of handles that
\* have not released their reference, whatever the threads do with them.
THEOREM CountAlwaysRight == Spec => []CountsReferences
<1>1. Spec => []HandlesInv
  BY InitHandles, NextHandles, PTL DEF Spec
<1>2. HandlesInv => CountsReferences
  BY DEF HandlesInv
<1> QED
  BY <1>1, <1>2, PTL

\* A value is alive while a handle can read it, and destroyed before its frame
\* is recycled.
THEOREM ValuesAlwaysAlive == Spec => []ValuesAlive
<1>1. Spec => []HandlesInv
  BY InitHandles, NextHandles, PTL DEF Spec
<1>2. HandlesInv => ValuesAlive
  BY DEF HandlesInv, StateInv, Values, HoldsValue, ValuesAlive
<1> QED
  BY <1>1, <1>2, PTL

\* No two FrameBufs of a frame name a common byte, no window leaves its frame,
\* and an exclusive handle is the only one.
THEOREM WindowsAlwaysDisjoint == Spec => []WindowsDisjoint
<1>1. Spec => []HandlesInv
  BY InitHandles, NextHandles, PTL DEF Spec
<1>2. HandlesInv => WindowsDisjoint
  <2> SUFFICES ASSUME HandlesInv, NEW h \in Handles, NEW g \in Handles
               PROVE  /\ Exists(h) => handle[h].off + handle[h].len <= Cap
                      /\ h # g /\ Is(h, "buf") /\ Is(g, "buf") /\ handle[h].frame = handle[g].frame
                           => Bytes(h) \cap Bytes(g) = {}
                      /\ Is(h, "owned") \/ Is(h, "mut") => Of(handle[h].frame) = {h}
    BY DEF WindowsDisjoint
  <2>1. Is(h, "owned") \/ Is(h, "mut") => Of(handle[h].frame) = {h}
    BY DEF HandlesInv, StateInv, Sharing, Of
  <2> QED
    BY <2>1 DEF HandlesInv, StateInv, Windows
<1> QED
  BY <1>1, <1>2, PTL

\* The handles implement the contract of the pool: a frame is handed out only
\* when it is not out, and recycled once.
THEOREM HandlesUseFrameSource == Spec => UsesFrameSource
<1>1. Init => Source!SInit
  BY DEF Init
<1>2. HandlesInv /\ [Next]_vars => [Source!SNext]_out
  <2> SUFFICES ASSUME HandlesInv, [Next]_vars PROVE Source!SNext \/ UNCHANGED out
    OBVIOUS
  <2>1. ASSUME NEW h \in Handles, NEW f \in Frames, OwnedNew(h, f) \/ FrameMutNew(h, f)
        PROVE  Source!SNext
    BY <2>1 DEF OwnedNew, FrameMutNew, Source!SNext
  <2>2. ASSUME NEW h \in Handles, RecycleFrame(h) PROVE Source!SNext
    BY <2>2, RecycleKeeps DEF RecycleFrame, Source!SNext, Source!RecycleFrame
  <2>3. ASSUME NEW h \in Handles, Drop(h), ~RecycleFrame(h) PROVE UNCHANGED out
    BY <2>3 DEF Drop, OwnedDrop, ReleaseSole, ReleaseShared, Destroy
  <2>4. Use \/ NewFails \/ UNCHANGED vars => UNCHANGED out
    BY DEF Use, NewFails, vars, IntoShared, Clone, Freeze, Truncate, Advance, SplitTo
  <2> QED
    BY <2>1, <2>2, <2>3, <2>4 DEF Next, Create
<1> QED
  BY <1>1, <1>2, InitHandles, NextHandles, PTL DEF Spec, UsesFrameSource, Source!Spec

=============================================================================
