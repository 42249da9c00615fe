--------------------------- MODULE StartupProofs ---------------------------
(***************************************************************************)
(* No call of reserve_with loses or shares a mapping, every Reservation is *)
(* truthful, and what configure() and configure_sized publish is complete  *)
(* and stays, for any number of callers, sub-heaps and budgets, any sizes  *)
(* and any refusals by the kernel.                                         *)
(***************************************************************************)
EXTENDS Startup, FiniteSetTheorems, TLAPS

-----------------------------------------------------------------------------
(* The inductive invariant *)

Ats   == {"idle", "mmap", "mmap_base", "lock", "ok", "err"}
Errs  == {"none", "config", "rlimit", "mmap", "mlock"}
Call  == [at : Ats, opts : Opts, map_len : Nat, hp : Nat, hp_size : Nat,
          base : Bases \cup {NoBase}, locked : BOOLEAN, err : Errs]
Answers == {"none", "Ok", "Err"}
Region  == [len : Nat, page : Nat, locked : BOOLEAN, touched : BOOLEAN]
Res     == [base : Bases, len : Nat, locked : BOOLEAN, huge_page_size : Nat, opts : Opts]
SubHeapOf == [name : STRING, res : Res]
Job     == [kind : {"none", "registry", "frames", "own"}, budgets : BudgetMaps \cup {NoBudgets},
            map : Seq(SubHeapOf)]

ReserveTypes == maps \in [Bases -> Region] /\ call \in [Callers -> Call]

JobTypes ==
  /\ job \in [Callers -> Job]
  /\ configured.map \in Seq(SubHeapOf)
  /\ subheaps \subseteq SubHeapOf /\ pools \subseteq Res /\ kept \subseteq Res
  /\ answer \in [Callers -> Answers]

\* A call between its mmap and its caller taking the result owns its mapping.
Making(c) == call[c].at \in {"lock", "ok"}

\* What a call knows at each of its steps.
HugeAsAsked(w) ==
  w.opts.huge = "on" => \/ w.hp_size = w.opts.hugeReq
                        \/ w.opts.hugeReq = 0 /\ w.hp_size = DefaultHuge
Result(w) == [base |-> w.base, len |-> w.map_len, locked |-> w.locked,
              huge_page_size |-> w.hp_size, opts |-> w.opts]
Knows(w) ==
  /\ w.at \in {"mmap", "mmap_base", "lock", "ok"} =>
       w.map_len >= w.opts.len /\ w.opts.len > 0 /\ HugeAsAsked(w)
  /\ w.at = "mmap" => w.hp_size = w.hp /\ ~w.locked
  /\ w.at = "mmap_base" => w.hp_size = 0 /\ ~w.locked
  /\ w.at = "lock" => /\ w.base \in Bases /\ ~w.locked /\ ~maps[w.base].locked
                      /\ maps[w.base].len = w.map_len /\ maps[w.base].page = w.hp_size
  /\ w.at = "ok" => w.base \in Bases /\ Truthful(Result(w))
Calls == \A c \in Callers : Knows(call[c])

\* Nothing is owned twice, everything owned is mapped, everything mapped owned.
Distinct ==
  /\ \A c, d \in Callers : Making(c) /\ Making(d) /\ call[c].base = call[d].base => c = d
  /\ \A r, s \in Reservations : r.base = s.base => r = s
  /\ \A c \in Callers, r \in Reservations : Making(c) => call[c].base # r.base
  /\ \A r \in kept : r \notin pools /\ \A sh \in subheaps : sh.res # r
OwnedMapped ==
  /\ \A c \in Callers : Making(c) => call[c].base \in Mapped
  /\ \A r \in Reservations : r.base \in Mapped
MappedOwned ==
  \A b \in Mapped : \/ \E c \in Callers : Making(c) /\ call[c].base = b
                    \/ \E r \in Reservations : r.base = b

\* A sub-heap that configure() built for registration i.
BuiltFor(sh, i, b) ==
  /\ sh.name = Registrations[i] /\ sh \in subheaps
  /\ sh.res.opts = Default(SlabLen + b.subs[Registrations[i]])
Accepted == {b \in BudgetMaps : Missing(b) = {} /\ ~(BudgetSum(b) > b.total)}
JobOk(c) ==
  /\ call[c].at # "idle" => ~Free(c)
  /\ Doing(c, "registry") =>
       /\ job[c].budgets \in Accepted /\ Len(job[c].map) <= Len(Registrations)
       /\ \A i \in 1 .. Len(job[c].map) : BuiltFor(job[c].map[i], i, job[c].budgets)
       /\ call[c].at # "idle" =>
            /\ Building(c)
            /\ call[c].opts = Default(SlabLen + job[c].budgets.subs[NextName(c)])
Jobs == \A c \in Callers : JobOk(c)

Published ==
  /\ IsConfigured =>
       /\ configured.budgets \in Accepted /\ Len(configured.map) = Len(Registrations)
       /\ \A i \in 1 .. Len(configured.map) : BuiltFor(configured.map[i], i, configured.budgets)
  /\ ~IsConfigured => configured.map = <<>>
  /\ pool # NoBase => \E r \in pools : r.base = pool

ReserveInv == ReserveTypes /\ Calls
OwnersInv  == Distinct /\ OwnedMapped /\ MappedOwned /\ EffectiveState
StartupInv == ReserveInv /\ JobTypes /\ OwnersInv /\ Jobs /\ Published

-----------------------------------------------------------------------------
(* reserve_with *)

\* Rounding up to huge pages does not make a reservation shorter.
LEMMA RoundUpEnough ==
  ASSUME NEW n \in Nat, NEW size \in Nat, size # 0
  PROVE  RoundUp(n, size) \in Nat /\ RoundUp(n, size) >= n
<1> DEFINE m == n + size - 1  q == m \div size
<1>0. ASSUME NEW a \in Nat, NEW d \in Nat, d # 0
      PROVE  a \div d \in Nat /\ a < d * (a \div d) + d
  BY <1>0, SMT
<1>1. m \in Nat /\ q \in Nat /\ m < size * q + size
  BY <1>0
<1>2. size * q \in Nat /\ size * q = q * size
  BY <1>1, SMT
<1> QED
  BY <1>1, <1>2, SMT DEF RoundUp

LEMMA ResolvedSize ==
  ASSUME NEW o \in Opts, NEW size \in ResolveHugePages(o)
  PROVE  /\ size \in Nat
         /\ size # 0 => size = o.hugeReq \/ (o.hugeReq = 0 /\ size = DefaultHuge)
BY ReservationAssumption DEF ResolveHugePages, Opts

\* A call starts, or is refused before it maps anything.
LEMMA ReserveWithShape ==
  ASSUME ReserveTypes, NEW c \in Callers, NEW o \in Opts, ReserveWith(c, o)
  PROVE  /\ maps' = maps /\ call[c].at = "idle"
         /\ \E w \in Call : /\ call' = [call EXCEPT ![c] = w] /\ w.opts = o
                            /\ w.at \in {"mmap", "err"} /\ Knows(w)
<1>1. PICK size \in ResolveHugePages(o), limit \in MemlockLimit :
        LET w == Started(o, size)
        IN call' = [call EXCEPT ![c] =
             IF o.huge = "on" /\ size = 0 THEN Refused(w, "config")
             ELSE IF o.lock = "on" /\ limit < w.map_len /\ limit # Unlimited
               THEN Refused(w, "rlimit")
             ELSE w]
  BY DEF ReserveWith
<1> DEFINE w == Started(o, size)
<1>2. /\ MapLen(o, size) \in Nat /\ MapLen(o, size) >= o.len /\ MapLen(o, size) > 0
      /\ size \in Nat /\ o.len \in Nat /\ o.len > 0
  BY RoundUpEnough, ResolvedSize DEF ReserveWith, Opts, MapLen
<1>3. w \in Call /\ w.opts = o /\ w.at = "mmap"
  BY <1>2 DEF Started, Call, Ats, Errs
<1>4. ~(o.huge = "on" /\ size = 0) => Knows(w)
  BY <1>2, ResolvedSize DEF Started, Knows, HugeAsAsked
<1> HIDE DEF w
<1>5. ASSUME NEW why \in {"config", "rlimit"}
      PROVE  /\ Refused(w, why) \in Call /\ Refused(w, why).opts = o
             /\ Refused(w, why).at = "err" /\ Knows(Refused(w, why))
  BY <1>3 DEF Refused, Call, Ats, Errs, Knows
<1>9. \E v \in Call : /\ call' = [call EXCEPT ![c] = v] /\ v.opts = o
                      /\ v.at \in {"mmap", "err"} /\ Knows(v)
  <2>1. CASE o.huge = "on" /\ size = 0
    <3> DEFINE v == Refused(w, "config")
    <3>1. call' = [call EXCEPT ![c] = v]
      BY <1>1, <2>1 DEF w
    <3>2. v \in Call /\ v.opts = o /\ v.at = "err" /\ Knows(v)
      BY <1>5
    <3> HIDE DEF v
    <3> QED
      BY <3>1, <3>2
  <2>2. CASE ~(o.huge = "on" /\ size = 0) /\ o.lock = "on" /\ limit < w.map_len /\ limit # Unlimited
    <3> DEFINE v == Refused(w, "rlimit")
    <3>1. call' = [call EXCEPT ![c] = v]
      BY <1>1, <2>2 DEF w
    <3>2. v \in Call /\ v.opts = o /\ v.at = "err" /\ Knows(v)
      BY <1>5
    <3> HIDE DEF v
    <3> QED
      BY <3>1, <3>2
  <2>3. CASE ~(o.huge = "on" /\ size = 0) /\ ~(o.lock = "on" /\ limit < w.map_len /\ limit # Unlimited)
    <3>1. call' = [call EXCEPT ![c] = w]
      BY <1>1, <2>3 DEF w
    <3> QED
      BY <1>3, <1>4, <2>3, <3>1
  <2> QED
    BY <2>1, <2>2, <2>3
<1> QED
  BY <1>9 DEF ReserveWith, InCall

\* What a step of reserve_with does to the call and to the address space.
Elsewhere(b) == \A e \in Bases : e # b => maps'[e] = maps[e]
Shape(c, w) ==
  /\ call' = [call EXCEPT ![c] = w] /\ w.opts = call[c].opts
  /\ call[c].at # "idle" /\ w.at # "idle"
  /\ Knows(w)' /\ maps' \in [Bases -> Region]
  /\ \/ maps' = maps /\ ~Making(c) /\ w.at \in {"mmap_base", "err"}
     \/ /\ ~Making(c) /\ w.at = "lock" /\ w.base \in Bases \ Mapped
        /\ maps'[w.base].len > 0 /\ Elsewhere(w.base)
     \/ /\ call[c].at = "lock" /\ w.at = "ok" /\ w.base = call[c].base
        /\ maps'[w.base].len = maps[w.base].len /\ Elsewhere(w.base)
     \/ /\ call[c].at = "lock" /\ w.at = "err" /\ maps'[call[c].base].len = 0
        /\ Elsewhere(call[c].base)

\* An mmap that succeeds.
LEMMA MapRegionShape ==
  ASSUME ReserveInv, NEW c \in Callers, NEW page \in Nat, NEW touched \in BOOLEAN,
         MapRegion(c, page, touched), call[c].at \in {"mmap", "mmap_base"},
         call[c].hp_size = page
  PROVE  \E w \in Call : Shape(c, w)
<1>1. PICK b \in Bases \ Mapped :
        /\ maps' = [maps EXCEPT ![b] = [len |-> call[c].map_len, page |-> page,
                                        locked |-> FALSE, touched |-> touched]]
        /\ call' = [call EXCEPT ![c].at = "lock", ![c].base = b]
  BY DEF MapRegion
<1>2. call[c] \in Call /\ Knows(call[c]) /\ call[c].map_len \in Nat
  BY DEF ReserveInv, ReserveTypes, Calls, Call
<1>4. PICK w \in Call :
        /\ w = [call[c] EXCEPT !.at = "lock", !.base = b]
        /\ w.at = "lock" /\ w.opts = call[c].opts /\ w.base = b
        /\ w.map_len = call[c].map_len /\ w.hp_size = page /\ w.locked = call[c].locked
  <2> DEFINE v == [call[c] EXCEPT !.at = "lock", !.base = b]
  <2>1. /\ v \in Call /\ v.at = "lock" /\ v.opts = call[c].opts /\ v.base = b
        /\ v.map_len = call[c].map_len /\ v.hp_size = page /\ v.locked = call[c].locked
    BY <1>2 DEF Call, Ats
  <2> QED
    BY <2>1
<1>3. call' = [call EXCEPT ![c] = w]
  BY <1>1, <1>4 DEF ReserveInv, ReserveTypes
<1>5. /\ maps' \in [Bases -> Region] /\ Elsewhere(b)
      /\ maps'[b].len = w.map_len /\ maps'[b].page = page /\ ~maps'[b].locked
  BY <1>1, <1>2, <1>4 DEF ReserveInv, ReserveTypes, Region, Elsewhere
<1>6. w.map_len >= w.opts.len /\ w.opts.len > 0 /\ HugeAsAsked(w) /\ ~w.locked
  BY <1>2, <1>4 DEF Knows, HugeAsAsked
<1>7. Knows(w)'
  <2>1. w.at = "lock" /\ w.base = b /\ b \in Bases /\ w.hp_size = page
    BY <1>4
  <2>2. HugeAsAsked(w)'
    BY <1>6 DEF HugeAsAsked
  <2> QED
    BY <1>5, <1>6, <2>1, <2>2 DEF Knows
<1>8. maps'[b].len > 0
  <2>1. w.map_len \in Nat /\ w.opts.len \in Nat
    BY DEF Call, Opts
  <2> QED
    BY <1>5, <1>6, <2>1
<1> QED
  BY <1>3, <1>4, <1>5, <1>7, <1>8 DEF Shape, Making

LEMMA ReserveStepShape ==
  ASSUME ReserveInv, NEW c \in Callers, ReserveStep(c)
  PROVE  \E w \in Call : Shape(c, w)
<1>1. call[c] \in Call /\ Knows(call[c]) /\ maps \in [Bases -> Region]
  BY DEF ReserveInv, ReserveTypes, Calls
<1>2. CASE Mmap(c)
  <2>1. /\ MapRegion(c, call[c].hp, call[c].opts.populate /\ call[c].hp # 0)
        /\ call[c].at = "mmap" /\ call[c].hp \in Nat /\ call[c].hp_size = call[c].hp
    BY <1>1, <1>2 DEF Mmap, InCall, Knows, Call
  <2>2. (call[c].opts.populate /\ call[c].hp # 0) \in BOOLEAN
    OBVIOUS
  <2> QED
    BY <2>1, <2>2, MapRegionShape
<1>3. CASE MmapBase(c)
  <2>1. MapRegion(c, 0, FALSE) /\ call[c].at = "mmap_base" /\ call[c].hp_size = 0
    BY <1>1, <1>3 DEF MmapBase, InCall, Knows
  <2>2. 0 \in Nat /\ FALSE \in BOOLEAN
    OBVIOUS
  <2> QED
    BY <2>1, <2>2, MapRegionShape
<1>4. ASSUME NEW why \in {"mmap"}, Fails(c, why), maps' = maps, call[c].at \in {"mmap", "mmap_base"}
      PROVE  \E w \in Call : Shape(c, w)
  <2>2. PICK w \in Call : /\ w = [call[c] EXCEPT !.at = "err", !.err = why]
                          /\ w.at = "err" /\ w.opts = call[c].opts
    <3> DEFINE v == [call[c] EXCEPT !.at = "err", !.err = why]
    <3>1. v \in Call /\ v.at = "err" /\ v.opts = call[c].opts
      BY <1>1, <1>4 DEF Call, Ats, Errs
    <3> QED
      BY <3>1
  <2>1. call' = [call EXCEPT ![c] = w]
    BY <1>4, <2>2 DEF Fails
  <2> QED
    BY <1>1, <1>4, <2>1, <2>2 DEF Shape, Making, Knows
<1>5. CASE MmapFails(c)
  <2>1. CASE Fails(c, "mmap")
    BY <1>4, <1>5, <2>1 DEF MmapFails, InCall
  <2>2. CASE FallsBack(c) /\ call[c].opts.huge # "on"
    <3>2. PICK w \in Call :
            /\ w = [call[c] EXCEPT !.at = "mmap_base", !.hp_size = 0, !.map_len = call[c].opts.len]
            /\ w.at = "mmap_base" /\ w.opts = call[c].opts /\ w.hp_size = 0
            /\ w.map_len = call[c].opts.len /\ w.locked = call[c].locked
      <4> DEFINE v == [call[c] EXCEPT !.at = "mmap_base", !.hp_size = 0, !.map_len = call[c].opts.len]
      <4>1. /\ v \in Call /\ v.at = "mmap_base" /\ v.opts = call[c].opts /\ v.hp_size = 0
            /\ v.map_len = call[c].opts.len /\ v.locked = call[c].locked
        BY <1>1 DEF Call, Ats, Opts
      <4> QED
        BY <4>1
    <3>1. call' = [call EXCEPT ![c] = w] /\ call[c].at = "mmap" /\ maps' = maps
      BY <1>1, <1>5, <2>2, <3>2 DEF FallsBack, MmapFails, InCall
    <3>3. w.map_len >= w.opts.len /\ w.opts.len > 0
      BY <1>1, <3>1, <3>2 DEF Knows, Call, Opts
    <3>4. Knows(w)'
      BY <1>1, <2>2, <3>1, <3>2, <3>3 DEF Knows, HugeAsAsked
    <3> QED
      BY <1>1, <3>1, <3>2, <3>4 DEF Shape, Making
  <2> QED
    BY <1>5, <2>1, <2>2 DEF MmapFails
<1>6. CASE MmapBaseFails(c)
  BY <1>4, <1>6 DEF MmapBaseFails, InCall
<1>7. ASSUME NEW l \in BOOLEAN, Ok(c, l), call[c].at = "lock", NEW t \in BOOLEAN,
             maps' = [maps EXCEPT ![call[c].base] = [@ EXCEPT !.locked = l, !.touched = t]],
             call[c].opts.lock = "on" => l /\ t
      PROVE  \E w \in Call : Shape(c, w)
  <2>0. PICK b : b = call[c].base
    OBVIOUS
  <2>2. PICK w \in Call :
          /\ w = [call[c] EXCEPT !.at = "ok", !.locked = l]
          /\ w.at = "ok" /\ w.opts = call[c].opts /\ w.base = b
          /\ w.map_len = call[c].map_len /\ w.hp_size = call[c].hp_size /\ w.locked = l
    <3> DEFINE v == [call[c] EXCEPT !.at = "ok", !.locked = l]
    <3>1. /\ v \in Call /\ v.at = "ok" /\ v.opts = call[c].opts /\ v.base = call[c].base
          /\ v.map_len = call[c].map_len /\ v.hp_size = call[c].hp_size /\ v.locked = l
      BY <1>1 DEF Call, Ats
    <3> QED
      BY <2>0, <3>1
  <2>1. call' = [call EXCEPT ![c] = w]
    BY <1>7, <2>2 DEF Ok
  <2>3. b \in Bases
    BY <1>1, <1>7, <2>0 DEF Knows
  <2>4. /\ maps' \in [Bases -> Region] /\ Elsewhere(b)
        /\ maps'[b].len = maps[b].len /\ maps'[b].page = maps[b].page
        /\ maps'[b].locked = l /\ maps'[b].touched = t
    BY <1>1, <1>7, <2>0, <2>3 DEF Region, Elsewhere
  <2>5. maps'[b].len = w.map_len /\ w.map_len >= w.opts.len /\ maps'[b].page = w.hp_size
    BY <1>1, <1>7, <2>0, <2>2, <2>4 DEF Knows
  <2>6. w.opts.len > 0 /\ HugeAsAsked(w)
    BY <1>1, <1>7, <2>2 DEF Knows, HugeAsAsked
  <2>7. Truthful(Result(w))'
    BY <1>7, <2>2, <2>4, <2>5, <2>6 DEF Truthful, Result, HugeAsAsked
  <2>8. Knows(w)'
    BY <2>2, <2>3, <2>5, <2>6, <2>7 DEF Knows, HugeAsAsked
  <2> QED
    BY <1>7, <2>0, <2>1, <2>2, <2>4, <2>8 DEF Shape
<1>8. CASE NoLock(c)
  <2> DEFINE b == call[c].base
             t == maps[b].touched \/ (Thp(c) /\ call[c].opts.populate)
  <2>1. /\ b \in Bases /\ ~maps[b].locked /\ call[c].at = "lock" /\ call[c].opts.lock = "off"
        /\ maps' = [maps EXCEPT ![b].touched = t] /\ Ok(c, FALSE)
    BY <1>1, <1>8 DEF NoLock, InCall, Knows
  <2>2. t \in BOOLEAN
    OBVIOUS
  <2> HIDE DEF t
  <2>3. maps[b] \in Region /\ maps[b] = [maps[b] EXCEPT !.locked = FALSE]
    BY <1>1, <2>1 DEF Region
  <2>4. maps' = [maps EXCEPT ![b] = [@ EXCEPT !.locked = FALSE, !.touched = t]]
    BY <2>1, <2>3
  <2> QED
    BY <1>7, <2>1, <2>2, <2>4
<1>9. CASE Mlock2(c)
  <2>1. /\ call[c].at = "lock" /\ Ok(c, TRUE)
        /\ maps' = [maps EXCEPT ![call[c].base] = [@ EXCEPT !.locked = TRUE, !.touched = TRUE]]
    BY <1>1, <1>9 DEF Mlock2, InCall
  <2> QED
    BY <1>7, <2>1
<1>10. CASE Mlock2Fails(c) /\ call[c].opts.lock = "on"
  <2> DEFINE b == call[c].base
  <2>2. PICK w \in Call : /\ w = [call[c] EXCEPT !.at = "err", !.err = "mlock"]
                          /\ w.at = "err" /\ w.opts = call[c].opts
    <3> DEFINE v == [call[c] EXCEPT !.at = "err", !.err = "mlock"]
    <3>1. v \in Call /\ v.at = "err" /\ v.opts = call[c].opts
      BY <1>1 DEF Call, Ats, Errs
    <3> QED
      BY <3>1
  <2>1. /\ call' = [call EXCEPT ![c] = w] /\ call[c].at = "lock"
        /\ maps' = [maps EXCEPT ![b] = Unmapped]
    BY <1>1, <1>10, <2>2 DEF Mlock2Fails, InCall, CleanUp, Fails, Munmap
  <2>3. b \in Bases
    BY <1>1, <2>1 DEF Knows
  <2>4. maps' \in [Bases -> Region] /\ Elsewhere(b) /\ maps'[b].len = 0
    BY <1>1, <2>1, <2>3 DEF Region, Elsewhere, Unmapped
  <2> QED
    BY <2>1, <2>2, <2>4 DEF Shape, Knows
<1>11. CASE Mlock2Fails(c) /\ call[c].opts.lock # "on"
  <2> DEFINE b == call[c].base
  <2>1. b \in Bases /\ ~maps[b].locked /\ call[c].at = "lock" /\ maps' = maps /\ Ok(c, FALSE)
    BY <1>1, <1>11 DEF Mlock2Fails, InCall, Knows
  <2>2. /\ maps[b] \in Region /\ maps[b].touched \in BOOLEAN
        /\ maps[b] = [maps[b] EXCEPT !.locked = FALSE, !.touched = maps[b].touched]
    BY <1>1, <2>1 DEF Region
  <2>3. maps' = [maps EXCEPT ![b] = [@ EXCEPT !.locked = FALSE, !.touched = maps[b].touched]]
    BY <1>1, <2>1, <2>2
  <2> QED
    BY <1>7, <1>11, <2>1, <2>2, <2>3
<1> QED
  BY <1>2, <1>3, <1>5, <1>6, <1>8, <1>9, <1>10, <1>11 DEF ReserveStep

-----------------------------------------------------------------------------
(* What the steps do to the calls and to the owners *)

\* A call changes; what the others know of their mappings is not touched.
LEMMA CallsKeep ==
  ASSUME ReserveInv, NEW c \in Callers, NEW w \in Call, call' = [call EXCEPT ![c] = w], Knows(w)',
         maps' \in [Bases -> Region],
         \A d \in Callers : d # c /\ Making(d) => maps'[call[d].base] = maps[call[d].base]
  PROVE  ReserveInv'
<1>1. /\ call \in [Callers -> Call] /\ call' \in [Callers -> Call] /\ call'[c] = w
      /\ \A d \in Callers : d # c => call'[d] = call[d]
  BY DEF ReserveInv, ReserveTypes
<1>2. ASSUME NEW d \in Callers, d # c PROVE Knows(call[d])'
  <2>1. Knows(call[d]) /\ call'[d] = call[d]
    BY <1>1, <1>2 DEF ReserveInv, Calls
  <2>2. PICK v : v = call[d]
    OBVIOUS
  <2>3. Knows(v) /\ HugeAsAsked(v) = HugeAsAsked(v)' /\ call'[d] = v
    BY <2>1, <2>2 DEF HugeAsAsked
  <2>4. v.at \in {"lock", "ok"} => maps'[v.base] = maps[v.base]
    BY <1>2, <2>2 DEF Making
  <2>5. v.at = "ok" => (Truthful(Result(v)) <=> Truthful(Result(v))')
    BY <2>4 DEF Truthful, Result
  <2>6. Knows(v)'
    BY <2>3, <2>4, <2>5 DEF Knows
  <2> QED
    BY <2>3, <2>6 DEF Knows, HugeAsAsked, Result
<1>3. Knows(call[c])'
  BY <1>1 DEF Knows, HugeAsAsked, Result
<1> QED
  BY <1>1, <1>2, <1>3 DEF ReserveInv, ReserveTypes, Calls

\* A step inside reserve_with: at most the mapping of the call changes.
LEMMA ReserveStepKeeps ==
  ASSUME ReserveInv, OwnersInv, NEW c \in Callers, NEW w \in Call, Shape(c, w),
         UNCHANGED <<subheaps, pools, kept>>
  PROVE  ReserveInv' /\ OwnersInv'
<1>1. /\ call' = [call EXCEPT ![c] = w] /\ Knows(w)' /\ maps' \in [Bases -> Region]
      /\ call'[c] = w /\ \A d \in Callers : d # c => call'[d] = call[d]
  BY DEF Shape, ReserveInv, ReserveTypes
<1>2. Reservations' = Reservations
  BY DEF Reservations
<1>3. PICK b \in Bases \cup {NoBase} :
        /\ Elsewhere(b)
        /\ \/ maps' = maps /\ ~Making(c) /\ w.at \notin {"lock", "ok"} /\ b = NoBase
           \/ /\ ~Making(c) /\ w.at = "lock" /\ w.base = b /\ b \in Bases \ Mapped
              /\ maps'[b].len > 0
           \/ /\ Making(c) /\ call[c].base = b /\ w.at = "ok" /\ w.base = b
              /\ maps'[b].len = maps[b].len
           \/ Making(c) /\ call[c].base = b /\ w.at = "err" /\ maps'[b].len = 0
  <2>1. CASE maps' = maps /\ ~Making(c) /\ w.at \in {"mmap_base", "err"}
    BY <2>1 DEF Elsewhere
  <2>2. CASE /\ ~Making(c) /\ w.at = "lock" /\ w.base \in Bases \ Mapped
             /\ maps'[w.base].len > 0 /\ Elsewhere(w.base)
    BY <2>2
  <2>3. CASE call[c].at = "lock"
    <3>1. Making(c) /\ call[c].base \in Bases
      BY <2>3 DEF Making, OwnersInv, OwnedMapped, Mapped
    <3> QED
      BY <2>3, <3>1 DEF Shape
  <2> QED
    BY <2>1, <2>2, <2>3 DEF Shape
<1>4. /\ \A d \in Callers : d # c /\ Making(d) => call[d].base # b
      /\ \A r \in Reservations : r.base # b
  BY <1>3, ReservationAssumption DEF OwnersInv, Distinct, OwnedMapped, Mapped
<1>5. /\ \A d \in Callers : d # c /\ Making(d) => maps'[call[d].base] = maps[call[d].base]
      /\ \A r \in Reservations : maps'[r.base] = maps[r.base]
  BY <1>3, <1>4 DEF Elsewhere, OwnersInv, OwnedMapped, Mapped
<1>6. ReserveInv'
  BY <1>1, <1>5, CallsKeep
<1>7. \A e \in Bases : e # b => (e \in Mapped' <=> e \in Mapped)
  BY <1>3 DEF Elsewhere, Mapped
<1>8. Making(c)' <=> w.at \in {"lock", "ok"}
  BY <1>1 DEF Making
<1>9. \A d \in Callers : d # c => (Making(d)' <=> Making(d)) /\ call'[d].base = call[d].base
  BY <1>1 DEF Making
<1>10. Making(c)' => w.base = b /\ b \in Mapped'
  BY <1>3, <1>8 DEF Mapped, OwnersInv, OwnedMapped
<1>11. Distinct'
  <2>1. \A d \in Callers : d # c /\ Making(d)' /\ Making(c)' => call'[d].base # call'[c].base
    BY <1>1, <1>4, <1>9, <1>10
  <2>2. \A d \in Callers, r \in Reservations : Making(d)' => call'[d].base # r.base
    <3>1. \A r \in Reservations : Making(c)' => r.base # b
      BY <1>3, <1>8 DEF OwnersInv, Distinct, OwnedMapped
    <3> QED
      BY <1>1, <1>9, <1>10, <3>1 DEF OwnersInv, Distinct
  <2>3. \A d, e \in Callers : d # c /\ e # c /\ Making(d)' /\ Making(e)'
                                /\ call'[d].base = call'[e].base => d = e
    BY <1>9 DEF OwnersInv, Distinct
  <2>4. \A d, e \in Callers : Making(d)' /\ Making(e)' /\ call'[d].base = call'[e].base => d = e
    BY <2>1, <2>3
  <2> QED
    BY <1>2, <2>2, <2>4 DEF OwnersInv, Distinct
<1>12. OwnedMapped'
  <2>1. \A d \in Callers : Making(d)' => call'[d].base \in Mapped'
    BY <1>1, <1>4, <1>7, <1>9, <1>10 DEF OwnersInv, OwnedMapped, Mapped
  <2>2. \A r \in Reservations : r.base \in Mapped'
    BY <1>5 DEF OwnersInv, OwnedMapped, Mapped
  <2> QED
    BY <1>2, <2>1, <2>2 DEF OwnedMapped
<1>13. MappedOwned'
  <2> SUFFICES ASSUME NEW e \in Mapped'
               PROVE  \/ \E d \in Callers : Making(d)' /\ call'[d].base = e
                      \/ \E r \in Reservations : r.base = e
    BY <1>2 DEF MappedOwned
  <2>1. CASE e = b
    BY <1>1, <1>3, <1>8, <2>1, ReservationAssumption DEF Mapped
  <2>2. CASE e # b
    <3>1. e \in Mapped
      BY <1>7, <2>2 DEF Mapped
    <3>2. \A d \in Callers : Making(d) /\ call[d].base = e => Making(d)' /\ call'[d].base = e
      BY <1>1, <1>3, <1>8, <1>9, <2>2 DEF OwnersInv, OwnedMapped
    <3> QED
      BY <3>1, <3>2 DEF OwnersInv, MappedOwned
  <2> QED
    BY <2>1, <2>2
<1>14. EffectiveState'
  BY <1>2, <1>5 DEF OwnersInv, EffectiveState, Truthful
<1> QED
  BY <1>6, <1>11, <1>12, <1>13, <1>14 DEF OwnersInv

\* A call starts, or ends without a mapping.
LEMMA NoMappingKeeps ==
  ASSUME ReserveInv, OwnersInv, NEW c \in Callers, NEW w \in Call, ~Making(c),
         call' = [call EXCEPT ![c] = w], w.at \notin {"lock", "ok"}, Knows(w),
         UNCHANGED <<maps, subheaps, pools, kept>>
  PROVE  ReserveInv' /\ OwnersInv'
<1>1. Knows(w)' /\ maps' \in [Bases -> Region]
  BY DEF Knows, HugeAsAsked, ReserveInv, ReserveTypes
<1>2. ReserveInv'
  BY <1>1, CallsKeep
<1>3. Reservations' = Reservations /\ Mapped' = Mapped
  BY DEF Reservations, Mapped
<1>4. \A d \in Callers : (Making(d)' <=> Making(d)) /\ (d # c => call'[d] = call[d])
  BY DEF Making, ReserveInv, ReserveTypes
<1>5. Distinct' /\ OwnedMapped' /\ MappedOwned' /\ EffectiveState'
  BY <1>3, <1>4 DEF OwnersInv, Distinct, OwnedMapped, MappedOwned, EffectiveState, Truthful
<1> QED
  BY <1>2, <1>5 DEF OwnersInv

\* The caller takes what reserve_with returned: the Reservation owns the mapping.
LEMMA TakeKeeps ==
  ASSUME ReserveInv, OwnersInv, NEW c \in Callers, call[c].at = "ok", Consume(c), maps' = maps,
         NEW n,
         \/ subheaps' = subheaps \cup {[name |-> n, res |-> Returned(c)]}
              /\ UNCHANGED <<pools, kept>>
         \/ pools' = pools \cup {Returned(c)} /\ UNCHANGED <<subheaps, kept>>
         \/ kept' = kept \cup {Returned(c)} /\ UNCHANGED <<subheaps, pools>>
  PROVE  /\ ReserveInv' /\ OwnersInv'
         /\ Returned(c) \in Res /\ Returned(c).opts = call[c].opts
<1>1. PICK q : q = Returned(c)
  OBVIOUS
<1>2. call[c] \in Call /\ Knows(call[c]) /\ Making(c) /\ call[c].base \in Bases
  BY DEF ReserveInv, ReserveTypes, Calls, Knows, Making
<1>3. q \in Res /\ q.opts = call[c].opts /\ q.base = call[c].base /\ Truthful(q)
  <2>1. Result(call[c]) = Returned(c)
    BY DEF Result, Returned
  <2>2. Truthful(q)
    BY <1>1, <1>2, <2>1 DEF Knows
  <2>3. q \in Res /\ q.opts = call[c].opts /\ q.base = call[c].base
    BY <1>1, <1>2 DEF Returned, Res, Call
  <2> QED
    BY <2>2, <2>3
<1>4. Reservations' = Reservations \cup {q}
  <2>1. CASE subheaps' = subheaps \cup {[name |-> n, res |-> q]} /\ UNCHANGED <<pools, kept>>
    <3>0. PICK sh : sh = [name |-> n, res |-> q]
      OBVIOUS
    <3>1. sh = [name |-> n, res |-> q] /\ sh.res = q
      BY <3>0
    <3>2. subheaps' = subheaps \cup {sh} /\ pools' = pools /\ kept' = kept
      BY <2>1, <3>1
    <3>3. {s.res : s \in subheaps \cup {sh}} = {s.res : s \in subheaps} \cup {q}
      BY <3>1
    <3> QED
      BY <3>2, <3>3 DEF Reservations
  <2>2. CASE ~(subheaps' = subheaps \cup {[name |-> n, res |-> q]} /\ UNCHANGED <<pools, kept>>)
    BY <1>1, <2>2 DEF Reservations
  <2> QED
    BY <2>1, <2>2
<1>5. NoCall \in Call /\ Knows(NoCall)' /\ maps' \in [Bases -> Region] /\ NoCall.at = "idle"
  BY DEF NoCall, Default, ReserveOpts, Opts, Requires, Call, Ats, Errs, Knows, ReserveInv, ReserveTypes
<1>6. ReserveInv'
  BY <1>5, CallsKeep DEF Consume
<1>7. /\ ~Making(c)'
      /\ \A d \in Callers : d # c => (Making(d)' <=> Making(d)) /\ call'[d] = call[d]
  BY <1>5 DEF Making, Consume, ReserveInv, ReserveTypes
<1>8. q \notin Reservations /\ \A r \in Reservations : r.base # q.base
  BY <1>2, <1>3 DEF OwnersInv, Distinct
<1>9. Distinct'
  <2>1. \A r, s \in Reservations' : r.base = s.base => r = s
    BY <1>4, <1>8 DEF OwnersInv, Distinct
  <2>2. \A d \in Callers, r \in Reservations' : Making(d)' => call'[d].base # r.base
    BY <1>2, <1>3, <1>4, <1>7 DEF OwnersInv, Distinct
  <2>3. \A d, e \in Callers : Making(d)' /\ Making(e)' /\ call'[d].base = call'[e].base => d = e
    BY <1>7 DEF OwnersInv, Distinct
  <2>4. \A r \in kept' : r \notin pools' /\ \A sh \in subheaps' : sh.res # r
    <3>1. q \notin pools /\ q \notin kept /\ \A sh \in subheaps : sh.res # q
      BY <1>8 DEF Reservations
    <3> QED
      BY <1>1, <3>1 DEF OwnersInv, Distinct
  <2> QED
    BY <2>1, <2>2, <2>3, <2>4 DEF Distinct
<1>10. OwnedMapped'
  <2>1. Mapped' = Mapped
    BY DEF Mapped
  <2> QED
    BY <1>2, <1>3, <1>4, <1>7, <2>1 DEF OwnersInv, OwnedMapped
<1>11. MappedOwned'
  <2>1. Mapped' = Mapped
    BY DEF Mapped
  <2>2. \A b \in Mapped : \/ \E d \in Callers : Making(d)' /\ call'[d].base = b
                          \/ \E r \in Reservations \cup {q} : r.base = b
    BY <1>3, <1>7 DEF OwnersInv, MappedOwned
  <2> QED
    BY <1>4, <2>1, <2>2 DEF MappedOwned
<1>12. EffectiveState'
  <2>1. \A r : Truthful(r) => Truthful(r)'
    BY DEF Truthful
  <2>2. \A r \in Reservations \cup {q} : Truthful(r)
    BY <1>3 DEF OwnersInv, EffectiveState
  <2> QED
    BY <1>4, <2>1, <2>2 DEF EffectiveState
<1> QED
  BY <1>1, <1>3, <1>6, <1>9, <1>10, <1>11, <1>12 DEF OwnersInv

\* A Reservation is dropped: its mapping is nobody else's.
LEMMA DropKeeps ==
  ASSUME ReserveInv, OwnersInv, kept \subseteq Res, NEW r \in kept, Drop(r)
  PROVE  ReserveInv' /\ OwnersInv'
<1>1. /\ kept' = kept \ {r} /\ maps' = [maps EXCEPT ![r.base] = Unmapped] /\ call' = call
      /\ pools' = pools /\ subheaps' = subheaps /\ r \in Reservations /\ r.base \in Bases
  BY DEF Drop, Munmap, Reservations, Res
<1>2. Reservations' = Reservations \ {r}
  BY <1>1 DEF Reservations, OwnersInv, Distinct
<1>3. /\ \A c \in Callers : Making(c) => call[c].base # r.base
      /\ \A s \in Reservations \ {r} : s.base # r.base
      /\ \A b \in Bases : b # r.base => maps'[b] = maps[b]
      /\ maps'[r.base].len = 0 /\ maps' \in [Bases -> Region]
  BY <1>1 DEF OwnersInv, Distinct, ReserveInv, ReserveTypes, Unmapped, Region
<1>4. \A c \in Callers : Making(c)' <=> Making(c)
  BY <1>1 DEF Making
<1>5. ReserveInv'
  <2>1. ASSUME NEW c \in Callers PROVE Knows(call[c])'
    <3>1. PICK v : v = call[c]
      OBVIOUS
    <3>2. Knows(v) /\ call'[c] = v
      BY <1>1, <3>1 DEF ReserveInv, Calls
    <3>3. v.at \in {"lock", "ok"} => maps'[v.base] = maps[v.base]
      BY <1>3, <3>1 DEF Making, OwnersInv, OwnedMapped, Mapped
    <3>4. v.at = "ok" => (Truthful(Result(v)) <=> Truthful(Result(v))')
      BY <3>3 DEF Truthful, Result
    <3>5. Knows(v)'
      BY <3>2, <3>3, <3>4 DEF Knows, HugeAsAsked
    <3> QED
      BY <3>2, <3>5 DEF Knows, HugeAsAsked, Result
  <2> QED
    BY <1>1, <1>3, <2>1 DEF ReserveInv, ReserveTypes, Calls
<1>6. Distinct'
  BY <1>1, <1>2, <1>4 DEF OwnersInv, Distinct
<1>7. Mapped' = Mapped \ {r.base}
  BY <1>1, <1>3 DEF Mapped
<1>8. OwnedMapped' /\ MappedOwned'
  BY <1>1, <1>2, <1>3, <1>4, <1>7 DEF OwnersInv, OwnedMapped, MappedOwned
<1>9. EffectiveState'
  <2>1. \A s \in Reservations \ {r} : maps'[s.base] = maps[s.base]
    BY <1>3 DEF OwnersInv, OwnedMapped, Mapped
  <2>2. \A s \in Reservations \ {r} : Truthful(s)'
    BY <2>1 DEF OwnersInv, EffectiveState, Truthful
  <2> QED
    BY <1>2, <2>2 DEF EffectiveState
<1> QED
  BY <1>5, <1>6, <1>8, <1>9 DEF OwnersInv

-----------------------------------------------------------------------------
(* What the steps do to the jobs and to what is published *)

\* Sub-heaps and pools are only added: what was built stays built.
LEMMA JobsKeep ==
  ASSUME Jobs, NEW c \in Callers, subheaps \subseteq subheaps',
         \A d \in Callers : d # c => call'[d] = call[d] /\ job'[d] = job[d],
         JobOk(c)'
  PROVE  Jobs'
<1> SUFFICES ASSUME NEW d \in Callers, d # c PROVE JobOk(d)'
  BY DEF Jobs
<1>1. JobOk(d) /\ call'[d] = call[d] /\ job'[d] = job[d]
  BY DEF Jobs
<1>2. Doing(d, "registry") => \A i \in 1 .. Len(job[d].map) :
        BuiltFor(job[d].map[i], i, job[d].budgets)'
  BY <1>1 DEF BuiltFor, JobOk
<1>3. (Building(d) <=> Building(d)') /\ NextName(d) = NextName(d)'
  BY <1>1 DEF Building, NextName, Doing
<1>4. Doing(d, "registry") => (job[d].budgets \in Accepted)'
  BY <1>1 DEF JobOk
<1> QED
  BY <1>1, <1>2, <1>3, <1>4 DEF JobOk, Free, Doing

LEMMA PublishedKeeps ==
  ASSUME Published, configured' = configured, pool' = pool,
         subheaps \subseteq subheaps', pools \subseteq pools'
  PROVE  Published'
<1>1. IsConfigured => \A i \in 1 .. Len(configured.map) :
        BuiltFor(configured.map[i], i, configured.budgets)'
  BY DEF BuiltFor, Published
<1>2. IsConfigured => (configured.budgets \in Accepted)'
  BY DEF Published
<1> QED
  BY <1>1, <1>2 DEF Published, IsConfigured

\* A caller between two calls of reserve_with, or with no job.
LEMMA JobOkIdle ==
  ASSUME NEW c \in Callers, call'[c].at = "idle", job'[c].kind # "registry"
  PROVE  JobOk(c)'
BY DEF JobOk, Doing

LEMMA OwnersSame ==
  ASSUME ReserveInv, OwnersInv, UNCHANGED <<maps, call, subheaps, pools, kept>>
  PROVE  ReserveInv' /\ OwnersInv'
<1>1. Reservations' = Reservations /\ Mapped' = Mapped /\ \A c \in Callers : Making(c)' <=> Making(c)
  BY DEF Reservations, Mapped, Making
<1>2. OwnersInv'
  BY <1>1 DEF OwnersInv, Distinct, OwnedMapped, MappedOwned, EffectiveState, Truthful
<1>3. ReserveInv'
  BY DEF ReserveInv, ReserveTypes, Calls, Knows, HugeAsAsked, Truthful, Result
<1> QED
  BY <1>2, <1>3

\* The reservation of a sub-heap asks for its slab and its budget.
LEMMA BudgetOpts ==
  ASSUME NEW b \in Accepted, NEW i \in DOMAIN Registrations
  PROVE  Default(SlabLen + b.subs[Registrations[i]]) \in Opts
<1>1. Registrations[i] \in DOMAIN b.subs
  BY DEF Accepted, Missing, Names, Range
<1>2. SlabLen + b.subs[Registrations[i]] \in Nat
  BY <1>1, StartupAssumption DEF Accepted
<1> QED
  BY <1>2 DEF Default, ReserveOpts, Opts, Requires

LEMMA EmptyCall == NoCall \in Call /\ Knows(NoCall) /\ NoCall.at = "idle"
BY DEF NoCall, Default, ReserveOpts, Opts, Requires, Call, Ats, Errs, Knows

LEMMA EmptyJob == NoJob \in Job /\ NoJob.kind = "none"
BY DEF NoJob, Job

LEMMA ConfigureKeeps ==
  ASSUME StartupInv, NEW c \in Callers, NEW b \in BudgetMaps, Configure(c, b)
  PROVE  StartupInv'
<1>1. /\ Free(c) /\ UNCHANGED <<maps, call, configured, subheaps, pool, pools, kept>>
      /\ answer' \in {[answer EXCEPT ![c] = "none"], [answer EXCEPT ![c] = "Err"]}
  BY DEF Configure
<1>2. ReserveInv' /\ OwnersInv'
  BY <1>1, OwnersSame DEF StartupInv
<1>3. Published'
  BY <1>1, PublishedKeeps DEF StartupInv
<1>4. call[c].at = "idle"
  BY <1>1 DEF StartupInv, Jobs, JobOk
<1>5. CASE Verdict(b) = "none"
  <2>1. PICK j \in Job : j.kind = "registry" /\ j.budgets = b /\ j.map = <<>>
                           /\ job' = [job EXCEPT ![c] = j]
    <3> DEFINE j == [kind |-> "registry", budgets |-> b, map |-> <<>>]
    <3>1. j \in Job /\ j.kind = "registry" /\ j.budgets = b /\ j.map = <<>>
      BY DEF Job
    <3>2. job' = [job EXCEPT ![c] = j]
      BY <1>5 DEF Configure
    <3> HIDE DEF j
    <3> QED
      BY <3>1, <3>2
  <2>2. job'[c] = j /\ job' \in [Callers -> Job] /\ \A d \in Callers : d # c => job'[d] = job[d]
    BY <2>1 DEF StartupInv, JobTypes
  <2>3. b \in Accepted
    BY <1>5 DEF Verdict, Accepted
  <2>4. Len(<<>>) = 0 /\ 0 <= Len(Registrations)
    BY StartupAssumption
  <2>5. JobOk(c)'
    BY <1>1, <1>4, <2>1, <2>2, <2>3, <2>4 DEF JobOk, Doing
  <2>6. Jobs'
    BY <1>1, <2>2, <2>5, JobsKeep DEF StartupInv
  <2>7. JobTypes'
    BY <1>1, <2>2 DEF StartupInv, JobTypes, Answers
  <2> QED
    BY <1>2, <1>3, <2>6, <2>7 DEF StartupInv
<1>6. CASE Verdict(b) # "none"
  <2>1. job' = job
    BY <1>6 DEF Configure
  <2>2. JobOk(c)'
    BY <1>1, <1>4, <2>1, JobOkIdle DEF Free
  <2>3. Jobs'
    BY <1>1, <2>1, <2>2, JobsKeep DEF StartupInv
  <2>4. JobTypes'
    BY <1>1, <2>1 DEF StartupInv, JobTypes, Answers
  <2> QED
    BY <1>2, <1>3, <2>3, <2>4 DEF StartupInv
<1> QED
  BY <1>5, <1>6

\* A call of reserve_with starts, for a new sub-heap or with a new job.
LEMMA StartKeeps ==
  ASSUME StartupInv, NEW c \in Callers, NEW o \in Opts, ReserveWith(c, o),
         \/ job' = job /\ Building(c)
              /\ o = Default(SlabLen + job[c].budgets.subs[NextName(c)])
         \/ \E k \in {"frames", "own"} : Start(c, k),
         UNCHANGED <<configured, answer, subheaps, pool, pools, kept>>
  PROVE  StartupInv'
<1>1. PICK w \in Call : /\ call' = [call EXCEPT ![c] = w] /\ w.opts = o
                        /\ w.at \in {"mmap", "err"} /\ Knows(w)
  BY ReserveWithShape DEF StartupInv, ReserveInv
<1>2. maps' = maps /\ call[c].at = "idle" /\ ~Making(c)
  BY ReserveWithShape DEF StartupInv, ReserveInv, Making
<1>3. ReserveInv' /\ OwnersInv'
  BY <1>1, <1>2, NoMappingKeeps DEF StartupInv
<1>4. Published'
  BY PublishedKeeps DEF StartupInv
<1>5. call'[c] = w /\ \A d \in Callers : d # c => call'[d] = call[d]
  BY <1>1 DEF StartupInv, ReserveInv, ReserveTypes
<1>6. CASE job' = job /\ Building(c) /\ o = Default(SlabLen + job[c].budgets.subs[NextName(c)])
  <2>1. Building(c)' /\ NextName(c)' = NextName(c)
    BY <1>6 DEF Building, NextName, Doing
  <2>2. JobOk(c)'
    BY <1>1, <1>5, <1>6, <2>1 DEF StartupInv, Jobs, JobOk, Doing, Free, BuiltFor, Building
  <2>3. Jobs' /\ JobTypes'
    BY <1>5, <1>6, <2>2, JobsKeep DEF StartupInv, JobTypes
  <2> QED
    BY <1>3, <1>4, <2>3 DEF StartupInv
<1>7. ASSUME NEW k \in {"frames", "own"}, Start(c, k) PROVE StartupInv'
  <2>1. PICK j \in Job : j.kind = k /\ job' = [job EXCEPT ![c] = j]
    <3> DEFINE j == [NoJob EXCEPT !.kind = k]
    <3>1. j \in Job /\ j.kind = k
      BY EmptyJob DEF Job
    <3>2. job' = [job EXCEPT ![c] = j]
      BY <1>7 DEF Start
    <3> HIDE DEF j
    <3> QED
      BY <3>1, <3>2
  <2>2. job'[c] = j /\ job' \in [Callers -> Job] /\ \A d \in Callers : d # c => job'[d] = job[d]
    BY <2>1 DEF StartupInv, JobTypes
  <2>3. JobOk(c)'
    BY <2>1, <2>2 DEF JobOk, Doing, Free
  <2>4. Jobs' /\ JobTypes'
    BY <1>5, <2>2, <2>3, JobsKeep DEF StartupInv, JobTypes
  <2> QED
    BY <1>3, <1>4, <2>4 DEF StartupInv
<1> QED
  BY <1>6, <1>7

\* A call ends in an error: the caller gives its job up.
LEMMA FailKeeps ==
  ASSUME StartupInv, NEW c \in Callers, BuildFails(c) \/ ReserveFails(c)
  PROVE  StartupInv'
<1>1. /\ call[c].at = "err" /\ call' = [call EXCEPT ![c] = NoCall]
      /\ job' = [job EXCEPT ![c] = NoJob] /\ UNCHANGED <<maps, configured, subheaps, pool, pools, kept>>
      /\ answer' \in {answer, [answer EXCEPT ![c] = "Err"]}
  BY DEF BuildFails, ReserveFails, InCall, Consume, Finish, GiveUp
<1>2. ReserveInv' /\ OwnersInv'
  BY <1>1, EmptyCall, NoMappingKeeps DEF StartupInv, Making
<1>3. Published'
  BY <1>1, PublishedKeeps DEF StartupInv
<1>4. /\ call'[c].at = "idle" /\ job'[c] = NoJob /\ job' \in [Callers -> Job]
      /\ \A d \in Callers : d # c => call'[d] = call[d] /\ job'[d] = job[d]
  BY <1>1, EmptyCall, EmptyJob DEF StartupInv, ReserveInv, ReserveTypes, JobTypes
<1>5. Jobs'
  BY <1>1, <1>4, EmptyJob, JobOkIdle, JobsKeep DEF StartupInv
<1>6. JobTypes'
  BY <1>1, <1>4 DEF StartupInv, JobTypes, Answers
<1> QED
  BY <1>2, <1>3, <1>5, <1>6 DEF StartupInv

LEMMA SubHeapBuiltKeeps ==
  ASSUME StartupInv, NEW c \in Callers, SubHeapBuilt(c)
  PROVE  StartupInv'
<1>1. PICK sh : sh = [name |-> NextName(c), res |-> Returned(c)]
  OBVIOUS
<1>2. /\ Building(c) /\ call[c].at = "ok" /\ Consume(c)
      /\ subheaps' = subheaps \cup {sh} /\ job' = [job EXCEPT ![c].map = Append(@, sh)]
      /\ UNCHANGED <<maps, configured, answer, pool, pools, kept>>
  BY <1>1 DEF SubHeapBuilt, InCall
<1>3. ReserveInv' /\ OwnersInv' /\ Returned(c) \in Res /\ Returned(c).opts = call[c].opts
  BY <1>1, <1>2, TakeKeeps DEF StartupInv
<1>4. job[c] \in Job /\ job[c].map \in Seq(SubHeapOf) /\ Len(job[c].map) \in Nat
      /\ Len(job[c].map) + 1 \in 1 .. Len(Registrations)
  BY <1>2, StartupAssumption DEF StartupInv, JobTypes, Job, Building
<1>5. /\ job[c].budgets \in Accepted /\ NextName(c) \in STRING
      /\ call[c].opts = Default(SlabLen + job[c].budgets.subs[NextName(c)])
      /\ \A i \in 1 .. Len(job[c].map) : BuiltFor(job[c].map[i], i, job[c].budgets)
  BY <1>2, <1>4, StartupAssumption DEF StartupInv, Jobs, JobOk, Building, NextName
<1>6. sh \in SubHeapOf /\ sh.name = NextName(c) /\ sh.res.opts = call[c].opts
  BY <1>1, <1>3, <1>5 DEF SubHeapOf
<1>7. PICK j \in Job : /\ j.kind = "registry" /\ j.budgets = job[c].budgets
                       /\ j.map = Append(job[c].map, sh) /\ job' = [job EXCEPT ![c] = j]
  <2> DEFINE j == [job[c] EXCEPT !.map = Append(job[c].map, sh)]
  <2>1. /\ j \in Job /\ j.kind = "registry" /\ j.budgets = job[c].budgets
        /\ j.map = Append(job[c].map, sh)
    <3>1. Append(job[c].map, sh) \in Seq(SubHeapOf)
      BY <1>4, <1>6
    <3>2. ASSUME NEW m \in Seq(SubHeapOf)
          PROVE  LET i == [job[c] EXCEPT !.map = m]
                 IN  i \in Job /\ i.kind = job[c].kind /\ i.budgets = job[c].budgets /\ i.map = m
      BY <1>4 DEF Job
    <3>3. job[c].kind = "registry"
      BY <1>2 DEF Building, Doing
    <3> HIDE DEF j
    <3>4. j = [job[c] EXCEPT !.map = Append(job[c].map, sh)]
      BY DEF j
    <3> QED
      BY <3>1, <3>2, <3>3, <3>4
  <2>2. job' = [job EXCEPT ![c] = j]
    BY <1>2
  <2> HIDE DEF j
  <2> QED
    BY <2>1, <2>2
<1>8. job'[c] = j /\ job' \in [Callers -> Job] /\ \A d \in Callers : d # c => job'[d] = job[d]
  BY <1>7 DEF StartupInv, JobTypes
<1>9. call'[c].at = "idle" /\ \A d \in Callers : d # c => call'[d] = call[d]
  BY <1>2, EmptyCall DEF Consume, StartupInv, ReserveInv, ReserveTypes
<1>10. JobOk(c)'
  <2>1. Len(j.map) = Len(job[c].map) + 1
    BY <1>4, <1>6, <1>7
  <2>2. ASSUME NEW i \in 1 .. Len(j.map) PROVE BuiltFor(j.map[i], i, j.budgets)'
    <3>1. CASE i = Len(job[c].map) + 1
      <4>1. j.map[i] = sh /\ Registrations[i] = NextName(c)
        BY <1>4, <1>6, <1>7, <3>1 DEF NextName
      <4> QED
        BY <1>2, <1>5, <1>6, <1>7, <4>1 DEF BuiltFor
    <3>2. CASE i \in 1 .. Len(job[c].map)
      <4>1. j.map[i] = job[c].map[i]
        BY <1>4, <1>6, <1>7, <3>2
      <4>2. BuiltFor(job[c].map[i], i, job[c].budgets)
        BY <1>5, <3>2
      <4> QED
        BY <1>2, <1>7, <4>1, <4>2 DEF BuiltFor
    <3> QED
      BY <1>4, <2>1, <2>2, <3>1, <3>2
  <2>3. \A i \in 1 .. Len(job'[c].map) : BuiltFor(job[c].map[i], i, job[c].budgets)'
    BY <1>8, <2>2 DEF BuiltFor
  <2>4. (job[c].budgets \in Accepted)' /\ Len(job'[c].map) <= Len(Registrations)
    BY <1>4, <1>5, <1>7, <1>8, <2>1
  <2> QED
    BY <1>7, <1>8, <1>9, <2>3, <2>4 DEF JobOk, Doing, Free
<1>11. Jobs'
  BY <1>2, <1>8, <1>9, <1>10, JobsKeep DEF StartupInv
<1>12. JobTypes'
  BY <1>2, <1>6, <1>8 DEF StartupInv, JobTypes
<1>13. Published'
  BY <1>2, PublishedKeeps DEF StartupInv
<1> QED
  BY <1>3, <1>11, <1>12, <1>13 DEF StartupInv

LEMMA InstallKeeps ==
  ASSUME StartupInv, NEW c \in Callers, Install(c) \/ Reserved(c)
  PROVE  StartupInv'
<1>1. PICK q : q = Returned(c)
  OBVIOUS
<1>2. /\ call[c].at = "ok" /\ Consume(c) /\ job' = [job EXCEPT ![c] = NoJob]
      /\ UNCHANGED <<maps, configured, answer, subheaps>>
      /\ \/ /\ pools' = pools \cup {q} /\ kept' = kept
            /\ pool' = IF pool = NoBase THEN call[c].base ELSE pool
         \/ kept' = kept \cup {q} /\ pools' = pools /\ pool' = pool
  BY <1>1 DEF Install, Reserved, InCall, Finish, CasPool
<1>3. ReserveInv' /\ OwnersInv' /\ q \in Res
  <2>1. \/ pools' = pools \cup {Returned(c)} /\ UNCHANGED <<subheaps, kept>>
        \/ kept' = kept \cup {Returned(c)} /\ UNCHANGED <<subheaps, pools>>
    BY <1>1, <1>2
  <2> QED
    BY <1>1, <1>2, <2>1, TakeKeeps DEF StartupInv
<1>4. /\ call'[c].at = "idle" /\ job'[c] = NoJob /\ job' \in [Callers -> Job]
      /\ \A d \in Callers : d # c => call'[d] = call[d] /\ job'[d] = job[d]
  BY <1>2, EmptyCall, EmptyJob DEF StartupInv, ReserveInv, ReserveTypes, JobTypes, Consume
<1>5. Jobs'
  BY <1>2, <1>4, EmptyJob, JobOkIdle, JobsKeep DEF StartupInv
<1>6. JobTypes'
  BY <1>2, <1>3, <1>4 DEF StartupInv, JobTypes
<1>7. Published'
  <2>1. CASE pool' = pool
    BY <1>2, <2>1, PublishedKeeps DEF StartupInv
  <2>2. CASE pool' # pool
    <3>1. pool' = q.base /\ q \in pools'
      BY <1>1, <1>2, <2>2 DEF Returned
    <3>2. IsConfigured' =>
            /\ (configured.budgets \in Accepted)' /\ Len(configured'.map) = Len(Registrations)
            /\ \A i \in 1 .. Len(configured'.map) :
                 BuiltFor(configured.map[i], i, configured.budgets)'
      BY <1>2 DEF StartupInv, Published, IsConfigured, BuiltFor
    <3> QED
      BY <1>2, <3>1, <3>2 DEF StartupInv, Published, IsConfigured
  <2> QED
    BY <2>1, <2>2
<1> QED
  BY <1>3, <1>5, <1>6, <1>7 DEF StartupInv

\* OnceLock::set publishes what its winner built.
LEMMA PublishKeeps ==
  ASSUME StartupInv, NEW c \in Callers, Publish(c)
  PROVE  StartupInv'
<1>1. /\ Doing(c, "registry") /\ Len(job[c].map) = Len(Registrations)
      /\ job' = [job EXCEPT ![c] = NoJob] /\ UNCHANGED <<maps, call, subheaps, pool, pools, kept>>
      /\ answer' \in {[answer EXCEPT ![c] = "Ok"], [answer EXCEPT ![c] = "Err"]}
      /\ \/ configured' = configured
         \/ ~IsConfigured
              /\ configured' = [by |-> c, budgets |-> job[c].budgets, map |-> job[c].map]
  BY DEF Publish, Finish, SetOnce
<1>2. ReserveInv' /\ OwnersInv'
  BY <1>1, OwnersSame DEF StartupInv
<1>3. /\ job[c] \in Job /\ job[c].budgets \in Accepted /\ call[c].at = "idle"
      /\ \A i \in 1 .. Len(job[c].map) : BuiltFor(job[c].map[i], i, job[c].budgets)
  BY <1>1, StartupAssumption DEF StartupInv, JobTypes, Jobs, JobOk, Building
<1>4. /\ job'[c] = NoJob /\ job' \in [Callers -> Job]
      /\ \A d \in Callers : d # c => job'[d] = job[d]
  BY <1>1, EmptyJob DEF StartupInv, JobTypes
<1>5. Jobs'
  BY <1>1, <1>3, <1>4, EmptyJob, JobOkIdle, JobsKeep DEF StartupInv
<1>6. CASE configured' = configured
  <2>1. Published' /\ JobTypes'
    BY <1>1, <1>4, <1>6, PublishedKeeps DEF StartupInv, JobTypes, Answers
  <2> QED
    BY <1>2, <1>5, <2>1 DEF StartupInv
<1>7. CASE configured' = [by |-> c, budgets |-> job[c].budgets, map |-> job[c].map]
  <2>1. configured'.by = c /\ configured'.budgets = job[c].budgets /\ configured'.map = job[c].map
    BY <1>7
  <2>2. JobTypes'
    <3>1. job[c].map \in Seq(SubHeapOf)
      BY <1>3 DEF Job
    <3>2. answer' \in [Callers -> Answers]
      BY <1>1 DEF StartupInv, JobTypes, Answers
    <3> QED
      BY <1>1, <1>4, <2>1, <3>1, <3>2 DEF StartupInv, JobTypes
  <2>3. \A i \in 1 .. Len(configured'.map) : BuiltFor(configured.map[i], i, configured.budgets)'
    BY <1>1, <1>3, <2>1 DEF BuiltFor
  <2>4. IsConfigured'
    BY <2>1, StartupAssumption DEF IsConfigured
  <2>5. (configured.budgets \in Accepted)'
    BY <1>3, <2>1
  <2>6. pool' # NoBase => \E r \in pools' : r.base = pool'
    BY <1>1 DEF StartupInv, Published
  <2>7. Published'
    BY <1>1, <2>1, <2>3, <2>4, <2>5, <2>6 DEF Published
  <2> QED
    BY <1>2, <1>5, <2>2, <2>7 DEF StartupInv
<1> QED
  BY <1>1, <1>6, <1>7

LEMMA ReservingKeeps ==
  ASSUME StartupInv, NEW c \in Callers, ReserveStep(c),
         UNCHANGED <<job, configured, answer, subheaps, pool, pools, kept>>
  PROVE  StartupInv'
<1>1. PICK w \in Call : Shape(c, w)
  BY ReserveStepShape DEF StartupInv
<1>2. ReserveInv' /\ OwnersInv'
  BY <1>1, ReserveStepKeeps DEF StartupInv
<1>3. /\ call'[c] = w /\ w.opts = call[c].opts /\ call[c].at # "idle" /\ w.at # "idle"
      /\ \A d \in Callers : d # c => call'[d] = call[d]
  BY <1>1 DEF Shape, StartupInv, ReserveInv, ReserveTypes
<1>4. JobOk(c)'
  <2>1. (Building(c)' <=> Building(c)) /\ NextName(c)' = NextName(c)
    BY DEF Building, NextName, Doing
  <2> QED
    BY <1>3, <2>1 DEF StartupInv, Jobs, JobOk, Doing, Free, BuiltFor
<1>5. Jobs' /\ JobTypes'
  BY <1>3, <1>4, JobsKeep DEF StartupInv, JobTypes
<1>6. Published'
  BY PublishedKeeps DEF StartupInv
<1> QED
  BY <1>2, <1>5, <1>6 DEF StartupInv

LEMMA DroppingKeeps ==
  ASSUME StartupInv, NEW r \in kept, Drop(r)
  PROVE  StartupInv'
<1>1. ReserveInv' /\ OwnersInv'
  BY DropKeeps DEF StartupInv, JobTypes
<1>2. UNCHANGED <<call, job, configured, answer, subheaps, pool, pools>> /\ kept' \subseteq kept
  BY DEF Drop
<1>3. JobTypes'
  BY <1>2 DEF StartupInv, JobTypes
<1>4. Jobs'
  <2> SUFFICES ASSUME NEW c \in Callers PROVE JobOk(c)'
    BY DEF Jobs
  <2>1. (Building(c)' <=> Building(c)) /\ NextName(c)' = NextName(c)
    BY <1>2 DEF Building, NextName, Doing
  <2> QED
    BY <1>2, <2>1 DEF StartupInv, Jobs, JobOk, Doing, Free, BuiltFor
<1>5. Published'
  BY <1>2, PublishedKeeps DEF StartupInv
<1> QED
  BY <1>1, <1>3, <1>4, <1>5 DEF StartupInv

-----------------------------------------------------------------------------
(* The theorems *)

LEMMA InitStartup == Init => StartupInv
<1> SUFFICES ASSUME Init PROVE StartupInv
  OBVIOUS
<1>1. /\ maps = [b \in Bases |-> Unmapped] /\ call = [c \in Callers |-> NoCall]
      /\ job = [c \in Callers |-> NoJob] /\ configured = Unset /\ answer = [c \in Callers |-> "none"]
      /\ subheaps = {} /\ pool = NoBase /\ pools = {} /\ kept = {}
  BY DEF Init, ReservationInit
<1>2. ReserveInv
  BY <1>1, EmptyCall DEF ReserveInv, ReserveTypes, Calls, Region, Unmapped
<1>3. Reservations = {} /\ Mapped = {} /\ \A c \in Callers : ~Making(c)
  BY <1>1, EmptyCall DEF Reservations, Mapped, Unmapped, Making
<1>4. OwnersInv
  BY <1>1, <1>3 DEF OwnersInv, Distinct, OwnedMapped, MappedOwned, EffectiveState
<1>5. JobTypes /\ Jobs
  BY <1>1, EmptyJob, EmptyCall DEF JobTypes, Jobs, JobOk, Doing, Unset, Answers
<1>6. Published
  BY <1>1 DEF Published, IsConfigured, Unset
<1> QED
  BY <1>2, <1>4, <1>5, <1>6 DEF StartupInv

LEMMA StepStartup ==
  ASSUME StartupInv, NEW c \in Callers, Step(c)
  PROVE  StartupInv'
<1>1. ASSUME NEW b \in BudgetMaps, Configure(c, b) PROVE StartupInv'
  BY <1>1, ConfigureKeeps
<1>2. CASE BuildStandalone(c)
  <2>1. Len(job[c].map) + 1 \in DOMAIN Registrations /\ job[c].budgets \in Accepted
    BY <1>2, StartupAssumption DEF BuildStandalone, Building, StartupInv, JobTypes, Job, Jobs, JobOk
  <2>2. Default(SlabLen + job[c].budgets.subs[NextName(c)]) \in Opts
    BY <2>1, BudgetOpts DEF NextName
  <2> QED
    BY <1>2, <2>2, StartKeeps DEF BuildStandalone
<1>3. ASSUME NEW o \in PoolOpts, ConfigureSized(c, o) PROVE StartupInv'
  BY <1>3, StartKeeps, StartupAssumption DEF ConfigureSized
<1>4. ASSUME NEW o \in AppOpts, Reserve(c, o) PROVE StartupInv'
  BY <1>4, StartKeeps, StartupAssumption DEF Reserve
<1>5. CASE SubHeapBuilt(c) \/ BuildFails(c) \/ ReserveFails(c) \/ Publish(c)
  BY <1>5, SubHeapBuiltKeeps, FailKeeps, PublishKeeps
<1>6. CASE Install(c) \/ Reserved(c)
  BY <1>6, InstallKeeps
<1>7. CASE ReserveStep(c) /\ UNCHANGED <<job, configured, answer, subheaps, pool, pools, kept>>
  BY <1>7, ReservingKeeps
<1> QED
  BY <1>1, <1>2, <1>3, <1>4, <1>5, <1>6, <1>7 DEF Step

LEMMA UnchangedStartup ==
  ASSUME StartupInv, UNCHANGED vars
  PROVE  StartupInv'
<1>1. UNCHANGED <<maps, call, job, configured, answer, subheaps, pool, pools, kept>>
  BY DEF vars
<1>2. ReserveInv' /\ OwnersInv'
  BY <1>1, OwnersSame DEF StartupInv
<1>3. JobTypes' /\ Published'
  BY <1>1, PublishedKeeps DEF StartupInv, JobTypes
<1>4. Jobs'
  <2> SUFFICES ASSUME NEW c \in Callers PROVE JobOk(c)'
    BY DEF Jobs
  <2>1. (Building(c)' <=> Building(c)) /\ NextName(c)' = NextName(c)
    BY <1>1 DEF Building, NextName, Doing
  <2> QED
    BY <1>1, <2>1 DEF StartupInv, Jobs, JobOk, Doing, Free, BuiltFor
<1> QED
  BY <1>2, <1>3, <1>4 DEF StartupInv

LEMMA NextStartup == StartupInv /\ [Next]_vars => StartupInv'
BY StepStartup, DroppingKeeps, UnchangedStartup DEF Next

\* Whatever the kernel refuses and whoever races, every mapping has one owner: a
\* Reservation, or the reserve_with that is making it (reserve.rs, its error
\* paths and Drop).
THEOREM AlwaysOneOwner == Spec => []OneOwner
<1>1. Spec => []StartupInv
  BY InitStartup, NextStartup, PTL DEF Spec
<1>2. StartupInv => OneOwner
  <2> SUFFICES ASSUME OwnersInv, NEW b \in Bases
               PROVE  Cardinality({c \in Callers : call[c].base = b /\ call[c].at \in {"lock", "ok"}})
                        + Cardinality({r \in Reservations : r.base = b})
                        = IF b \in Mapped THEN 1 ELSE 0
    BY DEF StartupInv, OneOwner
  <2> DEFINE C == {c \in Callers : call[c].base = b /\ call[c].at \in {"lock", "ok"}}
             R == {r \in Reservations : r.base = b}
  <2>0. ASSUME NEW S, NEW T, NEW x, (S = {} /\ T = {x}) \/ (S = {x} /\ T = {})
        PROVE  Cardinality(S) + Cardinality(T) = 1
    <3>1. Cardinality({x}) = 1 /\ Cardinality({}) = 0
      BY FS_EmptySet, FS_Singleton
    <3> QED
      BY <2>0, <3>1
  <2>1. CASE b \notin Mapped
    <3>1. C = {} /\ R = {}
      BY <2>1 DEF OwnersInv, OwnedMapped, Making
    <3>2. Cardinality({}) = 0
      BY FS_EmptySet
    <3> HIDE DEF C, R
    <3>3. Cardinality(C) + Cardinality(R) = 0
      BY <3>1, <3>2
    <3> QED
      BY <2>1, <3>3 DEF C, R
  <2>2. CASE b \in Mapped /\ \E c \in Callers : Making(c) /\ call[c].base = b
    <3>1. PICK c \in Callers : Making(c) /\ call[c].base = b
      BY <2>2
    <3>2. C = {c} /\ R = {}
      BY <3>1 DEF OwnersInv, Distinct, Making
    <3> HIDE DEF C, R
    <3>3. Cardinality(C) + Cardinality(R) = 1
      BY <2>0, <3>2
    <3> QED
      BY <2>2, <3>3 DEF C, R
  <2>3. CASE b \in Mapped /\ \E r \in Reservations : r.base = b
    <3>1. PICK r \in Reservations : r.base = b
      BY <2>3
    <3>2. C = {} /\ R = {r}
      BY <3>1 DEF OwnersInv, Distinct, Making
    <3> HIDE DEF C, R
    <3>4. Cardinality(R) = 1 /\ Cardinality(C) = 0
      BY <3>2, FS_EmptySet, FS_Singleton
    <3>3. Cardinality(C) + Cardinality(R) = 1
      BY <3>4
    <3> QED
      BY <2>3, <3>3 DEF C, R
  <2> QED
    BY <2>1, <2>2, <2>3 DEF OwnersInv, MappedOwned
<1> QED
  BY <1>1, <1>2, PTL

\* A Reservation tells the truth about its length, lock and page size, and has
\* what was Required.
THEOREM AlwaysEffective == Spec => []EffectiveState
<1>1. Spec => []StartupInv
  BY InitStartup, NextStartup, PTL DEF Spec
<1>2. StartupInv => EffectiveState
  BY DEF StartupInv, OwnersInv
<1> QED
  BY <1>1, <1>2, PTL

\* What subheap() can return is complete, live, locked and within the budgets.
THEOREM AlwaysComplete == Spec => []PublishedComplete
<1>1. Spec => []StartupInv
  BY InitStartup, NextStartup, PTL DEF Spec
<1>2. StartupInv => PublishedComplete
  <2> SUFFICES ASSUME StartupInv, IsConfigured
               PROVE  /\ Len(configured.map) = Len(Registrations)
                      /\ \A i \in DOMAIN Registrations :
                           LET sh == configured.map[i] IN
                           /\ sh.name = Registrations[i] /\ sh \in subheaps
                           /\ maps[sh.res.base].locked
                           /\ maps[sh.res.base].len >= SlabLen + configured.budgets.subs[sh.name]
                      /\ ~(BudgetSum(configured.budgets) > configured.budgets.total)
    BY DEF PublishedComplete
  <2>1. /\ Len(configured.map) = Len(Registrations) /\ configured.budgets \in Accepted
        /\ \A i \in 1 .. Len(configured.map) : BuiltFor(configured.map[i], i, configured.budgets)
    BY DEF StartupInv, Published
  <2>2. ~(BudgetSum(configured.budgets) > configured.budgets.total)
    BY <2>1 DEF Accepted
  <2>3. ASSUME NEW i \in DOMAIN Registrations, NEW sh, sh = configured.map[i]
        PROVE  /\ sh.name = Registrations[i] /\ sh \in subheaps
               /\ maps[sh.res.base].locked
               /\ maps[sh.res.base].len >= SlabLen + configured.budgets.subs[sh.name]
    <3>1. BuiltFor(sh, i, configured.budgets)
      BY <2>1, <2>3, StartupAssumption
    <3>2. sh \in subheaps /\ sh.res \in Reservations /\ sh.name = Registrations[i]
      BY <3>1 DEF BuiltFor, Reservations
    <3>3. Truthful(sh.res)
      BY <3>2 DEF StartupInv, OwnersInv, EffectiveState
    <3>4. /\ sh.res.opts.lock = "on"
          /\ sh.res.opts.len = SlabLen + configured.budgets.subs[sh.name]
      BY <3>1, <3>2 DEF BuiltFor, Default, ReserveOpts
    <3> QED
      BY <3>2, <3>3, <3>4 DEF Truthful
  <2> QED
    BY <2>1, <2>2, <2>3
<1> QED
  BY <1>1, <1>2, PTL

\* No step touches the mapping of a sub-heap or of a frame pool.
LEMMA MapsStay ==
  ASSUME StartupInv, [Next]_vars, NEW r \in Reservations, r \notin kept
  PROVE  maps'[r.base] = maps[r.base]
<1>1. CASE maps' = maps
  BY <1>1
<1>2. ASSUME NEW c \in Callers, ReserveStep(c) PROVE maps'[r.base] = maps[r.base]
  <2>1. PICK w \in Call : Shape(c, w)
    BY <1>2, ReserveStepShape DEF StartupInv
  <2>2. r.base \in Mapped /\ r.base \in Bases /\ (Making(c) => call[c].base # r.base)
    BY DEF StartupInv, OwnersInv, OwnedMapped, Distinct, Mapped
  <2> QED
    BY <2>1, <2>2 DEF Shape, Elsewhere, Making
<1>3. ASSUME NEW s \in kept, Drop(s) PROVE maps'[r.base] = maps[r.base]
  <2>1. s \in Reservations /\ s # r
    BY DEF Reservations
  <2>2. s.base # r.base /\ r.base \in Bases
    BY <2>1 DEF StartupInv, OwnersInv, OwnedMapped, Distinct, Mapped
  <2> QED
    BY <1>3, <2>2 DEF Drop, Munmap, StartupInv, ReserveInv, ReserveTypes
<1>4. ASSUME NEW c \in Callers, Step(c), ~ReserveStep(c) PROVE maps' = maps
  BY <1>4 DEF Step, Configure, BuildStandalone, SubHeapBuilt, BuildFails, Publish, ConfigureSized,
              Reserve, Install, Reserved, ReserveFails, ReserveWith
<1> QED
  BY <1>1, <1>2, <1>3, <1>4 DEF Next, vars

\* What configure() and configure_sized published is never set again and never
\* moves, and Ok is answered only to the caller that published.
THEOREM AlwaysStays == Spec => PublishedStays
<1> DEFINE Stays ==
      /\ IsConfigured => configured' = configured
      /\ pool # NoBase => pool' = pool /\ maps'[pool] = maps[pool]
      /\ \A i \in DOMAIN configured.map :
           LET b == configured.map[i].res.base IN maps'[b] = maps[b]
      /\ \A c \in Callers : answer'[c] = "Ok" /\ answer[c] # "Ok" => configured'.by = c
<1>1. StartupInv /\ [Next]_vars => [Stays]_vars
  <2> SUFFICES ASSUME StartupInv, [Next]_vars PROVE Stays
    OBVIOUS
  <2>1. pool # NoBase => maps'[pool] = maps[pool]
    <3> SUFFICES ASSUME pool # NoBase PROVE maps'[pool] = maps[pool]
      OBVIOUS
    <3>1. PICK r \in pools : r.base = pool
      BY DEF StartupInv, Published
    <3>2. r \in Reservations /\ r \notin kept
      BY DEF Reservations, StartupInv, OwnersInv, Distinct
    <3> QED
      BY <3>1, <3>2, MapsStay
  <2>2. ASSUME NEW i \in DOMAIN configured.map
        PROVE  maps'[configured.map[i].res.base] = maps[configured.map[i].res.base]
    <3>1. IsConfigured /\ i \in 1 .. Len(configured.map)
      BY DEF StartupInv, Published, JobTypes
    <3>2. PICK sh : sh = configured.map[i]
      OBVIOUS
    <3>3. sh \in subheaps
      BY <3>1, <3>2 DEF StartupInv, Published, BuiltFor
    <3>4. sh.res \in Reservations /\ sh.res \notin kept
      BY <3>3 DEF Reservations, StartupInv, OwnersInv, Distinct
    <3> QED
      BY <3>2, <3>4, MapsStay
  <2>3. CASE UNCHANGED <<configured, pool, answer>>
    BY <2>1, <2>2, <2>3
  <2>4. ASSUME NEW c \in Callers, Publish(c) PROVE Stays
    <3>1. /\ IsConfigured => configured' = configured /\ answer'[c] # "Ok"
          /\ ~IsConfigured => configured'.by = c
          /\ pool' = pool /\ \A d \in Callers : d # c => answer'[d] = answer[d]
      BY <2>4 DEF Publish, SetOnce, StartupInv, JobTypes
    <3> QED
      BY <2>1, <2>2, <3>1
  <2>5. ASSUME NEW c \in Callers, NEW a \in Answers \ {"Ok"}, answer' = [answer EXCEPT ![c] = a],
               UNCHANGED <<configured, pool>>
        PROVE  Stays
    <3>1. answer'[c] # "Ok" /\ \A d \in Callers : d # c => answer'[d] = answer[d]
      BY <2>5 DEF StartupInv, JobTypes
    <3> QED
      BY <2>1, <2>2, <2>5, <3>1
  <2>6. ASSUME NEW c \in Callers, NEW b \in BudgetMaps, Configure(c, b) PROVE Stays
    <3>1. /\ UNCHANGED <<configured, pool>>
          /\ answer' \in {[answer EXCEPT ![c] = "none"], [answer EXCEPT ![c] = "Err"]}
      BY <2>6 DEF Configure
    <3> QED
      BY <2>5, <3>1 DEF Answers
  <2>7. ASSUME NEW c \in Callers, BuildFails(c) PROVE Stays
    BY <2>5, <2>7 DEF BuildFails, GiveUp, Answers
  <2>8. ASSUME NEW c \in Callers, Install(c) PROVE Stays
    BY <2>1, <2>2, <2>8 DEF Install, CasPool
  <2>9. ASSUME NEW c \in Callers, Step(c) PROVE Stays
    <3>1. CASE BuildStandalone(c) \/ SubHeapBuilt(c) \/ Reserved(c) \/ ReserveFails(c)
      BY <2>3, <3>1 DEF BuildStandalone, SubHeapBuilt, Reserved, ReserveFails
    <3>2. ASSUME NEW o, ConfigureSized(c, o) \/ Reserve(c, o) PROVE Stays
      BY <2>3, <3>2 DEF ConfigureSized, Reserve
    <3>3. CASE UNCHANGED <<job, configured, answer, subheaps, pool, pools, kept>>
      BY <2>3, <3>3
    <3> QED
      BY <2>4, <2>6, <2>7, <2>8, <2>9, <3>1, <3>2, <3>3 DEF Step
  <2>10. ASSUME NEW r \in kept, Drop(r) PROVE Stays
    BY <2>3, <2>10 DEF Drop
  <2>11. CASE UNCHANGED vars
    BY <2>3, <2>11 DEF vars
  <2> HIDE DEF Stays
  <2> QED
    BY <2>9, <2>10, <2>11 DEF Next
<1> QED
  BY <1>1, InitStartup, NextStartup, PTL DEF Spec, PublishedStays

=============================================================================
