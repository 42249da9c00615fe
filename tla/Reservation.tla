---------------------------- MODULE Reservation ----------------------------
(***************************************************************************)
(* Reservation::reserve_with of toccata-core/src/sys/reserve.rs, and the   *)
(* part of the kernel it talks to.  Lengths are in pages.                  *)
(*                                                                         *)
(* Every system call may be refused.  What a caller does between two of    *)
(* them is part of one action: "mmap" and "mmap_base" stand before the     *)
(* first and the second mmap, "lock" before the advice, mlock2 and the     *)
(* return.  Other callers act in between and count against the same        *)
(* RLIMIT_MEMLOCK.  MADV_HUGEPAGE, MADV_DONTDUMP and the notices on stderr *)
(* have no effect that is modelled.                                        *)
(***************************************************************************)
EXTENDS Integers, FiniteSets, FiniteSetsExt

CONSTANTS
  Callers,
  Bases,         \* addresses the kernel may map at
  NoBase,
  DefaultHuge,   \* Hugepagesize of /proc/meminfo, in pages
  Limits,        \* what RLIMIT_MEMLOCK may be
  Unlimited      \* u64::MAX

ASSUME ReservationAssumption ==
  /\ NoBase \notin Bases
  /\ DefaultHuge \in Nat \ {0} /\ Unlimited \in Nat
  /\ Limits \subseteq 0 .. Unlimited

VARIABLES
  rlimit,   \* RLIMIT_MEMLOCK
  maps,     \* the address space: what is mapped at each base
  call      \* the reserve_with each caller is in, and its locals

Unmapped == [len |-> 0, page |-> 0, locked |-> FALSE, touched |-> FALSE]
Mapped   == {b \in Bases : maps[b].len > 0}

\* Require: "off", "try" (BestEffort), "on" (Required).  hugeReq is the size of
\* HugePages::Size, and 0 for HugePages::Default.
Requires == {"off", "try", "on"}
Opts == [len : Nat, lock : Requires, huge : Requires, hugeReq : Nat, populate : BOOLEAN]
ReserveOpts(len, lock, huge, hugeReq, populate) ==
  [len |-> len, lock |-> lock, huge |-> huge, hugeReq |-> hugeReq, populate |-> populate]
\* ReserveOpts::new
Default(len) == ReserveOpts(len, "on", "off", 0, TRUE)

\* hp is the size MAP_HUGETLB asks for (0: no flag), hp_size what is recorded.
NoCall == [at |-> "idle", opts |-> Default(1), map_len |-> 0, hp |-> 0, hp_size |-> 0,
           base |-> NoBase, locked |-> FALSE, err |-> "none"]

ReservationInit ==
  /\ rlimit \in Limits
  /\ maps = [b \in Bases |-> Unmapped]
  /\ call = [c \in Callers |-> NoCall]

-----------------------------------------------------------------------------
IsPow2(n) == \E k \in 0 .. 20 : n = 2 ^ k
RoundUp(n, size) == ((n + size - 1) \div size) * size

\* resolve_huge_pages: the size, or 0 for an error.  /proc/meminfo may not say.
ResolveHugePages(o) ==
  IF o.huge = "off" THEN {0}
  ELSE IF o.hugeReq = 0 THEN {0, DefaultHuge}
  ELSE IF IsPow2(o.hugeReq) THEN {o.hugeReq} ELSE {0}

\* memlock_limit: 0 when getrlimit fails.
MemlockLimit == {0, rlimit}

\* mlock2 is refused when all that is locked would pass the limit, and may
\* be refused for other reasons.
LockedLen == MapThenSumSet(LAMBDA b : IF maps[b].locked THEN maps[b].len ELSE 0, Bases)
MayLock(len) == rlimit = Unlimited \/ LockedLen + len <= rlimit

InCall(c, where) == call[c].at = where
Fails(c, why) == call' = [call EXCEPT ![c].at = "err", ![c].err = why]

-----------------------------------------------------------------------------
\* The locals of a call before its first mmap, and of one refused before it.
MapLen(o, size) == IF size = 0 THEN o.len ELSE RoundUp(o.len, size)
Started(o, size) ==
  [at |-> "mmap", opts |-> o, map_len |-> MapLen(o, size), hp |-> size, hp_size |-> size,
   base |-> NoBase, locked |-> FALSE, err |-> "none"]
Refused(w, why) == [w EXCEPT !.at = "err", !.err = why]

\* Up to the first mmap: a length is asserted, huge pages are resolved, and the
\* limit is compared with the length that will be mapped.
ReserveWith(c, o) ==
  /\ InCall(c, "idle") /\ o.len > 0
  /\ \E size \in ResolveHugePages(o), limit \in MemlockLimit :
       LET w == Started(o, size)
       IN call' = [call EXCEPT ![c] =
            IF o.huge = "on" /\ size = 0 THEN Refused(w, "config")
            ELSE IF o.lock = "on" /\ limit < w.map_len /\ limit # Unlimited
              THEN Refused(w, "rlimit")
            ELSE w]
  /\ UNCHANGED <<rlimit, maps>>

\* mmap of map_len pages; MAP_POPULATE goes with explicit huge pages only.
MapRegion(c, page, touched) ==
  \E b \in Bases \ Mapped :
    /\ maps' = [maps EXCEPT ![b] = [len |-> call[c].map_len, page |-> page,
                                    locked |-> FALSE, touched |-> touched]]
    /\ call' = [call EXCEPT ![c].at = "lock", ![c].base = b]

Mmap(c) ==
  /\ InCall(c, "mmap")
  /\ MapRegion(c, call[c].hp, call[c].opts.populate /\ call[c].hp # 0)
  /\ UNCHANGED rlimit

\* Mutant: the retry keeps the huge-page size it no longer maps.
FallsBackKeepingSize(c) ==
  call' = [call EXCEPT ![c].at = "mmap_base", ![c].map_len = call[c].opts.len]

\* What is reset before the retry with base pages.
FallsBack(c) ==
  call' = [call EXCEPT ![c].at = "mmap_base", ![c].hp_size = 0,
                       ![c].map_len = call[c].opts.len]

MmapFails(c) ==
  /\ InCall(c, "mmap")
  /\ IF call[c].hp # 0 /\ call[c].opts.huge # "on" THEN FallsBack(c) ELSE Fails(c, "mmap")
  /\ UNCHANGED <<rlimit, maps>>

MmapBase(c) ==
  /\ InCall(c, "mmap_base")
  /\ MapRegion(c, 0, FALSE) /\ UNCHANGED rlimit

MmapBaseFails(c) ==
  /\ InCall(c, "mmap_base")
  /\ Fails(c, "mmap") /\ UNCHANGED <<rlimit, maps>>

\* thp is computed before the first mmap and not again after the retry.
Thp(c) == call[c].hp = 0
Ok(c, locked) == call' = [call EXCEPT ![c].at = "ok", ![c].locked = locked]

\* Without a lock, MADV_WILLNEED populates what MAP_POPULATE did not: the word of
\* the code's comment, on which no property but NoFirstTouch depends.
NoLock(c) ==
  /\ InCall(c, "lock") /\ call[c].opts.lock = "off"
  /\ LET b == call[c].base
     IN maps' = [maps EXCEPT ![b].touched = @ \/ (Thp(c) /\ call[c].opts.populate)]
  /\ Ok(c, FALSE) /\ UNCHANGED rlimit

\* mlock2 faults the whole range in.
Mlock2(c) ==
  /\ InCall(c, "lock") /\ call[c].opts.lock # "off"
  /\ MayLock(call[c].map_len)
  /\ maps' = [maps EXCEPT ![call[c].base].locked = TRUE, ![call[c].base].touched = TRUE]
  /\ Ok(c, TRUE) /\ UNCHANGED rlimit

Munmap(b) == maps' = [maps EXCEPT ![b] = Unmapped]
KeepMapped(c) == Fails(c, "mlock") /\ UNCHANGED maps    \* mutant

\* The mapping is undone before the error is returned.
CleanUp(c) == Fails(c, "mlock") /\ Munmap(call[c].base)

\* mlock2 refused: an error if the lock was required, else a degraded result.
Mlock2Fails(c) ==
  /\ InCall(c, "lock") /\ call[c].opts.lock # "off"
  /\ IF call[c].opts.lock = "on" THEN CleanUp(c) ELSE Ok(c, FALSE) /\ UNCHANGED maps
  /\ UNCHANGED rlimit

ReserveStep(c) ==
  \/ Mmap(c) \/ MmapFails(c) \/ MmapBase(c) \/ MmapBaseFails(c)
  \/ NoLock(c) \/ Mlock2(c) \/ Mlock2Fails(c)

\* The value reserve_with returned: base, length and effective state.
Returned(c) ==
  [base |-> call[c].base, len |-> call[c].map_len, locked |-> call[c].locked,
   huge_page_size |-> call[c].hp_size, opts |-> call[c].opts]

-----------------------------------------------------------------------------
\* What a Reservation says of itself is what the kernel did: the length it was
\* asked for or more, is_locked() and huge_page_size(), after any fallback; and
\* what was Required is there.
Truthful(r) ==
  /\ maps[r.base].len = r.len /\ r.len >= r.opts.len
  /\ maps[r.base].locked = r.locked /\ maps[r.base].page = r.huge_page_size
  /\ r.opts.lock = "on" => r.locked /\ maps[r.base].touched
  /\ r.opts.huge = "on" => \/ r.huge_page_size = r.opts.hugeReq
                           \/ r.opts.hugeReq = 0 /\ r.huge_page_size = DefaultHuge

\* "no first-touch faults later" (reserve.rs:303, 354).
Populated(r) == r.opts.populate => maps[r.base].touched
=============================================================================
