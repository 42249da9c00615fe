------------------------------ MODULE Startup ------------------------------
(***************************************************************************)
(* What reserves memory when a program starts: configure() of the sub-heap *)
(* registry (toccata-core/src/registry.rs), configure_sized of a named     *)
(* frame pool (the frame_pool! macro of frame.rs) and Reservation values   *)
(* the application keeps and drops itself.  They share the address space   *)
(* and RLIMIT_MEMLOCK (module Reservation).                                *)
(*                                                                         *)
(* Both statics are checked first and set last, with a build that may fail *)
(* in the middle: callers race in between, and a call that failed may be   *)
(* made again.  What was built and not published is leaked.                *)
(***************************************************************************)
EXTENDS Reservation, Sequences, SequencesExt

CONSTANTS
  Registrations,   \* the names in REGISTRATIONS, in order
  BudgetMaps,      \* Budgets an application may pass to configure()
  SlabLen,         \* pages of per-CPU slab in front of a sub-heap's arena
  PoolOpts,        \* ReserveOpts configure_sized is called with
  AppOpts,         \* ReserveOpts the application calls reserve_with with
  KeepAtMost,      \* bound: Reservations the application holds at a time
  NoCaller

ASSUME StartupAssumption ==
  /\ Registrations \in Seq(STRING) /\ SlabLen \in Nat /\ KeepAtMost \in Nat
  /\ \A b \in BudgetMaps : b.total \in Nat /\ \A n \in DOMAIN b.subs : b.subs[n] \in Nat
  /\ PoolOpts \cup AppOpts \subseteq Opts
  /\ NoCaller \notin Callers

VARIABLES
  job,          \* what a caller reserves for, and the sub-heaps it has built
  configured,   \* CONFIGURED: who set it, to what, from which budgets
  answer,       \* what a caller's last configure() returned: Ok, or any error
  subheaps,     \* every SubHeap built: each is in a leaked box
  pool,         \* POOL of the frame pool: the winner, or NoBase
  pools,        \* every FramePool built: each is leaked
  kept          \* Reservations the application holds

vars == <<rlimit, maps, call, job, configured, answer, subheaps, pool, pools, kept>>

NoBudgets == [total |-> 0, subs |-> <<>>]
NoJob == [kind |-> "none", budgets |-> NoBudgets, map |-> <<>>]
Unset == [by |-> NoCaller, budgets |-> NoBudgets, map |-> <<>>]

Init ==
  /\ ReservationInit
  /\ job = [c \in Callers |-> NoJob]
  /\ configured = Unset
  /\ answer = [c \in Callers |-> "none"]
  /\ subheaps = {} /\ pool = NoBase /\ pools = {} /\ kept = {}

Free(c)       == job[c].kind = "none"
Doing(c, k)   == job[c].kind = k
Start(c, k)   == job' = [job EXCEPT ![c] = [NoJob EXCEPT !.kind = k]]
Finish(c)     == job' = [job EXCEPT ![c] = NoJob]
Consume(c)    == call' = [call EXCEPT ![c] = NoCall]
IsConfigured  == configured.by # NoCaller

-----------------------------------------------------------------------------
(* registry::configure *)

Names      == Range(Registrations)
Missing(b) == Names \ DOMAIN b.subs
BudgetSum(b) == FoldSeq(LAMBDA n, sum : sum + b.subs[n], 0, Registrations)

\* Mutant: each budget is compared with the total, not their sum.
VerdictEach(b) ==
  IF IsConfigured THEN "AlreadyConfigured"
  ELSE IF Missing(b) # {} THEN "Unconfigured"
  ELSE IF \E n \in Names : b.subs[n] > b.total THEN "OverBudget" ELSE "none"

\* The checks before anything is built.
Verdict(b) ==
  IF IsConfigured THEN "AlreadyConfigured"
  ELSE IF Missing(b) # {} THEN "Unconfigured"
  ELSE IF BudgetSum(b) > b.total THEN "OverBudget" ELSE "none"

Configure(c, b) ==
  /\ Free(c)
  /\ answer' = [answer EXCEPT ![c] = IF Verdict(b) = "none" THEN "none" ELSE "Err"]
  /\ IF Verdict(b) = "none"
       THEN job' = [job EXCEPT ![c] = [kind |-> "registry", budgets |-> b, map |-> <<>>]]
       ELSE UNCHANGED job
  /\ UNCHANGED <<rlimit, maps, call, configured, subheaps, pool, pools, kept>>

Building(c) == Doing(c, "registry") /\ Len(job[c].map) < Len(Registrations)
NextName(c) == Registrations[Len(job[c].map) + 1]

\* build_standalone: one reservation for the slab and the arena.
BuildStandalone(c) ==
  /\ Building(c)
  /\ ReserveWith(c, Default(SlabLen + job[c].budgets.subs[NextName(c)]))
  /\ UNCHANGED <<job, configured, answer, subheaps, pool, pools, kept>>

\* The sub-heap is leaked and pushed on the map.
SubHeapBuilt(c) ==
  /\ Building(c) /\ InCall(c, "ok")
  /\ LET sh == [name |-> NextName(c), res |-> Returned(c)]
     IN /\ subheaps' = subheaps \cup {sh}
        /\ job' = [job EXCEPT ![c].map = Append(@, sh)]
  /\ Consume(c)
  /\ UNCHANGED <<rlimit, maps, configured, answer, pool, pools, kept>>

\* The `?` after map_err: the call ends, and what it has built stays leaked.
GiveUp(c) == Finish(c) /\ answer' = [answer EXCEPT ![c] = "Err"]

BuildFails(c) ==
  /\ Building(c) /\ InCall(c, "err")
  /\ GiveUp(c) /\ Consume(c)
  /\ UNCHANGED <<rlimit, maps, configured, subheaps, pool, pools, kept>>

\* OnceLock::set
SetOnce(c) ==
  IF IsConfigured
    THEN UNCHANGED configured /\ answer' = [answer EXCEPT ![c] = "Err"]
    ELSE /\ configured' = [by |-> c, budgets |-> job[c].budgets, map |-> job[c].map]
         /\ answer' = [answer EXCEPT ![c] = "Ok"]

Publish(c) ==
  /\ Doing(c, "registry") /\ Len(job[c].map) = Len(Registrations)
  /\ SetOnce(c) /\ Finish(c)
  /\ UNCHANGED <<rlimit, maps, call, subheaps, pool, pools, kept>>

-----------------------------------------------------------------------------
(* configure_sized of a frame pool, and reserve_with by the application *)

\* configure_sized returns at once when there is a pool.
ConfigureSized(c, o) ==
  /\ Free(c) /\ pool = NoBase
  /\ ReserveWith(c, o) /\ Start(c, "frames")
  /\ UNCHANGED <<configured, answer, subheaps, pool, pools, kept>>

CasAlways(b) == b    \* mutant

\* install's compare-exchange on POOL.
CasPool(b) == IF pool = NoBase THEN b ELSE pool

Install(c) ==
  /\ Doing(c, "frames") /\ InCall(c, "ok")
  /\ pools' = pools \cup {Returned(c)}
  /\ pool' = CasPool(call[c].base)
  /\ Consume(c) /\ Finish(c)
  /\ UNCHANGED <<rlimit, maps, configured, answer, subheaps, kept>>

Reserve(c, o) ==
  /\ Free(c)
  /\ Cardinality(kept) + Cardinality({d \in Callers : Doing(d, "own")}) < KeepAtMost
  /\ ReserveWith(c, o) /\ Start(c, "own")
  /\ UNCHANGED <<configured, answer, subheaps, pool, pools, kept>>

Reserved(c) ==
  /\ Doing(c, "own") /\ InCall(c, "ok")
  /\ kept' = kept \cup {Returned(c)}
  /\ Consume(c) /\ Finish(c)
  /\ UNCHANGED <<rlimit, maps, configured, answer, subheaps, pool, pools>>

ReserveFails(c) ==
  /\ (Doing(c, "own") \/ Doing(c, "frames")) /\ InCall(c, "err")
  /\ Consume(c) /\ Finish(c)
  /\ UNCHANGED <<rlimit, maps, configured, answer, subheaps, pool, pools, kept>>

\* Reservation::drop
Drop(r) ==
  /\ kept' = kept \ {r}
  /\ Munmap(r.base)
  /\ UNCHANGED <<rlimit, call, job, configured, answer, subheaps, pool, pools>>

-----------------------------------------------------------------------------
Step(c) ==
  \/ \E b \in BudgetMaps : Configure(c, b)
  \/ BuildStandalone(c) \/ SubHeapBuilt(c) \/ BuildFails(c) \/ Publish(c)
  \/ \E o \in PoolOpts : ConfigureSized(c, o)
  \/ \E o \in AppOpts : Reserve(c, o)
  \/ Install(c) \/ Reserved(c) \/ ReserveFails(c)
  \/ /\ ReserveStep(c)
     /\ UNCHANGED <<job, configured, answer, subheaps, pool, pools, kept>>

Next == (\E c \in Callers : Step(c)) \/ (\E r \in kept : Drop(r))
Spec == Init /\ [][Next]_vars

-----------------------------------------------------------------------------
(* Properties *)

\* All Reservation values there are.
Reservations == {sh.res : sh \in subheaps} \cup pools \cup kept

\* Every mapping has exactly one owner, a Reservation or the call that is making
\* it: no error path of reserve_with leaves memory mapped, and no fallback or
\* drop unmaps what somebody else was given.
OneOwner ==
  \A b \in Bases :
    Cardinality({c \in Callers : call[c].base = b /\ call[c].at \in {"lock", "ok"}})
    + Cardinality({r \in Reservations : r.base = b})
    = IF b \in Mapped THEN 1 ELSE 0

\* Every Reservation is truthful about length, lock and page size, whichever of
\* mmap, its retry and mlock2 was refused, and has what was Required.
EffectiveState == \A r \in Reservations : Truthful(r)

\* What subheap() can return is complete and within the budgets it was built
\* from: one live, locked sub-heap per registration, in order, also when other
\* configure() calls failed half way or raced this one.
PublishedComplete ==
  IsConfigured =>
    /\ Len(configured.map) = Len(Registrations)
    /\ \A i \in DOMAIN Registrations :
         LET sh == configured.map[i] IN
         /\ sh.name = Registrations[i] /\ sh \in subheaps
         /\ maps[sh.res.base].locked
         /\ maps[sh.res.base].len >= SlabLen + configured.budgets.subs[sh.name]
    /\ ~(BudgetSum(configured.budgets) > configured.budgets.total)

\* What was published stays: neither static is set twice, the memory behind it
\* is never touched again, and configure() answers Ok to the one that set it.
PublishedStays ==
  [][/\ IsConfigured => configured' = configured
     /\ pool # NoBase => pool' = pool /\ maps'[pool] = maps[pool]
     /\ \A i \in DOMAIN configured.map :
          LET b == configured.map[i].res.base IN maps'[b] = maps[b]
     /\ \A c \in Callers : answer'[c] = "Ok" /\ answer[c] # "Ok" => configured'.by = c]_vars

\* "the max toccata will reserve+lock across all sub-heaps" (registry.rs:72-73).
ReservedWithinTotal ==
  \A b \in BudgetMaps :
    IsConfigured /\ configured.budgets = b =>
      MapThenSumSet(LAMBDA sh : sh.res.len, subheaps) <= b.total

\* "no first-touch faults later" (reserve.rs:303-305, 352-355) of a reservation
\* that was to be populated.
NoFirstTouch == \A r \in Reservations : Populated(r)
=============================================================================
