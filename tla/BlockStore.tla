----------------------------- MODULE BlockStore -----------------------------
(***************************************************************************)
(* What sqfs_md_cache and sqfs_data_cache promise their callers, whatever  *)
(* the cache behind them does: a thread that asks for the block at a key   *)
(* (its position in the image) either gets an error or gets that block,    *)
(* and a block it got keeps its contents until the thread disposes of it.  *)
(*                                                                         *)
(* Both cache implementations of squashfuse (cache.c, and cache_mt.c for   *)
(* SQFS_MULTITHREADED builds) are checked to implement this specification. *)
(* The contents of a block are identified with the key they were read for. *)
(***************************************************************************)
CONSTANTS
    Threads,    \* the threads that call into the library
    Keys,       \* the positions of the image's blocks
    None        \* no key

VARIABLES
    asked,      \* asked[t]: the key t waits for, or whose block it holds
    got,        \* got[t]: the contents of the block t holds
    closed      \* sqfs_destroy has run

absVars == <<asked, got, closed>>

AbsInit ==
    /\ asked = [t \in Threads |-> None]
    /\ got = [t \in Threads |-> None]
    /\ closed = FALSE

\* A thread enters sqfs_md_cache or sqfs_data_cache.
Ask(t) ==
    /\ ~closed
    /\ asked[t] = None
    /\ \E k \in Keys : asked' = [asked EXCEPT ![t] = k]
    /\ UNCHANGED <<got, closed>>

\* The call succeeds: the thread holds the block it asked for.
Deliver(t) ==
    /\ asked[t] # None
    /\ got[t] = None
    /\ got' = [got EXCEPT ![t] = asked[t]]
    /\ UNCHANGED <<asked, closed>>

\* The call returns an error; the thread holds nothing.
Refuse(t) ==
    /\ asked[t] # None
    /\ got[t] = None
    /\ asked' = [asked EXCEPT ![t] = None]
    /\ UNCHANGED <<got, closed>>

\* The thread calls sqfs_block_dispose on the block it holds.
GiveBack(t) ==
    /\ got[t] # None
    /\ asked' = [asked EXCEPT ![t] = None]
    /\ got' = [got EXCEPT ![t] = None]
    /\ UNCHANGED closed

\* sqfs_destroy, which no thread's call may overlap.
Close ==
    /\ ~closed
    /\ \A t \in Threads : asked[t] = None
    /\ closed' = TRUE
    /\ UNCHANGED <<asked, got>>

AbsNext ==
    \/ \E t \in Threads : Ask(t) \/ Deliver(t) \/ Refuse(t) \/ GiveBack(t)
    \/ Close

AbsSpec == AbsInit /\ [][AbsNext]_absVars
=============================================================================
