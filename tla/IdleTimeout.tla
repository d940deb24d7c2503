---------------------------- MODULE IdleTimeout ----------------------------
(***************************************************************************)
(* The idle-unmount machinery of ll.c (squashfuse_ll -o timeout=N): every  *)
(* FUSE handler stamps last_access with the wall clock, open and opendir   *)
(* count handles up and release and releasedir count them down, and a      *)
(* SIGALRM handler, alarm_tick, looks once a second whether there are no   *)
(* handles and the last access is more than N seconds ago; if so it sends  *)
(* the process SIGINT, which ends the session.                             *)
(*                                                                         *)
(* Handlers and alarm_tick run in different threads.  Each reads the clock *)
(* in one step and uses what it read in a later one.  open counts its      *)
(* handle before it replies, and what became of the reply it never learns. *)
(*                                                                         *)
(* Time is kept as ages: the variable last_access holds "now" minus the    *)
(* program's last_access, and so on.  Only differences of times matter, so *)
(* an age past Horizon is as good as Horizon and the state space is        *)
(* finite without a bound on how long the system runs.                     *)
(***************************************************************************)
EXTENDS Integers, FiniteSets

CONSTANTS
    Workers,        \* threads that run FUSE handlers
    Timeout,        \* idle_timeout_secs, not 0
    MaxStall,       \* most seconds between reading a clock and using it
    MaxOpen,        \* bound on open_refcount
    NarrowTime,     \* time_t has 32 bits, as unsigned int has
    None            \* not read yet

ASSUME TimeAssumption ==
    Timeout \in Nat \ {0} /\ MaxStall \in Nat /\ NarrowTime \in BOOLEAN
ASSUME WorkersAssumption ==
    IsFiniteSet(Workers) /\ MaxOpen \in Nat /\ None \notin Nat

VARIABLES
    session,        \* "running"; "ending" after alarm(0) of the teardown;
                    \*   "over" once fuse_instance is NULL
    last_access,    \* seconds since the time in last_access
    open_refcount,
    alarm,          \* the SIGALRM timer: "off", "armed", or "due"
    step,           \* step[w]: the step of worker w
    op,             \* op[w]: the kind of handler it runs
    stamp,          \* stamp[w]: seconds since its time(NULL)
    tick,           \* the step of alarm_tick
    clock, access,  \* ages of the two times alarm_tick reads, or None
    clockFirst,     \* which of the two the compiler has it read first
    killed,         \* SIGINT has been sent
    opened,         \* handles the kernel has and has not released
    lost,           \* history: handles whose reply the kernel never got
    quiet,          \* history: seconds since a stamp was stored or a
                    \*   handle was open
    prior,          \* history: quiet as of alarm_tick's entry, ageing
    since           \* history: seconds since alarm_tick's entry

workerVars == <<step, op, stamp>>
tickVars   == <<tick, clock, access, prior, since>>
idleVars == <<session, last_access, open_refcount, alarm, workerVars, tickVars,
              clockFirst, killed, opened, lost, quiet>>

Horizon == Timeout + MaxStall + 2
Ages    == 0 .. Horizon
Older(a) == IF a < Horizon THEN a + 1 ELSE a

\* open and opendir; release and releasedir; every other handler but statfs.
Ops == {"open", "release", "other"}

TypeOK ==
    /\ session \in {"running", "ending", "over"}
    /\ killed \in BOOLEAN /\ clockFirst \in BOOLEAN
    /\ last_access \in Ages
    /\ open_refcount \in 0 .. MaxOpen
    /\ alarm \in {"off", "armed", "due"}
    /\ step \in [Workers -> {"idle", "store", "body", "reply"}]
    /\ op \in [Workers -> Ops]
    /\ stamp \in [Workers -> Ages]
    /\ tick \in {"none", "entered", "times", "decide"}
    /\ clock \in Ages \cup {None} /\ access \in Ages \cup {None}
    /\ opened \in Nat /\ lost \in Nat
    /\ quiet \in Ages /\ prior \in Ages /\ since \in Ages

(* setup_idle_timeout has run: the access time is fresh, the alarm is set. *)
IdleInit ==
    /\ session = "running"
    /\ last_access = 0
    /\ open_refcount = 0
    /\ alarm = "armed"
    /\ step = [w \in Workers |-> "idle"]
    /\ op = [w \in Workers |-> "other"]
    /\ stamp = [w \in Workers |-> 0]
    /\ tick = "none"
    /\ clock = None /\ access = None
    /\ clockFirst \in BOOLEAN
    /\ killed = FALSE
    /\ opened = 0 /\ lost = 0
    /\ quiet = 0 /\ prior = 0 /\ since = 0

-----------------------------------------------------------------------------
\* alarm_tick returns: what it read is gone.
TickReturn ==
    tick' = "none" /\ clock' = None /\ access' = None /\ prior' = 0 /\ since' = 0

(* Faulty variants, which no specification uses.                           *)
\* A release that counts the handle down before it stamps last_access.
StoreCountsFirst(w) ==
    /\ step[w] = "store"
    /\ IF op[w] = "release" /\ open_refcount > opened + lost
       THEN open_refcount' = open_refcount - 1 /\ UNCHANGED <<step, last_access, quiet>>
       ELSE /\ last_access' = stamp[w]
            /\ quiet' = 0
            /\ step' = [step EXCEPT ![w] = IF op[w] = "release" THEN "idle" ELSE "body"]
            /\ UNCHANGED open_refcount
    /\ UNCHANGED <<session, alarm, op, stamp, tickVars, clockFirst, killed, opened, lost>>

\* An open that counts its handle even when it replies with an error.
OpenFailsCounts(w) ==
    /\ step[w] = "body"
    /\ op[w] = "open"
    /\ open_refcount' = open_refcount + 1
    /\ step' = [step EXCEPT ![w] = "idle"]
    /\ UNCHANGED <<session, last_access, alarm, op, stamp, tickVars,
                   clockFirst, killed, opened, lost, quiet>>

\* A tick that sees open handles and does not set the alarm again.
TickBusyNoAlarm ==
    /\ tick = "entered"
    /\ open_refcount # 0
    /\ TickReturn
    /\ UNCHANGED <<session, last_access, open_refcount, alarm, workerVars,
                   clockFirst, killed, opened, lost, quiet>>

\* A tick that does not look whether there is still a session.
TickEnterAlways ==
    /\ alarm = "due"
    /\ alarm' = "off"
    /\ tick = "none"
    /\ tick' = "entered" /\ prior' = quiet
    /\ UNCHANGED <<session, last_access, open_refcount, workerVars, clock, access,
                   since, clockFirst, killed, opened, lost, quiet>>

-----------------------------------------------------------------------------
(* The handlers.                                                           *)

(* A worker takes a request off the session and gets as far as             *)
(* time(NULL) in update_access_time.  For a release the kernel has already *)
(* closed the handle.                                                      *)
Start(w) ==
    /\ session = "running" /\ ~killed
    /\ step[w] = "idle"
    /\ \E o \in Ops :
         /\ op' = [op EXCEPT ![w] = o]
         /\ IF o = "release" THEN opened > 0 /\ opened' = opened - 1
                             ELSE UNCHANGED opened
    /\ stamp' = [stamp EXCEPT ![w] = 0]
    /\ step' = [step EXCEPT ![w] = "store"]
    /\ UNCHANGED <<session, last_access, open_refcount, alarm, tickVars,
                   clockFirst, killed, lost, quiet>>

\* The atomic store of update_access_time.
Store(w) ==
    /\ step[w] = "store"
    /\ last_access' = stamp[w]
    /\ stamp' = [stamp EXCEPT ![w] = 0]
    /\ quiet' = 0
    /\ step' = [step EXCEPT ![w] = "body"]
    /\ UNCHANGED <<session, open_refcount, alarm, op, tickVars,
                   clockFirst, killed, opened, lost>>

\* open finds the inode: count the handle.
OpenCount(w) ==
    /\ step[w] = "body"
    /\ op[w] = "open"
    /\ open_refcount < MaxOpen
    /\ open_refcount' = open_refcount + 1
    /\ step' = [step EXCEPT ![w] = "reply"]
    /\ UNCHANGED <<session, last_access, alarm, op, stamp, tickVars, clockFirst, killed,
                   opened, lost, quiet>>

(* fuse_reply_open, whose result is not looked at: the kernel has the      *)
(* handle, or the reply does not reach it and no release will ever come.   *)
OpenReply(w) ==
    /\ step[w] = "reply"
    /\ \/ opened' = opened + 1 /\ quiet' = 0 /\ UNCHANGED lost
       \/ lost' = lost + 1 /\ UNCHANGED <<opened, quiet>>
    /\ step' = [step EXCEPT ![w] = "idle"]
    /\ UNCHANGED <<session, last_access, open_refcount, alarm, op, stamp, tickVars,
                   clockFirst, killed>>

\* open replies with an error: EROFS, ENOMEM, ENOENT, EISDIR, ENOTDIR.
OpenFails(w) ==
    /\ step[w] = "body"
    /\ op[w] = "open"
    /\ step' = [step EXCEPT ![w] = "idle"]
    /\ UNCHANGED <<session, last_access, open_refcount, alarm, op, stamp, tickVars,
                   clockFirst, killed, opened, lost, quiet>>

\* release: update_open_refcount(-1), after the stamp.
CountDown(w) ==
    /\ step[w] = "body"
    /\ op[w] = "release"
    /\ open_refcount' = open_refcount - 1
    /\ step' = [step EXCEPT ![w] = "idle"]
    /\ UNCHANGED <<session, last_access, alarm, op, stamp, tickVars,
                   clockFirst, killed, opened, lost, quiet>>

\* The rest of any other handler, which does not concern the idle timeout.
Finish(w) ==
    /\ step[w] = "body"
    /\ op[w] = "other"
    /\ step' = [step EXCEPT ![w] = "idle"]
    /\ UNCHANGED <<session, last_access, open_refcount, alarm, op, stamp, tickVars,
                   clockFirst, killed, opened, lost, quiet>>

-----------------------------------------------------------------------------
(* alarm_tick.                                                             *)

\* SIGALRM is delivered; alarm_tick returns at once if there is no session.
TickEnter ==
    /\ alarm = "due"
    /\ alarm' = "off"
    /\ tick = "none"
    /\ IF session # "over" THEN tick' = "entered" /\ prior' = quiet
                           ELSE UNCHANGED <<tick, prior>>
    /\ UNCHANGED <<session, last_access, open_refcount, workerVars, clock, access,
                   since, clockFirst, killed, opened, lost, quiet>>

\* get_open_refcount() is not 0: set the alarm again.
TickBusy ==
    /\ tick = "entered"
    /\ open_refcount # 0
    /\ alarm' = "armed"
    /\ TickReturn
    /\ UNCHANGED <<session, last_access, open_refcount, workerVars,
                   clockFirst, killed, opened, lost, quiet>>

\* get_open_refcount() is 0.
TickNoHandles ==
    /\ tick = "entered"
    /\ open_refcount = 0
    /\ tick' = "times"
    /\ UNCHANGED <<session, last_access, open_refcount, alarm, workerVars, clock,
                   access, prior, since, clockFirst, killed, opened, lost, quiet>>

\* time(NULL), before or after the load of last_access.
TickClock ==
    /\ tick = "times"
    /\ clock = None
    /\ clockFirst \/ access # None
    /\ clock' = 0
    /\ tick' = IF access = None THEN "times" ELSE "decide"
    /\ UNCHANGED <<session, last_access, open_refcount, alarm, workerVars, access,
                   prior, since, clockFirst, killed, opened, lost, quiet>>

TickAccess ==
    /\ tick = "times"
    /\ access = None
    /\ ~clockFirst \/ clock # None
    /\ access' = last_access
    /\ tick' = IF clock = None THEN "times" ELSE "decide"
    /\ UNCHANGED <<session, last_access, open_refcount, alarm, workerVars, clock,
                   prior, since, clockFirst, killed, opened, lost, quiet>>

(* time(NULL) - get_access_time() > idle_timeout_secs.  The right side is  *)
(* an unsigned int: a 32-bit difference is converted to unsigned, so that  *)
(* a negative one is huge; a 64-bit one is compared as it is.              *)
DifferenceExceeds(limit) ==
    LET difference == access - clock
    IN difference > limit \/ (NarrowTime /\ difference < 0)

Expired == DifferenceExceeds(Timeout)

\* kill(getpid(), SIGINT), or alarm(1).
TickDecide ==
    /\ tick = "decide"
    /\ IF Expired THEN killed' = TRUE /\ UNCHANGED alarm
                  ELSE alarm' = "armed" /\ UNCHANGED killed
    /\ TickReturn
    /\ UNCHANGED <<session, last_access, open_refcount, workerVars,
                   clockFirst, opened, lost, quiet>>

-----------------------------------------------------------------------------
(* A second passes.  A thread that has read the clock uses it within       *)
(* MaxStall seconds; how long a handler's own work takes is not bounded.   *)
Aged(a) == IF a = None THEN None ELSE Older(a)

Second ==
    /\ \A w \in Workers : step[w] = "store" => stamp[w] < MaxStall
    /\ tick # "none" => since < MaxStall
    /\ last_access' = Older(last_access)
    /\ stamp' = [w \in Workers |-> IF step[w] = "store" THEN Older(stamp[w]) ELSE stamp[w]]
    /\ alarm' = IF alarm = "armed" THEN "due" ELSE alarm
    /\ clock' = Aged(clock) /\ access' = Aged(access)
    /\ quiet' = IF opened > 0 THEN 0 ELSE Older(quiet)
    /\ prior' = IF tick = "none" THEN prior ELSE Older(prior)
    /\ since' = IF tick = "none" THEN since ELSE Older(since)
    /\ UNCHANGED <<session, open_refcount, step, op, tick, clockFirst, killed, opened, lost>>

(* The session loop has returned, after SIGINT or because the image was    *)
(* unmounted, and the main thread is the only one left: in                 *)
(* teardown_idle_timeout, alarm(0) and then fuse_instance = NULL.  A       *)
(* SIGALRM that was due is delivered before, between or after the two, and *)
(* its handler runs to its end in between.                                 *)
TeardownAlarm ==
    /\ session = "running"
    /\ tick = "none"
    /\ \A w \in Workers : step[w] = "idle"
    /\ alarm' = IF alarm = "armed" THEN "off" ELSE alarm
    /\ session' = "ending"
    /\ UNCHANGED <<last_access, open_refcount, workerVars, tickVars, clockFirst,
                   killed, opened, lost, quiet>>

TeardownInstance ==
    /\ session = "ending"
    /\ tick = "none"
    /\ session' = "over"
    /\ UNCHANGED <<last_access, open_refcount, alarm, workerVars, tickVars,
                   clockFirst, killed, opened, lost, quiet>>

Handler(w) ==
    \/ Store(w) \/ OpenCount(w) \/ OpenReply(w) \/ OpenFails(w) \/ CountDown(w) \/ Finish(w)
AlarmTick == TickEnter \/ TickBusy \/ TickNoHandles \/ TickClock \/ TickAccess \/ TickDecide

IdleNext ==
    \/ \E w \in Workers : Start(w) \/ Handler(w)
    \/ AlarmTick
    \/ Second
    \/ TeardownAlarm
    \/ TeardownInstance

IdleSpec == IdleInit /\ [][IdleNext]_idleVars

(* Threads that can run do run, a due SIGALRM is delivered, time passes.   *)
(* Nothing is assumed of requests, nor of an unmount.                      *)
IdleFairness ==
    /\ \A w \in Workers : WF_idleVars(Handler(w))
    /\ WF_idleVars(AlarmTick)
    /\ WF_idleVars(Second)

IdleFairSpec == IdleSpec /\ IdleFairness

-----------------------------------------------------------------------------
(* open_refcount is the number of handles the kernel has, plus the opens   *)
(* that have counted and not replied, plus the releases that have not      *)
(* counted down yet; and plus the handles whose reply was lost, which no   *)
(* release takes back (ll.c:128, 325).  The types are as declared.         *)
RefcountTracksHandles ==
    /\ TypeOK
    /\ open_refcount =
        opened + lost
          + Cardinality({w \in Workers : step[w] = "reply"})
          + Cardinality({w \in Workers : step[w] \in {"store", "body"} /\ op[w] = "release"})

(* ll.c:569: the session is ended only after no activity within the idle   *)
(* window.  When alarm_tick decides to kill, then at the time it was       *)
(* entered no handle was open, and since a handle was last open or an      *)
(* access was last recorded more than Timeout seconds have passed, less    *)
(* the time a thread may stall between reading the clock and using it.     *)
KillJustified == tick = "decide" /\ Expired => prior > Timeout - MaxStall

\* Left alone, with nothing open.
Abandoned == session = "running" /\ opened = 0 /\ \A w \in Workers : step[w] = "idle"

(* A file system that is left alone for good, with nothing open, is        *)
(* unmounted: SIGINT is sent; unless the reply to an open was once lost.   *)
IdleUnmounts == (<>[](Abandoned /\ lost = 0)) => <>killed

(* After the teardown SIGALRM dies out: a late one does not set the alarm  *)
(* again for ever.                                                         *)
AlarmStops == session = "over" ~> [](alarm = "off")
=============================================================================
