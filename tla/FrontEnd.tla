------------------------------ MODULE FrontEnd ------------------------------
(***************************************************************************)
(* The main programs squashfuse_ll (ll_main.c) and squashfuse (hl.c): the  *)
(* image is opened (Mount), mounted and served until the session ends, and *)
(* everything is taken down.  Meanwhile                                    *)
(*   - signals arrive at any time; SIGTERM starts a lazy unmount in a      *)
(*     child process once sigterm_handler is installed;                    *)
(*   - the processes that use the file system come and go, and somebody    *)
(*     may unmount it;                                                     *)
(*   - the outcome is written to a FIFO, by a child process when the       *)
(*     mount succeeds and by main when it fails; opening a FIFO for        *)
(*     writing waits for a reader.                                         *)
(* The handlers of squashfuse_ll are modelled in IdleTimeout, InodeMap,    *)
(* Directory, FileRead and Attributes; here it only has users.  Those of   *)
(* squashfuse that keep an allocated inode in a handle are modelled here.  *)
(***************************************************************************)
EXTENDS Mount

CONSTANTS
    Paths,          \* what is opened in squashfuse
    MaxUsers,       \* how many users of the file system at a time
    MaxTerms        \* how many SIGTERMs

VARIABLES
    attached,   \* the file system is in the mount table
    inited,     \* FUSE_INIT was handled
    int,        \* what SIGINT does: "default" (kill) or "exit" the session
    term,       \* what SIGTERM does: these, or "lazy" (sigterm_handler)
    exiting,    \* fuse_session_exit was called
    children,   \* children of sigterm_handler that have not run yet
    users,      \* open files and the like, in squashfuse_ll
    op,         \* squashfuse: the open or opendir being handled
    handles,    \* squashfuse: what is open
    heap,       \* squashfuse: how many sqfs_inodes are allocated for handles
    writers,    \* who is in notify_mount_ready, with which status
    reader,     \* the FIFO's reader: "away" or "waiting"
    got,        \* the statuses it has read
    hard,       \* history: the session was told to exit at once
    terms,      \* history: how many SIGTERMs there were
    caught,     \* history: sigterm_handler has run during the session
    refused,    \* history: a fusermount was started and failed
    disturbed   \* history: something else than the code decides the status

sigVars    == <<int, term, exiting, children, hard, terms, caught, refused>>
useVars    == <<users, op, handles, heap>>
notifyVars == <<writers, reader, got>>
vars == <<mountVars, pc, err, attached, inited, sigVars, useVars, notifyVars, disturbed>>

ASSUME FrontEndAssumption ==
    /\ MaxUsers \in Nat \ {0} /\ MaxTerms \in Nat
    /\ Paths \subseteq Seq(STRING)

NoOp == [kind |-> "none", walk |-> Walk(Nowhere, <<>>), path |-> <<>>]

FrontEndInit ==
    /\ Init
    /\ attached = FALSE /\ inited = FALSE
    /\ int = "default" /\ term = "default" /\ exiting = FALSE /\ children = 0
    /\ users = 0 /\ op = NoOp /\ handles = <<>> /\ heap = 0
    /\ writers = {} /\ reader = "away" /\ got = <<>>
    /\ hard = FALSE /\ terms = 0 /\ caught = FALSE /\ refused = FALSE
    /\ disturbed = FALSE

LL      == opts.front = "ll"
Running == pc \notin {"exit", "killed", "crashed"}
Held    == users + Len(handles)

-----------------------------------------------------------------------------
(***************************************************************************)
(* main.  fuse_main of squashfuse is taken to do what ll_main.c does.      *)
(***************************************************************************)
Opening ==
    /\ MountStep
    /\ UNCHANGED <<attached, inited, sigVars, useVars, notifyVars, disturbed>>

\* sqfs_ll_mount
MountOk ==
    /\ pc = "mount" /\ Goto("daemonize")
    /\ attached' = TRUE
    /\ UNCHANGED <<mountVars, err, inited, sigVars, useVars, notifyVars, disturbed>>

MountFail ==
    /\ pc = "mount" /\ Goto("out")
    /\ UNCHANGED <<mountVars, err, attached, inited, sigVars, useVars, notifyVars, disturbed>>

DaemonizeOk ==
    /\ pc = "daemonize" /\ Goto("handlers")
    /\ UNCHANGED <<mountVars, err, attached, inited, sigVars, useVars, notifyVars, disturbed>>

\* (A faulty variant: this failure jumps to out, like that of the mount.)
SetupFailOut ==
    /\ pc \in {"daemonize", "handlers"} /\ Goto("out")
    /\ UNCHANGED <<mountVars, err, attached, inited, sigVars, useVars, notifyVars, disturbed>>

\* sqfs_ll_daemonize or fuse_set_signal_handlers fails.
SetupFail ==
    /\ pc \in {"daemonize", "handlers"} /\ Goto("destroy")
    /\ UNCHANGED <<mountVars, err, attached, inited, sigVars, useVars, notifyVars, disturbed>>

\* fuse_set_signal_handlers, then set_sigterm_handler.
SetHandlers ==
    /\ pc = "handlers" /\ Goto(IF LL THEN "termhandler" ELSE "loop")
    /\ int' = "exit" /\ term' = "exit"
    /\ UNCHANGED <<mountVars, err, attached, inited, exiting, children, hard, terms, caught,
                   refused, useVars, notifyVars, disturbed>>

SetTermHandler ==
    /\ pc = "termhandler" /\ Goto("loop")
    /\ term' = "lazy"
    /\ UNCHANGED <<mountVars, err, attached, inited, int, exiting, children, hard, terms, caught,
                   refused, useVars, notifyVars, disturbed>>

(* The loop returns when it was told to exit, perhaps with an error, or    *)
(* when the kernel has given up the file system.  The single-threaded      *)
(* squashfuse finishes the request it is in.                               *)
LoopEnd ==
    /\ pc = "loop" /\ op = NoOp /\ Goto("remove")
    /\ \/ exiting /\ err' \in BOOLEAN
       \/ ~ attached /\ Held = 0 /\ err' = FALSE
    /\ UNCHANGED <<mountVars, attached, inited, sigVars, useVars, notifyVars, disturbed>>

\* fuse_remove_signal_handlers only removes the handlers that libfuse set.
RemoveHandlers ==
    /\ pc = "remove" /\ Goto("destroy")
    /\ int' = "default" /\ term' = IF term = "lazy" THEN "lazy" ELSE "default"
    /\ UNCHANGED <<mountVars, err, attached, inited, exiting, children, hard, terms, caught,
                   refused, useVars, notifyVars, disturbed>>

\* sqfs_ll_destroy; libfuse calls sqfs_hl_op_destroy if it has called init.
DestroyFs ==
    /\ pc = "destroy" /\ Goto("unmount")
    /\ live' = IF LL THEN Destroyed(live) \ {"map", "buckets"}
               ELSE IF inited THEN Destroyed(live) \ {"front"} ELSE live
    /\ UNCHANGED <<opts, pipe, root, walk, err, attached, inited, sigVars, useVars, notifyVars,
                   disturbed>>

\* sqfs_ll_unmount
Unmount ==
    /\ pc = "unmount" /\ Goto("out")
    /\ attached' = FALSE
    /\ UNCHANGED <<mountVars, err, inited, sigVars, useVars, notifyVars, disturbed>>

\* (A faulty variant: only an error of the session is notified.)
OutLate ==
    /\ pc = "out"
    /\ IF err /\ inited /\ pipe = "fifo"
       THEN Goto("notify") /\ writers' = writers \cup {"f"}
       ELSE Goto("free") /\ UNCHANGED writers
    /\ UNCHANGED <<mountVars, err, attached, inited, sigVars, useVars, reader, got, disturbed>>

\* out: in main.  A path that is no FIFO is not written to.
Out ==
    /\ pc = "out"
    /\ IF err /\ pipe = "fifo"
       THEN Goto("notify") /\ writers' = writers \cup {"f"}
       ELSE Goto("free") /\ UNCHANGED writers
    /\ UNCHANGED <<mountVars, err, attached, inited, sigVars, useVars, reader, got, disturbed>>

NotifyDone ==
    /\ pc = "notify" /\ "f" \notin writers /\ Goto("free")
    /\ UNCHANGED <<mountVars, err, attached, inited, sigVars, useVars, notifyVars, disturbed>>

\* free(ll), and main returns.
Exit ==
    /\ pc = "free" /\ Goto("exit")
    /\ live' = IF LL THEN live \ {"front"} ELSE live
    /\ UNCHANGED <<opts, pipe, root, walk, err, attached, inited, sigVars, useVars, notifyVars,
                   disturbed>>

MainStep ==
    \/ Opening \/ MountOk \/ MountFail \/ DaemonizeOk \/ SetupFail \/ SetHandlers
    \/ SetTermHandler \/ LoopEnd \/ RemoveHandlers \/ DestroyFs \/ Unmount \/ Out
    \/ NotifyDone \/ Exit

-----------------------------------------------------------------------------
(***************************************************************************)
(* The kernel and the users.                                               *)
(***************************************************************************)
\* FUSE_INIT: sqfs_ll_op_init or sqfs_hl_op_init, with notify_mount_ready_async.
InitMessage ==
    /\ pc = "loop" /\ ~ inited /\ attached /\ ~ exiting
    /\ inited' = TRUE
    /\ \E forked \in BOOLEAN :
         /\ writers' = IF pipe = "fifo" /\ forked THEN writers \cup {"s"} ELSE writers
         /\ disturbed' = (disturbed \/ ~ forked)
    /\ UNCHANGED <<mountVars, pc, err, attached, sigVars, useVars, reader, got>>

UserEnters ==
    /\ LL /\ pc = "loop" /\ inited /\ attached /\ users < MaxUsers
    /\ users' = users + 1
    /\ UNCHANGED <<mountVars, pc, err, attached, inited, sigVars, op, handles, heap, notifyVars,
                   disturbed>>

UserLeaves ==
    /\ users > 0
    /\ users' = users - 1
    /\ UNCHANGED <<mountVars, pc, err, attached, inited, sigVars, op, handles, heap, notifyVars,
                   disturbed>>

\* A lookup in a map without buckets (sqfs_hash_get).
LookupCrash ==
    /\ LL /\ pc = "loop" /\ inited /\ attached /\ opts.ino = "ino32" /\ "buckets" \notin live
    /\ Goto("crashed")
    /\ UNCHANGED <<mountVars, err, attached, inited, sigVars, useVars, notifyVars, disturbed>>

\* Somebody unmounts the file system, lazily if it is in use.
SomebodyUnmounts ==
    /\ attached
    /\ attached' = FALSE
    /\ disturbed' = (disturbed \/ ~ inited)
    /\ UNCHANGED <<mountVars, pc, err, inited, sigVars, useVars, notifyVars>>

ReaderComes ==
    /\ opts.notify = "fifo" /\ reader = "away" /\ Len(got) < 2
    /\ reader' = "waiting"
    /\ UNCHANGED <<mountVars, pc, err, attached, inited, sigVars, useVars, writers, got,
                   disturbed>>

\* notify_mount_ready: open returns, the status is written.
Write ==
    /\ reader = "waiting"
    /\ \E w \in writers : writers' = writers \ {w} /\ got' = Append(got, w)
    /\ reader' = "away"
    /\ UNCHANGED <<mountVars, pc, err, attached, inited, sigVars, useVars, disturbed>>

-----------------------------------------------------------------------------
(***************************************************************************)
(* Signals.                                                                *)
(***************************************************************************)
Die == Goto("killed") /\ UNCHANGED exiting
ExitSession == exiting' = TRUE /\ UNCHANGED pc

\* SIGINT is delivered, if the process still runs.
Interrupt ==
    IF ~ Running THEN UNCHANGED <<pc, exiting>>
    ELSE IF int = "default" THEN Die ELSE ExitSession

\* From a terminal, or from alarm_tick.
SigInt ==
    /\ Running
    /\ Interrupt
    /\ hard' = TRUE /\ disturbed' = TRUE
    /\ UNCHANGED <<mountVars, err, attached, inited, int, term, children, terms, caught, refused,
                   useVars, notifyVars>>

\* (A faulty variant: the parent, too, goes on to the brutal way.)
LazyUnmountBrutal(started) ==
    IF started THEN children' = children + 1 /\ Interrupt
    ELSE Interrupt /\ UNCHANGED children

(* Whether a lazy unmount can be started: the kernel is new enough for it, *)
(* and fork succeeds.                                                      *)
CanStart == BOOLEAN

\* sigterm_handler
LazyUnmount(started) ==
    IF started THEN children' = children + 1 /\ UNCHANGED <<pc, exiting>>
    ELSE Interrupt /\ UNCHANGED children

SigTerm ==
    /\ Running /\ terms < MaxTerms
    /\ terms' = terms + 1
    /\ \/ term = "default" /\ Die /\ UNCHANGED <<children, hard>>
       \/ term = "exit" /\ ExitSession /\ hard' = TRUE /\ UNCHANGED children
       \/ /\ term = "lazy"
          /\ \E started \in CanStart : LazyUnmount(started) /\ hard' = (hard \/ ~ started)
    /\ caught' = (caught \/ (term = "lazy" /\ pc = "loop"))
    /\ disturbed' = TRUE
    /\ UNCHANGED <<mountVars, err, attached, inited, int, term, refused, useVars, notifyVars>>

\* The child becomes fusermount, which unmounts what is still mounted.
ChildUnmounts ==
    /\ children > 0
    /\ children' = children - 1
    /\ attached' = FALSE
    /\ UNCHANGED <<mountVars, pc, err, inited, int, term, exiting, hard, terms, caught, refused,
                   useVars, notifyVars, disturbed>>

(* fusermount was started and cannot unmount: it may not, or runs where    *)
(* the mount is not seen.  Nobody waits for it or looks at its status.     *)
ChildRefused ==
    /\ children > 0 /\ attached
    /\ children' = children - 1
    /\ refused' = TRUE
    /\ UNCHANGED <<mountVars, pc, err, attached, inited, int, term, exiting, hard, terms, caught,
                   useVars, notifyVars, disturbed>>

\* (A faulty variant: the child just exits.)
ChildFailsQuietly ==
    /\ children > 0
    /\ children' = children - 1
    /\ UNCHANGED <<mountVars, pc, err, attached, inited, int, term, exiting, hard, terms, caught,
                   refused, useVars, notifyVars, disturbed>>

\* There is no fusermount: the child interrupts its parent.
ChildFails ==
    /\ children > 0
    /\ children' = children - 1
    /\ Interrupt
    /\ hard' = TRUE
    /\ UNCHANGED <<mountVars, err, attached, inited, int, term, terms, caught, refused,
                   useVars, notifyVars, disturbed>>

ChildStep == ChildUnmounts \/ ChildRefused \/ ChildFails

-----------------------------------------------------------------------------
(***************************************************************************)
(* The handlers of squashfuse that allocate an inode and keep it in fi->fh *)
(***************************************************************************)
\* sqfs_hl_op_open and sqfs_hl_op_opendir, up to malloc; sqfs_hl_lookup starts.
HlOpen ==
    /\ ~ LL /\ pc = "loop" /\ inited /\ attached /\ op = NoOp /\ Held < MaxUsers
    /\ \E kind \in {"open", "opendir"}, path \in Paths :
         op' = [kind |-> kind, path |-> path, walk |-> Walk(root, path)]
    /\ heap' = heap + 1
    /\ UNCHANGED <<mountVars, pc, err, attached, inited, sigVars, users, handles, notifyVars,
                   disturbed>>

HlWalk ==
    /\ op # NoOp /\ op.walk.status = "walking" /\ Running
    /\ \E w \in WalkSteps(op.walk) : op' = [op EXCEPT !.walk = w]
    /\ UNCHANGED <<mountVars, pc, err, attached, inited, sigVars, users, handles, heap,
                   notifyVars, disturbed>>

\* (A faulty variant: the inode of something else is not freed.)
RejectedKeeps == UNCHANGED <<handles, heap>>

\* The handler returns an error.
Rejected == heap' = heap - 1 /\ UNCHANGED handles

RightKind == (op.kind = "opendir") <=> (op.walk.at \in Dirs)

HlReturn ==
    /\ op # NoOp /\ op.walk.status # "walking" /\ Running
    /\ IF op.walk.status = "found" /\ RightKind
       THEN /\ handles' = Append(handles, [kind |-> op.kind, path |-> op.path,
                                           inode |-> op.walk.at])
            /\ UNCHANGED heap
       ELSE Rejected
    /\ op' = NoOp
    /\ UNCHANGED <<mountVars, pc, err, attached, inited, sigVars, users, notifyVars, disturbed>>

\* sqfs_hl_op_release, sqfs_hl_op_releasedir
HlRelease ==
    /\ pc = "loop" /\ op = NoOp
    /\ \E i \in DOMAIN handles : handles' = RemoveAt(handles, i)
    /\ heap' = heap - 1
    /\ UNCHANGED <<mountVars, pc, err, attached, inited, sigVars, users, op, notifyVars,
                   disturbed>>

HlStep == HlWalk \/ HlReturn

-----------------------------------------------------------------------------
Ended ==
    /\ ~ Running /\ children = 0
    /\ UNCHANGED vars

Next ==
    \/ MainStep \/ InitMessage \/ UserEnters \/ UserLeaves \/ LookupCrash
    \/ SomebodyUnmounts \/ ReaderComes \/ Write \/ SigInt \/ SigTerm \/ ChildStep
    \/ HlOpen \/ HlStep \/ HlRelease \/ Ended

(* Processes that can run do; a FIFO opened at both ends is written to.    *)
(* Nothing makes users, readers or signals come.                           *)
Fairness ==
    /\ WF_vars(MainStep) /\ WF_vars(InitMessage) /\ WF_vars(Write)
    /\ WF_vars(ChildStep) /\ WF_vars(HlStep)

Spec == FrontEndInit /\ [][Next]_vars /\ Fairness

-----------------------------------------------------------------------------
(* A request is only handled while every table and cache and the map of    *)
(* inode numbers exist, since sqfs_init_with_subdir fails if one could not *)
(* be made and nothing is destroyed before the loop has returned; only the *)
(* buckets of ino32's map may be missing (ll_inode.c:260).  And a failed   *)
(* open gives back what it made.  The xattr table is never freed, and the  *)
(* file stays open when the root's inode cannot be read (ll.c, hl.c).      *)
PartsTrue ==
    /\ pc = "loop" => Parts \cup {"front", "fd"} \subseteq live
                      /\ (opts.ino # "ino64" => "map" \in live)
    /\ pc = "failed" => live \subseteq {"xattr", "fd"}
    /\ pc = "failed" /\ "fd" \in live => ReadsRoot /\ "xattr" \in live

(* What is open in squashfuse is what its path leads to from the mounted   *)
(* root, a directory only through opendir; and an inode is allocated for   *)
(* each handle and for the request being handled, no more and no less,     *)
(* whichever way earlier requests ended.                                   *)
HandlesRight ==
    /\ heap = Len(handles) + (IF op = NoOp THEN 0 ELSE 1)
    /\ \A i \in DOMAIN handles :
         LET h == handles[i]
         IN h.inode = Resolve(root, h.path) /\ (h.inode \in Dirs <=> h.kind = "opendir")

(* The status on the FIFO is true (squashfuse.1, notify_pipe): 's' is only *)
(* written once FUSE_INIT was handled, and 'f' never while the file system *)
(* is still in the mount table.                                            *)
StatusTrue ==
    LET told == Range(got) \cup writers
    IN ("s" \in told => inited) /\ ("f" \in told => ~ attached)

(* SIGTERM does not end the session under its users (the comment above     *)
(* sigterm_handler, and tests/umount-test.sh.in): while the file system is *)
(* in use the loop only returns after a SIGINT, after the fallback of the  *)
(* handler or its child, or after a SIGTERM that came before the handler   *)
(* was installed.                                                          *)
Patience == [][pc = "loop" /\ pc' = "remove" /\ Held > 0 => hard]_vars

(* After a SIGTERM that sigterm_handler has seen, the session does end     *)
(* once the last user has left, whatever became of fork and exec; unless a *)
(* fusermount was started and could not unmount, though the comment at     *)
(* ll_main.c:98 has it that the "murderous child will do us in one way or  *)
(* another".                                                               *)
TermEnds == (<>[](Held = 0)) => (caught ~> (pc # "loop" \/ refused))

\* An argument was wrong, and notify_pipe was not parsed before it.
Unheard == pc # "args" /\ pipe # opts.notify

(* Someone who waits at the FIFO is told an outcome, whichever step of the *)
(* start fails: unless the process is killed, crashes or cannot fork, or   *)
(* the mount is taken away before FUSE_INIT, or an argument before         *)
(* notify_pipe is wrong.                                                   *)
Answered ==
    ([](~ disturbed /\ pc # "crashed" /\ ~ Unheard)) => (reader = "waiting" ~> got # <<>>)
=============================================================================
