-------------------------- MODULE SpawnedProcesses --------------------------
(***************************************************************************)
(* The table of child processes behind os.spawnProcess,                    *)
(* os.updateSpawnedProcess and os.getSpawnedProcesses (api/os/os.cpp), and *)
(* the threads that work on it:                                            *)
(*                                                                         *)
(*   - the callers: the server thread, which runs native methods, and the  *)
(*     main thread, which runs extensions::init;                           *)
(*   - per child, the detached process thread started by spawnProcess,     *)
(*     which waits for the child, announces its exit, forgets it and       *)
(*     deletes the Process object;                                         *)
(*   - per child, the reader thread of the Process object, which forwards  *)
(*     what the child writes.                                              *)
(*                                                                         *)
(* spawnedProcessesLock is modelled by its owner.  A critical section is   *)
(* cut into several steps where another thread can act in between (while a *)
(* spawn is half done, while a write to the child's standard input         *)
(* blocks); a section nobody can observe half-way is one step.             *)
(*                                                                         *)
(* The Process object (TinyProcessLib, vendored) is modelled from the Unix *)
(* code that spawnProcess calls: fork may fail, write blocks while the     *)
(* pipe is full and somebody holds its read end, kill does nothing once    *)
(* the object is marked closed, get_exit_status reaps the child, marks the *)
(* object closed, joins the reader and closes the descriptors, in that     *)
(* order.  The child is a shell: its descendants have its pipes too and    *)
(* may keep either after it is gone.                                       *)
(***************************************************************************)
EXTENDS Integers, FiniteSets

CONSTANTS
    Callers,        \* threads that call spawnProcess and updateSpawnedProcess
    Quiet,          \* those of them that spawn without events: extensions::init
    Children,       \* Process objects that can be allocated
    None,           \* no thread, no child
    MaxVirtualPid,  \* INT_MAX
    PipeCapacity,   \* writes that fit in the child's standard input pipe
    MaxOutput,      \* bound: chunks a child and its descendants write
    MaxCalls        \* bound: calls made by all callers together

ASSUME ThreadsAssumption == None \notin Callers \cup Children
ASSUME BoundsAssumption ==
    /\ MaxVirtualPid \in Nat
    /\ PipeCapacity \in Nat \ {0}
    /\ MaxOutput \in Nat
    /\ MaxCalls \in Nat

VARIABLES
    lock,               \* owner of spawnedProcessesLock: a caller or None
    spawnedProcesses,   \* map<int, Process*>: the child under each id, or None
    nextVirtualPid,     \* the id the next spawn takes
    wrapped,            \* history: nextVirtualPid was reset to 0
    pc,                 \* where each caller is
    cur,                \* the Process pointer each caller holds
    proc,               \* the state of each child, see Proc
    calls               \* number of calls made so far

vars == <<lock, spawnedProcesses, nextVirtualPid, wrapped, pc, cur, proc, calls>>

VirtualPids == 0..MaxVirtualPid

(***************************************************************************)
(* heap      the Process object: not allocated, live, deleted              *)
(* os        the operating-system process; "failed" when fork failed       *)
(* vpid      the virtual pid captured by the child's callbacks             *)
(* events    options.events: FALSE for extension processes                 *)
(* thread    where the child's process thread is                           *)
(* reader    the reader thread of the Process object                       *)
(* closed    Process::closed                                               *)
(* stdin     Process::stdin_fd is set                                      *)
(* inOpen    somebody still holds the read end of the input pipe           *)
(* inPipe    writes in the standard input pipe, not yet read               *)
(* outOpen   somebody still holds the write end of the output pipe         *)
(* produced  chunks written by the child and its descendants               *)
(* consumed  chunks read, and dispatched when events is set                *)
(* signalled what the last kill() that sent a signal found at that pid     *)
(* exitSent  the "exit" event was dispatched                               *)
(***************************************************************************)
Proc == [heap: {"none", "live", "freed"},
         os: {"none", "failed", "running", "exited", "reaped"},
         vpid: VirtualPids,
         events: BOOLEAN,
         thread: {"none", "waiting", "marking", "joining", "dispatching",
                  "locking", "done"},
         reader: {"none", "reading", "done"},
         closed: BOOLEAN,
         stdin: BOOLEAN,
         inOpen: BOOLEAN,
         inPipe: 0..PipeCapacity,
         outOpen: BOOLEAN,
         produced: 0..MaxOutput,
         consumed: 0..MaxOutput,
         signalled: {"no", "alive", "zombie", "reaped"},
         exitSent: BOOLEAN]

Unallocated ==
    [heap |-> "none", os |-> "none", vpid |-> 0, events |-> FALSE,
     thread |-> "none", reader |-> "none", closed |-> TRUE, stdin |-> FALSE,
     inOpen |-> FALSE, inPipe |-> 0, outOpen |-> FALSE, produced |-> 0, consumed |-> 0,
     signalled |-> "no", exitSent |-> FALSE]

Init ==
    /\ lock = None
    /\ spawnedProcesses = [id \in VirtualPids |-> None]
    /\ nextVirtualPid = 0
    /\ wrapped = FALSE
    /\ pc = [t \in Callers |-> "idle"]
    /\ cur = [t \in Callers |-> None]
    /\ proc = [c \in Children |-> Unallocated]
    /\ calls = 0

-----------------------------------------------------------------------------
(* Callers. *)

tableVars == <<spawnedProcesses, nextVirtualPid, wrapped>>

\* The call is made and gets the lock; lock_guard waits while it is taken.
Begin(t) ==
    /\ pc[t] = "idle"
    /\ lock = None
    /\ calls < MaxCalls
    /\ calls' = calls + 1

\* The object the constructor leaves behind: a running child with its reader
\* thread, or, when pipe() or fork() fails, an object without a process.
Constructed(id, ev, forked) ==
    [heap |-> "live", os |-> IF forked THEN "running" ELSE "failed",
     vpid |-> id, events |-> ev, thread |-> "none",
     reader |-> IF forked THEN "reading" ELSE "none",
     closed |-> ~forked, stdin |-> TRUE, inOpen |-> forked, inPipe |-> 0, outOpen |-> forked,
     produced |-> 0, consumed |-> 0, signalled |-> "no", exitSent |-> FALSE]

\* The id a spawn takes: the old value of nextVirtualPid++.
VirtualPid == nextVirtualPid

\* Mutant: no reset after INT_MAX.
AdvancedVirtualPid_NoReset == nextVirtualPid + 1

\* The counter after the spawn took its id: reset once INT_MAX was handed out.
AdvancedVirtualPid == IF nextVirtualPid = MaxVirtualPid THEN 0 ELSE nextVirtualPid + 1

\* The object that new allocates; it makes no difference which.
Fresh == CHOOSE c \in Children : proc[c].heap = "none"

\* spawnProcess up to the construction of the Process: takes the lock, an id,
\* and allocates the object.
SpawnBegin(t, c, forked) ==
    /\ Begin(t)
    /\ proc[c].heap = "none" /\ c = Fresh
    /\ lock' = t
    /\ nextVirtualPid' = AdvancedVirtualPid
    /\ wrapped' = (wrapped \/ nextVirtualPid = MaxVirtualPid)
    /\ proc' = [proc EXCEPT ![c] = Constructed(VirtualPid, t \notin Quiet, forked)]
    /\ pc' = [pc EXCEPT ![t] = "spawning"]
    /\ cur' = [cur EXCEPT ![t] = c]
    /\ UNCHANGED spawnedProcesses

\* Mutant: entered under the counter, which was advanced, instead of the id.
SpawnRegister_NextId(t) ==
    /\ pc[t] = "spawning"
    /\ spawnedProcesses' = [spawnedProcesses EXCEPT ![nextVirtualPid] = cur[t]]
    /\ proc' = [proc EXCEPT ![cur[t]].thread = "waiting"]
    /\ pc' = [pc EXCEPT ![t] = "spawned"]
    /\ UNCHANGED <<lock, nextVirtualPid, wrapped, cur, calls>>

\* spawnedProcesses[virtualPid] = childProcess, and the process thread starts.
SpawnRegister(t) ==
    /\ pc[t] = "spawning"
    /\ spawnedProcesses' = [spawnedProcesses EXCEPT ![proc[cur[t]].vpid] = cur[t]]
    /\ proc' = [proc EXCEPT ![cur[t]].thread = "waiting"]
    /\ pc' = [pc EXCEPT ![t] = "spawned"]
    /\ UNCHANGED <<lock, nextVirtualPid, wrapped, cur, calls>>

\* Mutant: an early return that keeps the lock.
SpawnReturn_KeepsLock(t) ==
    /\ pc[t] = "spawned"
    /\ pc' = [pc EXCEPT ![t] = "idle"]
    /\ cur' = [cur EXCEPT ![t] = None]
    /\ UNCHANGED <<lock, tableVars, proc, calls>>

\* Reads childProcess->get_id() and returns, which releases the lock.
SpawnReturn(t) ==
    /\ pc[t] = "spawned"
    /\ lock' = None
    /\ pc' = [pc EXCEPT ![t] = "idle"]
    /\ cur' = [cur EXCEPT ![t] = None]
    /\ UNCHANGED <<tableVars, proc, calls>>

\* updateSpawnedProcess with an unknown id or an unknown event type, and
\* getSpawnedProcesses: they take and release the lock and change nothing.
CallWithoutEffect(t) ==
    /\ Begin(t)
    /\ UNCHANGED <<lock, tableVars, pc, cur, proc>>

\* Mutant: kill without the check of the closed flag.
Kill_Unguarded(p) ==
    IF p.os = "failed" THEN p
    ELSE [p EXCEPT !.signalled = CASE p.os = "running" -> "alive"
                                   [] p.os = "exited"  -> "zombie"
                                   [] OTHER            -> "reaped"]

\* Process::kill: SIGINT to the process group unless the object is closed.
Kill(p) ==
    IF p.closed THEN p
    ELSE [p EXCEPT !.signalled = CASE p.os = "running" -> "alive"
                                   [] p.os = "exited"  -> "zombie"
                                   [] OTHER            -> "reaped"]

UpdateExit(t, id) ==
    /\ Begin(t)
    /\ spawnedProcesses[id] # None
    /\ proc' = [proc EXCEPT ![spawnedProcesses[id]] = Kill(@)]
    /\ UNCHANGED <<lock, tableVars, pc, cur>>

UpdateStdInEnd(t, id) ==
    /\ Begin(t)
    /\ spawnedProcesses[id] # None
    /\ proc' = [proc EXCEPT ![spawnedProcesses[id]].stdin = FALSE]
    /\ UNCHANGED <<lock, tableVars, pc, cur>>

\* Process::write: nothing once the descriptor is closed; else write(2), with
\* spawnedProcessesLock and the object's stdin_mutex held until it returns.
UpdateStdIn(t, id) ==
    /\ Begin(t)
    /\ spawnedProcesses[id] # None
    /\ LET c == spawnedProcesses[id]
       IN IF proc[c].stdin
          THEN /\ lock' = t
               /\ pc' = [pc EXCEPT ![t] = "writing"]
               /\ cur' = [cur EXCEPT ![t] = c]
          ELSE UNCHANGED <<lock, pc, cur>>
    /\ UNCHANGED <<tableVars, proc>>

\* Mutant: the program keeps the read end itself, so no hang-up wakes a writer.
Blocked_NoHangUp(t) ==
    /\ pc[t] = "writing"
    /\ proc[cur[t]].inOpen => proc[cur[t]].inPipe = PipeCapacity

\* write(2) blocks while the pipe is full and the child, or a descendant that
\* outlives it, holds the read end.
Blocked(t) ==
    /\ pc[t] = "writing"
    /\ proc[cur[t]].inOpen
    /\ proc[cur[t]].inPipe = PipeCapacity

\* The write ends (EPIPE when nobody holds the read end: SIGPIPE is ignored; a
\* write to the unset descriptor of a failed fork has no effect the model shows)
\* and the lock is released.
WriteReturn(t) ==
    /\ pc[t] = "writing"
    /\ ~Blocked(t)
    /\ proc' = IF proc[cur[t]].inOpen
               THEN [proc EXCEPT ![cur[t]].inPipe = @ + 1]
               ELSE proc
    /\ lock' = None
    /\ pc' = [pc EXCEPT ![t] = "idle"]
    /\ cur' = [cur EXCEPT ![t] = None]
    /\ UNCHANGED <<tableVars, calls>>

-----------------------------------------------------------------------------
(* The child and its descendants: the environment. *)

childOnly == <<lock, tableVars, pc, cur, calls>>

\* What becomes of the input once the program has closed its end, nobody sees.
ChildReads(c) ==
    /\ proc[c].stdin /\ proc[c].inOpen
    /\ proc[c].inPipe > 0
    /\ proc' = [proc EXCEPT ![c].inPipe = @ - 1]
    /\ UNCHANGED childOnly

ChildWrites(c) ==
    /\ proc[c].outOpen
    /\ proc[c].produced < MaxOutput
    /\ proc' = [proc EXCEPT ![c].produced = @ + 1]
    /\ UNCHANGED childOnly

\* The child ends, killed or not; descendants may keep its pipes.
ChildExits(c) ==
    /\ proc[c].os = "running"
    /\ proc' = [proc EXCEPT ![c].os = "exited"]
    /\ UNCHANGED childOnly

\* The last one to hold a pipe closes it: the child, also by ending, or a
\* descendant.
ClosesInput(c) ==
    /\ proc[c].stdin /\ proc[c].inOpen
    /\ proc' = [proc EXCEPT ![c].inOpen = FALSE, ![c].inPipe = 0]
    /\ UNCHANGED childOnly

ClosesOutput(c) ==
    /\ proc[c].outOpen
    /\ proc' = [proc EXCEPT ![c].outOpen = FALSE]
    /\ UNCHANGED childOnly

-----------------------------------------------------------------------------
(* The reader thread of a Process object. *)

\* stdOutHandler / stdErrHandler: one chunk, dispatched if options.events.
ReaderReads(c) ==
    /\ proc[c].reader = "reading"
    /\ proc[c].consumed < proc[c].produced
    /\ proc' = [proc EXCEPT ![c].consumed = @ + 1]
    /\ UNCHANGED childOnly

\* Hang-up on the output pipes, everything in them read.
ReaderEnds(c) ==
    /\ proc[c].reader = "reading"
    /\ proc[c].consumed = proc[c].produced
    /\ ~proc[c].outOpen
    /\ proc' = [proc EXCEPT ![c].reader = "done"]
    /\ UNCHANGED childOnly

-----------------------------------------------------------------------------
(* The process thread started by spawnProcess. *)

\* get_exit_status: waitpid returns.
ThreadReap(c) ==
    /\ proc[c].thread = "waiting"
    /\ proc[c].os = "exited"
    /\ proc' = [proc EXCEPT ![c].os = "reaped", ![c].thread = "marking"]
    /\ UNCHANGED childOnly

\* get_exit_status of an object without a process returns at once.
ThreadNoProcess(c) ==
    /\ proc[c].thread = "waiting"
    /\ proc[c].os = "failed"
    /\ proc' = [proc EXCEPT ![c].thread = "dispatching"]
    /\ UNCHANGED childOnly

\* get_exit_status: closed = true under close_mutex.
ThreadMarkClosed(c) ==
    /\ proc[c].thread = "marking"
    /\ proc' = [proc EXCEPT ![c].closed = TRUE, ![c].thread = "joining"]
    /\ UNCHANGED childOnly

\* Mutant: close_fds that does not join the reader thread.
ThreadCloseFds_NoJoin(c) ==
    /\ proc[c].thread = "joining"
    /\ \A t \in Callers : ~(pc[t] = "writing" /\ cur[t] = c)
    /\ proc' = [proc EXCEPT ![c].stdin = FALSE, ![c].thread = "dispatching"]
    /\ UNCHANGED childOnly

\* get_exit_status: close_fds joins the reader and closes stdin, for which it
\* needs the stdin_mutex that a caller inside write holds.
ThreadCloseFds(c) ==
    /\ proc[c].thread = "joining"
    /\ proc[c].reader = "done"
    /\ \A t \in Callers : ~(pc[t] = "writing" /\ cur[t] = c)
    /\ proc' = [proc EXCEPT ![c].stdin = FALSE, ![c].thread = "dispatching"]
    /\ UNCHANGED childOnly

ThreadDispatchExit(c) ==
    /\ proc[c].thread = "dispatching"
    /\ proc' = [proc EXCEPT ![c].exitSent = proc[c].events, ![c].thread = "locking"]
    /\ UNCHANGED childOnly

\* Mutant: the object is deleted without waiting for the lock.
ThreadErase_NoLock(c) ==
    /\ proc[c].thread = "locking"
    /\ spawnedProcesses' = [spawnedProcesses EXCEPT ![proc[c].vpid] = None]
    /\ proc' = [proc EXCEPT ![c].heap = "freed", ![c].stdin = FALSE, ![c].thread = "done"]
    /\ UNCHANGED <<lock, nextVirtualPid, wrapped, pc, cur, calls>>

\* Locks, erases the table entry under the thread's virtual pid, deletes the
\* object and unlocks.
ThreadErase(c) ==
    /\ proc[c].thread = "locking"
    /\ lock = None
    /\ spawnedProcesses' = [spawnedProcesses EXCEPT ![proc[c].vpid] = None]
    /\ proc' = [proc EXCEPT ![c].heap = "freed", ![c].stdin = FALSE, ![c].thread = "done"]
    /\ UNCHANGED <<lock, nextVirtualPid, wrapped, pc, cur, calls>>

-----------------------------------------------------------------------------
CallerNext(t) ==
    \/ \E c \in Children, forked \in BOOLEAN : SpawnBegin(t, c, forked)
    \/ SpawnRegister(t)
    \/ SpawnReturn(t)
    \/ CallWithoutEffect(t)
    \/ \E id \in VirtualPids : UpdateExit(t, id)
    \/ \E id \in VirtualPids : UpdateStdInEnd(t, id)
    \/ \E id \in VirtualPids : UpdateStdIn(t, id)
    \/ WriteReturn(t)

ChildNext(c) ==
    \/ ChildReads(c)
    \/ ChildWrites(c)
    \/ ChildExits(c)
    \/ ClosesInput(c)
    \/ ClosesOutput(c)

ReaderNext(c) == ReaderReads(c) \/ ReaderEnds(c)

ThreadNext(c) ==
    \/ ThreadReap(c)
    \/ ThreadNoProcess(c)
    \/ ThreadMarkClosed(c)
    \/ ThreadCloseFds(c)
    \/ ThreadDispatchExit(c)
    \/ ThreadErase(c)

Next ==
    \/ \E t \in Callers : CallerNext(t)
    \/ \E c \in Children : ChildNext(c) \/ ReaderNext(c) \/ ThreadNext(c)

Spec == Init /\ [][Next]_vars

\* The threads of the program keep running; nothing is assumed of the children,
\* of their descendants or of the clients that make calls.
Fairness ==
    /\ \A t \in Callers : WF_vars(SpawnRegister(t) \/ SpawnReturn(t) \/ WriteReturn(t))
    /\ \A c \in Children : WF_vars(ReaderNext(c)) /\ WF_vars(ThreadNext(c))

FairSpec == Spec /\ Fairness

-----------------------------------------------------------------------------
(* Properties. *)

\* Every variable has its type; the virtual pid counter stays within an int.
TypeOK ==
    /\ lock \in Callers \cup {None}
    /\ spawnedProcesses \in [VirtualPids -> Children \cup {None}]
    /\ nextVirtualPid \in VirtualPids
    /\ wrapped \in BOOLEAN
    /\ pc \in [Callers -> {"idle", "spawning", "spawned", "writing"}]
    /\ cur \in [Callers -> Children \cup {None}]
    /\ proc \in [Children -> Proc]
    /\ calls \in 0..MaxCalls

\* No caller holds, and the table never contains, a Process object its process
\* thread has deleted: spawnProcess may read get_id() after it started the
\* thread, and a caller may stay blocked inside write(), only because the thread
\* needs spawnedProcessesLock to delete (os.cpp:249-262).
NoUseAfterFree ==
    /\ \A t \in Callers : cur[t] # None => proc[cur[t]].heap = "live"
    /\ \A id \in VirtualPids :
          spawnedProcesses[id] # None => proc[spawnedProcesses[id]].heap = "live"

\* Until the id counter wraps, every child whose process thread runs is in the
\* table under its own id, so that updateSpawnedProcess reaches it and nobody
\* else; after the wrap a new child may take the entry of a live one.
ListedUntilWrap ==
    ~wrapped => \A c \in Children :
                    proc[c].heap = "live" /\ proc[c].thread # "none" =>
                        spawnedProcesses[proc[c].vpid] = c

\* The "exit" event of a child is its last event and nothing is lost before it:
\* once it is dispatched, every chunk was dispatched and none can follow.
ExitIsLast ==
    \A c \in Children :
        proc[c].exitSent => proc[c].consumed = proc[c].produced /\ ~proc[c].outOpen

\* A client that answers the "exit" event with an "exit" update signals nobody,
\* although the entry is still in the table: the pid may be another process's.
NoSignalAfterExitEvent ==
    [][\A c \in Children :
          proc[c].exitSent => proc'[c].signalled = proc[c].signalled]_vars

\* A caller is inside write() while somebody holds the other end of the pipe.
AwaitsReader(t) == pc[t] = "writing" /\ proc[cur[t]].inOpen

\* A child that ended is forgotten and its object deleted, unless a descendant
\* keeps its output open for ever or a caller sits for ever, with the lock, in
\* a write to a pipe (of any child) that somebody holds and does not read.
ExitedIsForgotten ==
    \A c \in Children :
        [](proc[c].os = "exited" =>
              <>(\/ proc[c].heap = "freed"
                 \/ []proc[c].outOpen
                 \/ [](\E t \in Callers : AwaitsReader(t))))

\* Every call returns, except a write to a pipe that the child or a descendant
\* holds for ever and does not read: the end of the child alone does not end it,
\* the end of the last holder does, although the lock stays taken meanwhile.
CallsReturn ==
    \A t \in Callers :
        [](pc[t] # "idle" => <>(pc[t] = "idle" \/ []AwaitsReader(t)))

=============================================================================
