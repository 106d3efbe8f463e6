------------------------------ MODULE Watchers ------------------------------
(***************************************************************************)
(* The file watchers of filesystem.createWatcher, removeWatcher and        *)
(* getWatchers (api/fs/fs.cpp) over the inotify backend of the efsw        *)
(* library (lib/efsw).                                                     *)
(*                                                                         *)
(* createWatcher and removeWatcher run on the server thread, under locks   *)
(* that keep efsw's own thread out, so each is one step.  efsw's thread    *)
(* reads inotify events and handles each in two steps: it looks the watch  *)
(* up, releases the lock, and then calls the listener.  A watch is         *)
(* recursive: the directories below get watches of their own that carry    *)
(* the id of the first.  inotify is modelled from its use: a directory     *)
(* that is watched already gets the watch descriptor it has, and a removed *)
(* directory loses its watch without a message efsw would act on.          *)
(* Both fs.cpp and efsw compare paths as text, efsw after it has put a     *)
(* slash at the end, so a directory can be written in several ways that    *)
(* are not found to be the same ("/tmp/x", "/tmp/./x", "x").  The          *)
(* directories below one are written as it is.                             *)
(* Renames, symbolic links and unreadable directories are left out.        *)
(***************************************************************************)
EXTENDS Integers, Sequences, Functions

CONSTANTS
    Preorder,   \* the directories, each after the one it is in
    Parent,     \* directory -> the directory it is in, or None
    Spellings,  \* the ways a directory can be written
    Paths,      \* the paths a client names: [dir, spelling, slash] records
    Listeners,  \* listener objects that can be allocated (bounds the calls)
    MaxWd,      \* bound on the watch descriptors; then the watch limit is hit
    MaxQueue,   \* bound on the unread inotify events
    None

Dirs == Range(Preorder)
Wds == 1..MaxWd

\* efsw::Errors
FileNotFound == -1
FileRepeated == -2
Unspecified == -6
WatchIds == Wds \cup {FileNotFound, FileRepeated, Unspecified}

ASSUME BoundsAssumption == MaxWd \in Nat /\ MaxQueue \in Nat
ASSUME TreeAssumption ==
    /\ Preorder \in Seq(Dirs)
    /\ Parent \in [Dirs -> Dirs \cup {None}]
    /\ \A i \in 1..Len(Preorder) : Parent[Preorder[i]] \in {None} \cup {Preorder[j] : j \in 1..i - 1}
ASSUME PathsAssumption == Paths \subseteq [dir : Dirs, spelling : Spellings, slash : BOOLEAN]

VARIABLES
    exists,         \* the directories that exist
    inotify,        \* directory -> its watch descriptor, or 0
    nextWd,         \* the next watch descriptor
    queue,          \* unread inotify events
    mWatches,       \* watch descriptor -> efsw watch
    mRealWatches,   \* watch descriptor -> directory of a watch asked for by path, as written
    watchListeners, \* watcher id -> [listener, path]
    freed,          \* listeners that were deleted
    allocated,      \* listeners that were created
    current,        \* the event and watch efsw's thread is handling, or None
    reply,          \* the last createWatcher or removeWatcher: [method, path, id]
    usedFreed       \* a deleted watch or listener was used

vars == <<exists, inotify, nextWd, queue, mWatches, mRealWatches, watchListeners,
          freed, allocated, current, reply, usedFreed>>
efsw == <<inotify, nextWd, mWatches, mRealWatches>>
app == <<watchListeners, freed, allocated>>

NoReply == [method |-> "none", path |-> None, id |-> 0]

Init ==
    /\ exists \in {E \in SUBSET Dirs : \A d \in E : Parent[d] \in E \cup {None}}
    /\ inotify = [d \in Dirs |-> 0]
    /\ nextWd = 1
    /\ queue = <<>>
    /\ mWatches = [wd \in {} |-> None]
    /\ mRealWatches = [wd \in {} |-> None]
    /\ watchListeners = [id \in {} |-> None]
    /\ freed = {}
    /\ allocated = {}
    /\ current = None
    /\ reply = NoReply
    /\ usedFreed = FALSE

-----------------------------------------------------------------------------
(* efsw: the tables of watches. *)

Put(f, x, v) == [y \in DOMAIN f \cup {x} |-> IF y = x THEN v ELSE f[y]]
Without(f, S) == [y \in DOMAIN f \ S |-> f[y]]

\* A directory as efsw writes it: the path with a slash at its end.
Directories == [dir : Dirs, spelling : Spellings]
dirAddSlashAtEnd(path) == [dir |-> path.dir, spelling |-> path.spelling]

\* Directory d, below or equal to `directory', as it is written there.
Below(directory, d) == [directory EXCEPT !.dir = d]

\* Mutant: no directory counts as watched already.
pathInWatches_Never(real, directory) == FALSE

\* Only the watches asked for by path count.
pathInWatches(real, directory) == \E wd \in DOMAIN real : real[wd] = directory

\* What addWatch answers for one directory: an error or a watch descriptor.
AddResult(t, directory) ==
    IF directory.dir \notin exists THEN FileNotFound
    ELSE IF pathInWatches(t.real, directory) THEN FileRepeated
    ELSE IF t.inotify[directory.dir] # 0 THEN t.inotify[directory.dir]
    ELSE IF t.next > MaxWd THEN Unspecified
    ELSE t.next

\* addWatch of one directory by a listener.  The watch is only entered if its
\* descriptor is new; `chain' holds the descriptors of the watches above it.
AddOne(t, directory, listener, chain, id) ==
    LET wd == AddResult(t, directory)
    IN IF wd < 0 THEN t
       ELSE [inotify |-> [t.inotify EXCEPT ![directory.dir] = wd],
             next |-> IF wd = t.next THEN t.next + 1 ELSE t.next,
             watches |-> IF wd \in DOMAIN t.watches THEN t.watches
                         ELSE Put(t.watches, wd,
                                  [directory |-> directory, listener |-> listener,
                                   chain |-> chain, id |-> IF chain = {} THEN wd ELSE id]),
             real |-> IF chain = {} THEN Put(t.real, wd, directory) ELSE t.real,
             added |-> Put(t.added, directory.dir, chain \cup {wd})]

\* The turn of the walk that comes to directory d: the top is added, and a
\* directory whose parent was.
AddStep(t, d, top, listener, chain, id) ==
    IF d = top.dir THEN AddOne(t, top, listener, chain, id)
    ELSE IF Parent[d] \in DOMAIN t.added
         THEN AddOne(t, Below(top, d), listener, t.added[Parent[d]],
                     IF chain = {} THEN t.inotify[top.dir] ELSE id)
         ELSE t

\* The tables as they are, nothing added.
Tables == [inotify |-> inotify, next |-> nextWd, watches |-> mWatches,
           real |-> mRealWatches, added |-> [d \in {} |-> {}]]

\* addWatch of a directory and, if that succeeds, of those below it.
AddTree(top, listener, chain, id) ==
    LET walk[i \in 0..Len(Preorder)] ==
            IF i = 0 THEN Tables
            ELSE AddStep(walk[i - 1], Preorder[i], top, listener, chain, id)
    IN walk[Len(Preorder)]

SetTables(t) ==
    /\ inotify' = t.inotify
    /\ nextWd' = t.next
    /\ mWatches' = t.watches
    /\ mRealWatches' = t.real

\* The watches removeWatchLocked erases: the watch and those in its tree.
Removed(wd) ==
    {wd} \cup {x \in DOMAIN mWatches : /\ mWatches[x].listener = mWatches[wd].listener
                                       /\ wd \in mWatches[x].chain}

removeWatchLocked(wd) ==
    /\ mWatches' = Without(mWatches, Removed(wd))
    /\ mRealWatches' = Without(mRealWatches, {x \in Removed(wd) : mWatches[x].chain = {}})
    /\ inotify' = [d \in Dirs |-> IF inotify[d] \in Removed(wd) THEN 0 ELSE inotify[d]]
    /\ UNCHANGED nextWd

-----------------------------------------------------------------------------
(* The server thread. *)

\* Mutant: a path that has a watcher gets another one.
Existing_None(path) == {}

\* The entries with exactly this path.
Existing(path) == {id \in DOMAIN watchListeners : watchListeners[id].path = path}

\* createWatcher of a path in the table: its id is the answer.
createWatcherAgain(path) ==
    /\ \E id \in Existing(path) : reply' = [method |-> "create", path |-> path, id |-> id]
    /\ UNCHANGED <<exists, queue, efsw, app, current, usedFreed>>

\* createWatcher of another path.  What addWatch answers becomes an entry, in the
\* place of the one it may have, an error too; the controller reports ids that are not positive as NE_FS_UNLCWAT.
createWatcher(path, listener) ==
    /\ Existing(path) = {}
    /\ listener \notin allocated
    /\ LET t == AddTree(dirAddSlashAtEnd(path), listener, {}, 0)
           added == AddResult(Tables, dirAddSlashAtEnd(path))
       IN /\ SetTables(t)
          /\ watchListeners' = Put(watchListeners, added, [listener |-> listener, path |-> path])
          /\ reply' = [method |-> "create", path |-> path, id |-> added]
    /\ allocated' = allocated \cup {listener}
    /\ UNCHANGED <<exists, queue, freed, current, usedFreed>>

\* Mutant: the listener is deleted and the entry stays.
removeWatcher_KeepsEntry(id) ==
    /\ id \in DOMAIN watchListeners
    /\ IF id \in DOMAIN mWatches THEN removeWatchLocked(id) ELSE UNCHANGED efsw
    /\ freed' = freed \cup {watchListeners[id].listener}
    /\ reply' = [method |-> "remove", path |-> watchListeners[id].path, id |-> id]
    /\ UNCHANGED <<exists, queue, watchListeners, allocated, current, usedFreed>>

\* removeWatcher of an id in the table.
removeWatcher(id) ==
    /\ id \in DOMAIN watchListeners
    /\ IF id \in DOMAIN mWatches THEN removeWatchLocked(id) ELSE UNCHANGED efsw
    /\ freed' = freed \cup {watchListeners[id].listener}
    /\ reply' = [method |-> "remove", path |-> watchListeners[id].path, id |-> id]
    /\ watchListeners' = Without(watchListeners, {id})
    /\ UNCHANGED <<exists, queue, allocated, current, usedFreed>>

\* removeWatcher of another id (NE_FS_NOWATID).
removeWatcherFails(id) ==
    /\ id \notin DOMAIN watchListeners
    /\ reply' = NoReply
    /\ UNCHANGED <<exists, queue, efsw, app, current, usedFreed>>

-----------------------------------------------------------------------------
(* The file system. *)

\* inotify reports what happens in a watched directory.
Notify(d, kind, name) ==
    IF d # None /\ inotify[d] # 0
    THEN /\ Len(queue) < MaxQueue
         /\ queue' = Append(queue, [wd |-> inotify[d], kind |-> kind, name |-> name])
    ELSE UNCHANGED queue

MakeDir(d) ==
    /\ d \notin exists
    /\ Parent[d] \in exists \cup {None}
    /\ exists' = exists \cup {d}
    /\ Notify(Parent[d], "create", d)
    /\ UNCHANGED <<efsw, app, current, reply, usedFreed>>

RemoveDir(d) ==
    /\ d \in exists
    /\ \A c \in exists : Parent[c] # d
    /\ exists' = exists \ {d}
    /\ inotify' = [inotify EXCEPT ![d] = 0]
    /\ Notify(Parent[d], "delete", d)
    /\ UNCHANGED <<nextWd, mWatches, mRealWatches, app, current, reply, usedFreed>>

\* A file in d changes.
ModifyFile(d) ==
    /\ d \in exists
    /\ inotify[d] # 0
    /\ Notify(d, "modified", None)
    /\ UNCHANGED <<exists, efsw, app, current, reply, usedFreed>>

-----------------------------------------------------------------------------
(* efsw's thread. *)

\* run: the watch is looked up under the lock, which is then released.
FindWatch ==
    /\ current = None
    /\ queue # <<>>
    /\ queue' = Tail(queue)
    /\ LET e == Head(queue)
       IN current' = IF e.wd \in DOMAIN mWatches
                     THEN [event |-> e, watch |-> mWatches[e.wd]] ELSE None
    /\ UNCHANGED <<exists, efsw, app, reply, usedFreed>>

CurrentIsDeleted ==
    current.event.wd \notin DOMAIN mWatches \/ current.watch.listener \in freed

\* handleAction on a deleted watch or listener is undefined: nothing more is
\* said of it than that it happened.
HandleDeleted ==
    /\ current # None
    /\ CurrentIsDeleted
    /\ usedFreed' = TRUE
    /\ current' = None
    /\ UNCHANGED <<exists, queue, efsw, app, reply>>

\* The watches on a directory as it is written, the first of which is removed with
\* it.
WatchesOf(directory) == {wd \in DOMAIN mWatches : mWatches[wd].directory = directory}
FirstWatch(directory) ==
    CHOOSE wd \in WatchesOf(directory) : \A x \in WatchesOf(directory) : wd <= x

\* handleAction: a watchFile event with the id and the directory of the watch
\* is dispatched; then a new directory is watched too and the watch of a
\* removed one is removed.
handleAction ==
    /\ current # None
    /\ ~CurrentIsDeleted
    /\ LET w == current.watch
           name == Below(w.directory, current.event.name)
       IN \/ /\ current.event.kind = "modified"
             /\ UNCHANGED efsw
          \/ /\ current.event.kind = "create"
             /\ IF name.dir \in exists /\ WatchesOf(name) = {}
                THEN SetTables(AddTree(name, w.listener, w.chain \cup {current.event.wd}, w.id))
                ELSE UNCHANGED efsw
          \/ /\ current.event.kind = "delete"
             /\ IF WatchesOf(name) # {} THEN removeWatchLocked(FirstWatch(name))
                ELSE UNCHANGED efsw
    /\ current' = None
    /\ UNCHANGED <<exists, queue, app, reply, usedFreed>>

-----------------------------------------------------------------------------
Next ==
    \/ \E path \in Paths : createWatcherAgain(path)
    \/ \E path \in Paths, listener \in Listeners : createWatcher(path, listener)
    \/ \E id \in WatchIds : removeWatcher(id) \/ removeWatcherFails(id)
    \/ \E d \in Dirs : MakeDir(d) \/ RemoveDir(d) \/ ModifyFile(d)
    \/ FindWatch
    \/ HandleDeleted
    \/ handleAction

Spec == Init /\ [][Next]_vars

-----------------------------------------------------------------------------
(* Properties. *)

WatchType == [directory : Directories, listener : Listeners, chain : SUBSET Wds, id : Wds]
EventType == [wd : Wds, kind : {"modified", "create", "delete"}, name : Dirs \cup {None}]

\* Every variable has its type; the listeners of the table are not deleted.
TypeOK ==
    /\ exists \subseteq Dirs
    /\ inotify \in [Dirs -> Wds \cup {0}]
    /\ nextWd \in 1..MaxWd + 1
    /\ queue \in Seq(EventType) /\ Len(queue) <= MaxQueue
    /\ DOMAIN mWatches \subseteq Wds
    /\ \A wd \in DOMAIN mWatches : mWatches[wd] \in WatchType
    /\ DOMAIN mRealWatches \subseteq Wds
    /\ \A wd \in DOMAIN mRealWatches : mRealWatches[wd] \in Directories
    /\ DOMAIN watchListeners \subseteq WatchIds
    /\ \A id \in DOMAIN watchListeners :
          watchListeners[id] \in [listener : allocated \ freed, path : Paths]
    /\ freed \subseteq allocated /\ allocated \subseteq Listeners
    /\ current # None => current \in [event : EventType, watch : WatchType]
    /\ usedFreed \in BOOLEAN

\* A path has one watcher at most, so createWatcher has one id to answer, also
\* after failures, removals and directories that come and go.
OnePathOneId ==
    \A i, j \in DOMAIN watchListeners : watchListeners[i].path = watchListeners[j].path => i = j

\* No createWatcher takes the id of another watcher, although efsw answers a
\* watch descriptor again, with one exception: a directory that is watched and
\* written in another way is found by neither comparison of texts, gets the same
\* descriptor and replaces the entry, whose path and listener are lost.  Else only
\* entries of failures are replaced.
WatchersKept ==
    [][\A id \in DOMAIN watchListeners : id > 0 /\ id \in DOMAIN watchListeners' =>
          \/ watchListeners'[id] = watchListeners[id]
          \/ /\ watchListeners'[id].path.dir = watchListeners[id].path.dir
             /\ watchListeners'[id].path.spelling # watchListeners[id].path.spelling]_vars

\* Stated by CHANGELOG.md:536 (the id of "an existing active watcher" is
\* returned): an error of createWatcher is one of now, not of an earlier call.
ErrorIsTrue ==
    [][reply' # reply /\ reply'.method = "create" /\ reply'.id < 0 =>
          \/ reply'.path.dir \notin exists
          \/ pathInWatches(mRealWatches, dirAddSlashAtEnd(reply'.path))
          \/ nextWd > MaxWd]_vars

\* Stated by CHANGELOG.md:585 (removeWatcher removes the watcher): once it has
\* answered, the watch and the listener are not used any more.
RemovedIsSilent == ~usedFreed

=============================================================================
