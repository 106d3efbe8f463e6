--------------------------- MODULE WatchersProofs ---------------------------
(***************************************************************************)
(* For every tree of directories, every set of paths and every limit of    *)
(* inotify: the tables of createWatcher, removeWatcher and efsw are well   *)
(* formed, a path has one watcher at most, and no watcher loses its id but *)
(* to one of the same directory written in another way, although efsw      *)
(* answers a watch descriptor more than once.                              *)
(***************************************************************************)
EXTENDS Watchers, WellFoundedInduction, TLAPS

\* Every entry has a listener of its own, so removing one frees no other's.
OwnListeners ==
    \A i, j \in DOMAIN watchListeners :
        watchListeners[i].listener = watchListeners[j].listener => i = j

\* Ids and descriptors were given out before, and two directories never share
\* a descriptor.
Issued ==
    /\ \A id \in DOMAIN watchListeners : id < nextWd
    /\ \A d \in Dirs : inotify[d] < nextWd
    /\ \A d, e \in Dirs : inotify[d] # 0 /\ inotify[d] = inotify[e] => d = e

\* A directory whose descriptor is the id of an entry is among the watches asked
\* for by path, written as in the entry, so addWatch refuses it if it is written
\* like that and does not answer the id again.
EntriesAreReal ==
    \A id \in DOMAIN watchListeners : \A d \in Dirs :
        id > 0 /\ inotify[d] = id => id \in DOMAIN mRealWatches /\ mRealWatches[id].dir = d

EntriesAreWritten ==
    \A id \in DOMAIN watchListeners : id \in DOMAIN mRealWatches =>
        mRealWatches[id] = dirAddSlashAtEnd(watchListeners[id].path)

\* The inductive invariant.
IInv ==
    /\ TypeOK /\ OnePathOneId /\ OwnListeners /\ Issued
    /\ EntriesAreReal /\ EntriesAreWritten

\* What the steps keep besides the types.
Entries == OnePathOneId /\ OwnListeners /\ Issued /\ EntriesAreReal /\ EntriesAreWritten

-----------------------------------------------------------------------------
(* The walk over the directories.  walk[] of AddTree is a recursive function: *)
(* that it exists, and what it keeps, is shown with the least index at which  *)
(* it would not.                                                              *)

\* A set of natural numbers that is not empty has a least element.
LEMMA LeastNatural ==
    ASSUME NEW T, T \subseteq Nat, T # {}
    PROVE  \E x \in T : \A y \in T : x <= y
<1> DEFINE R == OpToRel(<, Nat)
<1>1. IsWellFoundedOn(R, Nat)
  BY NatLessThanWellFounded
<1> HIDE DEF R
<1>2. PICK x \in T : \A y \in T : ~(<<y, x>> \in R)
  BY <1>1, WFMin
<1>3. \A y \in T : ~(y < x)
  BY <1>2 DEF OpToRel, R
<1>4. QED
  BY <1>3

Turns == 1..Len(Preorder)

\* w is the walk of the first m turns.
IsWalk(w, m, top, listener, chain, id) ==
    w = [i \in 0..m |-> IF i = 0 THEN Tables
                        ELSE AddStep(w[i - 1], Preorder[i], top, listener, chain, id)]

\* The walk exists, whatever the tables are.
LEMMA WalkExists ==
    ASSUME NEW top, NEW listener, NEW chain, NEW id
    PROVE  \E w : IsWalk(w, Len(Preorder), top, listener, chain, id)
<1> DEFINE n == Len(Preorder)
           Missing == {m \in 0..n : ~\E w : IsWalk(w, m, top, listener, chain, id)}
<1>1. n \in Nat
  BY TreeAssumption
<1> SUFFICES ASSUME Missing # {} PROVE FALSE
  BY <1>1
<1>2. Missing \subseteq Nat
  BY <1>1
<1>3. PICK m \in Missing : \A y \in Missing : m <= y
  <2> HIDE DEF Missing
  <2>1. QED
    BY <1>2, LeastNatural
<1>4. m \in 0..n /\ ~\E w : IsWalk(w, m, top, listener, chain, id)
  OBVIOUS
<1>5. CASE m = 0
  <2>1. IsWalk([i \in 0..0 |-> Tables], 0, top, listener, chain, id)
    BY DEF IsWalk
  <2>2. QED
    BY <1>4, <1>5, <2>1
<1>6. CASE m # 0
  <2>1. m - 1 \in 0..n /\ m - 1 \notin Missing
    BY <1>1, <1>3, <1>4, <1>6
  <2>2. PICK v : IsWalk(v, m - 1, top, listener, chain, id)
    BY <2>1
  <2> DEFINE last == AddStep(v[m - 1], Preorder[m], top, listener, chain, id)
             w == [i \in 0..m |-> IF i = m THEN last ELSE v[i]]
  <2>3. \A i \in 0..m : w[i] = IF i = 0 THEN Tables
                               ELSE AddStep(w[i - 1], Preorder[i], top, listener, chain, id)
    <3> SUFFICES ASSUME NEW i \in 0..m
                 PROVE  w[i] = IF i = 0 THEN Tables
                               ELSE AddStep(w[i - 1], Preorder[i], top, listener, chain, id)
      OBVIOUS
    <3>1. CASE i = m
      <4>1. w[i - 1] = v[m - 1] /\ i # 0
        BY <1>1, <1>4, <1>6, <3>1
      <4>2. QED
        BY <3>1, <4>1
    <3>2. CASE i # m
      <4>1. i \in 0..m - 1
        BY <1>1, <1>4, <3>2
      <4>2. w[i] = v[i]
        BY <3>2
      <4>3. v[i] = IF i = 0 THEN Tables
                   ELSE AddStep(v[i - 1], Preorder[i], top, listener, chain, id)
        BY <2>2, <4>1 DEF IsWalk
      <4>4. i # 0 => w[i - 1] = v[i - 1]
        BY <1>1, <1>4, <4>1
      <4>5. QED
        BY <4>2, <4>3, <4>4
    <3>3. QED
      BY <3>1, <3>2
  <2>4. w = [i \in 0..m |-> w[i]]
    OBVIOUS
  <2> HIDE DEF w
  <2>5. IsWalk(w, m, top, listener, chain, id)
    BY <2>3, <2>4, Zenon DEF IsWalk
  <2>6. QED
    BY <1>4, <2>5
<1>7. QED
  BY <1>5, <1>6

\* AddTree is the end of a walk.
LEMMA AddTreeIsWalk ==
    ASSUME NEW top, NEW listener, NEW chain, NEW id
    PROVE  \E w : /\ AddTree(top, listener, chain, id) = w[Len(Preorder)]
                  /\ w[0] = Tables
                  /\ \A i \in Turns :
                        w[i] = AddStep(w[i - 1], Preorder[i], top, listener, chain, id)
<1> DEFINE w == CHOOSE f :
                   f = [i \in 0..Len(Preorder) |->
                           IF i = 0 THEN Tables
                           ELSE AddStep(f[i - 1], Preorder[i], top, listener, chain, id)]
<1>1. AddTree(top, listener, chain, id) = w[Len(Preorder)]
  BY Zenon DEF AddTree
<1>2. w = [i \in 0..Len(Preorder) |->
               IF i = 0 THEN Tables
               ELSE AddStep(w[i - 1], Preorder[i], top, listener, chain, id)]
  <2>1. \E f : f = [i \in 0..Len(Preorder) |->
                      IF i = 0 THEN Tables
                      ELSE AddStep(f[i - 1], Preorder[i], top, listener, chain, id)]
    <3>1. PICK f : IsWalk(f, Len(Preorder), top, listener, chain, id)
      BY WalkExists
    <3>2. QED
      BY <3>1, Zenon DEF IsWalk
  <2>2. QED
    BY <2>1, Zenon
<1> HIDE DEF w
<1>3. Len(Preorder) \in Nat
  BY TreeAssumption
<1>4. w[0] = Tables
  BY <1>2, <1>3
<1>5. ASSUME NEW i \in Turns
      PROVE  w[i] = AddStep(w[i - 1], Preorder[i], top, listener, chain, id)
  <2>1. i \in 0..Len(Preorder) /\ i # 0
    BY <1>3 DEF Turns
  <2>2. QED
    BY <1>2, <2>1
<1>6. QED
  BY <1>1, <1>4, <1>5

-----------------------------------------------------------------------------
(* What one addWatch does to the tables. *)

TableTypes(t) ==
    /\ t.inotify \in [Dirs -> Wds \cup {0}]
    /\ t.next \in 1..MaxWd + 1
    /\ DOMAIN t.watches \subseteq Wds
    /\ \A wd \in DOMAIN t.watches : t.watches[wd] \in WatchType
    /\ DOMAIN t.real \subseteq Wds
    /\ \A wd \in DOMAIN t.real : t.real[wd] \in Directories
    /\ \A d \in DOMAIN t.added : t.added[d] \in SUBSET Wds /\ t.added[d] # {}

\* Issued and EntriesAreReal of tables on the way.
TableIssued(t) ==
    /\ nextWd <= t.next
    /\ \A d \in Dirs : t.inotify[d] < t.next
    /\ \A d, e \in Dirs : t.inotify[d] # 0 /\ t.inotify[d] = t.inotify[e] => d = e

TableReal(t) ==
    \A id \in DOMAIN watchListeners : \A d \in Dirs :
        id > 0 /\ t.inotify[d] = id => id \in DOMAIN t.real /\ t.real[id].dir = d

Sound(t) == TableTypes(t) /\ TableIssued(t) /\ TableReal(t)

\* An answer of addWatch is an error or a descriptor; a descriptor is the one
\* the directory has or the next one, and the directory is not asked for yet.
LEMMA AddResultTypes ==
    ASSUME NEW t, TableTypes(t), NEW directory \in Directories
    PROVE  /\ AddResult(t, directory) \in WatchIds
           /\ AddResult(t, directory) < 0 <=> AddResult(t, directory) \notin Wds
           /\ AddResult(t, directory) \in Wds =>
                 /\ ~pathInWatches(t.real, directory)
                 /\ \/ AddResult(t, directory) = t.inotify[directory.dir]
                    \/ AddResult(t, directory) = t.next /\ t.inotify[directory.dir] = 0
<1>1. /\ MaxWd \in Nat /\ t.next \in 1..MaxWd + 1
      /\ t.inotify[directory.dir] \in 0..MaxWd
  BY BoundsAssumption DEF TableTypes, Wds, Directories
<1>2. QED
  BY <1>1 DEF AddResult, WatchIds, Wds, FileNotFound, FileRepeated, Unspecified

\* The parts of the tables after addWatch of one directory.
LEMMA AddOneParts ==
    ASSUME NEW t, TableTypes(t), NEW directory \in Directories, NEW listener, NEW chain, NEW id,
           AddResult(t, directory) \in Wds
    PROVE  LET wd == AddResult(t, directory)
               r == AddOne(t, directory, listener, chain, id)
           IN /\ r.inotify = [t.inotify EXCEPT ![directory.dir] = wd]
              /\ r.next = IF wd = t.next THEN t.next + 1 ELSE t.next
              /\ r.watches = IF wd \in DOMAIN t.watches THEN t.watches
                             ELSE Put(t.watches, wd,
                                      [directory |-> directory, listener |-> listener,
                                       chain |-> chain, id |-> IF chain = {} THEN wd ELSE id])
              /\ r.real = IF chain = {} THEN Put(t.real, wd, directory) ELSE t.real
              /\ r.added = Put(t.added, directory.dir, chain \cup {wd})
BY AddResultTypes DEF AddOne

\* addWatch of one directory keeps the tables sound: a new descriptor is the
\* next one, and one that is answered again belongs to no entry.
LEMMA AddOneSound ==
    ASSUME IInv, NEW t, Sound(t), NEW directory \in Directories, NEW listener \in Listeners,
           NEW chain \in SUBSET Wds, NEW id, chain # {} => id \in Wds,
           AddResult(t, directory) \in Wds
    PROVE  Sound(AddOne(t, directory, listener, chain, id))
<1> DEFINE wd == AddResult(t, directory)
           r == AddOne(t, directory, listener, chain, id)
           d == directory.dir
<1>1. /\ r.inotify = [t.inotify EXCEPT ![d] = wd]
      /\ r.next = IF wd = t.next THEN t.next + 1 ELSE t.next
      /\ r.watches = IF wd \in DOMAIN t.watches THEN t.watches
                     ELSE Put(t.watches, wd,
                              [directory |-> directory, listener |-> listener,
                               chain |-> chain, id |-> IF chain = {} THEN wd ELSE id])
      /\ r.real = IF chain = {} THEN Put(t.real, wd, directory) ELSE t.real
      /\ r.added = Put(t.added, d, chain \cup {wd})
  BY AddOneParts DEF Sound
<1>2. /\ wd \in Wds
      /\ d \in Dirs
      /\ wd = t.inotify[d] \/ (wd = t.next /\ t.inotify[d] = 0)
  BY AddResultTypes DEF Sound, Directories
<1> HIDE DEF wd, r, d
<1>3. /\ MaxWd \in Nat /\ t.next \in 1..MaxWd + 1 /\ wd \in 1..MaxWd
      /\ \A e \in Dirs : t.inotify[e] \in 0..MaxWd
      /\ nextWd \in Nat
  BY <1>2, BoundsAssumption DEF Sound, TableTypes, Wds, IInv, TypeOK
<1>4. \A e \in Dirs : r.inotify[e] = IF e = d THEN wd ELSE t.inotify[e]
  BY <1>1 DEF Sound, TableTypes
<1>5. TableTypes(r)
  <2>1. r.inotify \in [Dirs -> Wds \cup {0}]
    BY <1>1, <1>2 DEF Sound, TableTypes
  <2>2. r.next \in 1..MaxWd + 1
    BY <1>1, <1>3
  <2>3. [directory |-> directory, listener |-> listener, chain |-> chain,
         id |-> IF chain = {} THEN wd ELSE id] \in WatchType
    BY <1>2 DEF WatchType
  <2>4. /\ DOMAIN r.watches \subseteq Wds
        /\ \A x \in DOMAIN r.watches : r.watches[x] \in WatchType
    BY <1>1, <1>2, <2>3 DEF Sound, TableTypes, Put
  <2>5. /\ DOMAIN r.real \subseteq Wds
        /\ \A x \in DOMAIN r.real : r.real[x] \in Directories
    BY <1>1, <1>2 DEF Sound, TableTypes, Put
  <2>6. \A e \in DOMAIN r.added : r.added[e] \in SUBSET Wds /\ r.added[e] # {}
    <3> SUFFICES ASSUME NEW e \in DOMAIN r.added
                 PROVE  r.added[e] \in SUBSET Wds /\ r.added[e] # {}
      OBVIOUS
    <3>1. e \in DOMAIN t.added \cup {d}
      BY <1>1 DEF Put
    <3>2. r.added[e] = IF e = d THEN chain \cup {wd} ELSE t.added[e]
      BY <1>1, <3>1 DEF Put
    <3>3. QED
      BY <1>2, <3>1, <3>2 DEF Sound, TableTypes
  <2>7. QED
    BY <2>1, <2>2, <2>4, <2>5, <2>6 DEF TableTypes
<1>6. TableIssued(r)
  <2>1. nextWd <= r.next
    BY <1>1, <1>3 DEF Sound, TableIssued
  <2>2. \A e \in Dirs : r.inotify[e] < r.next
    BY <1>1, <1>2, <1>3, <1>4 DEF Sound, TableIssued
  <2>3. \A e, f \in Dirs : r.inotify[e] # 0 /\ r.inotify[e] = r.inotify[f] => e = f
    BY <1>2, <1>3, <1>4 DEF Sound, TableIssued
  <2>4. QED
    BY <2>1, <2>2, <2>3 DEF TableIssued
<1>7. TableReal(r)
  <2> SUFFICES ASSUME NEW i \in DOMAIN watchListeners, NEW e \in Dirs, i > 0, r.inotify[e] = i
               PROVE  i \in DOMAIN r.real /\ r.real[i].dir = e
    BY DEF TableReal
  <2>1. i < nextWd /\ nextWd <= t.next
    BY DEF IInv, Issued, Sound, TableIssued
  <2>2. CASE e = d
    <3>1. i = wd
      BY <1>4, <2>2
    <3>2. wd = t.inotify[d]
      BY <1>2, <1>3, <2>1, <3>1
    <3>3. i \in DOMAIN t.real /\ t.real[i].dir = d
      BY <1>2, <3>1, <3>2 DEF Sound, TableReal
    <3>4. QED
      BY <1>1, <2>2, <3>1, <3>3 DEF Put, d
  <2>3. CASE e # d
    <3>1. t.inotify[e] = i /\ i \in DOMAIN t.real /\ t.real[i].dir = e
      BY <1>4, <2>3 DEF Sound, TableReal
    <3>2. i # wd
      BY <1>2, <1>3, <1>4, <1>6, <2>3 DEF TableIssued
    <3>3. QED
      BY <1>1, <3>1, <3>2 DEF Put
  <2>4. QED
    BY <2>2, <2>3
<1>8. QED
  BY <1>1, <1>5, <1>6, <1>7 DEF Sound, r

-----------------------------------------------------------------------------
(* What the whole walk does to the tables. *)

\* Nothing has been added yet, or the top has; asked for by path, the top has
\* the descriptor that is answered and is among the watches asked for, and no
\* other became one.
TopFirst(t, top, chain) ==
    /\ DOMAIN t.added = {} => t = Tables
    /\ DOMAIN t.added # {} =>
          /\ t.inotify[top.dir] # 0
          /\ chain = {} => /\ t.inotify[top.dir] = AddResult(Tables, top)
                           /\ t.inotify[top.dir] \in DOMAIN t.real
                           /\ t.real[t.inotify[top.dir]] = top
    /\ \A x \in DOMAIN t.real :
          \/ chain = {} /\ x = AddResult(Tables, top)
          \/ x \in DOMAIN mRealWatches /\ t.real[x] = mRealWatches[x]

\* The tables are sound before the walk.
LEMMA TablesSound ==
    ASSUME IInv, NEW top, NEW chain
    PROVE  Sound(Tables) /\ TopFirst(Tables, top, chain)
<1>1. /\ Tables.inotify = inotify /\ Tables.next = nextWd /\ Tables.watches = mWatches
      /\ Tables.real = mRealWatches /\ Tables.added = [d \in {} |-> {}]
      /\ DOMAIN Tables.added = {}
  BY DEF Tables
<1>2. TableTypes(Tables)
  BY <1>1 DEF IInv, TypeOK, TableTypes
<1>3. nextWd \in Int
  BY DEF IInv, TypeOK
<1>4. TableIssued(Tables) /\ TableReal(Tables)
  BY <1>1, <1>3 DEF IInv, Issued, EntriesAreReal, TableIssued, TableReal
<1>5. QED
  BY <1>1, <1>2, <1>4 DEF Sound, TopFirst

\* A turn of the walk keeps the tables sound.
LEMMA AddStepKeeps ==
    ASSUME IInv, NEW top \in Directories, NEW listener \in Listeners, NEW chain \in SUBSET Wds,
           NEW id, chain # {} => id \in Wds,
           NEW t, Sound(t), TopFirst(t, top, chain), NEW d \in Dirs
    PROVE  LET r == AddStep(t, d, top, listener, chain, id)
           IN /\ Sound(r) /\ TopFirst(r, top, chain)
              /\ DOMAIN t.added # {} => DOMAIN r.added # {}
              /\ d = top.dir /\ AddResult(Tables, top) \in Wds => DOMAIN r.added # {}
<1> DEFINE r == AddStep(t, d, top, listener, chain, id)
<1>1. CASE d = top.dir /\ AddResult(t, top) \notin Wds
  <2>1. r = t
    BY <1>1, AddResultTypes DEF AddStep, AddOne, Sound
  <2>2. QED
    BY <1>1, <2>1 DEF TopFirst
<1>2. CASE d = top.dir /\ AddResult(t, top) \in Wds
  <2> DEFINE wd == AddResult(t, top)
  <2>1. r = AddOne(t, top, listener, chain, id)
    BY <1>2 DEF AddStep
  <2>2. Sound(r)
    BY <1>2, <2>1, AddOneSound
  <2>3. /\ r.inotify = [t.inotify EXCEPT ![top.dir] = wd]
        /\ r.real = IF chain = {} THEN Put(t.real, wd, top) ELSE t.real
        /\ r.added = Put(t.added, top.dir, chain \cup {wd})
    <3> DEFINE o == AddOne(t, top, listener, chain, id)
    <3>1. /\ o.inotify = [t.inotify EXCEPT ![top.dir] = wd]
          /\ o.real = IF chain = {} THEN Put(t.real, wd, top) ELSE t.real
          /\ o.added = Put(t.added, top.dir, chain \cup {wd})
      BY <1>2, AddResultTypes DEF AddOne, Sound
    <3> HIDE DEF o, r
    <3>2. QED
      BY <2>1, <3>1 DEF o
  <2>4. DOMAIN r.added # {}
    BY <2>3 DEF Put
  <2>5. r.inotify[top.dir] = wd /\ wd # 0
    BY <1>2, <2>3 DEF Sound, TableTypes, Wds, Directories
  <2>6. ASSUME chain = {}
        PROVE  wd = AddResult(Tables, top) /\ wd \in DOMAIN r.real /\ r.real[wd] = top
    <3>1. DOMAIN t.added = {}
      <4> SUFFICES ASSUME DOMAIN t.added # {} PROVE FALSE
        OBVIOUS
      <4>1. pathInWatches(t.real, top)
        BY <2>6 DEF TopFirst, pathInWatches
      <4>2. QED
        BY <1>2, <4>1, AddResultTypes DEF Sound
    <3>2. wd = AddResult(Tables, top)
      BY <1>2, <3>1 DEF TopFirst
    <3>3. QED
      BY <1>2, <2>3, <2>6, <3>2 DEF Put
  <2>9. \A x \in DOMAIN r.real :
           \/ chain = {} /\ x = AddResult(Tables, top)
           \/ x \in DOMAIN mRealWatches /\ r.real[x] = mRealWatches[x]
    <3> HIDE DEF wd, r
    <3>1. QED
      BY <2>3, <2>6 DEF TopFirst, Put
  <2> HIDE DEF wd, r
  <2>7. TopFirst(r, top, chain)
    BY <2>4, <2>5, <2>6, <2>9 DEF TopFirst
  <2>8. QED
    BY <2>2, <2>4, <2>7 DEF r
<1>3. CASE d # top.dir /\ Parent[d] \notin DOMAIN t.added
  BY <1>3 DEF AddStep
<1>4. CASE d # top.dir /\ Parent[d] \in DOMAIN t.added
  <2> DEFINE above == t.added[Parent[d]]
             first == IF chain = {} THEN t.inotify[top.dir] ELSE id
             directory == Below(top, d)
  <2>1. r = AddOne(t, directory, listener, above, first)
    BY <1>4 DEF AddStep
  <2>7. directory \in Directories /\ directory.dir = d
    BY DEF Below, Directories
  <2>2. above \in SUBSET Wds /\ above # {}
    BY <1>4 DEF Sound, TableTypes
  <2>3. first \in Wds
    BY <1>4 DEF Sound, TableTypes, TopFirst, Directories
  <2>4. CASE AddResult(t, directory) \notin Wds
    <3>1. r = t
      BY <2>1, <2>4, <2>7, AddResultTypes DEF AddOne, Sound
    <3>2. QED
      BY <1>4, <3>1
  <2>5. CASE AddResult(t, directory) \in Wds
    <3>1. Sound(r)
      BY <2>1, <2>2, <2>3, <2>5, <2>7, AddOneSound
    <3>2. /\ r.inotify = [t.inotify EXCEPT ![d] = AddResult(t, directory)]
          /\ r.real = t.real
          /\ r.added = Put(t.added, d, above \cup {AddResult(t, directory)})
      <4> DEFINE o == AddOne(t, directory, listener, above, first)
      <4>1. /\ o.inotify = [t.inotify EXCEPT ![d] = AddResult(t, directory)]
            /\ o.real = IF above = {} THEN Put(t.real, AddResult(t, directory), directory) ELSE t.real
            /\ o.added = Put(t.added, d, above \cup {AddResult(t, directory)})
        BY <2>5, <2>7, AddResultTypes DEF AddOne, Sound
      <4> HIDE DEF o, r
      <4>2. QED
        BY <2>1, <2>2, <4>1 DEF o
    <3>3. DOMAIN r.added # {} /\ r.inotify[top.dir] = t.inotify[top.dir]
      BY <1>4, <3>2 DEF Put, Sound, TableTypes, Directories
    <3>4. TopFirst(r, top, chain)
      BY <1>4, <3>2, <3>3 DEF TopFirst
    <3>5. QED
      BY <1>4, <3>1, <3>3, <3>4
  <2>6. QED
    BY <2>4, <2>5
<1>5. QED
  BY <1>1, <1>2, <1>3, <1>4

\* The tables are sound after the walk; if the top could be added, it was.
LEMMA AddTreeSound ==
    ASSUME IInv, NEW top \in Directories, NEW listener \in Listeners, NEW chain \in SUBSET Wds,
           NEW id, chain # {} => id \in Wds
    PROVE  LET r == AddTree(top, listener, chain, id)
           IN /\ Sound(r) /\ TopFirst(r, top, chain)
              /\ AddResult(Tables, top) \in Wds => DOMAIN r.added # {}
<1> DEFINE n == Len(Preorder)
           r == AddTree(top, listener, chain, id)
<1>1. PICK w : /\ r = w[n]
               /\ w[0] = Tables
               /\ \A i \in Turns :
                     w[i] = AddStep(w[i - 1], Preorder[i], top, listener, chain, id)
  BY AddTreeIsWalk
<1>2. n \in Nat /\ \A i \in Turns : Preorder[i] \in Dirs /\ i \in Nat /\ i - 1 \in Nat
  BY TreeAssumption DEF Turns
<1>3. \A i \in 0..n : Sound(w[i]) /\ TopFirst(w[i], top, chain)
  <2> DEFINE Bad == {i \in 0..n : ~(Sound(w[i]) /\ TopFirst(w[i], top, chain))}
  <2> SUFFICES ASSUME Bad # {} PROVE FALSE
    OBVIOUS
  <2>1. Bad \subseteq Nat
    BY <1>2
  <2>2. PICK m \in Bad : \A y \in Bad : m <= y
    <3> HIDE DEF Bad
    <3>1. QED
      BY <2>1, LeastNatural
  <2>3. m \in 0..n /\ ~(Sound(w[m]) /\ TopFirst(w[m], top, chain))
    OBVIOUS
  <2>4. m # 0
    BY <1>1, <2>3, TablesSound
  <2>5. m \in Turns /\ m - 1 \in 0..n /\ m - 1 \notin Bad
    BY <1>2, <2>2, <2>3, <2>4 DEF Turns
  <2>6. Sound(w[m - 1]) /\ TopFirst(w[m - 1], top, chain)
    BY <2>5
  <2>7. w[m] = AddStep(w[m - 1], Preorder[m], top, listener, chain, id) /\ Preorder[m] \in Dirs
    BY <1>1, <1>2, <2>5
  <2>8. Sound(w[m]) /\ TopFirst(w[m], top, chain)
    BY <2>6, <2>7, AddStepKeeps
  <2>9. QED
    BY <2>3, <2>8
<1>4. ASSUME AddResult(Tables, top) \in Wds PROVE DOMAIN r.added # {}
  <2>1. PICK j \in Turns : Preorder[j] = top.dir
    BY TreeAssumption DEF Directories, Dirs, Range, Turns
  <2> DEFINE Late == {i \in j..n : DOMAIN w[i].added = {}}
  <2> SUFFICES ASSUME Late # {} PROVE FALSE
    BY <1>1, <1>2, <2>1 DEF Turns
  <2>2. Late \subseteq Nat
    BY <1>2, <2>1
  <2>3. PICK m \in Late : \A y \in Late : m <= y
    <3> HIDE DEF Late
    <3>1. QED
      BY <2>2, LeastNatural
  <2>4. m \in j..n /\ DOMAIN w[m].added = {}
    OBVIOUS
  <2>5. m \in Turns /\ m - 1 \in 0..n
    BY <1>2, <2>1, <2>4 DEF Turns
  <2>6. Sound(w[m - 1]) /\ TopFirst(w[m - 1], top, chain)
    BY <1>3, <2>5
  <2>7. w[m] = AddStep(w[m - 1], Preorder[m], top, listener, chain, id) /\ Preorder[m] \in Dirs
    BY <1>1, <1>2, <2>5
  <2>8. /\ DOMAIN w[m - 1].added # {} => DOMAIN w[m].added # {}
        /\ Preorder[m] = top.dir => DOMAIN w[m].added # {}
    BY <1>4, <2>6, <2>7, AddStepKeeps
  <2>9. m # j
    BY <2>1, <2>4, <2>8
  <2>10. m - 1 \in j..n /\ m - 1 \notin Late
    BY <1>2, <2>1, <2>3, <2>4, <2>9 DEF Turns
  <2>11. DOMAIN w[m - 1].added # {}
    BY <2>10
  <2>12. QED
    BY <2>4, <2>8, <2>11
<1>5. QED
  BY <1>1, <1>2, <1>3, <1>4

-----------------------------------------------------------------------------
(* The steps. *)

\* The part of TypeOK that is about the tables of efsw.
EfswTypes ==
    /\ inotify \in [Dirs -> Wds \cup {0}]
    /\ nextWd \in 1..MaxWd + 1
    /\ DOMAIN mWatches \subseteq Wds
    /\ \A wd \in DOMAIN mWatches : mWatches[wd] \in WatchType
    /\ DOMAIN mRealWatches \subseteq Wds
    /\ \A wd \in DOMAIN mRealWatches : mRealWatches[wd] \in Directories

\* Initially nothing is watched.
LEMMA InitIInv == Init => IInv
<1> SUFFICES ASSUME Init PROVE IInv
  OBVIOUS
<1>1. 1 \in 1..MaxWd + 1 /\ MaxQueue \in Nat
  BY BoundsAssumption
<1>2. queue \in Seq(EventType) /\ Len(queue) <= MaxQueue
  BY <1>1 DEF Init
<1>3. TypeOK
  BY <1>1, <1>2 DEF Init, TypeOK
<1>4. Entries
  BY DEF Init, Entries, OnePathOneId, OwnListeners, Issued, EntriesAreReal, EntriesAreWritten
<1>5. QED
  BY <1>3, <1>4 DEF IInv, Entries

\* Steps that leave the tables of efsw and of the application alone.
LEMMA QuietKeeps ==
    ASSUME IInv, UNCHANGED <<efsw, app>>,
           exists' \subseteq Dirs,
           queue' \in Seq(EventType), Len(queue') <= MaxQueue,
           current' # None => current' \in [event : EventType, watch : WatchType],
           usedFreed' \in BOOLEAN
    PROVE  IInv'
<1>1. UNCHANGED <<inotify, nextWd, mWatches, mRealWatches, watchListeners, freed, allocated>>
  BY DEF efsw, app
<1>2. TypeOK'
  BY <1>1 DEF IInv, TypeOK
<1>3. Entries'
  BY <1>1 DEF IInv, Entries, OnePathOneId, OwnListeners, Issued, EntriesAreReal,
              EntriesAreWritten
<1>4. QED
  BY <1>2, <1>3 DEF IInv, Entries

\* Watches and entries that are removed leave the others as they are: a
\* directory that keeps its descriptor keeps its watch.
LEMMA ShrinkKeeps ==
    ASSUME IInv, EfswTypes', nextWd' = nextWd,
           \A d \in Dirs : inotify'[d] # 0 =>
              /\ inotify'[d] = inotify[d]
              /\ inotify[d] \in DOMAIN mRealWatches =>
                    /\ inotify[d] \in DOMAIN mRealWatches'
                    /\ mRealWatches'[inotify[d]] = mRealWatches[inotify[d]],
           \A x \in DOMAIN mRealWatches' :
              x \in DOMAIN mRealWatches /\ mRealWatches'[x] = mRealWatches[x],
           DOMAIN watchListeners' \subseteq DOMAIN watchListeners,
           \A i \in DOMAIN watchListeners' : watchListeners'[i] = watchListeners[i]
    PROVE  Entries'
<1>1. OnePathOneId' /\ OwnListeners'
  BY DEF IInv, OnePathOneId, OwnListeners
<1>2. nextWd \in Nat /\ 0 < nextWd
  BY DEF IInv, TypeOK
<1>3. Issued'
  BY <1>2 DEF IInv, Issued
<1>4. EntriesAreReal'
  <2> SUFFICES ASSUME NEW id \in DOMAIN watchListeners', NEW d \in Dirs, id > 0,
                      inotify'[d] = id
               PROVE  id \in DOMAIN mRealWatches' /\ mRealWatches'[id].dir = d
    BY DEF EntriesAreReal
  <2>1. id \in DOMAIN watchListeners /\ id # 0
    BY DEF IInv, TypeOK, WatchIds
  <2>2. inotify[d] = id
    BY <2>1
  <2>3. id \in DOMAIN mRealWatches /\ mRealWatches[id].dir = d
    BY <2>1, <2>2 DEF IInv, EntriesAreReal
  <2>4. QED
    BY <2>1, <2>2, <2>3
<1>5. EntriesAreWritten'
  BY DEF IInv, EntriesAreWritten
<1>6. QED
  BY <1>1, <1>3, <1>4, <1>5 DEF Entries

\* removeWatchLocked takes the watch, those below it and their descriptors.
LEMMA RemoveLocked ==
    ASSUME IInv, NEW wd, removeWatchLocked(wd)
    PROVE  /\ EfswTypes' /\ nextWd' = nextWd
           /\ \A d \in Dirs : inotify'[d] # 0 =>
                 /\ inotify'[d] = inotify[d]
                 /\ inotify[d] \in DOMAIN mRealWatches =>
                       /\ inotify[d] \in DOMAIN mRealWatches'
                       /\ mRealWatches'[inotify[d]] = mRealWatches[inotify[d]]
           /\ \A x \in DOMAIN mRealWatches' :
                 x \in DOMAIN mRealWatches /\ mRealWatches'[x] = mRealWatches[x]
<1> DEFINE gone == Removed(wd)
           paths == {x \in Removed(wd) : mWatches[x].chain = {}}
<1>1. /\ mWatches' = Without(mWatches, gone)
      /\ mRealWatches' = Without(mRealWatches, paths)
      /\ inotify' = [d \in Dirs |-> IF inotify[d] \in gone THEN 0 ELSE inotify[d]]
      /\ nextWd' = nextWd
      /\ paths \subseteq gone
  BY DEF removeWatchLocked
<1> HIDE DEF gone, paths
<1>2. /\ DOMAIN mWatches' = DOMAIN mWatches \ gone
      /\ \A x \in DOMAIN mWatches \ gone : mWatches'[x] = mWatches[x]
      /\ DOMAIN mRealWatches' = DOMAIN mRealWatches \ paths
      /\ \A x \in DOMAIN mRealWatches \ paths : mRealWatches'[x] = mRealWatches[x]
  BY <1>1 DEF Without
<1>3. inotify' \in [Dirs -> Wds \cup {0}]
  BY <1>1 DEF IInv, TypeOK
<1>4. EfswTypes'
  BY <1>1, <1>2, <1>3 DEF IInv, TypeOK, EfswTypes
<1>5. \A d \in Dirs : inotify'[d] # 0 => inotify'[d] = inotify[d] /\ inotify[d] \notin gone
  BY <1>1
<1>6. QED
  BY <1>1, <1>2, <1>4, <1>5

\* What inotify reports fits the queue.
LEMMA NotifyTypes ==
    ASSUME IInv, NEW d \in Dirs \cup {None}, NEW kind \in {"modified", "create", "delete"},
           NEW name \in Dirs \cup {None}, Notify(d, kind, name)
    PROVE  queue' \in Seq(EventType) /\ Len(queue') <= MaxQueue
<1> DEFINE event == [wd |-> inotify[d], kind |-> kind, name |-> name]
<1>1. CASE d # None /\ inotify[d] # 0
  <2>1. event \in EventType
    BY <1>1 DEF IInv, TypeOK, EventType
  <2>2. queue \in Seq(EventType) /\ Len(queue) < MaxQueue /\ queue' = Append(queue, event)
    BY <1>1 DEF Notify, IInv, TypeOK
  <2>3. QED
    BY <2>1, <2>2, BoundsAssumption
<1>2. CASE ~(d # None /\ inotify[d] # 0)
  BY <1>2 DEF Notify, IInv, TypeOK
<1>3. QED
  BY <1>1, <1>2

\* A directory that is removed loses its descriptor.
LEMMA RemoveDirKeeps ==
    ASSUME IInv, NEW d \in Dirs, RemoveDir(d)
    PROVE  IInv'
<1>1. /\ exists' = exists \ {d}
      /\ inotify' = [inotify EXCEPT ![d] = 0]
      /\ Notify(Parent[d], "delete", d)
      /\ UNCHANGED <<nextWd, mWatches, mRealWatches, watchListeners, freed, allocated, current,
                     usedFreed>>
  BY DEF RemoveDir, app
<1>2. queue' \in Seq(EventType) /\ Len(queue') <= MaxQueue
  BY <1>1, NotifyTypes, TreeAssumption
<1>3. EfswTypes'
  BY <1>1 DEF IInv, TypeOK, EfswTypes
<1>4. TypeOK'
  BY <1>1, <1>2, <1>3 DEF IInv, TypeOK, EfswTypes
<1>5. \A e \in Dirs : inotify'[e] # 0 => inotify'[e] = inotify[e]
  BY <1>1 DEF IInv, TypeOK
<1>6. Entries'
  BY <1>1, <1>3, <1>5, ShrinkKeeps
<1>7. QED
  BY <1>4, <1>6 DEF IInv, Entries


\* removeWatcher deletes the listener of its entry, which no other entry has.
LEMMA RemoveWatcherKeeps ==
    ASSUME IInv, NEW id \in WatchIds, removeWatcher(id)
    PROVE  IInv'
<1> DEFINE gone == watchListeners[id].listener
<1>1. /\ id \in DOMAIN watchListeners
      /\ freed' = freed \cup {gone}
      /\ watchListeners' = Without(watchListeners, {id})
      /\ UNCHANGED <<exists, queue, allocated, current, usedFreed>>
  BY DEF removeWatcher
<1>2. /\ EfswTypes' /\ nextWd' = nextWd
      /\ \A d \in Dirs : inotify'[d] # 0 =>
            /\ inotify'[d] = inotify[d]
            /\ inotify[d] \in DOMAIN mRealWatches =>
                  /\ inotify[d] \in DOMAIN mRealWatches'
                  /\ mRealWatches'[inotify[d]] = mRealWatches[inotify[d]]
      /\ \A x \in DOMAIN mRealWatches' :
            x \in DOMAIN mRealWatches /\ mRealWatches'[x] = mRealWatches[x]
  <2>1. CASE id \in DOMAIN mWatches
    BY <2>1, RemoveLocked DEF removeWatcher
  <2>2. CASE id \notin DOMAIN mWatches
    <3>1. UNCHANGED <<inotify, nextWd, mWatches, mRealWatches>>
      BY <2>2 DEF removeWatcher, efsw
    <3>2. QED
      BY <3>1 DEF IInv, TypeOK, EfswTypes
  <2>3. QED
    BY <2>1, <2>2
<1>3. /\ DOMAIN watchListeners' = DOMAIN watchListeners \ {id}
      /\ \A i \in DOMAIN watchListeners' : watchListeners'[i] = watchListeners[i]
  BY <1>1 DEF Without
<1>4. Entries'
  BY <1>2, <1>3, ShrinkKeeps
<1>5. gone \in allocated /\ freed' \subseteq allocated'
  BY <1>1 DEF IInv, TypeOK
<1>6. \A i \in DOMAIN watchListeners' :
         watchListeners'[i] \in [listener : allocated' \ freed', path : Paths]
  <2> SUFFICES ASSUME NEW i \in DOMAIN watchListeners'
               PROVE  watchListeners'[i] \in [listener : allocated' \ freed', path : Paths]
    OBVIOUS
  <2>1. i \in DOMAIN watchListeners /\ i # id /\ watchListeners'[i] = watchListeners[i]
    BY <1>3
  <2>2. watchListeners[i] \in [listener : allocated \ freed, path : Paths]
    BY <2>1 DEF IInv, TypeOK
  <2>3. watchListeners[i].listener # gone
    BY <1>1, <2>1 DEF IInv, OwnListeners
  <2>4. QED
    BY <1>1, <2>1, <2>2, <2>3
<1>7. DOMAIN watchListeners' \subseteq WatchIds
  BY <1>3 DEF IInv, TypeOK
<1>8. TypeOK'
  BY <1>1, <1>2, <1>5, <1>6, <1>7 DEF IInv, TypeOK, EfswTypes
<1>9. QED
  BY <1>4, <1>8 DEF IInv, Entries

\* createWatcher enters what addWatch answers.  A descriptor that is answered
\* belongs to no entry but one of the same directory written in another way.
LEMMA FreshId ==
    ASSUME IInv, NEW path \in Paths,
           NEW id \in DOMAIN watchListeners, id = AddResult(Tables, dirAddSlashAtEnd(path)), id > 0
    PROVE  /\ watchListeners[id].path.dir = path.dir
           /\ watchListeners[id].path.spelling # path.spelling
<1> DEFINE top == dirAddSlashAtEnd(path)
<1>1. TableTypes(Tables) /\ Tables.inotify = inotify /\ Tables.real = mRealWatches
      /\ Tables.next = nextWd
  BY TablesSound DEF Sound, Tables
<1>2. top \in Directories /\ top.dir = path.dir /\ top.spelling = path.spelling
  BY PathsAssumption DEF dirAddSlashAtEnd, Directories
<1>3. id \in Wds
  BY <1>1, <1>2, AddResultTypes DEF WatchIds, FileNotFound, FileRepeated, Unspecified
<1>4. ~pathInWatches(mRealWatches, top) /\ (id = inotify[path.dir] \/ id = nextWd)
  BY <1>1, <1>2, <1>3, AddResultTypes
<1>5. id < nextWd /\ nextWd \in Nat /\ id \in Int
  BY <1>3, BoundsAssumption DEF IInv, Issued, TypeOK, Wds
<1>6. id \in DOMAIN mRealWatches /\ mRealWatches[id].dir = path.dir
  BY <1>2, <1>4, <1>5 DEF IInv, EntriesAreReal, Directories
<1>7. mRealWatches[id] = dirAddSlashAtEnd(watchListeners[id].path)
  BY <1>6 DEF IInv, EntriesAreWritten
<1>8. mRealWatches[id] # top
  BY <1>4, <1>6 DEF pathInWatches
<1>9. QED
  BY <1>6, <1>7, <1>8 DEF dirAddSlashAtEnd

\* createWatcher of a path without an entry.
LEMMA CreateWatcherKeeps ==
    ASSUME IInv, NEW path \in Paths, NEW listener \in Listeners, createWatcher(path, listener)
    PROVE  IInv'
<1> DEFINE top == dirAddSlashAtEnd(path)
           added == AddResult(Tables, top)
           t == AddTree(top, listener, {}, 0)
           entry == [listener |-> listener, path |-> path]
<1>1. /\ Existing(path) = {}
      /\ listener \notin allocated
      /\ inotify' = t.inotify /\ nextWd' = t.next
      /\ mWatches' = t.watches /\ mRealWatches' = t.real
      /\ watchListeners' = Put(watchListeners, added, entry)
      /\ allocated' = allocated \cup {listener}
      /\ UNCHANGED <<exists, queue, freed, current, usedFreed>>
  BY DEF createWatcher, SetTables
<1>2. top \in Directories /\ top.dir \in Dirs
  BY PathsAssumption DEF dirAddSlashAtEnd, Directories
<1>3. Sound(t) /\ TopFirst(t, top, {}) /\ (added \in Wds => DOMAIN t.added # {})
  BY <1>2, AddTreeSound
<1>4. added \in WatchIds /\ (added < 0 <=> added \notin Wds)
  BY <1>2, TablesSound, AddResultTypes DEF Sound
<1> HIDE DEF added, t, top
<1>5. EfswTypes'
  BY <1>1, <1>3 DEF Sound, TableTypes, EfswTypes
<1>6. /\ DOMAIN watchListeners' = DOMAIN watchListeners \cup {added}
      /\ watchListeners'[added] = entry
      /\ \A i \in DOMAIN watchListeners : i # added => watchListeners'[i] = watchListeners[i]
  BY <1>1 DEF Put
<1>7. TypeOK'
  <2>1. DOMAIN watchListeners' \subseteq WatchIds
    BY <1>4, <1>6 DEF IInv, TypeOK
  <2>2. listener \notin freed /\ freed' \subseteq allocated' /\ allocated' \subseteq Listeners
    BY <1>1 DEF IInv, TypeOK
  <2>3. \A i \in DOMAIN watchListeners' :
           watchListeners'[i] \in [listener : allocated' \ freed', path : Paths]
    BY <1>1, <1>6, <2>2 DEF IInv, TypeOK
  <2>4. QED
    BY <1>1, <1>5, <2>1, <2>2, <2>3 DEF IInv, TypeOK, EfswTypes
<1>8. OnePathOneId'
  <2>1. \A i \in DOMAIN watchListeners : watchListeners[i].path # path
    BY <1>1 DEF Existing
  <2>2. entry.path = path
    OBVIOUS
  <2>3. QED
    BY <1>6, <2>1, <2>2 DEF IInv, OnePathOneId
<1>9. OwnListeners'
  <2>1. \A i \in DOMAIN watchListeners : watchListeners[i].listener # listener
    BY <1>1 DEF IInv, TypeOK
  <2>2. entry.listener = listener
    OBVIOUS
  <2>3. QED
    BY <1>6, <2>1, <2>2 DEF IInv, OwnListeners
<1>10. added \in Wds => t.inotify[top.dir] = added /\ added \in DOMAIN t.real /\ t.real[added] = top
  BY <1>3 DEF TopFirst, added
<1>11. /\ nextWd \in Nat /\ t.next \in Nat /\ nextWd <= t.next
       /\ WatchIds \subseteq Int
       /\ \A d \in Dirs : t.inotify[d] \in Nat
  BY <1>3, BoundsAssumption
  DEF Sound, TableTypes, TableIssued, IInv, TypeOK, Wds, WatchIds, FileNotFound, FileRepeated,
      Unspecified
<1>12. Issued'
  <2>1. \A id \in DOMAIN watchListeners' : id < nextWd'
    <3> SUFFICES ASSUME NEW id \in DOMAIN watchListeners' PROVE id < nextWd'
      OBVIOUS
    <3>1. CASE id \in DOMAIN watchListeners
      <4>1. id < nextWd /\ id \in WatchIds
        BY <3>1 DEF IInv, Issued, TypeOK
      <4>2. id \in Int
        BY <1>11, <4>1
      <4>3. QED
        BY <1>1, <1>11, <4>1, <4>2
    <3>2. CASE id = added /\ added \in Wds
      BY <1>1, <1>2, <1>3, <1>10, <3>2 DEF Sound, TableIssued
    <3>3. CASE id = added /\ added \notin Wds
      BY <1>1, <1>4, <1>11, <3>3
    <3>4. QED
      BY <1>6, <3>1, <3>2, <3>3
  <2>2. QED
    BY <1>1, <1>3, <2>1 DEF Issued, Sound, TableIssued
<1>13. EntriesAreReal'
  <2> SUFFICES ASSUME NEW id \in DOMAIN watchListeners', NEW d \in Dirs, id > 0,
                      inotify'[d] = id
               PROVE  id \in DOMAIN mRealWatches' /\ mRealWatches'[id].dir = d
    BY DEF EntriesAreReal
  <2>1. CASE id \in DOMAIN watchListeners
    BY <1>1, <1>3, <2>1 DEF Sound, TableReal
  <2>2. CASE id = added
    <3>1. added \in Wds
      BY <1>4, <1>11, <2>2
    <3>2. d = top.dir
      BY <1>1, <1>2, <1>3, <1>10, <1>11, <2>2, <3>1 DEF Sound, TableIssued
    <3>3. QED
      BY <1>1, <1>10, <2>2, <3>1, <3>2
  <2>3. QED
    BY <1>6, <2>1, <2>2
<1>14. EntriesAreWritten'
  <2> SUFFICES ASSUME NEW id \in DOMAIN watchListeners', id \in DOMAIN t.real
               PROVE  t.real[id] = dirAddSlashAtEnd(watchListeners'[id].path)
    BY <1>1 DEF EntriesAreWritten
  <2>1. CASE id = added
    <3>1. added \in Wds
      BY <1>3, <2>1 DEF Sound, TableTypes
    <3>2. QED
      BY <1>6, <1>10, <2>1, <3>1 DEF top
  <2>2. CASE id # added
    <3>1. id \in DOMAIN watchListeners /\ watchListeners'[id] = watchListeners[id]
      BY <1>6, <2>2
    <3>2. id \in DOMAIN mRealWatches /\ t.real[id] = mRealWatches[id]
      BY <1>3, <2>2 DEF TopFirst, added
    <3>3. QED
      BY <3>1, <3>2 DEF IInv, EntriesAreWritten
  <2>3. QED
    BY <2>1, <2>2
<1>15. QED
  BY <1>7, <1>8, <1>9, <1>12, <1>13, <1>14 DEF IInv

\* The watch that is removed with a directory is one of its watches.
LEMMA FirstWatchType ==
    ASSUME IInv, NEW d, WatchesOf(d) # {}
    PROVE  FirstWatch(d) \in WatchesOf(d)
<1>1. WatchesOf(d) \subseteq Nat
  BY DEF WatchesOf, IInv, TypeOK, Wds
<1>2. \E wd \in WatchesOf(d) : \A x \in WatchesOf(d) : wd <= x
  BY <1>1, LeastNatural
<1>3. QED
  BY <1>2, Zenon DEF FirstWatch

\* handleAction watches new directories and forgets removed ones; the entries
\* stay.
LEMMA HandleActionKeeps ==
    ASSUME IInv, handleAction
    PROVE  IInv'
<1> DEFINE w == current.watch
           name == Below(w.directory, current.event.name)
           chain == w.chain \cup {current.event.wd}
           t == AddTree(name, w.listener, chain, w.id)
<1>1. /\ current # None /\ current' = None
      /\ UNCHANGED <<exists, queue, watchListeners, freed, allocated, usedFreed>>
  BY DEF handleAction, app
<1>2. current.event \in EventType /\ w \in WatchType
  BY <1>1 DEF IInv, TypeOK
<1>3. CASE UNCHANGED efsw
  BY <1>1, <1>3, QuietKeeps DEF app, IInv, TypeOK
<1>4. ASSUME NEW wd, removeWatchLocked(wd) PROVE IInv'
  <2>1. /\ EfswTypes' /\ nextWd' = nextWd
        /\ \A d \in Dirs : inotify'[d] # 0 =>
              /\ inotify'[d] = inotify[d]
              /\ inotify[d] \in DOMAIN mRealWatches =>
                    /\ inotify[d] \in DOMAIN mRealWatches'
                    /\ mRealWatches'[inotify[d]] = mRealWatches[inotify[d]]
        /\ \A x \in DOMAIN mRealWatches' :
              x \in DOMAIN mRealWatches /\ mRealWatches'[x] = mRealWatches[x]
    BY <1>4, RemoveLocked
  <2>2. Entries'
    BY <1>1, <2>1, ShrinkKeeps
  <2>3. TypeOK'
    BY <1>1, <2>1 DEF IInv, TypeOK, EfswTypes
  <2>4. QED
    BY <2>2, <2>3 DEF IInv, Entries
<1>5. ASSUME name.dir \in exists, SetTables(t) PROVE IInv'
  <2>1. w.listener \in Listeners /\ chain \in SUBSET Wds /\ chain # {} /\ w.id \in Wds
    BY <1>2 DEF EventType, WatchType
  <2>10. w.directory \in Directories
    BY <1>2 DEF WatchType
  <2>11. name.dir = current.event.name /\ current.event.name \in Dirs
    BY <1>5, <2>10 DEF Below, Directories, IInv, TypeOK
  <2>12. name \in Directories
    BY <2>10, <2>11 DEF Below, Directories
  <2>2. Sound(t) /\ TopFirst(t, name, chain)
    BY <2>1, <2>12, AddTreeSound
  <2> HIDE DEF t
  <2>3. inotify' = t.inotify /\ nextWd' = t.next /\ mWatches' = t.watches
        /\ mRealWatches' = t.real
    BY <1>5 DEF SetTables
  <2>4. TypeOK'
    BY <1>1, <2>2, <2>3 DEF IInv, TypeOK, Sound, TableTypes
  <2>5. OnePathOneId' /\ OwnListeners'
    BY <1>1 DEF IInv, OnePathOneId, OwnListeners
  <2>6. \A id \in DOMAIN watchListeners : id < t.next
    <3>1. /\ nextWd \in Int /\ t.next \in Int /\ nextWd <= t.next
          /\ WatchIds \subseteq Int
      BY <2>2, BoundsAssumption
      DEF Sound, TableTypes, TableIssued, IInv, TypeOK, Wds, WatchIds, FileNotFound,
          FileRepeated, Unspecified
    <3>2. QED
      BY <3>1 DEF IInv, Issued, TypeOK
  <2>7. Issued'
    BY <1>1, <2>2, <2>3, <2>6 DEF Issued, Sound, TableIssued
  <2>8. EntriesAreReal'
    BY <1>1, <2>2, <2>3 DEF EntriesAreReal, Sound, TableReal
  <2>13. EntriesAreWritten'
    BY <1>1, <2>1, <2>2, <2>3 DEF IInv, EntriesAreWritten, TopFirst
  <2>9. QED
    BY <2>4, <2>5, <2>7, <2>8, <2>13 DEF IInv
<1>6. QED
  BY <1>3, <1>4, <1>5 DEF handleAction

\* Every step keeps the inductive invariant.
LEMMA NextIInv == IInv /\ [Next]_vars => IInv'
<1> SUFFICES ASSUME IInv, [Next]_vars PROVE IInv'
  OBVIOUS
<1>1. /\ exists \subseteq Dirs /\ queue \in Seq(EventType) /\ Len(queue) <= MaxQueue
      /\ current # None => current \in [event : EventType, watch : WatchType]
      /\ usedFreed \in BOOLEAN
  BY DEF IInv, TypeOK
<1>2. ASSUME NEW path \in Paths, createWatcherAgain(path)
      PROVE  IInv'
  <2>1. UNCHANGED <<exists, queue, efsw, app, current, usedFreed>>
    BY <1>2 DEF createWatcherAgain
  <2>2. QED
    BY <1>1, <2>1, QuietKeeps
<1>3. ASSUME NEW path \in Paths, NEW listener \in Listeners, createWatcher(path, listener)
      PROVE  IInv'
  BY <1>3, CreateWatcherKeeps
<1>4. ASSUME NEW id \in WatchIds, removeWatcher(id)
      PROVE  IInv'
  BY <1>4, RemoveWatcherKeeps
<1>5. ASSUME NEW id \in WatchIds, removeWatcherFails(id)
      PROVE  IInv'
  <2>1. UNCHANGED <<exists, queue, efsw, app, current, usedFreed>>
    BY <1>5 DEF removeWatcherFails
  <2>2. QED
    BY <1>1, <2>1, QuietKeeps
<1>6. ASSUME NEW d \in Dirs, MakeDir(d)
      PROVE  IInv'
  <2>1. /\ UNCHANGED <<efsw, app, current, usedFreed>>
        /\ exists' = exists \cup {d} /\ Notify(Parent[d], "create", d)
    BY <1>6 DEF MakeDir
  <2>2. queue' \in Seq(EventType) /\ Len(queue') <= MaxQueue
    BY <2>1, NotifyTypes, TreeAssumption
  <2>3. exists' \subseteq Dirs
    BY <1>1, <2>1
  <2>4. QED
    BY <1>1, <2>1, <2>2, <2>3, QuietKeeps
<1>7. ASSUME NEW d \in Dirs, RemoveDir(d)
      PROVE  IInv'
  BY <1>7, RemoveDirKeeps
<1>8. ASSUME NEW d \in Dirs, ModifyFile(d)
      PROVE  IInv'
  <2>1. UNCHANGED <<exists, efsw, app, current, usedFreed>> /\ Notify(d, "modified", None)
    BY <1>8 DEF ModifyFile
  <2>2. queue' \in Seq(EventType) /\ Len(queue') <= MaxQueue
    BY <2>1, NotifyTypes
  <2>3. QED
    BY <1>1, <2>1, <2>2, QuietKeeps
<1>9. CASE FindWatch
  <2> DEFINE e == Head(queue)
  <2>1. /\ queue # <<>> /\ queue' = Tail(queue)
        /\ current' = IF e.wd \in DOMAIN mWatches
                      THEN [event |-> e, watch |-> mWatches[e.wd]] ELSE None
        /\ UNCHANGED <<exists, efsw, app, usedFreed>>
    BY <1>9 DEF FindWatch
  <2>2. e \in EventType /\ queue' \in Seq(EventType) /\ Len(queue') <= MaxQueue
    BY <1>1, <2>1, BoundsAssumption
  <2>3. e.wd \in DOMAIN mWatches => mWatches[e.wd] \in WatchType
    BY DEF IInv, TypeOK
  <2> HIDE DEF e
  <2>4. current' # None => current' \in [event : EventType, watch : WatchType]
    BY <2>1, <2>2, <2>3
  <2>5. QED
    BY <1>1, <2>1, <2>2, <2>4, QuietKeeps
<1>10. CASE HandleDeleted
  <2>1. UNCHANGED <<exists, queue, efsw, app>> /\ current' = None /\ usedFreed' = TRUE
    BY <1>10 DEF HandleDeleted
  <2>2. QED
    BY <1>1, <2>1, QuietKeeps
<1>11. CASE handleAction
  BY <1>11, HandleActionKeeps
<1>12. CASE UNCHANGED vars
  <2>1. UNCHANGED <<exists, queue, efsw, app, current, usedFreed>>
    BY <1>12 DEF vars, efsw, app
  <2>2. QED
    BY <1>1, <2>1, QuietKeeps
<1>13. QED
  BY <1>2, <1>3, <1>4, <1>5, <1>6, <1>7, <1>8, <1>9, <1>10, <1>11, <1>12 DEF Next

\* The inductive invariant holds in every state.
THEOREM Invariance == Spec => []IInv
BY InitIInv, NextIInv, PTL DEF Spec

\* The tables of the two files keep their types for every tree, path set and
\* limit, and the table of createWatcher never holds a deleted listener.
THEOREM TypeCorrect == Spec => []TypeOK
<1>1. IInv => TypeOK
  BY DEF IInv
<1>2. QED
  BY <1>1, Invariance, PTL

\* A path has one watcher at most: createWatcher finds the entry of a path, and
\* what replaces an entry has the path of no other.
THEOREM OnePathOneIdHolds == Spec => []OnePathOneId
<1>1. IInv => OnePathOneId
  BY DEF IInv
<1>2. QED
  BY <1>1, Invariance, PTL

\* The entry is the same, or of the same directory written in another way.
SameOrRespelled(old, new) ==
    \/ new = old
    \/ new.path.dir = old.path.dir /\ new.path.spelling # old.path.spelling

\* One step replaces no entry of a watcher that works but by one of the same
\* directory written in another way.
LEMMA StepKeepsWatchers ==
    ASSUME IInv, [Next]_vars, NEW id \in DOMAIN watchListeners, id > 0,
           id \in DOMAIN watchListeners'
    PROVE  SameOrRespelled(watchListeners[id], watchListeners'[id])
<1> USE DEF SameOrRespelled
<1>1. ASSUME NEW path \in Paths, NEW listener \in Listeners, createWatcher(path, listener)
      PROVE  SameOrRespelled(watchListeners[id], watchListeners'[id])
  <2> DEFINE added == AddResult(Tables, dirAddSlashAtEnd(path))
  <2>1. watchListeners' = Put(watchListeners, added, [listener |-> listener, path |-> path])
    BY <1>1 DEF createWatcher
  <2>2. CASE id = added
    <3>1. /\ watchListeners[id].path.dir = path.dir
          /\ watchListeners[id].path.spelling # path.spelling
      BY <2>2, FreshId
    <3> HIDE DEF added
    <3>2. watchListeners'[id].path = path
      BY <2>1, <2>2 DEF Put
    <3>3. QED
      BY <3>1, <3>2
  <2> HIDE DEF added
  <2>3. CASE id # added
    BY <2>1, <2>3 DEF Put
  <2>4. QED
    BY <2>2, <2>3
<1>2. ASSUME NEW i \in WatchIds, removeWatcher(i)
      PROVE  watchListeners'[id] = watchListeners[id]
  BY <1>2 DEF removeWatcher, Without
<1>3. CASE UNCHANGED app
  BY <1>3 DEF app
<1>4. CASE UNCHANGED vars
  BY <1>4 DEF vars
<1>5. QED
  BY <1>1, <1>2, <1>3, <1>4
  DEF Next, createWatcherAgain, removeWatcherFails, MakeDir, RemoveDir, ModifyFile, FindWatch,
      HandleDeleted, handleAction

\* createWatcher takes the id of a watcher that works only for the same directory
\* written in another way, although inotify answers the descriptor of a directory
\* again: addWatch refuses the directory whose descriptor is an id if it is
\* written as before.
THEOREM WatchersKeptHolds == Spec => WatchersKept
<1>1. IInv /\ [Next]_vars =>
        [\A id \in DOMAIN watchListeners : id > 0 /\ id \in DOMAIN watchListeners' =>
            \/ watchListeners'[id] = watchListeners[id]
            \/ /\ watchListeners'[id].path.dir = watchListeners[id].path.dir
               /\ watchListeners'[id].path.spelling # watchListeners[id].path.spelling]_vars
  BY StepKeepsWatchers DEF SameOrRespelled
<1>2. QED
  BY <1>1, Invariance, PTL DEF Spec, WatchersKept

=============================================================================
