------------------------------ MODULE Storage -------------------------------
(***************************************************************************)
(* The storage API (api/storage/storage.cpp with readFile, writeFile and   *)
(* readDirectory of api/fs/fs.cpp): one file per key in a directory.       *)
(*                                                                         *)
(* Within a process the calls follow each other on the server thread; the  *)
(* windows of an application are processes of their own that share the     *)
(* directory, so a call is split at the system calls the others can see.   *)
(* A process can end in the middle of a call (app.exit, the exit checks, a *)
(* crash); the next one takes its place.  A name refers to an inode, which *)
(* a process keeps open after the name was removed.  Data is a sequence of *)
(* blocks.  A key is the sequence of its parts, in which Ext stands for    *)
(* "neustorage" and the character before it.                               *)
(***************************************************************************)
EXTENDS Integers, Sequences, FiniteSets

CONSTANTS
    Instances,      \* the processes of the application
    Keys,           \* the valid keys
    Values,         \* key -> the data clients set it to: sequences of blocks
    Inodes,         \* bound: files that exist or are held open at a time
    Nul,            \* a block of zeros
    Ext,            \* the part ".neustorage" of a name, whatever its first character
    None, Unknown, Quiet

\* The blocks files are made of.
Blocks == {Nul} \cup UNION {UNION {{v[n] : n \in DOMAIN v} : v \in Values[k]} : k \in Keys}

\* What is answered, and how.
Methods == {"refused", "setData", "removeData", "clear", "getData", "getKeys"}
Codes == {"success", "NE_RT_NATRTER", "NE_ST_INVSTKY", "NE_ST_STKEYWE", "NE_ST_STKEYRE",
          "NE_ST_NOSTKEX", "NE_ST_NOSTDIR"}
AnswerType == [by : Instances, to : Methods, code : Codes, key : Keys \cup {None},
               data : Seq(Blocks), keys : SUBSET Keys]

ASSUME InodesAssumption ==
    /\ IsFiniteSet(Instances) /\ IsFiniteSet(Keys) /\ IsFiniteSet(Inodes)
    /\ Cardinality(Inodes) >= Cardinality(Keys) + Cardinality(Instances)
ASSUME ValuesAssumption ==
    \A k \in Keys : \A v \in Values[k] : v \in Seq(Blocks) /\ \A n \in DOMAIN v : v[n] # Nul
\* The markers are neither files nor data nor records.
ASSUME MarkersAssumption ==
    /\ None # Unknown
    /\ None \notin Inodes
    /\ {None, Unknown} \cap UNION {Values[k] : k \in Keys} = {}
    /\ None \notin [key : Keys, data : Seq(Blocks), alone : BOOLEAN]
    /\ None \notin [key : Keys, seen : SUBSET (Seq(Blocks) \cup {None, Unknown})]
    /\ Quiet \notin AnswerType

VARIABLES
    dir,            \* the storage directory exists
    file,           \* key -> inode of its file, or None
    content,        \* inode -> blocks, for the files that exist or are held open
    call,           \* instance -> the call under way
    clean,          \* history: inodes that hold all the data of a set nothing disturbed
    reply           \* what the last step answered, and Quiet if nothing

vars == <<dir, file, content, call, clean, reply>>

NoCall == [step |-> "idle"]
Stored == {k \in Keys : file[k] # None}

Init ==
    /\ dir = FALSE
    /\ file = [k \in Keys |-> None]
    /\ content = [i \in {} |-> <<>>]
    /\ call = [p \in Instances |-> NoCall]
    /\ clean = {}
    /\ reply = Quiet

\* The value of a key as others may rely on it.
ValueOf(k) == CASE file[k] = None -> None
                [] file[k] # None /\ file[k] \in clean -> content[file[k]]
                [] OTHER -> Unknown

Answer(p, m, code) ==
    [by |-> p, to |-> m, code |-> code, key |-> None, data |-> <<>>, keys |-> {}]

At(p, step) == call[p].step = step
Writers(k) == {p \in Instances : At(p, "write") /\ call[p].key = k}

\* History: the calls c after a step that gives key k the value v.  Writers of
\* the key are disturbed, readers note the value.
Changed(c, k, v) ==
    [q \in Instances |->
        CASE c[q].step = "write" /\ c[q].key = k -> [c[q] EXCEPT !.alone = FALSE]
          [] c[q].step = "read" /\ c[q].key = k -> [c[q] EXCEPT !.seen = @ \cup {v}]
          [] OTHER -> c[q]]

\* Files whose name is gone vanish when nobody holds them any more: f are the
\* names and c the calls after the step.
Kept(f, c) == {i \in DOMAIN content :
                  \/ \E k \in Keys : f[k] = i
                  \/ \E p \in Instances : c[p].step \in {"write", "read"} /\ c[p].inode = i}
Reclaim == content' = [i \in Kept(file', call') |-> content[i]]

-----------------------------------------------------------------------------
(* Calls that end at once. *)

\* getData, setData or removeData with a key that is missing or not valid.
__validateStorageBucket(p) ==
    /\ At(p, "idle")
    /\ \E e \in {"NE_RT_NATRTER", "NE_ST_INVSTKY"} : reply' = Answer(p, "refused", e)
    /\ UNCHANGED <<dir, file, content, call, clean>>

-----------------------------------------------------------------------------
(* setData. *)

\* The directory is made, if that is possible; data that is not a string ends
\* the call here with an exception.
setData(p) ==
    /\ At(p, "idle")
    /\ \/ /\ dir' \in {dir, TRUE}
          /\ reply' = Answer(p, "setData", "NE_RT_NATRTER")
          /\ UNCHANGED call
       \/ /\ dir' = TRUE
          /\ \E k \in Keys :
                \/ \E v \in Values[k] : call' = [call EXCEPT ![p] = [step |-> "open", key |-> k, data |-> v]]
                \/ call' = [call EXCEPT ![p] = [step |-> "remove", key |-> k]]
          /\ reply' = Quiet
    /\ UNCHANGED <<file, content, clean>>

\* Mutant: the new data is written over the old.
Opened_NoTrunc(i, new) == IF new THEN <<>> ELSE content[i]

\* Opening a file to write empties it.
Opened(i, new) == <<>>

\* writeFile opens the file: a new one, or the one of the key.
writeFileOpen(p) ==
    /\ At(p, "open")
    /\ LET k == call[p].key
           new == file[k] = None
       IN \/ /\ dir
             /\ LET i == IF new THEN CHOOSE j \in Inodes : j \notin DOMAIN content ELSE file[k]
                IN /\ file' = [file EXCEPT ![k] = i]
                   /\ content' = [j \in DOMAIN content \cup {i} |->
                                    IF j = i THEN Opened(i, new) ELSE content[j]]
                   /\ clean' = clean \ {i}
                   /\ call' = [Changed(call, k, Unknown) EXCEPT
                                 ![p] = [step |-> "write", key |-> k, data |-> call[p].data,
                                         inode |-> i, pos |-> 0, lost |-> FALSE,
                                         alone |-> Writers(k) = {}]]
             /\ reply' = Quiet
          \/ /\ call' = [call EXCEPT ![p] = NoCall]
             /\ reply' = Answer(p, "setData", "NE_ST_STKEYWE")
             /\ UNCHANGED <<file, content, clean>>
    /\ UNCHANGED dir

\* The file with a block at position n; a gap before it reads as zeros.
Put(c, n, b) ==
    [m \in 1..(IF n > Len(c) THEN n ELSE Len(c)) |->
        CASE m = n -> b [] m # n /\ m <= Len(c) -> c[m] [] OTHER -> Nul]

\* writeFile writes a block, or fails to (a full disk) and drops the rest.
writeFileBlock(p) ==
    /\ At(p, "write")
    /\ ~call[p].lost
    /\ call[p].pos < Len(call[p].data)
    /\ LET n == call[p].pos + 1
           i == call[p].inode
       IN \/ /\ content' = [content EXCEPT ![i] = Put(@, n, call[p].data[n])]
             /\ call' = [call EXCEPT ![p].pos = n]
          \/ /\ call' = [call EXCEPT ![p].lost = TRUE]
             /\ UNCHANGED content
    /\ reply' = Quiet
    /\ UNCHANGED <<dir, file, clean>>

\* writeFile closes the file; whether the data was written is not asked.
writeFileClose(p) ==
    /\ At(p, "write")
    /\ call[p].lost \/ call[p].pos = Len(call[p].data)
    /\ LET w == call[p]
       IN IF w.alone /\ ~w.lost
          THEN /\ clean' = clean \cup {w.inode}
               /\ call' = [Changed(call, w.key, w.data) EXCEPT ![p] = NoCall]
          ELSE /\ call' = [call EXCEPT ![p] = NoCall]
               /\ UNCHANGED clean
    /\ reply' = Answer(p, "setData", "success")
    /\ UNCHANGED <<dir, file>>
    /\ Reclaim

-----------------------------------------------------------------------------
(* removeData, clear. *)

\* Takes the name k away; calls are the calls after the step.
Unlink(k, calls) ==
    /\ file' = [file EXCEPT ![k] = None]
    /\ call' = calls
    /\ clean' = clean \ {file[k]}
    /\ UNCHANGED dir
    /\ Reclaim

__removeStorageBucket(p, k) ==
    /\ \/ /\ file[k] # None
          /\ Unlink(k, [Changed(call, k, None) EXCEPT ![p] = NoCall])
          /\ reply' = Answer(p, "removeData", "success")
       \/ /\ file[k] = None
          /\ call' = [call EXCEPT ![p] = NoCall]
          /\ reply' = Answer(p, "removeData", "NE_ST_STKEYRE")
          /\ UNCHANGED <<dir, file, content, clean>>

removeData(p) == At(p, "idle") /\ \E k \in Keys : __removeStorageBucket(p, k)

\* setData without data goes on.
setDataRemove(p) == At(p, "remove") /\ __removeStorageBucket(p, call[p].key)

\* remove_all: reads the names, removes them one by one, then the directory.
clear(p) ==
    /\ At(p, "idle")
    /\ call' = [call EXCEPT ![p] = [step |-> "clear", todo |-> Stored]]
    /\ reply' = Quiet
    /\ UNCHANGED <<dir, file, content, clean>>

clearFile(p) ==
    /\ At(p, "clear")
    /\ \E k \in call[p].todo :
          Unlink(k, [Changed(call, k, None) EXCEPT ![p].todo = @ \ {k}])
    /\ reply' = Quiet

\* Mutant: an error in the removal of the directory is not reported.
clearDir_NoError(p) ==
    /\ At(p, "clear")
    /\ call[p].todo = {}
    /\ dir' = (Stored # {})
    /\ reply' = Answer(p, "clear", "success")
    /\ call' = [call EXCEPT ![p] = NoCall]
    /\ UNCHANGED <<file, content, clean>>

\* Mutant: the directory goes, whatever came into it meanwhile.
clearDir_Force(p) ==
    /\ At(p, "clear")
    /\ call[p].todo = {}
    /\ dir' = FALSE
    /\ reply' = Answer(p, "clear", "success")
    /\ call' = [call EXCEPT ![p] = NoCall]
    /\ UNCHANGED <<file, content, clean>>

clearDir(p) ==
    /\ At(p, "clear")
    /\ call[p].todo = {}
    /\ \/ /\ Stored = {}
          /\ dir' = FALSE
          /\ reply' = Answer(p, "clear", "success")
       \/ /\ Stored # {}
          /\ reply' = Answer(p, "clear", "NE_RT_NATRTER")
          /\ UNCHANGED dir
    /\ call' = [call EXCEPT ![p] = NoCall]
    /\ UNCHANGED <<file, content, clean>>

-----------------------------------------------------------------------------
(* getData, getKeys. *)

\* readFile opens the file and takes its size.
getData(p) ==
    /\ At(p, "idle")
    /\ \E k \in Keys :
          \/ /\ file[k] = None
             /\ reply' = [Answer(p, "getData", "NE_ST_NOSTKEX") EXCEPT !.key = k]
             /\ UNCHANGED call
          \/ /\ file[k] # None
             /\ call' = [call EXCEPT
                           ![p] = [step |-> "read", key |-> k, inode |-> file[k],
                                   size |-> Len(content[file[k]]),
                                   seen |-> {ValueOf(k)}]]
             /\ reply' = Quiet
    /\ UNCHANGED <<dir, file, content, clean>>

\* readFile reads as many blocks as the file had: no more if there are more by
\* now, zeros for the ones that are gone.
readFileRead(p) ==
    /\ At(p, "read")
    /\ LET c == content[call[p].inode]
       IN reply' = [Answer(p, "getData", "success") EXCEPT
                      !.data = [n \in 1..call[p].size |-> IF n <= Len(c) THEN c[n] ELSE Nul]]
    /\ call' = [call EXCEPT ![p] = NoCall]
    /\ UNCHANGED <<dir, file, clean>>
    /\ Reclaim

\* The file of a key, and the name getKeys answers for it: every part that
\* looks like the extension is taken out.
FileName(k) == Append(k, Ext)
KeyOf(name) == SelectSeq(name, LAMBDA part : part # Ext)

\* readDirectory asks whether the directory is there, then reads it, which
\* throws if it is gone by then.  Bound: the names fit the buffer of one
\* getdents call; with more of them the listing can mix several moments.
getKeys(p) ==
    /\ At(p, "idle")
    /\ \/ /\ dir
          /\ call' = [call EXCEPT ![p] = [step |-> "list"]]
          /\ reply' = Quiet
       \/ /\ ~dir
          /\ reply' = Answer(p, "getKeys", "NE_ST_NOSTDIR")
          /\ UNCHANGED call
    /\ UNCHANGED <<dir, file, content, clean>>

readDirectory(p) ==
    /\ At(p, "list")
    /\ reply' = IF dir
                THEN [Answer(p, "getKeys", "success") EXCEPT
                        !.keys = {KeyOf(FileName(k)) : k \in Stored}]
                ELSE Answer(p, "getKeys", "NE_RT_NATRTER")
    /\ call' = [call EXCEPT ![p] = NoCall]
    /\ UNCHANGED <<dir, file, content, clean>>

\* The process ends in the middle of a call.
Ends(p) ==
    /\ ~At(p, "idle")
    /\ call' = [call EXCEPT ![p] = NoCall]
    /\ reply' = Quiet
    /\ UNCHANGED <<dir, file, clean>>
    /\ Reclaim

Step(p) ==
    \/ __validateStorageBucket(p)
    \/ setData(p) \/ writeFileOpen(p) \/ writeFileBlock(p) \/ writeFileClose(p)
    \/ removeData(p) \/ setDataRemove(p)
    \/ clear(p) \/ clearFile(p) \/ clearDir(p)
    \/ getData(p) \/ readFileRead(p)
    \/ getKeys(p) \/ readDirectory(p)
    \/ Ends(p)

Next == \E p \in Instances : Step(p)

Spec == Init /\ [][Next]_vars

-----------------------------------------------------------------------------
(* Properties. *)

CallType(c) ==
    \/ c.step \in {"idle", "list"}
    \/ c.step = "remove" /\ c.key \in Keys
    \/ c.step = "open" /\ c.key \in Keys /\ c.data \in Values[c.key]
    \/ c.step = "clear" /\ c.todo \subseteq Keys
    \/ c.step = "read" /\ c.key \in Keys /\ c.inode \in Inodes /\ c.size \in Nat
    \/ /\ c.step = "write" /\ c.key \in Keys /\ c.data \in Values[c.key] /\ c.inode \in Inodes
       /\ c.pos \in 0..Len(c.data) /\ c.lost \in BOOLEAN /\ c.alone \in BOOLEAN

\* Every variable has its type; files are in a directory that exists, and no
\* two keys share one.
TypeOK ==
    /\ dir \in BOOLEAN
    /\ file \in [Keys -> Inodes \cup {None}]
    /\ Stored # {} => dir
    /\ \A k, l \in Stored : file[k] = file[l] => k = l
    /\ DOMAIN content = Kept(file, call)
    /\ DOMAIN content \subseteq Inodes
    /\ \A p \in Instances : CallType(call[p])
    /\ clean \subseteq {file[k] : k \in Stored}
    /\ reply = Quiet \/ (reply.by \in Instances /\ reply.code \in Codes)

\* While one instance sets a key and no other instance touches it, its file
\* holds exactly the part of the data written so far; and nobody writes to a
\* file that was set completely.
LoneWriterExact ==
    \A p \in Instances : At(p, "write") =>
        /\ call[p].alone => /\ file[call[p].key] = call[p].inode
                            /\ content[call[p].inode] = SubSeq(call[p].data, 1, call[p].pos)
        /\ call[p].inode \notin clean

\* The set and the get a call is, as SafeStore sees them.
SetOf(c) == IF c.step = "write" THEN [key |-> c.key, data |-> c.data, alone |-> c.alone] ELSE None
GetOf(c) == IF c.step = "read" THEN [key |-> c.key, seen |-> c.seen] ELSE None

StoreNow == [k \in Keys |-> ValueOf(k)]
SetsNow == [p \in Instances |-> SetOf(call[p])]
GetsNow == [p \in Instances |-> GetOf(call[p])]

\* Instances that share a storage see a map in which every key is a safe
\* register: SafeStore with the value of a key read off its file, and Unknown
\* while a set of it is under way, was cut short or met another one.
Abstract == INSTANCE SafeStore WITH
    store <- StoreNow, writing <- SetsNow, reading <- GetsNow, answer <- reply

ImplementsSafeStore == Abstract!Spec

=============================================================================
