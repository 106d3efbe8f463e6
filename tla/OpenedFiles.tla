---------------------------- MODULE OpenedFiles -----------------------------
(***************************************************************************)
(* The file streams of filesystem.openFile, updateOpenedFile and           *)
(* getOpenedFileInfo (api/fs/fs.cpp).                                      *)
(*                                                                         *)
(* Every native method runs on the server thread, so the calls follow each *)
(* other; a read is split at every turn of its loop because the files      *)
(* change meanwhile and the loop may not end.  A reader is a std::ifstream *)
(* and modelled by what the calls see of it: its position, eofbit and the  *)
(* error bits (failbit and badbit together).  A file has a length, which   *)
(* others can extend; a directory can be opened and never read, a pipe or  *)
(* terminal can be read and not positioned, and a read of it waits for     *)
(* bytes as long as a writer has it open (writers that left do not come    *)
(* back); a device like /dev/zero has no end.  A byte is its position, but *)
(* for the last, whose bytes are alike and whose stream stays where it is. *)
(***************************************************************************)
EXTENDS Integers, FiniteSets

CONSTANTS
    Streams,        \* the ifstream objects that can be allocated (bounds the opens)
    MaxLen,         \* bound on the length of a file
    Sizes,          \* the sizes a read can ask for; negative: not given
    BufSize,        \* NEU_DEFAULT_STREAM_BUF_SIZE
    None            \* no stream, no call

ASSUME LenAssumption == MaxLen \in Nat
ASSUME SizesAssumption == Sizes \subseteq Int /\ BufSize \in Nat \ {0}
ASSUME StreamsAssumption == IsFiniteSet(Streams) /\ None \notin Streams

VARIABLES
    reader,         \* stream object -> its state
    openedFiles,    \* virtual file id -> stream object
    call,           \* the read in progress (turn: parity of its loop), or None
    expects,        \* history: where the client believes the stream to be
    broken,         \* history: streams on which a call reported an error
    closed,         \* history: a stream has been closed
    reply,          \* the last answer to a client, "none" while a read is in progress
    silent          \* the last read that ended sent no event

vars == <<reader, openedFiles, call, expects, broken, closed, reply, silent>>

FileKinds == {"regular", "unseekable", "directory", "endless"}
ReadTypes == {"read", "readAll"}    \* the Binary forms differ in encoding only
Positions == 0..MaxLen + 1
VirtualFileIds == 0..Cardinality(Streams)

Unused == [heap |-> "unused", kind |-> "regular", writers |-> FALSE,
           len |-> 0, pos |-> 0, eof |-> FALSE, fail |-> FALSE]
Deleted == [Unused EXCEPT !.heap = "deleted"]
Replies == {"none", "success", "NE_FS_SCOPERR", "NE_FS_FILOPER", "NE_FS_UNLTOUP",
            "NE_FS_UNLTFOP", "NE_RT_NATRTER"}

Init ==
    /\ reader = [s \in Streams |-> Unused]
    /\ openedFiles = [id \in {} |-> None]
    /\ call = None
    /\ expects = [s \in Streams |-> 0]
    /\ broken = {}
    /\ closed = FALSE
    /\ reply = "success"
    /\ silent = FALSE

Ids == DOMAIN openedFiles
Listed == {openedFiles[id] : id \in Ids}
OpenStreams == {s \in Streams : reader[s].heap = "open"}

-----------------------------------------------------------------------------
(* std::ifstream. *)

Good(r) == ~r.eof /\ ~r.fail

\* There is no byte to read.
Exhausted(r) == r.kind # "endless" /\ r.pos >= r.len

\* Mutant: the loop takes the byte it looks at.
Peeked_Takes(r) ==
    CASE ~Good(r) \/ r.kind = "directory" -> [r EXCEPT !.fail = TRUE]
      [] Good(r) /\ r.kind # "directory" /\ Exhausted(r) -> [r EXCEPT !.eof = TRUE]
      [] OTHER -> [r EXCEPT !.pos = @ + 1]

\* peek(): it answers eof() exactly if the stream is not good afterwards.
Peeked(r) ==
    CASE ~Good(r) \/ r.kind = "directory" -> [r EXCEPT !.fail = TRUE]
      [] Good(r) /\ r.kind # "directory" /\ Exhausted(r) -> [r EXCEPT !.eof = TRUE]
      [] OTHER -> r

\* read(buffer, n): a short read sets eofbit and failbit.
ReadBytes(r, n) ==
    LET got == IF n <= r.len - r.pos THEN n ELSE r.len - r.pos
    IN CASE ~Good(r) -> [r EXCEPT !.fail = TRUE]
         [] Good(r) /\ r.kind = "endless" -> r
         [] OTHER -> [r EXCEPT !.pos = @ + got, !.eof = got < n, !.fail = got < n]

\* A peek and a read of n bytes block in read(2): fewer bytes are there and a
\* writer may still write more.
WaitsForWriter(r, n) ==
    /\ Good(r) /\ r.kind = "unseekable" /\ r.writers
    /\ r.len - r.pos < n \/ r.pos >= r.len

\* clear() and seekg(pos).
Sought(r, p) ==
    IF r.kind = "unseekable" THEN [r EXCEPT !.eof = FALSE, !.fail = TRUE]
    ELSE [r EXCEPT !.eof = FALSE, !.fail = FALSE, !.pos = p]

\* tellg(): on a stream that is not good it fails (and answers -1).
Told(r) == IF Good(r) THEN r ELSE [r EXCEPT !.fail = TRUE]

-----------------------------------------------------------------------------
(* openFile. *)

\* Mutant: the id of the last opened file is given again.
VirtualFileId_Last == IF Ids = {} THEN 0 ELSE Cardinality(Ids) - 1

\* The next id is the number of entries.
VirtualFileId == Cardinality(Ids)

openFile(s, k, len) ==
    /\ call = None
    /\ reader[s].heap = "unused"
    /\ k \in {"directory", "endless"} => len = 0
    /\ reader' = [reader EXCEPT ![s] = [Unused EXCEPT !.heap = "open", !.kind = k, !.len = len,
                                                    !.writers = (k = "unseekable")]]
    /\ openedFiles' = [id \in Ids \cup {VirtualFileId} |->
                          IF id = VirtualFileId THEN s ELSE openedFiles[id]]
    /\ expects' = [expects EXCEPT ![s] = 0]
    /\ reply' = "success"
    /\ UNCHANGED <<call, broken, closed, silent>>

\* The path is out of scope or the file cannot be opened.
openFileFails ==
    /\ call = None
    /\ \E e \in {"NE_FS_SCOPERR", "NE_FS_FILOPER"} : reply' = e
    /\ UNCHANGED <<reader, openedFiles, call, expects, broken, closed, silent>>

-----------------------------------------------------------------------------
(* updateOpenedFile. *)

\* Mutant: the closed stream stays in the table.
CloseFile_Keeps(id) ==
    /\ call = None
    /\ id \in Ids
    /\ reader' = [reader EXCEPT ![openedFiles[id]] = Deleted]
    /\ expects' = [expects EXCEPT ![openedFiles[id]] = 0]
    /\ closed' = TRUE
    /\ reply' = "success"
    /\ UNCHANGED <<openedFiles, call, broken, silent>>

CloseFile(id) ==
    /\ call = None
    /\ id \in Ids
    /\ reader' = [reader EXCEPT ![openedFiles[id]] = Deleted]
    /\ expects' = [expects EXCEPT ![openedFiles[id]] = 0]
    /\ openedFiles' = [i \in Ids \ {id} |-> openedFiles[i]]
    /\ closed' = TRUE
    /\ reply' = "success"
    /\ UNCHANGED <<call, broken, silent>>

\* Mutant: a negative position is passed on.
SeekPosition_Raw(p) == p

\* A negative position, or none, is the beginning.
SeekPosition(p) == IF p > -1 THEN p ELSE 0

\* The reply is a success even if the stream cannot be positioned.
SeekFile(id, p) ==
    /\ call = None
    /\ id \in Ids
    /\ LET s == openedFiles[id]
       IN /\ reader' = [reader EXCEPT ![s] = Sought(@, SeekPosition(p))]
          /\ expects' = [expects EXCEPT ![s] = SeekPosition(p)]
    /\ reply' = "success"
    /\ UNCHANGED <<openedFiles, call, broken, closed, silent>>

\* An id that is not in the table, or an unknown event.
updateOpenedFileFails(id, event) ==
    /\ call = None
    /\ id \in Ids => event = "invalid"
    /\ reply' = "NE_FS_UNLTOUP"
    /\ UNCHANGED <<reader, openedFiles, call, expects, broken, closed, silent>>

\* Mutant: eof() only counts on a stream that has not failed.
AtEnd_NotFailed(r) == r.eof /\ ~r.fail

\* The "end" event is sent if the stream is at its end.
AtEnd(r) == r.eof

\* A read starts.  A stream at its end only answers "end".
ReadFile(id, type, size) ==
    /\ call = None
    /\ id \in Ids
    /\ call' = [id |-> id, type |-> type,
                size |-> IF size > -1 THEN size ELSE BufSize,
                phase |-> IF AtEnd(reader[openedFiles[id]]) THEN "tail" ELSE "loop",
                answered |-> FALSE, turn |-> 0]
    /\ reply' = "none"
    /\ silent' = FALSE
    /\ UNCHANGED <<reader, openedFiles, expects, broken, closed>>

\* A send to a leaving client throws: the call ends with an error.
ReadThrows(s) ==
    /\ call' = None
    /\ broken' = broken \cup {s}
    /\ reply' = "NE_RT_NATRTER"
    /\ UNCHANGED expects

\* Mutant: the loop ends at eof() instead of a peek() that fails.
LoopOver_AtEof(r) == r.eof

\* The loop ends when there is nothing to peek at.
LoopOver(r) == ~Good(r)

\* A turn of the loop: peek, read, dispatch.  A peek or read that blocks holds
\* openedFilesLock and the server thread.
readStreamTurn ==
    /\ call # None
    /\ call.phase = "loop"
    /\ ~WaitsForWriter(reader[openedFiles[call.id]], call.size)
    /\ LET s == openedFiles[call.id]
           p == Peeked(reader[s])
           r == ReadBytes(p, call.size)
       IN \/ /\ LoopOver(p)
             /\ reader' = [reader EXCEPT ![s] = p]
             /\ call' = [call EXCEPT !.phase = "tail"]
             /\ UNCHANGED <<expects, broken, reply>>
          \/ /\ ~LoopOver(p)
             /\ reader' = [reader EXCEPT ![s] = r]
             /\ call' = [call EXCEPT !.phase = IF call.type = "readAll" THEN @ ELSE "tail",
                                     !.answered = TRUE, !.turn = 1 - @]
             /\ expects' = [expects EXCEPT ![s] = @ + (r.pos - p.pos)]
             /\ UNCHANGED <<broken, reply>>
          \/ /\ ~LoopOver(p)
             /\ reader' = [reader EXCEPT ![s] = r]
             /\ ReadThrows(s)
    /\ UNCHANGED <<openedFiles, closed, silent>>

\* After the loop: "end" if the stream is at its end, then the reply.
readStreamEnd ==
    /\ call # None
    /\ call.phase = "tail"
    /\ LET s == openedFiles[call.id]
       IN \/ /\ call' = None
             /\ reply' = "success"
             /\ silent' = ~(call.answered \/ AtEnd(reader[s]))
             /\ UNCHANGED <<expects, broken>>
          \/ AtEnd(reader[s]) /\ ReadThrows(s) /\ UNCHANGED silent
    /\ UNCHANGED <<reader, openedFiles, closed>>

-----------------------------------------------------------------------------
\* getOpenedFileInfo of a file in the table, and of another id.
getOpenedFileInfo(id) ==
    /\ call = None
    /\ IF id \in Ids
       THEN /\ reader' = [reader EXCEPT ![openedFiles[id]] = Told(@)]
            /\ reply' = "success"
       ELSE /\ reply' = "NE_FS_UNLTFOP"
            /\ UNCHANGED reader
    /\ UNCHANGED <<openedFiles, call, expects, broken, closed, silent>>

\* Another program appends to a file or writes to a pipe.
Append(s) ==
    /\ reader[s].heap = "open"
    /\ reader[s].kind = "regular" \/ (reader[s].kind = "unseekable" /\ reader[s].writers)
    /\ reader[s].len < MaxLen
    /\ reader' = [reader EXCEPT ![s].len = @ + 1]
    /\ UNCHANGED <<openedFiles, call, expects, broken, closed, reply, silent>>

\* The last writer of a pipe closes it.
WritersLeave(s) ==
    /\ reader[s].heap = "open"
    /\ reader[s].writers
    /\ reader' = [reader EXCEPT ![s].writers = FALSE]
    /\ UNCHANGED <<openedFiles, call, expects, broken, closed, reply, silent>>

ServerThread ==
    \/ \E s \in Streams, k \in FileKinds, len \in 0..MaxLen : openFile(s, k, len)
    \/ openFileFails
    \/ \E id \in VirtualFileIds :
          \/ CloseFile(id)
          \/ \E p \in Positions \cup {-1} : SeekFile(id, p)
          \/ \E event \in {"read", "invalid"} : updateOpenedFileFails(id, event)
          \/ \E type \in ReadTypes, size \in Sizes : ReadFile(id, type, size)
          \/ getOpenedFileInfo(id)
    \/ readStreamTurn
    \/ readStreamEnd

Next == ServerThread \/ \E s \in Streams : Append(s) \/ WritersLeave(s)

Spec == Init /\ [][Next]_vars

\* The server thread goes on with a read it has begun.
FairSpec == Spec /\ WF_vars(readStreamTurn) /\ WF_vars(readStreamEnd)

-----------------------------------------------------------------------------
(* Properties. *)

ReaderType == [heap : {"unused", "open", "deleted"}, kind : FileKinds, writers : BOOLEAN,
               len : 0..MaxLen, pos : Positions, eof : BOOLEAN, fail : BOOLEAN]
CallType == [id : VirtualFileIds, type : ReadTypes, size : Nat,
             phase : {"loop", "tail"}, answered : BOOLEAN, turn : {0, 1}]

\* Every variable has its type; a read in progress is on a file of the table.
TypeOK ==
    /\ reader \in [Streams -> ReaderType]
    /\ Ids \subseteq VirtualFileIds
    /\ openedFiles \in [Ids -> Streams]
    /\ call = None \/ (call \in CallType /\ call.id \in Ids)
    /\ expects \in [Streams -> Positions]
    /\ broken \subseteq Streams
    /\ closed \in BOOLEAN
    /\ reply \in Replies
    /\ silent \in BOOLEAN

\* The table never holds a deleted stream and no stream twice: a close or read
\* never touches freed memory, although ids are given again after a close.
TableIsSound ==
    /\ \A id \in Ids : reader[openedFiles[id]].heap = "open"
    /\ \A i, j \in Ids : openedFiles[i] = openedFiles[j] => i = j

\* As long as no file was closed, ids are 0, 1, 2... and every open stream is
\* in the table, so openFile replaces nothing.
ListedUntilClosed ==
    ~closed => Ids = 0..Cardinality(Ids) - 1 /\ OpenStreams \subseteq Listed

\* Bytes reach the client in order and without a gap from the last open or
\* seek, over any mix of reads: the stream stands where the client believes it
\* to be, unless a call on it reported an error, or it is in an error state
\* before its end, in which it delivers nothing.
NoSilentGap ==
    \A s \in Listed : \/ reader[s].pos = expects[s]
                      \/ s \in broken
                      \/ reader[s].fail /\ ~reader[s].eof

\* A stream comes to its end, and "end" is sent, only when the client has every
\* byte the file had then.
EndIsTrue ==
    [][\A s \in Streams : reader'[s].eof /\ ~reader[s].eof =>
          expects'[s] >= reader[s].len \/ s \in broken']_vars

\* A read that succeeds has sent data or "end"; the one exception is a stream
\* in an error state before its end (a directory, or a pipe after a seek), on
\* which every read is a silent success (fs.cpp:105-123).
ReadIsAnswered ==
    [][silent' /\ ~silent => LET r == reader[openedFiles[call.id]] IN r.fail /\ ~r.eof]_vars

\* Every read ends and the server thread is free again, once the file stops
\* growing, or it waits for ever for a pipe or terminal whose writers neither
\* write nor close it.  The exceptions are a readAll with a buffer of size zero,
\* whose loop never comes nearer to the end of the file, and one of a device that
\* has no end.
ReadsEnd ==
    [](/\ call # None /\ call.size > 0
       /\ call.type = "readAll" => reader[openedFiles[call.id]].kind # "endless"
       => <>(\/ call = None
            \/ [](call # None /\ WaitsForWriter(reader[openedFiles[call.id]], call.size))))

\* Stated by CHANGELOG.md:650-652: descriptors persist, so a stream that was
\* opened and not closed can be reached by an id.
OpenIsReachable == OpenStreams \subseteq Listed

=============================================================================
