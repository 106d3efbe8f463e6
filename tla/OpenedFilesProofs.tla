------------------------- MODULE OpenedFilesProofs --------------------------
(***************************************************************************)
(* For every set of streams, length of files, set of sizes and buffer: the *)
(* table of opened files is sound, no stream drops out of it before a file *)
(* was closed, and the client gets the bytes without a gap.                *)
(***************************************************************************)
EXTENDS OpenedFiles, FunctionTheorems, FiniteSetTheorems, TLAPS

\* The client never believes a stream that has not failed to be further than it
\* is: a dispatch that throws loses bytes, none are sent twice.
NeverAhead == \A s \in Streams : ~reader[s].fail => expects[s] <= reader[s].pos

\* The inductive invariant.
IInv == TypeOK /\ TableIsSound /\ NeverAhead

-----------------------------------------------------------------------------
(* std::ifstream. *)

\* peek() moves nothing and only raises bits; afterwards the stream is good
\* exactly if there is a byte to read.
LEMMA PeekedFacts ==
    ASSUME NEW r \in ReaderType
    PROVE  /\ Peeked(r) \in ReaderType
           /\ Peeked(r).pos = r.pos /\ Peeked(r).len = r.len /\ Peeked(r).heap = r.heap
           /\ r.fail => Peeked(r).fail /\ Peeked(r).eof = r.eof
           /\ Good(Peeked(r)) => Peeked(r) = r /\ Good(r) /\ (r.kind = "endless" \/ r.pos < r.len)
           /\ Peeked(r).eof /\ ~r.eof => r.pos >= r.len
<1> USE DEF ReaderType, Good, Exhausted
<1>1. CASE ~Good(r) \/ r.kind = "directory"
  <2>1. Peeked(r) = [r EXCEPT !.fail = TRUE]
    BY <1>1 DEF Peeked
  <2>2. QED
    BY <2>1
<1>2. CASE Good(r) /\ r.kind # "directory" /\ Exhausted(r)
  <2>1. Peeked(r) = [r EXCEPT !.eof = TRUE]
    BY <1>2 DEF Peeked
  <2>2. QED
    BY <1>2, <2>1
<1>3. CASE Good(r) /\ r.kind # "directory" /\ ~Exhausted(r)
  <2>1. Peeked(r) = r
    BY <1>3 DEF Peeked
  <2>2. r.pos \in Int /\ r.len \in Int
    BY LenAssumption DEF Positions
  <2>3. QED
    BY <1>3, <2>1, <2>2
<1>4. QED
  BY <1>1, <1>2, <1>3

\* A good stream that has a byte to read moves forward, and not past the end; one
\* of a device without end stays good.
LEMMA ReadBytesFacts ==
    ASSUME NEW r \in ReaderType, NEW n \in Nat, Good(r), r.kind = "endless" \/ r.pos < r.len
    PROVE  /\ ReadBytes(r, n) \in ReaderType
           /\ ReadBytes(r, n).heap = r.heap
           /\ ReadBytes(r, n).pos >= r.pos
           /\ ReadBytes(r, n).eof => ReadBytes(r, n).pos = r.len
<1>1. r.pos \in Int /\ r.len \in 0..MaxLen /\ 0 <= r.pos
  BY LenAssumption DEF ReaderType, Positions
<1>2. CASE r.kind = "endless"
  <2>1. ReadBytes(r, n) = r
    BY <1>2 DEF ReadBytes
  <2>2. QED
    BY <1>1, <2>1 DEF Good
<1>3. CASE r.kind # "endless"
  <2> DEFINE got == IF n <= r.len - r.pos THEN n ELSE r.len - r.pos
  <2>1. got \in Int /\ r.pos + got \in r.pos..r.len /\ r.pos + got \in Positions
    BY <1>1, <1>3, LenAssumption DEF Positions
  <2>2. ReadBytes(r, n) = [r EXCEPT !.pos = r.pos + got, !.eof = got < n, !.fail = got < n]
    BY <1>3 DEF ReadBytes
  <2>3. (got < n) \in BOOLEAN /\ (got < n => r.pos + got = r.len)
    BY <1>1
  <2>4. r.pos + got >= r.pos
    BY <1>1, <2>1
  <2> HIDE DEF got
  <2>5. QED
    BY <2>1, <2>2, <2>3, <2>4 DEF ReaderType
<1>4. QED
  BY <1>2, <1>3

\* After seekg a stream has failed or stands where it was sent.
LEMMA SoughtFacts ==
    ASSUME NEW r \in ReaderType, NEW p \in Positions
    PROVE  /\ Sought(r, p) \in ReaderType
           /\ Sought(r, p).heap = r.heap
           /\ ~Sought(r, p).eof
           /\ Sought(r, p).fail \/ Sought(r, p).pos = p
BY DEF ReaderType, Sought, FileKinds

\* tellg() only raises failbit.
LEMMA ToldFacts ==
    ASSUME NEW r \in ReaderType
    PROVE  /\ Told(r) \in ReaderType
           /\ Told(r).heap = r.heap /\ Told(r).pos = r.pos /\ Told(r).eof = r.eof
           /\ r.fail => Told(r).fail
BY DEF ReaderType, Told, Good, FileKinds

\* The position of a seek is a position.
LEMMA SeekPositionType ==
    ASSUME NEW p \in Positions \cup {-1}
    PROVE  SeekPosition(p) \in Positions
BY LenAssumption DEF SeekPosition, Positions

-----------------------------------------------------------------------------
(* The table. *)

\* There are no more entries than streams.
LEMMA IdsBound ==
    ASSUME IInv
    PROVE  /\ IsFiniteSet(Ids)
           /\ Cardinality(Ids) \in VirtualFileIds
<1>1. openedFiles \in Injection(Ids, Streams)
  BY DEF IInv, TypeOK, TableIsSound, Injection, IsInjective, Ids
<1>2. IsFiniteSet(Ids) /\ Cardinality(Ids) <= Cardinality(Streams)
  BY <1>1, FS_Injection, StreamsAssumption
<1>3. Cardinality(Ids) \in Nat /\ Cardinality(Streams) \in Nat
  BY <1>2, FS_CardinalityType, StreamsAssumption
<1>4. QED
  BY <1>2, <1>3 DEF VirtualFileIds

\* Initially the table is empty.
LEMMA InitIInv == Init => IInv
<1> SUFFICES ASSUME Init PROVE IInv
  OBVIOUS
<1>1. 0 \in Positions /\ 0 \in 0..MaxLen
  BY LenAssumption DEF Positions
<1>2. reader \in [Streams -> ReaderType]
  BY <1>1 DEF Init, ReaderType, Unused, FileKinds
<1>3. Ids = {}
  BY DEF Init, Ids
<1>4. openedFiles \in [Ids -> Streams]
  BY <1>3 DEF Init
<1>5. TypeOK
  BY <1>1, <1>2, <1>3, <1>4 DEF Init, TypeOK, Replies
<1>6. TableIsSound
  BY <1>3 DEF TableIsSound
<1>7. NeverAhead
  BY <1>1 DEF NeverAhead, Init, Unused
<1>8. QED
  BY <1>5, <1>6, <1>7 DEF IInv

\* What openFile does to the table.
LEMMA OpenKeeps ==
    ASSUME IInv, NEW s \in Streams, NEW k \in FileKinds, NEW len \in 0..MaxLen,
           openFile(s, k, len)
    PROVE  IInv'
<1> USE DEF IInv, TypeOK
<1>1. VirtualFileId \in VirtualFileIds
  BY IdsBound DEF VirtualFileId
<1>2. [Unused EXCEPT !.heap = "open", !.kind = k, !.len = len, !.writers = (k = "unseekable")]
         \in ReaderType
  <2>1. 0 \in Positions
    BY LenAssumption DEF Positions
  <2>2. QED
    BY <2>1 DEF Unused, ReaderType
<1>3. reader' \in [Streams -> ReaderType]
  BY <1>2 DEF openFile
<1>4. /\ Ids' = Ids \cup {VirtualFileId}
      /\ openedFiles' \in [Ids' -> Streams]
      /\ \A id \in Ids' : openedFiles'[id] = IF id = VirtualFileId THEN s ELSE openedFiles[id]
  BY DEF openFile, Ids
<1>5. expects' \in [Streams -> Positions]
  BY LenAssumption DEF openFile, Positions
<1>6. TypeOK'
  BY <1>1, <1>3, <1>4, <1>5 DEF openFile, Replies
<1>7. \A id \in Ids : openedFiles[id] # s
  BY DEF openFile, TableIsSound, Ids
<1>8. TableIsSound'
  <2>1. \A id \in Ids' : reader'[openedFiles'[id]].heap = "open"
    BY <1>3, <1>4, <1>7 DEF openFile, TableIsSound, Unused
  <2>2. \A i, j \in Ids' : openedFiles'[i] = openedFiles'[j] => i = j
    BY <1>4, <1>7 DEF TableIsSound
  <2>3. QED
    BY <2>1, <2>2 DEF TableIsSound
<1>9. NeverAhead'
  BY LenAssumption DEF openFile, NeverAhead, Unused, Positions
<1>10. QED
  BY <1>6, <1>8, <1>9

\* close takes the entry and the stream.
LEMMA CloseKeeps ==
    ASSUME IInv, NEW id \in VirtualFileIds, CloseFile(id)
    PROVE  IInv'
<1> USE DEF IInv, TypeOK
<1>1. openedFiles[id] \in Streams
  BY DEF CloseFile
<1>2. reader' \in [Streams -> ReaderType]
  <2>1. 0 \in Positions /\ 0 \in 0..MaxLen
    BY LenAssumption DEF Positions
  <2>2. Deleted \in ReaderType
    BY <2>1 DEF Deleted, Unused, ReaderType, FileKinds
  <2>3. QED
    BY <1>1, <2>2 DEF CloseFile
<1>3. /\ Ids' = Ids \ {id}
      /\ openedFiles' \in [Ids' -> Streams]
      /\ \A i \in Ids' : openedFiles'[i] = openedFiles[i]
  BY DEF CloseFile, Ids
<1>4. expects' \in [Streams -> Positions]
  BY LenAssumption DEF CloseFile, Positions
<1>5. TypeOK'
  BY <1>2, <1>3, <1>4 DEF CloseFile, Replies
<1>6. TableIsSound'
  BY <1>1, <1>3 DEF CloseFile, TableIsSound
<1>7. NeverAhead'
  BY <1>1, LenAssumption DEF CloseFile, NeverAhead, Deleted, Unused, Positions
<1>8. QED
  BY <1>5, <1>6, <1>7

\* A step that leaves the table alone, and of the streams touches one at most,
\* keeps the invariant if that stream stays open and the client behind it.
LEMMA StreamKeeps ==
    ASSUME IInv, UNCHANGED openedFiles,
           NEW s \in Streams, NEW r \in ReaderType, NEW e \in Positions,
           reader' = [reader EXCEPT ![s] = r], r.heap = reader[s].heap,
           expects' = [expects EXCEPT ![s] = e], ~r.fail => e <= r.pos,
           call' = None \/ (call' \in CallType /\ call'.id \in Ids),
           broken' \subseteq Streams, closed' \in BOOLEAN,
           reply' \in Replies, silent' \in BOOLEAN
    PROVE  IInv'
<1> USE DEF IInv, TypeOK
<1>1. TypeOK'
  BY DEF Ids
<1>2. TableIsSound'
  BY DEF TableIsSound, Ids
<1>3. NeverAhead'
  BY DEF NeverAhead
<1>4. QED
  BY <1>1, <1>2, <1>3

\* A step that touches neither the table nor a stream.
LEMMA QuietKeeps ==
    ASSUME IInv, UNCHANGED <<reader, openedFiles, expects>>,
           call' = None \/ (call' \in CallType /\ call'.id \in Ids),
           broken' \subseteq Streams, closed' \in BOOLEAN,
           reply' \in Replies, silent' \in BOOLEAN
    PROVE  IInv'
BY DEF IInv, TypeOK, TableIsSound, NeverAhead, Ids

\* A seek puts stream and client at the same position, or fails the stream.
LEMMA SeekKeeps ==
    ASSUME IInv, NEW id \in VirtualFileIds, NEW p \in Positions \cup {-1}, SeekFile(id, p)
    PROVE  IInv'
<1> DEFINE s == openedFiles[id]
           r == Sought(reader[s], SeekPosition(p))
           e == SeekPosition(p)
<1>1. s \in Streams /\ reader[s] \in ReaderType /\ e \in Positions
  BY SeekPositionType DEF SeekFile, IInv, TypeOK
<1>2. r \in ReaderType /\ r.heap = reader[s].heap /\ (r.fail \/ r.pos = e)
  BY <1>1, SoughtFacts
<1>3. ~r.fail => e <= r.pos
  BY <1>1, <1>2, LenAssumption DEF Positions
<1>4. /\ reader' = [reader EXCEPT ![s] = r]
      /\ expects' = [expects EXCEPT ![s] = e]
      /\ UNCHANGED <<openedFiles, call, broken, closed, silent>>
      /\ reply' \in Replies
  BY DEF SeekFile, Replies
<1> HIDE DEF s, r, e
<1>5. QED
  BY <1>1, <1>2, <1>3, <1>4, StreamKeeps DEF IInv, TypeOK

\* getOpenedFileInfo moves no stream: at most it fails one.
LEMMA InfoKeeps ==
    ASSUME IInv, NEW id \in VirtualFileIds, getOpenedFileInfo(id)
    PROVE  IInv'
<1>1. CASE id \in Ids
  <2> DEFINE s == openedFiles[id]
             r == Told(reader[s])
             e == expects[s]
  <2>1. s \in Streams /\ reader[s] \in ReaderType /\ e \in Positions
    BY <1>1 DEF IInv, TypeOK
  <2>2. r \in ReaderType /\ r.heap = reader[s].heap /\ (~r.fail => e <= r.pos)
    BY <2>1, ToldFacts DEF IInv, NeverAhead, ReaderType
  <2>3. /\ reader' = [reader EXCEPT ![s] = r]
        /\ expects' = [expects EXCEPT ![s] = e]
        /\ UNCHANGED <<openedFiles, call, broken, closed, silent>>
        /\ reply' \in Replies
    BY <1>1, <2>1 DEF getOpenedFileInfo, Replies, IInv, TypeOK
  <2> HIDE DEF s, r, e
  <2>4. QED
    BY <2>1, <2>2, <2>3, StreamKeeps DEF IInv, TypeOK
<1>2. CASE id \notin Ids
  BY <1>2, QuietKeeps DEF getOpenedFileInfo, Replies, IInv, TypeOK
<1>3. QED
  BY <1>1, <1>2

\* A turn of the loop: the two ends of the loop body and the exception.
LEMMA TurnKeeps ==
    ASSUME IInv, readStreamTurn
    PROVE  IInv'
<1> DEFINE s == openedFiles[call.id]
           p == Peeked(reader[s])
           r == ReadBytes(p, call.size)
<1>1. /\ call \in CallType /\ call.id \in Ids
      /\ s \in Streams /\ reader[s] \in ReaderType /\ expects[s] \in Positions
  BY DEF readStreamTurn, IInv, TypeOK
<1>2. p \in ReaderType /\ p.heap = reader[s].heap /\ p.pos = reader[s].pos
      /\ (reader[s].fail => p.fail)
  BY <1>1, PeekedFacts
<1>3. CASE /\ LoopOver(p)
           /\ reader' = [reader EXCEPT ![s] = p]
           /\ call' = [call EXCEPT !.phase = "tail"]
           /\ UNCHANGED <<expects, broken, reply, openedFiles, closed, silent>>
  <2>1. ~p.fail => expects[s] <= p.pos
    BY <1>1, <1>2 DEF IInv, NeverAhead, ReaderType
  <2>2. expects' = [expects EXCEPT ![s] = expects[s]]
    BY <1>3 DEF IInv, TypeOK
  <2>3. call' \in CallType /\ call'.id \in Ids
    BY <1>1, <1>3 DEF CallType
  <2> HIDE DEF s, p, r
  <2>4. QED
    BY <1>1, <1>2, <1>3, <2>1, <2>2, <2>3, StreamKeeps DEF IInv, TypeOK
<1>4. ASSUME ~LoopOver(p)
      PROVE  /\ r \in ReaderType /\ r.heap = reader[s].heap
             /\ expects[s] <= r.pos
             /\ expects[s] + (r.pos - p.pos) \in Positions
             /\ expects[s] + (r.pos - p.pos) <= r.pos
  <2>1. Good(p) /\ p = reader[s] /\ (p.kind = "endless" \/ p.pos < p.len) /\ ~p.fail
    BY <1>1, <1>4, PeekedFacts DEF LoopOver, Good
  <2>2. r \in ReaderType /\ r.heap = p.heap /\ r.pos >= p.pos
    BY <1>1, <1>2, <2>1, ReadBytesFacts DEF CallType
  <2>3. expects[s] <= p.pos
    BY <1>1, <2>1 DEF IInv, NeverAhead
  <2> HIDE DEF s, p, r
  <2>4. QED
    BY <1>1, <1>2, <2>1, <2>2, <2>3, LenAssumption DEF ReaderType, Positions
<1>5. CASE /\ ~LoopOver(p)
           /\ reader' = [reader EXCEPT ![s] = r]
           /\ call' = [call EXCEPT !.phase = IF call.type = "readAll" THEN @ ELSE "tail",
                                   !.answered = TRUE, !.turn = 1 - @]
           /\ expects' = [expects EXCEPT ![s] = @ + (r.pos - p.pos)]
           /\ UNCHANGED <<broken, reply, openedFiles, closed, silent>>
  <2>1. call' \in CallType /\ call'.id \in Ids
    <3>1. 1 - call.turn \in {0, 1}
      BY <1>1 DEF CallType
    <3>2. (IF call.type = "readAll" THEN call.phase ELSE "tail") \in {"loop", "tail"}
      BY <1>1 DEF CallType
    <3>3. call' = [call EXCEPT !.phase = IF call.type = "readAll" THEN call.phase ELSE "tail",
                               !.answered = TRUE, !.turn = 1 - call.turn]
      BY <1>5
    <3>4. QED
      BY <1>1, <3>1, <3>2, <3>3 DEF CallType
  <2>2. expects' = [expects EXCEPT ![s] = expects[s] + (r.pos - p.pos)]
    BY <1>5
  <2> HIDE DEF s, p, r
  <2>3. QED
    BY <1>1, <1>4, <1>5, <2>1, <2>2, StreamKeeps DEF IInv, TypeOK
<1>6. CASE /\ ~LoopOver(p)
           /\ reader' = [reader EXCEPT ![s] = r]
           /\ ReadThrows(s)
           /\ UNCHANGED <<openedFiles, closed, silent>>
  <2>1. /\ call' = None
        /\ broken' \subseteq Streams
        /\ reply' \in Replies
        /\ expects' = [expects EXCEPT ![s] = expects[s]]
    BY <1>1, <1>6 DEF ReadThrows, Replies, IInv, TypeOK
  <2> HIDE DEF s, p, r
  <2>2. QED
    BY <1>1, <1>4, <1>6, <2>1, StreamKeeps DEF IInv, TypeOK
<1>7. QED
  BY <1>3, <1>5, <1>6 DEF readStreamTurn

\* A file that grows, or a writer that leaves, moves no stream.
LEMMA FileKeeps ==
    ASSUME IInv, NEW s \in Streams, Append(s) \/ WritersLeave(s)
    PROVE  IInv'
<1>1. reader[s] \in ReaderType /\ expects[s] \in Positions
  BY DEF IInv, TypeOK
<1>2. PICK r \in ReaderType :
        /\ reader' = [reader EXCEPT ![s] = r]
        /\ r.heap = reader[s].heap /\ r.pos = reader[s].pos /\ r.fail = reader[s].fail
  <2>1. CASE Append(s)
    <3> DEFINE r == [reader[s] EXCEPT !.len = @ + 1]
    <3>1. r \in ReaderType /\ reader' = [reader EXCEPT ![s] = r]
      BY <1>1, <2>1, LenAssumption DEF Append, ReaderType
    <3>2. QED
      BY <1>1, <3>1 DEF ReaderType
  <2>2. CASE WritersLeave(s)
    <3> DEFINE r == [reader[s] EXCEPT !.writers = FALSE]
    <3>1. r \in ReaderType /\ reader' = [reader EXCEPT ![s] = r]
      BY <1>1, <2>2 DEF WritersLeave, ReaderType
    <3>2. QED
      BY <1>1, <3>1 DEF ReaderType
  <2>3. QED
    BY <2>1, <2>2
<1>3. expects' = [expects EXCEPT ![s] = expects[s]]
  BY <1>1 DEF Append, WritersLeave, IInv, TypeOK
<1>4. ~r.fail => expects[s] <= r.pos
  BY <1>1, <1>2 DEF IInv, NeverAhead
<1>5. UNCHANGED <<openedFiles, call, broken, closed, reply, silent>>
  BY DEF Append, WritersLeave
<1>6. /\ call' = None \/ (call' \in CallType /\ call'.id \in Ids)
      /\ broken' \subseteq Streams /\ closed' \in BOOLEAN
      /\ reply' \in Replies /\ silent' \in BOOLEAN
  BY <1>5 DEF IInv, TypeOK
<1>7. QED
  BY <1>1, <1>2, <1>3, <1>4, <1>5, <1>6, StreamKeeps

\* The calls that only change the read in progress and the reply.
LEMMA QuietStepsKeep ==
    ASSUME IInv,
           \/ openFileFails
           \/ \E id \in VirtualFileIds, event \in {"read", "invalid"} :
                 updateOpenedFileFails(id, event)
           \/ \E id \in VirtualFileIds, type \in ReadTypes, size \in Sizes :
                 ReadFile(id, type, size)
           \/ readStreamEnd
    PROVE  IInv'
<1> USE DEF IInv, TypeOK
<1>1. CASE openFileFails
  BY <1>1, QuietKeeps DEF openFileFails, Replies
<1>2. ASSUME NEW id \in VirtualFileIds, NEW event \in {"read", "invalid"},
             updateOpenedFileFails(id, event)
      PROVE  IInv'
  BY <1>2, QuietKeeps DEF updateOpenedFileFails, Replies
<1>3. ASSUME NEW id \in VirtualFileIds, NEW type \in ReadTypes, NEW size \in Sizes,
             ReadFile(id, type, size)
      PROVE  IInv'
  <2>1. call' \in CallType /\ call'.id \in Ids
    BY <1>3, SizesAssumption DEF ReadFile, CallType
  <2>2. QED
    BY <1>3, <2>1, QuietKeeps DEF ReadFile, Replies
<1>4. CASE readStreamEnd
  <2>1. openedFiles[call.id] \in Streams
    BY <1>4 DEF readStreamEnd
  <2>2. QED
    BY <1>4, <2>1, QuietKeeps DEF readStreamEnd, ReadThrows, Replies
<1>5. QED
  BY <1>1, <1>2, <1>3, <1>4

\* The invariant speaks of nothing but the variables.
LEMMA StutterKeeps == ASSUME IInv, UNCHANGED vars PROVE IInv'
BY QuietKeeps DEF vars, IInv, TypeOK

\* The invariant is inductive.
LEMMA NextIInv == IInv /\ [Next]_vars => IInv'
<1> SUFFICES ASSUME IInv, [Next]_vars PROVE IInv'
  OBVIOUS
<1>1. CASE ServerThread
  BY <1>1, OpenKeeps, CloseKeeps, SeekKeeps, InfoKeeps, TurnKeeps, QuietStepsKeep
  DEF ServerThread
<1>2. CASE \E s \in Streams : Append(s) \/ WritersLeave(s)
  BY <1>2, FileKeeps
<1>3. CASE UNCHANGED vars
  BY <1>3, StutterKeeps
<1>4. QED
  BY <1>1, <1>2, <1>3 DEF Next

-----------------------------------------------------------------------------
(* The theorems. *)

\* What a turn of the loop does to its stream and to what the client has.
LEMMA TurnFacts ==
    ASSUME IInv, readStreamTurn, NEW s, s = openedFiles[call.id]
    PROVE  /\ s \in Streams /\ s \in Listed
           /\ \A t \in Streams \ {s} : reader'[t] = reader[t] /\ expects'[t] = expects[t]
           /\ reader'[s].heap = reader[s].heap
           /\ broken \subseteq broken'
           /\ s \in broken' \/ reader'[s].pos - expects'[s] = reader[s].pos - expects[s]
           /\ reader[s].fail /\ ~reader[s].eof => reader'[s].fail /\ ~reader'[s].eof
           /\ reader'[s].eof /\ ~reader[s].eof => reader'[s].pos >= reader[s].len
<1> DEFINE p == Peeked(reader[s])
           r == ReadBytes(p, call.size)
<1>1. /\ call \in CallType /\ call.id \in Ids
      /\ s \in Streams /\ reader[s] \in ReaderType /\ expects[s] \in Int
      /\ reader[s].pos \in Int /\ reader[s].len \in Int
  BY LenAssumption DEF readStreamTurn, IInv, TypeOK, Positions, ReaderType
<1>2. s \in Listed
  BY <1>1 DEF Listed
<1>3. /\ p.heap = reader[s].heap /\ p.pos = reader[s].pos
      /\ (reader[s].fail => p.fail /\ p.eof = reader[s].eof)
      /\ (p.eof /\ ~reader[s].eof => reader[s].pos >= reader[s].len)
  BY <1>1, PeekedFacts
<1>4. ASSUME ~LoopOver(p)
      PROVE  /\ p = reader[s] /\ ~reader[s].fail
             /\ r.heap = reader[s].heap /\ r.pos \in Int
             /\ (r.eof => r.pos >= reader[s].len)
  <2>1. Good(p) /\ p = reader[s] /\ (p.kind = "endless" \/ p.pos < p.len) /\ ~p.fail
    BY <1>1, <1>4, PeekedFacts DEF LoopOver, Good
  <2>2. r \in ReaderType /\ r.heap = p.heap /\ (r.eof => r.pos = p.len)
    BY <1>1, <2>1, ReadBytesFacts DEF CallType
  <2>3. r.pos \in Int
    BY <2>2, LenAssumption DEF ReaderType, Positions
  <2> HIDE DEF p, r
  <2>4. QED
    BY <1>1, <2>1, <2>2, <2>3
<1>5. reader \in [Streams -> ReaderType] /\ expects \in [Streams -> Positions]
  BY DEF IInv, TypeOK
<1>6. CASE /\ LoopOver(p)
           /\ reader' = [reader EXCEPT ![s] = p]
           /\ UNCHANGED <<expects, broken>>
  <2> HIDE DEF p, r
  <2>1. QED
    BY <1>1, <1>2, <1>3, <1>5, <1>6
<1>7. CASE /\ ~LoopOver(p)
           /\ reader' = [reader EXCEPT ![s] = r]
           /\ expects' = [expects EXCEPT ![s] = @ + (r.pos - p.pos)]
           /\ UNCHANGED broken
  <2> HIDE DEF p, r
  <2>1. QED
    BY <1>1, <1>2, <1>4, <1>5, <1>7
<1>8. CASE /\ ~LoopOver(p)
           /\ reader' = [reader EXCEPT ![s] = r]
           /\ UNCHANGED expects
           /\ broken' = broken \cup {s}
  <2> HIDE DEF p, r
  <2>1. QED
    BY <1>1, <1>2, <1>4, <1>5, <1>8
<1>9. QED
  BY <1>6, <1>7, <1>8 DEF readStreamTurn, ReadThrows

\* Every other step that leaves the table alone sets no eofbit, and leaves each
\* stream open or not, without a gap or with an error, as it was.
LEMMA OtherFacts ==
    ASSUME IInv,
           \/ openFileFails
           \/ \E id \in VirtualFileIds :
                 \/ \E p \in Positions \cup {-1} : SeekFile(id, p)
                 \/ \E event \in {"read", "invalid"} : updateOpenedFileFails(id, event)
                 \/ \E type \in ReadTypes, size \in Sizes : ReadFile(id, type, size)
                 \/ getOpenedFileInfo(id)
           \/ readStreamEnd
           \/ \E s \in Streams : Append(s) \/ WritersLeave(s)
           \/ UNCHANGED vars,
           NEW t \in Streams
    PROVE  /\ UNCHANGED openedFiles
           /\ UNCHANGED closed
           /\ broken \subseteq broken'
           /\ reader'[t].heap = reader[t].heap
           /\ reader'[t].eof => reader[t].eof
           /\ \/ /\ reader'[t].pos = reader[t].pos /\ expects'[t] = expects[t]
                 /\ reader[t].fail /\ ~reader[t].eof => reader'[t].fail /\ ~reader'[t].eof
              \/ reader'[t].pos = expects'[t]
              \/ reader'[t].fail /\ ~reader'[t].eof
<1> DEFINE Goal == /\ UNCHANGED openedFiles
                   /\ UNCHANGED closed
                   /\ broken \subseteq broken'
                   /\ reader'[t].heap = reader[t].heap
                   /\ reader'[t].eof => reader[t].eof
                   /\ \/ /\ reader'[t].pos = reader[t].pos /\ expects'[t] = expects[t]
                         /\ reader[t].fail /\ ~reader[t].eof => reader'[t].fail /\ ~reader'[t].eof
                      \/ reader'[t].pos = expects'[t]
                      \/ reader'[t].fail /\ ~reader'[t].eof
<1>1. reader \in [Streams -> ReaderType] /\ expects \in [Streams -> Positions]
      /\ openedFiles \in [Ids -> Streams] /\ reader[t] \in ReaderType
  BY DEF IInv, TypeOK
<1>2. ASSUME NEW id \in VirtualFileIds, NEW p \in Positions \cup {-1}, SeekFile(id, p)
      PROVE  Goal
  <2> DEFINE s == openedFiles[id]
             r == Sought(reader[s], SeekPosition(p))
  <2>1. s \in Streams /\ reader[s] \in ReaderType /\ SeekPosition(p) \in Positions
    BY <1>1, <1>2, SeekPositionType DEF SeekFile
  <2>2. r.heap = reader[s].heap /\ ~r.eof /\ (r.fail \/ r.pos = SeekPosition(p))
    BY <2>1, SoughtFacts
  <2>3. /\ reader' = [reader EXCEPT ![s] = r]
        /\ expects' = [expects EXCEPT ![s] = SeekPosition(p)]
        /\ UNCHANGED <<openedFiles, closed, broken>>
    BY <1>2 DEF SeekFile
  <2> HIDE DEF s, r
  <2>4. QED
    BY <1>1, <2>1, <2>2, <2>3
<1>3. ASSUME NEW id \in VirtualFileIds, getOpenedFileInfo(id)
      PROVE  Goal
  <2>1. CASE id \in Ids
    <3> DEFINE s == openedFiles[id]
               r == Told(reader[s])
    <3>1. s \in Streams /\ reader[s] \in ReaderType
      BY <1>1, <2>1
    <3>2. r.heap = reader[s].heap /\ r.pos = reader[s].pos /\ r.eof = reader[s].eof
          /\ (reader[s].fail => r.fail)
      BY <3>1, ToldFacts
    <3>3. reader' = [reader EXCEPT ![s] = r] /\ UNCHANGED <<openedFiles, expects, closed, broken>>
      BY <1>3, <2>1 DEF getOpenedFileInfo
    <3> HIDE DEF s, r
    <3>4. QED
      BY <1>1, <3>1, <3>2, <3>3
  <2>2. CASE id \notin Ids
    BY <1>3, <2>2 DEF getOpenedFileInfo
  <2>3. QED
    BY <2>1, <2>2
<1>4. ASSUME NEW s \in Streams, Append(s) \/ WritersLeave(s)
      PROVE  Goal
  BY <1>1, <1>4 DEF Append, WritersLeave, ReaderType
<1>5. CASE openFileFails \/ UNCHANGED vars
  BY <1>5 DEF openFileFails, vars
<1>6. ASSUME NEW id \in VirtualFileIds,
             \/ \E event \in {"read", "invalid"} : updateOpenedFileFails(id, event)
             \/ \E type \in ReadTypes, size \in Sizes : ReadFile(id, type, size)
      PROVE  Goal
  BY <1>6 DEF updateOpenedFileFails, ReadFile
<1>7. CASE readStreamEnd
  BY <1>7 DEF readStreamEnd, ReadThrows
<1>8. QED
  BY <1>2, <1>3, <1>4, <1>5, <1>6, <1>7

\* The disjuncts of Next, as the lemmas above group them.
LEMMA StepCases ==
    ASSUME IInv, [Next]_vars
    PROVE  \/ \E s \in Streams, k \in FileKinds, len \in 0..MaxLen : openFile(s, k, len)
           \/ \E id \in VirtualFileIds : CloseFile(id)
           \/ readStreamTurn
           \/ \A t \in Streams :
                 /\ UNCHANGED openedFiles
                 /\ UNCHANGED closed
                 /\ broken \subseteq broken'
                 /\ reader'[t].heap = reader[t].heap
                 /\ reader'[t].eof => reader[t].eof
                 /\ \/ /\ reader'[t].pos = reader[t].pos /\ expects'[t] = expects[t]
                       /\ reader[t].fail /\ ~reader[t].eof => reader'[t].fail /\ ~reader'[t].eof
                    \/ reader'[t].pos = expects'[t]
                    \/ reader'[t].fail /\ ~reader'[t].eof
BY OtherFacts DEF Next, ServerThread

\* A file that is opened takes the next id while no file was closed.
LEMMA OpenLists ==
    ASSUME IInv, ListedUntilClosed, ~closed, NEW s \in Streams, NEW k \in FileKinds,
           NEW len \in 0..MaxLen, openFile(s, k, len)
    PROVE  ListedUntilClosed'
<1> DEFINE n == Cardinality(Ids)
<1>1. n \in Nat /\ IsFiniteSet(Ids) /\ Ids = 0..n - 1
  BY IdsBound, FS_CardinalityType DEF ListedUntilClosed
<1>2. Ids' = Ids \cup {n}
  BY DEF openFile, Ids, VirtualFileId
<1>3. Cardinality(Ids)' = n + 1
  <2> HIDE DEF n
  <2>1. n \notin Ids
    BY <1>1
  <2>2. Cardinality(Ids \cup {n}) = Cardinality(Ids) + 1
    BY <1>1, <2>1, FS_AddElement
  <2>3. QED
    BY <1>2, <2>2 DEF n
<1> HIDE DEF n
<1>4. Ids' = 0..Cardinality(Ids)' - 1
  BY <1>1, <1>2, <1>3
<1>5. openedFiles' = [id \in Ids \cup {n} |-> IF id = n THEN s ELSE openedFiles[id]]
  BY DEF openFile, VirtualFileId, n
<1>6. OpenStreams' \subseteq OpenStreams \cup {s}
  BY DEF openFile, OpenStreams, IInv, TypeOK
<1>7. \A t \in Listed : t \in Listed'
  BY <1>1, <1>2, <1>5 DEF Listed
<1>8. s \in Listed'
  BY <1>2, <1>5 DEF Listed
<1>9. OpenStreams' \subseteq Listed'
  BY <1>6, <1>7, <1>8 DEF ListedUntilClosed
<1>10. QED
  BY <1>4, <1>9 DEF ListedUntilClosed

\* A step that leaves the table alone keeps the same streams open.
LEMMA SameStreamsListed ==
    ASSUME ListedUntilClosed, UNCHANGED <<openedFiles, closed>>,
           \A t \in Streams : reader'[t].heap = reader[t].heap
    PROVE  ListedUntilClosed'
<1>1. Ids' = Ids /\ Listed' = Listed
  BY DEF Ids, Listed
<1>2. OpenStreams' = OpenStreams
  BY DEF OpenStreams
<1>3. QED
  BY <1>1, <1>2 DEF ListedUntilClosed

\* No step loses an open stream before a file was closed.
LEMMA NextListed == IInv /\ ListedUntilClosed /\ [Next]_vars => ListedUntilClosed'
<1> SUFFICES ASSUME IInv, ListedUntilClosed, [Next]_vars PROVE ListedUntilClosed'
  OBVIOUS
<1>1. CASE \E s \in Streams, k \in FileKinds, len \in 0..MaxLen : openFile(s, k, len)
  <2>1. CASE closed
    BY <1>1, <2>1 DEF openFile, ListedUntilClosed
  <2>2. CASE ~closed
    BY <1>1, <2>2, OpenLists
  <2>3. QED
    BY <2>1, <2>2
<1>2. CASE \E id \in VirtualFileIds : CloseFile(id)
  BY <1>2 DEF CloseFile, ListedUntilClosed
<1>3. CASE readStreamTurn
  <2>1. UNCHANGED <<openedFiles, closed>>
    BY <1>3 DEF readStreamTurn
  <2>2. \A t \in Streams : reader'[t].heap = reader[t].heap
    BY <1>3, TurnFacts
  <2>3. QED
    BY <2>1, <2>2, SameStreamsListed
<1>4. CASE Streams # {} /\ \A t \in Streams : UNCHANGED <<openedFiles, closed>>
                                             /\ reader'[t].heap = reader[t].heap
  BY <1>4, SameStreamsListed
<1>5. CASE Streams = {}
  <2>1. Ids' = {}
    BY <1>5, NextIInv DEF IInv, TypeOK
  <2>2. Cardinality(Ids)' = 0 /\ OpenStreams' = {}
    BY <1>5, <2>1, FS_EmptySet DEF OpenStreams
  <2>3. QED
    BY <2>1, <2>2 DEF ListedUntilClosed
<1>6. QED
  BY <1>1, <1>2, <1>3, <1>4, <1>5, StepCases

\* No step opens a gap behind the client's back.
LEMMA NextNoGap == IInv /\ NoSilentGap /\ [Next]_vars => NoSilentGap'
<1> SUFFICES ASSUME IInv, NoSilentGap, [Next]_vars, NEW t \in Listed'
             PROVE  \/ reader'[t].pos = expects'[t]
                    \/ t \in broken'
                    \/ reader'[t].fail /\ ~reader'[t].eof
  BY DEF NoSilentGap
<1> USE DEF IInv, TypeOK
<1>1. t \in Streams
  BY NextIInv DEF Listed
<1>2. ASSUME NEW s \in Streams, NEW k \in FileKinds, NEW len \in 0..MaxLen,
             openFile(s, k, len)
      PROVE  t = s \/ t \in Listed
  BY <1>2 DEF openFile, Listed, Ids
<1>3. CASE \E s \in Streams, k \in FileKinds, len \in 0..MaxLen : openFile(s, k, len)
  <2>1. PICK s \in Streams, k \in FileKinds, len \in 0..MaxLen : openFile(s, k, len)
    BY <1>3
  <2>2. /\ reader' = [reader EXCEPT ![s] = [Unused EXCEPT !.heap = "open", !.kind = k, !.len = len,
                                                        !.writers = (k = "unseekable")]]
        /\ expects' = [expects EXCEPT ![s] = 0]
        /\ broken' = broken
    BY <2>1 DEF openFile
  <2>3. CASE t = s
    BY <2>2, <2>3 DEF Unused
  <2>4. CASE t # s
    <3>1. t \in Listed
      BY <1>2, <2>1, <2>4
    <3>2. reader'[t] = reader[t] /\ expects'[t] = expects[t]
      BY <1>1, <2>2, <2>4
    <3>3. QED
      BY <2>2, <3>1, <3>2 DEF NoSilentGap
  <2>5. QED
    BY <2>3, <2>4
<1>4. CASE \E id \in VirtualFileIds : CloseFile(id)
  <2>1. PICK id \in VirtualFileIds : CloseFile(id)
    BY <1>4
  <2>2. t \in Listed
    BY <2>1 DEF CloseFile, Listed, Ids
  <2>3. openedFiles[id] \in Streams
    BY <2>1 DEF CloseFile
  <2>4. QED
    BY <1>1, <2>1, <2>2, <2>3 DEF CloseFile, NoSilentGap, Deleted, Unused
<1>5. CASE readStreamTurn
  <2>1. t \in Listed
    BY <1>5 DEF readStreamTurn, Listed, Ids
  <2>2. \/ reader[t].pos = expects[t]
        \/ t \in broken
        \/ reader[t].fail /\ ~reader[t].eof
    BY <2>1 DEF NoSilentGap
  <2>3. PICK s : s = openedFiles[call.id]
    OBVIOUS
  <2>4. CASE t # s
    BY <1>1, <1>5, <2>2, <2>3, <2>4, TurnFacts
  <2>5. CASE t = s
    <3>1. /\ reader[t].pos \in Int /\ expects[t] \in Int
          /\ reader'[t].pos \in Int /\ expects'[t] \in Int
      BY <1>1, NextIInv, LenAssumption DEF ReaderType, Positions
    <3>2. QED
      BY <1>5, <2>2, <2>3, <2>5, <3>1, TurnFacts
  <2>6. QED
    BY <2>4, <2>5
<1>6. CASE /\ UNCHANGED openedFiles
           /\ broken \subseteq broken'
           /\ \/ /\ reader'[t].pos = reader[t].pos /\ expects'[t] = expects[t]
                 /\ reader[t].fail /\ ~reader[t].eof => reader'[t].fail /\ ~reader'[t].eof
              \/ reader'[t].pos = expects'[t]
              \/ reader'[t].fail /\ ~reader'[t].eof
  <2>1. t \in Listed
    BY <1>6 DEF Listed, Ids
  <2>2. QED
    BY <1>6, <2>1 DEF NoSilentGap
<1>7. QED
  BY <1>1, <1>3, <1>4, <1>5, <1>6, StepCases

\* eofbit rises only in a turn of the loop, at the end of the file as it is then.
LEMMA EndStep ==
    ASSUME IInv, NoSilentGap, [Next]_vars, NEW s \in Streams,
           reader'[s].eof, ~reader[s].eof
    PROVE  expects'[s] >= reader[s].len \/ s \in broken'
<1> USE DEF IInv, TypeOK
<1>1. CASE \E t \in Streams, k \in FileKinds, len \in 0..MaxLen : openFile(t, k, len)
  BY <1>1 DEF openFile, Unused
<1>2. CASE \E id \in VirtualFileIds : CloseFile(id)
  BY <1>2 DEF CloseFile, Deleted, Unused
<1>3. CASE readStreamTurn
  <2>1. PICK t : t = openedFiles[call.id]
    OBVIOUS
  <2>2. t = s
    BY <1>3, <2>1, TurnFacts
  <2>3. /\ s \in Listed
        /\ broken \subseteq broken'
        /\ s \in broken' \/ reader'[s].pos - expects'[s] = reader[s].pos - expects[s]
        /\ reader[s].fail /\ ~reader[s].eof => reader'[s].fail /\ ~reader'[s].eof
        /\ reader'[s].pos >= reader[s].len
    BY <1>3, <2>1, <2>2, TurnFacts
  <2>4. reader[s].pos = expects[s] \/ s \in broken
    BY <2>3 DEF NoSilentGap
  <2>5. /\ reader[s].pos \in Int /\ expects[s] \in Int
        /\ reader'[s].pos \in Int /\ expects'[s] \in Int
    BY NextIInv, LenAssumption DEF ReaderType, Positions
  <2>6. QED
    BY <2>3, <2>4, <2>5
<1>4. QED
  BY <1>1, <1>2, <1>3, StepCases

\* The three invariants together.
LEMMA Invariance == Spec => []IInv /\ []NoSilentGap
<1>1. Init => NoSilentGap
  BY DEF Init, NoSilentGap, Listed, Ids
<1>2. QED
  BY <1>1, InitIInv, NextIInv, NextNoGap, PTL DEF Spec

\* For every number of streams and length of files: every variable keeps its
\* type, and a read in progress stays on a file of the table.
THEOREM TypeCorrect == Spec => []TypeOK
BY Invariance, PTL DEF IInv

\* For every number of streams: the table never holds a deleted stream, nor one
\* twice, however ids are given again.
THEOREM TableSound == Spec => []TableIsSound
BY Invariance, PTL DEF IInv

\* For every number of streams: until the first close, openFile replaces nothing.
THEOREM NothingReplaced == Spec => []ListedUntilClosed
<1>1. Init => ListedUntilClosed
  <2> SUFFICES ASSUME Init PROVE Ids = 0..Cardinality(Ids) - 1 /\ OpenStreams \subseteq Listed
    BY DEF ListedUntilClosed
  <2>1. Ids = {} /\ OpenStreams = {}
    BY DEF Init, Ids, OpenStreams, Unused
  <2>2. QED
    BY <2>1, FS_EmptySet
<1>2. QED
  BY <1>1, Invariance, NextListed, PTL DEF Spec

\* For every file, mix of reads and sizes: the bytes the client has are those up
\* to the position of the stream, unless an error told it otherwise.
THEOREM BytesInOrder == Spec => []NoSilentGap
BY Invariance, PTL

\* For every file, also one that grows while it is read: "end" comes after every
\* byte.
THEOREM EndAfterBytes == Spec => EndIsTrue
<1>1. IInv /\ NoSilentGap /\ [Next]_vars =>
        [\A s \in Streams : reader'[s].eof /\ ~reader[s].eof =>
            expects'[s] >= reader[s].len \/ s \in broken']_vars
  BY EndStep
<1>2. QED
  BY <1>1, Invariance, PTL DEF Spec, EndIsTrue

-----------------------------------------------------------------------------
(* What is known of a read that has sent nothing when its loop is over. *)

\* The stream is not good: it is at its end or has failed.
TailKnown ==
    call # None /\ call.phase = "tail" /\ ~call.answered => ~Good(reader[openedFiles[call.id]])

LEMMA TurnTail ==
    ASSUME IInv, readStreamTurn
    PROVE  TailKnown'
<1>1. call \in CallType /\ openedFiles' = openedFiles /\ openedFiles[call.id] \in Streams
  BY DEF IInv, TypeOK, readStreamTurn
<1>2. PICK p : p = Peeked(reader[openedFiles[call.id]])
  OBVIOUS
<1>3. CASE /\ LoopOver(p) /\ reader' = [reader EXCEPT ![openedFiles[call.id]] = p]
           /\ call' = [call EXCEPT !.phase = "tail"]
  <2>1. call'.id = call.id
    BY <1>1, <1>3 DEF CallType
  <2>2. reader'[openedFiles[call.id]] = p
    BY <1>1, <1>3 DEF IInv, TypeOK
  <2>3. QED
    BY <1>1, <1>3, <2>1, <2>2 DEF TailKnown, LoopOver
<1>4. CASE call' = None
  BY <1>4 DEF TailKnown
<1>5. CASE call' = [call EXCEPT !.phase = IF call.type = "readAll" THEN @ ELSE "tail",
                                !.answered = TRUE, !.turn = 1 - @]
  <2>1. call'.answered
    BY <1>1, <1>5 DEF CallType
  <2>2. QED
    BY <2>1 DEF TailKnown
<1>6. QED
  BY <1>2, <1>3, <1>4, <1>5 DEF readStreamTurn, ReadThrows

LEMMA NextTail == IInv /\ TailKnown /\ [Next]_vars => TailKnown'
<1> SUFFICES ASSUME IInv, TailKnown, [Next]_vars PROVE TailKnown'
  OBVIOUS
<1>1. CASE call = None /\ call' = None
  BY <1>1 DEF TailKnown
<1>2. CASE \E id \in VirtualFileIds, type \in ReadTypes, size \in Sizes : ReadFile(id, type, size)
  <2>1. PICK id \in VirtualFileIds, type \in ReadTypes, size \in Sizes : ReadFile(id, type, size)
    BY <1>2
  <2>2. /\ UNCHANGED <<reader, openedFiles>> /\ call'.id = id
        /\ call'.phase = "tail" => AtEnd(reader[openedFiles[id]])
    BY <2>1 DEF ReadFile
  <2>3. QED
    BY <2>2 DEF TailKnown, AtEnd, Good
<1>3. CASE readStreamTurn
  BY <1>3, TurnTail
<1>4. CASE readStreamEnd
  BY <1>4 DEF readStreamEnd, ReadThrows, TailKnown
<1>5. CASE \E s \in Streams : Append(s) \/ WritersLeave(s)
  <2>1. UNCHANGED <<call, openedFiles>>
    BY <1>5 DEF Append, WritersLeave
  <2>2. \A s \in Streams : reader'[s].eof = reader[s].eof /\ reader'[s].fail = reader[s].fail
    BY <1>5 DEF Append, WritersLeave, IInv, TypeOK, ReaderType
  <2>3. call # None => openedFiles[call.id] \in Streams
    BY DEF IInv, TypeOK
  <2>4. QED
    BY <2>1, <2>2, <2>3 DEF TailKnown, Good
<1>6. CASE UNCHANGED vars
  BY <1>6 DEF TailKnown, vars
<1>7. QED
  BY <1>1, <1>2, <1>3, <1>4, <1>5, <1>6
     DEF Next, ServerThread, openFile, openFileFails, CloseFile, SeekFile, updateOpenedFileFails,
         getOpenedFileInfo

\* A read that succeeds has sent data or "end", unless its stream is in an error
\* state before its end, for every file, buffer size and growth of the file while
\* it is read (ReadIsAnswered; readStream of fs.cpp).
THEOREM ReadsAnswered == Spec => ReadIsAnswered
<1>1. Init => TailKnown
  BY DEF Init, TailKnown
<1>2. IInv /\ TailKnown /\ [Next]_vars =>
        [silent' /\ ~silent => LET r == reader[openedFiles[call.id]] IN r.fail /\ ~r.eof]_vars
  <2> SUFFICES ASSUME IInv, TailKnown, [Next]_vars, silent', ~silent
               PROVE  LET r == reader[openedFiles[call.id]] IN r.fail /\ ~r.eof
    OBVIOUS
  <2>1. readStreamEnd
    BY DEF Next, ServerThread, openFile, openFileFails, CloseFile, SeekFile, ReadFile, readStreamTurn,
           updateOpenedFileFails, getOpenedFileInfo, Append, WritersLeave, vars
  <2>2. ~call.answered /\ ~AtEnd(reader[openedFiles[call.id]])
    BY <2>1 DEF readStreamEnd
  <2>3. QED
    BY <2>1, <2>2 DEF readStreamEnd, TailKnown, Good, AtEnd
<1>3. QED
  BY <1>1, <1>2, NextTail, Invariance, PTL DEF Spec, ReadIsAnswered

=============================================================================
