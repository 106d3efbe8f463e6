--------------------------- MODULE StorageProofs ----------------------------
(***************************************************************************)
(* For every set of instances, keys and values: the storage directory is   *)
(* well formed, a set that nothing disturbs has written exactly what it    *)
(* should, and the storage implements SafeStore, a map whose keys are safe *)
(* registers, across removals, clears and processes that end in the middle *)
(* of a call.                                                              *)
(***************************************************************************)
EXTENDS Storage, FiniteSetTheorems, TLAPS

\* The shapes a call has, step by step.
OpenCalls == [step : {"open"}, key : Keys, data : Seq(Blocks)]
WriteCalls == [step : {"write"}, key : Keys, data : Seq(Blocks), inode : Inodes, pos : Nat,
               lost : BOOLEAN, alone : BOOLEAN]
Readings == Seq(Blocks) \cup {None, Unknown}
ReadCalls == [step : {"read"}, key : Keys, inode : Inodes, size : Nat, seen : SUBSET Readings]
Loose == [step : {"idle", "list"}] \cup [step : {"remove"}, key : Keys]
         \cup {c \in OpenCalls : c.data \in Values[c.key]}
         \cup [step : {"clear"}, todo : SUBSET Keys]
Writing == {c \in WriteCalls : c.data \in Values[c.key] /\ c.pos <= Len(c.data)}
Holding == ReadCalls \cup Writing
Calls == Loose \cup Holding

Holds(p) == call[p] \in Holding
Writes(p) == At(p, "write")
Reads(p) == At(p, "read")

\* The files that have a name or are held open.
Live == {i \in Inodes : \/ \E k \in Keys : file[k] = i
                        \/ \E p \in Instances : Holds(p) /\ call[p].inode = i}

Shapes ==
    /\ dir \in BOOLEAN
    /\ file \in [Keys -> Inodes \cup {None}]
    /\ call \in [Instances -> Calls]
    /\ content \in [Live -> Seq(Blocks)]
    /\ clean \subseteq Inodes

\* The names: they are in a directory that exists, no two lead to one file, and
\* only a file with a name counts as set completely.
NamesOK ==
    /\ Stored # {} => dir
    /\ \A k, l \in Keys : file[k] # None /\ file[k] = file[l] => k = l
    /\ \A i \in clean : \E k \in Keys : file[k] = i

\* A file that is held open and has a name has the name it was opened by.
HeldByKey == \A p \in Instances, k \in Keys :
    Holds(p) /\ file[k] = call[p].inode => k = call[p].key

\* A set that nothing disturbed is the only one of its key.
AloneIsOnly == \A p, q \in Instances :
    Writes(p) /\ Writes(q) /\ call[p].alone /\ call[q].key = call[p].key => q = p

\* A file that was set completely holds a value of its key.
CleanIsValue == \A k \in Keys : file[k] \in clean => content[file[k]] \in Values[k]

\* A get under way knows the value of its key; and unless it knows that the
\* value could not be told, the file it holds is one of the values it knows, is
\* as long as it was, and nobody writes to it.
ReadersKnow == \A p \in Instances : Reads(p) =>
    /\ ValueOf(call[p].key) \in call[p].seen
    /\ Unknown \notin call[p].seen =>
          /\ content[call[p].inode] \in call[p].seen
          /\ Len(content[call[p].inode]) = call[p].size
          /\ \A q \in Instances : Writes(q) => call[q].inode # call[p].inode

\* The files, the names and the calls, and what is known of them.
Good ==
    /\ Shapes /\ NamesOK /\ HeldByKey /\ AloneIsOnly /\ LoneWriterExact /\ CleanIsValue
    /\ ReadersKnow

ReplyOK == reply = Quiet \/ (reply.by \in Instances /\ reply.code \in Codes)

\* The inductive invariant.
IInv == Good /\ ReplyOK

-----------------------------------------------------------------------------
(* The parts of a call. *)

\* The step of a call tells its shape.
LEMMA CallParts ==
    ASSUME NEW c \in Calls
    PROVE  /\ c.step \in {"idle", "list", "remove", "open", "clear", "read", "write"}
           /\ c.step = "write" <=> c \in Writing
           /\ c.step = "read" <=> c \in ReadCalls
           /\ c.step \in {"write", "read"} <=> c \in Holding
           /\ c \in Loose <=> c \notin Holding
           /\ c.step = "clear" => c \in [step : {"clear"}, todo : SUBSET Keys]
           /\ c.step = "remove" => c.key \in Keys
           /\ c.step = "open" => c.key \in Keys /\ c.data \in Values[c.key] /\ c.data \in Seq(Blocks)
<1>1. c \in Loose => c.step \in {"idle", "list", "remove", "open", "clear"}
  BY DEF Loose, OpenCalls
<1>2. c \in ReadCalls => c.step = "read"
  BY DEF ReadCalls
<1>3. c \in Writing => c.step = "write"
  BY DEF Writing, WriteCalls
<1>4. c \in Loose \/ c \in ReadCalls \/ c \in Writing
  BY DEF Calls, Holding
<1>5. c.step = "clear" => c \in [step : {"clear"}, todo : SUBSET Keys]
  BY <1>1, <1>2, <1>3, <1>4 DEF Loose, OpenCalls
<1>6. c.step = "remove" => c.key \in Keys
  BY <1>1, <1>2, <1>3, <1>4 DEF Loose, OpenCalls
<1>7. c.step = "open" => c.key \in Keys /\ c.data \in Values[c.key] /\ c.data \in Seq(Blocks)
  BY <1>1, <1>2, <1>3, <1>4 DEF Loose, OpenCalls
<1>8. QED
  BY <1>1, <1>2, <1>3, <1>4, <1>5, <1>6, <1>7 DEF Holding

\* d is what Changed makes of the call c when key k gets value v: a set of the
\* key is disturbed, a get notes the value, and nothing else differs.
After(c, d, k, v) ==
    /\ d \in Calls
    /\ d.step = c.step
    /\ c.step = "write" =>
          /\ d.key = c.key /\ d.data = c.data /\ d.inode = c.inode /\ d.pos = c.pos
          /\ d.lost = c.lost
          /\ d.alone = IF c.key = k THEN FALSE ELSE c.alone
    /\ c.step = "read" =>
          /\ d.key = c.key /\ d.inode = c.inode /\ d.size = c.size
          /\ d.seen = IF c.key = k THEN c.seen \cup {v} ELSE c.seen
    /\ c.step \notin {"write", "read"} => d = c

\* What Changed does to each call.
LEMMA ChangedParts ==
    ASSUME Shapes, NEW k \in Keys, NEW v \in Readings, NEW q \in Instances
    PROVE  After(call[q], Changed(call, k, v)[q], k, v)
<1> DEFINE c == call[q]
           d == Changed(call, k, v)[q]
<1>1. c \in Calls
  BY DEF Shapes
<1>2. d = CASE c.step = "write" /\ c.key = k -> [c EXCEPT !.alone = FALSE]
            [] c.step = "read" /\ c.key = k -> [c EXCEPT !.seen = @ \cup {v}]
            [] OTHER -> c
  BY DEF Changed
<1> SUFFICES After(c, d, k, v)
  OBVIOUS
<1> HIDE DEF c, d
<1>3. CASE c.step = "write" /\ c.key = k
  <2>1. c \in Writing
    BY <1>1, <1>3, CallParts
  <2>2. d = [c EXCEPT !.alone = FALSE]
    BY <1>2, <1>3
  <2>3. d \in Writing
    BY <2>1, <2>2 DEF Writing, WriteCalls
  <2>4. d \in Calls
    BY <2>3 DEF Calls, Holding
  <2>5. QED
    BY <1>3, <2>1, <2>2, <2>4 DEF After, Writing, WriteCalls
<1>4. CASE c.step = "read" /\ c.key = k
  <2>1. c \in ReadCalls
    BY <1>1, <1>4, CallParts
  <2>2. d = [c EXCEPT !.seen = @ \cup {v}]
    BY <1>2, <1>4
  <2>3. d \in ReadCalls
    BY <2>1, <2>2 DEF ReadCalls
  <2>4. d \in Calls
    BY <2>3 DEF Calls, Holding
  <2>5. QED
    BY <1>4, <2>1, <2>2, <2>4 DEF After, ReadCalls
<1>5. CASE ~(c.step = "write" /\ c.key = k) /\ ~(c.step = "read" /\ c.key = k)
  <2>1. d = c
    BY <1>2, <1>5
  <2>2. c.step = "write" => c.alone \in BOOLEAN
    BY <1>1, CallParts DEF Writing, WriteCalls
  <2>3. QED
    BY <1>1, <1>5, <2>1, <2>2 DEF After
<1>6. QED
  BY <1>3, <1>4, <1>5

\* d is the call c later on, while it holds the file that c holds.
Follows(c, d) ==
    /\ d.step = c.step
    /\ d.key = c.key /\ d.inode = c.inode
    /\ c.step = "write" => d.data = c.data /\ (d.alone = FALSE \/ d.alone = c.alone)
    /\ c.step = "read" => d.size = c.size /\ c.seen \subseteq d.seen

\* The value of a key after the step.
ValueAfter(k) == CASE file'[k] = None -> None
                   [] file'[k] # None /\ file'[k] \in clean' -> content'[file'[k]]
                   [] OTHER -> Unknown

\* No call opens a file in the step, and no file gets a name.
NothingOpened ==
    /\ \A k \in Keys : file'[k] = file[k] \/ file'[k] = None
    /\ \A q \in Instances : call'[q] \in Loose \/ (Holds(q) /\ Follows(call[q], call'[q]))

\* Reclaiming files leaves those that have a name or are held, as they were.
LEMMA ReclaimKeeps ==
    ASSUME Shapes, Reclaim, NothingOpened, call' \in [Instances -> Calls]
    PROVE  /\ content' \in [Live' -> Seq(Blocks)]
           /\ \A i \in Live' : i \in Live /\ content'[i] = content[i]
<1>1. content' = [i \in Kept(file', call') |-> content[i]] /\ DOMAIN content = Live
  BY DEF Reclaim, Shapes
<1>2. \A q \in Instances : call'[q].step \in {"write", "read"} <=> call'[q] \in Holding
  BY CallParts
<1>3. \A q \in Instances : call'[q] \in Holding => Holds(q) /\ call'[q].inode = call[q].inode
  BY CallParts DEF NothingOpened, Follows
<1>4. Live' \subseteq Live
  <2> SUFFICES ASSUME NEW i \in Live' PROVE i \in Live
    OBVIOUS
  <2>1. CASE \E k \in Keys : file'[k] = i
    BY <2>1, MarkersAssumption DEF NothingOpened, Live
  <2>2. CASE \E p \in Instances : call'[p] \in Holding /\ call'[p].inode = i
    BY <2>2, <1>3 DEF Live
  <2>3. QED
    BY <2>1, <2>2 DEF Live, Holds
<1>5. Kept(file', call') = Live'
  <2>1. Kept(file', call') = {i \in Live : \/ \E k \in Keys : file'[k] = i
                                           \/ \E p \in Instances : call'[p].step \in {"write", "read"}
                                                                   /\ call'[p].inode = i}
    BY <1>1 DEF Kept
  <2>2. \A i \in Kept(file', call') : i \in Live'
    BY <1>2, <2>1 DEF Live, Holds
  <2>3. \A i \in Live' : i \in Kept(file', call')
    BY <1>2, <1>4, <2>1 DEF Live, Holds
  <2>4. QED
    BY <2>2, <2>3
<1>6. \A i \in Live : content[i] \in Seq(Blocks)
  BY DEF Shapes
<1>7. content' = [i \in Live' |-> content[i]]
  BY <1>1, <1>5
<1> HIDE DEF Live
<1>8. QED
  BY <1>4, <1>6, <1>7

\* Whose file is held, and who is alone, stays as it was.
LEMMA FollowKeeps ==
    ASSUME Good, NothingOpened, call' \in [Instances -> Calls]
    PROVE  HeldByKey' /\ AloneIsOnly'
<1>1. \A q \in Instances : call'[q] \in Holding => Holds(q) /\ Follows(call[q], call'[q])
  BY CallParts DEF NothingOpened
<1>2. HeldByKey'
  <2> SUFFICES ASSUME NEW p \in Instances, NEW k \in Keys,
                      call'[p] \in Holding, file'[k] = call'[p].inode
               PROVE  k = call'[p].key
    BY DEF HeldByKey, Holds
  <2>1. call[p] \in Holding /\ call'[p].key = call[p].key /\ call'[p].inode = call[p].inode
    BY <1>1 DEF Follows, Holds
  <2>2. call[p].inode \in Inodes
    BY <2>1 DEF Holding, Writing, WriteCalls, ReadCalls
  <2>3. file[k] = call[p].inode
    BY <2>1, <2>2, MarkersAssumption DEF NothingOpened
  <2>4. QED
    BY <2>1, <2>3 DEF Good, HeldByKey, Holds
<1>3. AloneIsOnly'
  <2> SUFFICES ASSUME NEW p \in Instances, NEW q \in Instances, call'[p].step = "write",
                      call'[q].step = "write", call'[p].alone, call'[q].key = call'[p].key
               PROVE  q = p
    BY DEF AloneIsOnly, Writes, At
  <2>1. call'[p] \in Holding /\ call'[q] \in Holding
    BY CallParts
  <2>2. Follows(call[p], call'[p]) /\ Follows(call[q], call'[q])
    BY <1>1, <2>1
  <2>3. QED
    BY <2>2 DEF Follows, Good, AloneIsOnly, Writes, At
<1>4. QED
  BY <1>2, <1>3

\* A call that holds no file any more.
LEMMA ReleaseKeeps ==
    ASSUME Good, NEW p \in Instances, NEW c \in Loose, call' = [call EXCEPT ![p] = c],
           UNCHANGED <<file, clean>>, Reclaim, dir' \in BOOLEAN, Stored # {} => dir'
    PROVE  /\ Good'
           /\ \A k \in Keys : ValueAfter(k) = ValueOf(k)
<1>1. call' \in [Instances -> Calls] /\ call'[p] = c
      /\ \A q \in Instances : q # p => call'[q] = call[q]
  BY DEF Good, Shapes, Calls
<1>2. NothingOpened
  <2>1. \A q \in Instances : call[q] \in Calls
    BY DEF Good, Shapes
  <2>2. \A q \in Instances : call[q] \in Loose \/ Holds(q)
    BY <2>1 DEF Calls, Holds
  <2>3. QED
    BY <1>1, <2>2 DEF NothingOpened, Follows
<1>3. /\ content' \in [Live' -> Seq(Blocks)]
      /\ \A i \in Live' : i \in Live /\ content'[i] = content[i]
  BY <1>1, <1>2, ReclaimKeeps DEF Good
<1>4. Shapes'
  BY <1>1, <1>3 DEF Good, Shapes
<1>5. NamesOK'
  BY DEF Good, NamesOK, Stored
<1>6. HeldByKey' /\ AloneIsOnly'
  BY <1>1, <1>2, FollowKeeps
<1>7. \A k \in Keys : file[k] # None => file[k] \in Live'
  BY DEF Good, Shapes, Live
<1>8. \A q \in Instances : call'[q] \in Holding => call'[q].inode \in Live' /\ q # p
  <2> SUFFICES ASSUME NEW q \in Instances, call'[q] \in Holding
               PROVE  call'[q].inode \in Live' /\ q # p
    OBVIOUS
  <2>1. call'[q].inode \in Inodes
    BY DEF Holding, Writing, WriteCalls, ReadCalls
  <2>2. q # p
    BY <1>1, CallParts
  <2>3. QED
    BY <2>1, <2>2 DEF Live, Holds
<1>9. \A k \in Keys : ValueAfter(k) = ValueOf(k)
  BY <1>3, <1>7 DEF ValueOf, ValueAfter
<1>10. LoneWriterExact'
  <2> SUFFICES ASSUME NEW q \in Instances, call'[q].step = "write"
               PROVE  /\ call'[q].alone =>
                            /\ file'[call'[q].key] = call'[q].inode
                            /\ content'[call'[q].inode] = SubSeq(call'[q].data, 1, call'[q].pos)
                      /\ call'[q].inode \notin clean'
    BY DEF LoneWriterExact, At
  <2>1. call'[q] \in Holding
    BY <1>1, CallParts
  <2>2. call'[q] = call[q] /\ content'[call'[q].inode] = content[call[q].inode]
    BY <1>1, <1>3, <1>8, <2>1
  <2>3. QED
    BY <2>2 DEF Good, LoneWriterExact, At
<1>11. CleanIsValue'
  <2> SUFFICES ASSUME NEW k \in Keys, file[k] \in clean PROVE content'[file[k]] \in Values[k]
    BY DEF CleanIsValue
  <2>1. file[k] \in Live'
    BY <1>7, MarkersAssumption DEF Good, Shapes
  <2>2. QED
    BY <1>3, <2>1 DEF Good, CleanIsValue
<1>12. ReadersKnow'
  <2> SUFFICES ASSUME NEW q \in Instances, call'[q].step = "read"
               PROVE  /\ ValueAfter(call'[q].key) \in call'[q].seen
                      /\ Unknown \notin call'[q].seen =>
                            /\ content'[call'[q].inode] \in call'[q].seen
                            /\ Len(content'[call'[q].inode]) = call'[q].size
                            /\ \A r \in Instances : call'[r].step = "write" =>
                                  call'[r].inode # call'[q].inode
    BY DEF ReadersKnow, Reads, Writes, At, ValueOf, ValueAfter
  <2>1. call'[q] \in Holding /\ call'[q] \in ReadCalls
    BY <1>1, CallParts
  <2>2. call'[q] = call[q] /\ content'[call'[q].inode] = content[call[q].inode]
    BY <1>1, <1>3, <1>8, <2>1
  <2>3. call[q].key \in Keys
    BY <2>1, <2>2 DEF ReadCalls
  <2>4. \A r \in Instances : call'[r].step = "write" => call'[r] = call[r]
    BY <1>1, <1>8, CallParts
  <2>5. QED
    BY <1>9, <2>2, <2>3, <2>4 DEF Good, ReadersKnow, Reads, Writes, At
<1>13. QED
  BY <1>4, <1>5, <1>6, <1>9, <1>10, <1>11, <1>12 DEF Good


\* The calls after key k got value v and p does c.
LEMMA ChangedCalls ==
    ASSUME Shapes, NEW p \in Instances, NEW c \in Calls, NEW k \in Keys, NEW v \in Readings,
           call' = [Changed(call, k, v) EXCEPT ![p] = c]
    PROVE  /\ call' \in [Instances -> Calls] /\ call'[p] = c
           /\ \A q \in Instances : q # p => After(call[q], call'[q], k, v)
<1>1. \A q \in Instances : After(call[q], Changed(call, k, v)[q], k, v)
  BY ChangedParts
<1>2. Changed(call, k, v) = [q \in Instances |-> Changed(call, k, v)[q]]
  BY DEF Changed
<1>3. \A q \in Instances : Changed(call, k, v)[q] \in Calls
  BY <1>1 DEF After
<1>4. Changed(call, k, v) \in [Instances -> Calls]
  BY <1>2, <1>3
<1>5. QED
  BY <1>1, <1>4

\* The value of key k becomes v, by a removal or at the end of a set, and the
\* call of p holds no file any more.
LEMMA ValueChanges ==
    ASSUME Good, NEW p \in Instances, NEW k \in Keys, NEW v \in Readings,
           call' \in [Instances -> Calls], call'[p] \in Loose,
           \A q \in Instances : q # p => After(call[q], call'[q], k, v),
           Reclaim,
           file' \in [Keys -> Inodes \cup {None}],
           \A l \in Keys : l # k => file'[l] = file[l],
           file'[k] = file[k] \/ file'[k] = None,
           clean' \subseteq Inodes,
           \A i \in Inodes : i # file[k] => (i \in clean' <=> i \in clean),
           \A q \in Instances : q # p /\ Writes(q) /\ call[q].inode = file[k] => file[k] \notin clean',
           dir' \in BOOLEAN,
           v = IF file'[k] = None THEN None
               ELSE IF file'[k] \in clean' THEN content[file'[k]] ELSE Unknown
    PROVE  /\ Shapes' /\ HeldByKey' /\ AloneIsOnly' /\ LoneWriterExact' /\ ReadersKnow'
           /\ \A i \in Live' : i \in Live /\ content'[i] = content[i]
           /\ \A l \in Keys : file'[l] # None => file'[l] \in Live'
           /\ ValueAfter(k) = v
           /\ \A l \in Keys : l # k => ValueAfter(l) = ValueOf(l)
<1>1. \A q \in Instances : q # p => After(call[q], call'[q], k, v)
  OBVIOUS
<1>2. call' \in [Instances -> Calls] /\ call'[p] \in Loose
  OBVIOUS
<1>3. \A q \in Instances : call'[q] \in Holding =>
        q # p /\ call[q] \in Holding /\ Follows(call[q], call'[q])
  <2> SUFFICES ASSUME NEW q \in Instances, call'[q] \in Holding
               PROVE  q # p /\ call[q] \in Holding /\ Follows(call[q], call'[q])
    OBVIOUS
  <2>1. q # p
    BY <1>2, CallParts
  <2>2. After(call[q], call'[q], k, v) /\ call[q] \in Calls /\ call'[q] \in Calls
    BY <1>1, <1>2, <2>1 DEF Good, Shapes
  <2>3. call'[q].step \in {"write", "read"}
    BY <2>2, CallParts
  <2>4. call[q].step \in {"write", "read"} /\ call'[q].step = call[q].step
    BY <2>2, <2>3 DEF After
  <2>5. call[q] \in Holding
    BY <2>2, <2>4, CallParts
  <2>6. Follows(call[q], call'[q])
    BY <2>2, <2>4 DEF After, Follows
  <2>7. QED
    BY <2>1, <2>5, <2>6
<1>4. NothingOpened
  <2>1. \A q \in Instances : call'[q] \in Loose \/ call'[q] \in Holding
    BY <1>2 DEF Calls
  <2>2. QED
    BY <1>3, <2>1 DEF NothingOpened, Holds
<1>5. /\ content' \in [Live' -> Seq(Blocks)]
      /\ \A i \in Live' : i \in Live /\ content'[i] = content[i]
  BY <1>2, <1>4, ReclaimKeeps DEF Good
<1>6. Shapes'
  BY <1>2, <1>5 DEF Shapes
<1>7. HeldByKey' /\ AloneIsOnly'
  BY <1>2, <1>4, FollowKeeps
<1>8. \A l \in Keys : file'[l] # None => file'[l] \in Live'
  BY DEF Live
<1>9. \A q \in Instances : call'[q] \in Holding =>
          call'[q].inode \in Live' /\ call'[q].inode = call[q].inode
  <2> SUFFICES ASSUME NEW q \in Instances, call'[q] \in Holding
               PROVE  call'[q].inode \in Live' /\ call'[q].inode = call[q].inode
    OBVIOUS
  <2>1. call'[q].inode \in Inodes
    BY DEF Holding, Writing, WriteCalls, ReadCalls
  <2>2. QED
    BY <1>3, <2>1 DEF Live, Holds, Follows
<1>10. \A l \in Keys : l # k => ValueAfter(l) = ValueOf(l)
  <2> SUFFICES ASSUME NEW l \in Keys, l # k PROVE ValueAfter(l) = ValueOf(l)
    OBVIOUS
  <2>1. file'[l] = file[l] /\ file[l] \in Inodes \cup {None}
    OBVIOUS
  <2>2. file[l] # None => /\ file[l] # file[k] /\ content'[file[l]] = content[file[l]]
                          /\ (file[l] \in clean' <=> file[l] \in clean)
    <3> HAVE file[l] # None
    <3>1. file[l] # file[k]
      BY DEF Good, NamesOK
    <3>2. file[l] \in Live'
      BY <1>8, <2>1
    <3>3. QED
      BY <1>5, <2>1, <3>1, <3>2
  <2>3. QED
    BY <2>1, <2>2 DEF ValueAfter, ValueOf
<1>11. ValueAfter(k) = v
  BY <1>5, <1>8 DEF ValueAfter
<1>12. LoneWriterExact'
  <2> SUFFICES ASSUME NEW q \in Instances, call'[q].step = "write"
               PROVE  /\ call'[q].alone =>
                            /\ file'[call'[q].key] = call'[q].inode
                            /\ content'[call'[q].inode] = SubSeq(call'[q].data, 1, call'[q].pos)
                      /\ call'[q].inode \notin clean'
    BY DEF LoneWriterExact, At
  <2>1. call'[q] \in Holding /\ q # p /\ Writes(q) /\ After(call[q], call'[q], k, v)
    <3>1. call'[q] \in Holding
      BY <1>2, CallParts
    <3>2. QED
      BY <1>1, <1>3, <3>1 DEF Writes, At, After
  <2>2. /\ call'[q].key = call[q].key /\ call'[q].inode = call[q].inode
        /\ call'[q].data = call[q].data /\ call'[q].pos = call[q].pos
        /\ call'[q].alone = IF call[q].key = k THEN FALSE ELSE call[q].alone
    BY <2>1 DEF After, Writes, At
  <2>3. content'[call[q].inode] = content[call[q].inode]
    BY <1>5, <1>9, <2>1
  <2>4. call[q].inode \in Inodes /\ call[q].key \in Keys
    BY <1>3, <2>1 DEF Holding, Writing, WriteCalls, ReadCalls
  <2>5. call[q].inode \notin clean'
    BY <2>1, <2>4 DEF Good, LoneWriterExact, Writes
  <2>6. QED
    BY <2>1, <2>2, <2>3, <2>4, <2>5 DEF Good, LoneWriterExact, Writes
<1>13. ReadersKnow'
  <2> SUFFICES ASSUME NEW q \in Instances, call'[q].step = "read"
               PROVE  /\ ValueAfter(call'[q].key) \in call'[q].seen
                      /\ Unknown \notin call'[q].seen =>
                            /\ content'[call'[q].inode] \in call'[q].seen
                            /\ Len(content'[call'[q].inode]) = call'[q].size
                            /\ \A r \in Instances : call'[r].step = "write" =>
                                  call'[r].inode # call'[q].inode
    BY DEF ReadersKnow, Reads, Writes, At, ValueOf, ValueAfter
  <2>1. call'[q] \in Holding
    BY <1>2, CallParts
  <2>2. Reads(q) /\ After(call[q], call'[q], k, v) /\ call[q].key \in Keys
    <3>1. Reads(q) /\ After(call[q], call'[q], k, v)
      BY <1>1, <1>3, <2>1 DEF Reads, At, After
    <3>2. QED
      BY <1>3, <2>1, <3>1 DEF Holding, Writing, WriteCalls, ReadCalls
  <2>3. /\ call'[q].key = call[q].key /\ call'[q].size = call[q].size
        /\ call'[q].seen = IF call[q].key = k THEN call[q].seen \cup {v} ELSE call[q].seen
    BY <2>2 DEF After, Reads, At
  <2>4. call'[q].inode = call[q].inode /\ content'[call'[q].inode] = content[call[q].inode]
    BY <1>5, <1>9, <2>1
  <2>5. \A r \in Instances : call'[r].step = "write" => Writes(r) /\ call'[r].inode = call[r].inode
    <3> SUFFICES ASSUME NEW r \in Instances, call'[r].step = "write"
                 PROVE  Writes(r) /\ call'[r].inode = call[r].inode
      OBVIOUS
    <3>1. call'[r] \in Holding
      BY <1>2, CallParts
    <3>2. QED
      BY <1>3, <3>1 DEF Follows, Writes, At
  <2>6. QED
    BY <1>10, <1>11, <2>2, <2>3, <2>4, <2>5 DEF Good, ReadersKnow
<1>14. QED
  BY <1>5, <1>6, <1>7, <1>8, <1>10, <1>12, <1>13, <1>11

\* A name is taken away.
LEMMA UnlinkKeeps ==
    ASSUME Good, NEW p \in Instances, NEW c \in Loose, NEW k \in Keys,
           Unlink(k, [Changed(call, k, None) EXCEPT ![p] = c])
    PROVE  /\ Good'
           /\ \A q \in Instances : q # p => After(call[q], call'[q], k, None)
           /\ ValueAfter(k) = None
           /\ \A l \in Keys : l # k => ValueAfter(l) = ValueOf(l)
<1>1. /\ file' = [file EXCEPT ![k] = None]
      /\ call' = [Changed(call, k, None) EXCEPT ![p] = c]
      /\ clean' = clean \ {file[k]}
      /\ dir' = dir
      /\ Reclaim
  BY DEF Unlink
<1>2. /\ file' \in [Keys -> Inodes \cup {None}] /\ file'[k] = None
      /\ \A l \in Keys : l # k => file'[l] = file[l]
      /\ clean' \subseteq Inodes /\ file[k] \notin clean' /\ dir' \in BOOLEAN
      /\ \A i \in Inodes : i # file[k] => (i \in clean' <=> i \in clean)
  BY <1>1 DEF Good, Shapes
<1>3. ValueAfter(k) = None /\ None \in Readings
  BY <1>2 DEF ValueAfter, Readings
<1>4. /\ call' \in [Instances -> Calls] /\ call'[p] \in Loose
      /\ \A q \in Instances : q # p => After(call[q], call'[q], k, None)
  BY <1>1, <1>3, ChangedCalls DEF Calls, Good
<1>5. /\ Shapes' /\ HeldByKey' /\ AloneIsOnly' /\ LoneWriterExact' /\ ReadersKnow'
      /\ \A i \in Live' : i \in Live /\ content'[i] = content[i]
      /\ \A l \in Keys : file'[l] # None => file'[l] \in Live'
      /\ \A l \in Keys : l # k => ValueAfter(l) = ValueOf(l)
  BY <1>1, <1>2, <1>3, <1>4, ValueChanges
<1>6. NamesOK'
  <2>1. Stored' \subseteq Stored
    BY <1>2 DEF Stored
  <2>2. Stored' # {} => dir'
    BY <1>1, <2>1 DEF Good, NamesOK
  <2>3. \A j, l \in Keys : file'[j] # None /\ file'[j] = file'[l] => j = l
    BY <1>2 DEF Good, NamesOK
  <2>4. \A i \in clean' : \E l \in Keys : file'[l] = i
    BY <1>1, <1>2 DEF Good, NamesOK
  <2>5. QED
    BY <2>2, <2>3, <2>4 DEF NamesOK
<1>7. CleanIsValue'
  <2> SUFFICES ASSUME NEW l \in Keys, file'[l] \in clean' PROVE content'[file'[l]] \in Values[l]
    BY DEF CleanIsValue
  <2>1. file'[l] # None /\ file'[l] = file[l] /\ file[l] \in clean
    BY <1>1, <1>2, MarkersAssumption
  <2>2. content'[file[l]] = content[file[l]]
    BY <1>5, <2>1
  <2>3. QED
    BY <2>1, <2>2 DEF Good, CleanIsValue
<1>8. QED
  BY <1>3, <1>5, <1>6, <1>7, <1>4 DEF Good


\* A set that nothing disturbed ends: the file of its key holds all the data.
LEMMA SettleKeeps ==
    ASSUME Good, NEW p \in Instances, Writes(p), call[p].alone,
           call[p].pos = Len(call[p].data),
           clean' = clean \cup {call[p].inode},
           call' = [Changed(call, call[p].key, call[p].data) EXCEPT ![p] = NoCall],
           UNCHANGED <<dir, file>>, Reclaim
    PROVE  /\ Good'
           /\ \A q \in Instances : q # p => call'[q] \in Calls /\ After(call[q], call'[q], call[p].key, call[p].data)
           /\ ValueAfter(call[p].key) = call[p].data
           /\ \A l \in Keys : l # call[p].key => ValueAfter(l) = ValueOf(l)
<1> DEFINE k == call[p].key
           v == call[p].data
           i == call[p].inode
<1>1. call[p] \in Writing
  BY CallParts DEF Good, Shapes, Writes, At
<1>2. /\ k \in Keys /\ v \in Values[k] /\ v \in Seq(Blocks) /\ v \in Readings /\ i \in Inodes
      /\ Holds(p)
  BY <1>1 DEF Writing, WriteCalls, Readings, Holds, Holding
<1>3. file[k] = i /\ content[i] = v /\ i \notin clean
  <2>1. file[k] = i /\ content[i] = SubSeq(v, 1, Len(v)) /\ i \notin clean
    BY DEF Good, LoneWriterExact, Writes
  <2>2. SubSeq(v, 1, Len(v)) = v
    BY <1>2
  <2>3. QED
    BY <2>1, <2>2
<1>4. NoCall \in Loose
  BY DEF NoCall, Loose
<1> HIDE DEF k, v, i
<1>5. /\ call' \in [Instances -> Calls] /\ call'[p] \in Loose
      /\ \A q \in Instances : q # p => After(call[q], call'[q], k, v)
  BY <1>2, <1>4, ChangedCalls DEF Calls, Good, k, v
<1>6. \A q \in Instances : q # p /\ Writes(q) => call[q].inode # file[k]
  <2> SUFFICES ASSUME NEW q \in Instances, q # p, Writes(q), call[q].inode = file[k]
               PROVE  FALSE
    OBVIOUS
  <2>1. Holds(q)
    BY CallParts DEF Good, Shapes, Writes, At, Holds
  <2>2. call[q].key = k
    BY <1>2, <2>1 DEF Good, HeldByKey
  <2>3. QED
    BY <2>2 DEF Good, AloneIsOnly, k
<1>7. /\ file' \in [Keys -> Inodes \cup {None}] /\ file' = file /\ dir' \in BOOLEAN
      /\ clean' \subseteq Inodes
      /\ \A j \in Inodes : j # file[k] => (j \in clean' <=> j \in clean)
  BY <1>2, <1>3 DEF Good, Shapes, i
<1>8. v = IF file'[k] = None THEN None
          ELSE IF file'[k] \in clean' THEN content[file'[k]] ELSE Unknown
  BY <1>2, <1>3, <1>7, MarkersAssumption DEF i
<1>9. /\ Shapes' /\ HeldByKey' /\ AloneIsOnly' /\ LoneWriterExact' /\ ReadersKnow'
      /\ \A j \in Live' : j \in Live /\ content'[j] = content[j]
      /\ \A l \in Keys : file'[l] # None => file'[l] \in Live'
      /\ ValueAfter(k) = v
      /\ \A l \in Keys : l # k => ValueAfter(l) = ValueOf(l)
  BY <1>2, <1>5, <1>6, <1>7, <1>8, ValueChanges
<1>10. NamesOK'
  BY <1>2, <1>3 DEF Good, NamesOK, Stored, i
<1>11. CleanIsValue'
  <2> SUFFICES ASSUME NEW l \in Keys, file[l] \in clean' PROVE content'[file[l]] \in Values[l]
    BY DEF CleanIsValue
  <2>1. file[l] # None /\ content'[file[l]] = content[file[l]]
    BY <1>7, <1>9, MarkersAssumption
  <2>2. CASE l = k
    BY <1>2, <1>3, <2>1, <2>2
  <2>3. CASE l # k
    <3>1. file[l] # file[k]
      BY <1>2, <2>1, <2>3 DEF Good, NamesOK
    <3>2. file[l] \in clean
      BY <1>3, <3>1 DEF i
    <3>3. QED
      BY <2>1, <3>2 DEF Good, CleanIsValue
  <2>4. QED
    BY <2>2, <2>3
<1>12. QED
  BY <1>5, <1>9, <1>10, <1>11 DEF Good, k, v

\* The files in use are fewer than Inodes when a call that holds none is about
\* to make one.
LEMMA FreshInode ==
    ASSUME Good, NEW p \in Instances, call[p] \in Loose, NEW k \in Keys, file[k] = None
    PROVE  \E j \in Inodes : j \notin DOMAIN content
<1> DEFINE others == Instances \ {p}
           names == {file[l] : l \in Keys \ {k}}
           open == {call[q].inode : q \in others}
<1>1. Live \subseteq names \cup open
  <2> SUFFICES ASSUME NEW j \in Live PROVE j \in names \cup open
    OBVIOUS
  <2>1. j \in Inodes /\ j # None
    BY MarkersAssumption DEF Live
  <2>2. CASE \E l \in Keys : file[l] = j
    BY <2>1, <2>2
  <2>3. CASE \E q \in Instances : Holds(q) /\ call[q].inode = j
    <3>1. ~Holds(p)
      BY CallParts DEF Good, Shapes, Holds
    <3>2. QED
      BY <2>3, <3>1
  <2>4. QED
    BY <2>2, <2>3 DEF Live
<1>2. /\ IsFiniteSet(Keys \ {k}) /\ Cardinality(Keys \ {k}) = Cardinality(Keys) - 1
      /\ IsFiniteSet(others) /\ Cardinality(others) = Cardinality(Instances) - 1
  BY FS_RemoveElement, InodesAssumption
<1>3. IsFiniteSet(names) /\ Cardinality(names) <= Cardinality(Keys \ {k})
  <2> DEFINE f == [l \in Keys \ {k} |-> file[l]]
  <2>1. f \in Surjection(Keys \ {k}, names)
    BY DEF Surjection
  <2>2. QED
    BY <1>2, <2>1, FS_Surjection
<1>4. IsFiniteSet(open) /\ Cardinality(open) <= Cardinality(others)
  <2> DEFINE f == [q \in others |-> call[q].inode]
  <2>1. f \in Surjection(others, open)
    BY DEF Surjection
  <2>2. QED
    BY <1>2, <2>1, FS_Surjection
<1> HIDE DEF names, open, others
<1>5. IsFiniteSet(names \cup open) /\ Cardinality(names \cup open) <= Cardinality(names) + Cardinality(open)
  <2>1. /\ IsFiniteSet(names \cup open)
        /\ Cardinality(names \cup open) =
              Cardinality(names) + Cardinality(open) - Cardinality(names \cap open)
    BY <1>3, <1>4, FS_Union
  <2>2. IsFiniteSet(names \cap open)
    BY <1>3, FS_Intersection
  <2>3. /\ Cardinality(names \cap open) \in Nat
        /\ Cardinality(names) \in Nat /\ Cardinality(open) \in Nat
    BY <1>3, <1>4, <2>2, FS_CardinalityType
  <2>4. QED
    BY <2>1, <2>3
<1>6. /\ Cardinality(Keys) \in Nat /\ Cardinality(Instances) \in Nat /\ Cardinality(Inodes) \in Nat
      /\ Cardinality(names) \in Nat /\ Cardinality(open) \in Nat
      /\ Cardinality(names \cup open) \in Nat
  BY <1>3, <1>4, <1>5, InodesAssumption, FS_CardinalityType
<1>7. Cardinality(names \cup open) < Cardinality(Inodes)
  BY <1>2, <1>3, <1>4, <1>5, <1>6, InodesAssumption
<1>8. ~(Inodes \subseteq names \cup open)
  <2> SUFFICES ASSUME Inodes \subseteq names \cup open PROVE FALSE
    OBVIOUS
  <2>1. Cardinality(Inodes) <= Cardinality(names \cup open)
    BY <1>5, FS_Subset
  <2>2. QED
    BY <1>6, <1>7, <2>1
<1>9. DOMAIN content = Live
  BY DEF Good, Shapes
<1>10. QED
  BY <1>1, <1>8, <1>9


\* Opening the file of key k, a new one or the one it has, to write.
LEMMA OpenKeeps ==
    ASSUME Good, NEW p \in Instances, call[p].step = "open",
           NEW k \in Keys, NEW v \in Values[k], NEW i \in Inodes, dir,
           IF file[k] = None THEN i \notin Live ELSE i = file[k],
           file' = [file EXCEPT ![k] = i],
           content' = [j \in DOMAIN content \cup {i} |-> IF j = i THEN <<>> ELSE content[j]],
           clean' = clean \ {i},
           call' = [Changed(call, k, Unknown) EXCEPT
                      ![p] = [step |-> "write", key |-> k, data |-> v, inode |-> i, pos |-> 0,
                              lost |-> FALSE, alone |-> Writers(k) = {}]],
           UNCHANGED dir
    PROVE  /\ Good'
           /\ \A q \in Instances : q # p => After(call[q], call'[q], k, Unknown)
           /\ ValueAfter(k) = Unknown
           /\ \A l \in Keys : l # k => ValueAfter(l) = ValueOf(l)
<1> DEFINE w == [step |-> "write", key |-> k, data |-> v, inode |-> i, pos |-> 0,
                 lost |-> FALSE, alone |-> Writers(k) = {}]
<1>1. v \in Seq(Blocks) /\ Len(v) \in Nat
  BY ValuesAssumption
<1>2. w \in Writing
  <2>1. (Writers(k) = {}) \in BOOLEAN
    OBVIOUS
  <2>2. w \in WriteCalls
    BY <1>1, <2>1 DEF WriteCalls
  <2>3. QED
    BY <1>1, <2>2 DEF Writing
<1>3. /\ call' \in [Instances -> Calls] /\ call'[p] = w
      /\ \A q \in Instances : q # p => After(call[q], call'[q], k, Unknown)
  <2>1. w \in Calls /\ Unknown \in Readings /\ Shapes
    BY <1>2 DEF Good, Calls, Holding, Readings
  <2>2. call' = [Changed(call, k, Unknown) EXCEPT ![p] = w]
    OBVIOUS
  <2> HIDE DEF w
  <2>3. QED
    BY <2>1, <2>2, ChangedCalls
<1>4. /\ w.step = "write" /\ w.key = k /\ w.data = v /\ w.inode = i /\ w.pos = 0
      /\ w.alone = (Writers(k) = {})
  OBVIOUS
<1> HIDE DEF w
<1>5. \A q \in Instances : q # p =>
        /\ call'[q].step = call[q].step
        /\ call'[q].step = "write" <=> Writes(q)
        /\ call'[q].step = "read" <=> Reads(q)
        /\ Holds(q) <=> call'[q] \in Holding
        /\ Holds(q) => /\ call'[q].key = call[q].key /\ call'[q].inode = call[q].inode
                       /\ call[q].inode \in Live /\ call[q].key \in Keys
  <2> SUFFICES ASSUME NEW q \in Instances, q # p
               PROVE  /\ call'[q].step = call[q].step
                      /\ Holds(q) <=> call'[q] \in Holding
                      /\ Holds(q) => /\ call'[q].key = call[q].key
                                     /\ call'[q].inode = call[q].inode
                                     /\ call[q].inode \in Live /\ call[q].key \in Keys
    BY DEF Writes, Reads, At
  <2>1. call[q] \in Calls /\ call'[q] \in Calls /\ After(call[q], call'[q], k, Unknown)
    BY <1>3 DEF Good, Shapes
  <2>2. call'[q].step = call[q].step
    BY <2>1 DEF After
  <2>3. Holds(q) <=> call[q].step \in {"write", "read"}
    BY <2>1, CallParts DEF Holds
  <2>4. call'[q] \in Holding <=> call'[q].step \in {"write", "read"}
    BY <2>1, CallParts
  <2>5. ASSUME Holds(q)
        PROVE  call'[q].key = call[q].key /\ call'[q].inode = call[q].inode
    BY <2>1, <2>3, <2>5 DEF After
  <2>6. ASSUME Holds(q)
        PROVE  call[q].inode \in Inodes /\ call[q].key \in Keys
    BY <2>6 DEF Holds, Holding, Writing, WriteCalls, ReadCalls
  <2>7. QED
    BY <2>2, <2>3, <2>4, <2>5, <2>6 DEF Live
<1>6. ~Holds(p) /\ ~Writes(p) /\ call'[p] \in Holding
  BY <1>2, <1>3, CallParts DEF Good, Shapes, Holds, Writes, At, Holding
<1>7. /\ file' \in [Keys -> Inodes \cup {None}] /\ file'[k] = i
      /\ \A l \in Keys : l # k => file'[l] = file[l] /\ file[l] # i
  <2>1. file \in [Keys -> Inodes \cup {None}]
    BY DEF Good, Shapes
  <2>2. \A l \in Keys : l # k => file[l] # i
    <3> SUFFICES ASSUME NEW l \in Keys, l # k, file[l] = i PROVE FALSE
      OBVIOUS
    <3>1. CASE file[k] = None
      BY <3>1 DEF Live
    <3>2. CASE file[k] # None
      BY <3>2, <2>1 DEF Good, NamesOK
    <3>3. QED
      BY <3>1, <3>2
  <2>3. QED
    BY <2>1, <2>2
<1>8. Live' = Live \cup {i}
  <2>1. \A j \in Live' : j \in Live \cup {i}
    <3> SUFFICES ASSUME NEW j \in Live', j # i PROVE j \in Live
      OBVIOUS
    <3>1. CASE \E l \in Keys : file'[l] = j
      BY <1>7, <3>1 DEF Live
    <3>2. CASE \E q \in Instances : call'[q] \in Holding /\ call'[q].inode = j
      BY <1>3, <1>4, <1>5, <3>2
    <3>3. QED
      BY <3>1, <3>2 DEF Live, Holds
  <2>2. i \in Live'
    BY <1>7 DEF Live
  <2>3. \A j \in Live : j # i => j \in Live'
    <3> SUFFICES ASSUME NEW j \in Live, j # i PROVE j \in Live'
      OBVIOUS
    <3>1. CASE \E l \in Keys : file[l] = j
      <4>1. PICK l \in Keys : file[l] = j
        BY <3>1
      <4>2. l # k
        BY <4>1, MarkersAssumption DEF Live
      <4>3. QED
        BY <1>7, <4>1, <4>2 DEF Live
    <3>2. CASE \E q \in Instances : Holds(q) /\ call[q].inode = j
      BY <1>5, <1>6, <3>2 DEF Live, Holds
    <3>3. QED
      BY <3>1, <3>2 DEF Live
  <2>4. QED
    BY <2>1, <2>2, <2>3
<1>9. /\ content' \in [Live' -> Seq(Blocks)] /\ content'[i] = <<>>
      /\ \A j \in Live : j # i => content'[j] = content[j]
  <2>1. content \in [Live -> Seq(Blocks)]
    BY DEF Good, Shapes
  <2>2. <<>> \in Seq(Blocks)
    OBVIOUS
  <2> HIDE DEF Live
  <2>3. QED
    BY <1>8, <2>1, <2>2
<1>10. Shapes'
  BY <1>3, <1>7, <1>9 DEF Good, Shapes
<1>11. NamesOK'
  <2>1. \A l, m \in Keys : file'[l] # None /\ file'[l] = file'[m] => l = m
    BY <1>7 DEF Good, NamesOK
  <2>2. \A j \in clean' : \E l \in Keys : file'[l] = j
    <3> SUFFICES ASSUME NEW j \in clean' PROVE \E l \in Keys : file'[l] = j
      OBVIOUS
    <3>1. j # i /\ j \in Inodes
      BY DEF Good, Shapes
    <3>2. PICK l \in Keys : file[l] = j
      BY DEF Good, NamesOK
    <3>3. l # k
      BY <3>1, <3>2, MarkersAssumption
    <3>4. QED
      BY <1>7, <3>2, <3>3
  <2>3. QED
    BY <2>1, <2>2 DEF NamesOK
<1>12. \A q \in Instances : q # p /\ Holds(q) /\ call[q].inode = i => call[q].key = k
  <2> SUFFICES ASSUME NEW q \in Instances, q # p, Holds(q), call[q].inode = i
               PROVE  call[q].key = k
    OBVIOUS
  <2>1. i \in Live
    BY <1>5
  <2>2. QED
    BY <2>1 DEF Good, HeldByKey
<1>13. HeldByKey'
  <2> SUFFICES ASSUME NEW q \in Instances, NEW l \in Keys, call'[q] \in Holding,
                      file'[l] = call'[q].inode
               PROVE  l = call'[q].key
    BY DEF HeldByKey, Holds
  <2>1. CASE q = p
    BY <1>3, <1>4, <1>7, <2>1
  <2>2. CASE q # p
    <3>1. Holds(q) /\ call'[q].key = call[q].key /\ call'[q].inode = call[q].inode
      BY <1>5, <2>2
    <3>2. CASE l = k
      BY <1>7, <1>12, <2>2, <3>1, <3>2
    <3>3. CASE l # k
      BY <1>7, <3>1, <3>3 DEF Good, HeldByKey
    <3>4. QED
      BY <3>2, <3>3
  <2>3. QED
    BY <2>1, <2>2
<1>14. \A q \in Instances : q # p /\ Writes(q) =>
         /\ call'[q].data = call[q].data /\ call'[q].pos = call[q].pos
         /\ call'[q].alone = IF call[q].key = k THEN FALSE ELSE call[q].alone
         /\ Holds(q)
  <2> SUFFICES ASSUME NEW q \in Instances, q # p, Writes(q)
               PROVE  /\ call'[q].data = call[q].data /\ call'[q].pos = call[q].pos
                      /\ call'[q].alone = IF call[q].key = k THEN FALSE ELSE call[q].alone
                      /\ Holds(q)
    OBVIOUS
  <2>1. Holds(q)
    BY CallParts DEF Good, Shapes, Writes, At, Holds
  <2>2. After(call[q], call'[q], k, Unknown)
    BY <1>3
  <2>3. QED
    BY <2>1, <2>2 DEF After, Writes, At
<1>15. AloneIsOnly'
  <2> SUFFICES ASSUME NEW q \in Instances, NEW r \in Instances, call'[q].step = "write",
                      call'[r].step = "write", call'[q].alone, call'[r].key = call'[q].key
               PROVE  r = q
    BY DEF AloneIsOnly, Writes, At
  <2>1. CASE q = p
    <3> SUFFICES ASSUME r # p PROVE FALSE
      BY <2>1
    <3>1. Writes(r) /\ call[r].key = k
      BY <1>3, <1>4, <1>5, <1>14, <2>1
    <3>2. Writers(k) = {}
      BY <1>3, <1>4, <2>1
    <3>3. QED
      BY <3>1, <3>2 DEF Writers, Writes
  <2>2. CASE q # p
    <3>1. Writes(q) /\ call'[q].key = call[q].key
      BY <1>5, <1>14, <2>2
    <3>2. call[q].key # k /\ call[q].alone
      BY <1>14, <2>2, <3>1
    <3>3. r # p
      BY <1>3, <1>4, <3>1, <3>2
    <3>4. Writes(r) /\ call[r].key = call[q].key
      BY <1>5, <1>14, <3>1, <3>3
    <3>5. QED
      BY <3>1, <3>2, <3>4 DEF Good, AloneIsOnly
  <2>3. QED
    BY <2>1, <2>2
<1>16. LoneWriterExact'
  <2> SUFFICES ASSUME NEW q \in Instances, call'[q].step = "write"
               PROVE  /\ call'[q].alone =>
                            /\ file'[call'[q].key] = call'[q].inode
                            /\ content'[call'[q].inode] = SubSeq(call'[q].data, 1, call'[q].pos)
                      /\ call'[q].inode \notin clean'
    BY DEF LoneWriterExact, At
  <2>1. CASE q = p
    <3>1. SubSeq(v, 1, 0) = <<>>
      BY <1>1
    <3>2. QED
      BY <1>3, <1>4, <1>7, <1>9, <2>1, <3>1
  <2>2. CASE q # p
    <3>1. /\ Writes(q) /\ Holds(q) /\ call'[q].key = call[q].key /\ call'[q].inode = call[q].inode
          /\ call[q].inode \in Live /\ call[q].key \in Keys
      BY <1>5, <1>14, <2>2
    <3>2. call[q].inode \notin clean'
      BY <3>1 DEF Good, LoneWriterExact, Writes
    <3>3. ASSUME call'[q].alone
          PROVE  /\ file'[call[q].key] = call[q].inode
                 /\ content'[call[q].inode] = SubSeq(call'[q].data, 1, call'[q].pos)
      <4>1. call[q].key # k /\ call[q].alone
        BY <1>14, <2>2, <3>1, <3>3
      <4>2. file[call[q].key] = call[q].inode
            /\ content[call[q].inode] = SubSeq(call[q].data, 1, call[q].pos)
        BY <3>1, <4>1 DEF Good, LoneWriterExact, Writes
      <4>3. call[q].inode # i
        BY <1>12, <2>2, <3>1, <4>1
      <4>4. QED
        BY <1>7, <1>9, <1>14, <2>2, <3>1, <4>1, <4>2, <4>3
    <3>4. QED
      BY <3>1, <3>2, <3>3
  <2>3. QED
    BY <2>1, <2>2
<1>17. CleanIsValue'
  <2> SUFFICES ASSUME NEW l \in Keys, file'[l] \in clean' PROVE content'[file'[l]] \in Values[l]
    BY DEF CleanIsValue
  <2>1. l # k /\ file'[l] = file[l] /\ file[l] \in clean /\ file[l] # i
    BY <1>7
  <2>2. file[l] \in Live
    BY <2>1 DEF Good, Shapes, Live
  <2>3. QED
    BY <1>9, <2>1, <2>2 DEF Good, CleanIsValue
<1>18. ValueAfter(k) = Unknown
  BY <1>7, MarkersAssumption DEF ValueAfter
<1>19. \A l \in Keys : l # k => ValueAfter(l) = ValueOf(l)
  <2> SUFFICES ASSUME NEW l \in Keys, l # k PROVE ValueAfter(l) = ValueOf(l)
    OBVIOUS
  <2>1. file'[l] = file[l] /\ file[l] # i /\ (file[l] \in clean' <=> file[l] \in clean)
    BY <1>7
  <2>2. file[l] # None => file[l] \in Live
    BY DEF Good, Shapes, Live
  <2>3. QED
    BY <1>9, <2>1, <2>2 DEF ValueAfter, ValueOf
<1>20. ReadersKnow'
  <2> SUFFICES ASSUME NEW q \in Instances, call'[q].step = "read"
               PROVE  /\ ValueAfter(call'[q].key) \in call'[q].seen
                      /\ Unknown \notin call'[q].seen =>
                            /\ content'[call'[q].inode] \in call'[q].seen
                            /\ Len(content'[call'[q].inode]) = call'[q].size
                            /\ \A r \in Instances : call'[r].step = "write" =>
                                  call'[r].inode # call'[q].inode
    BY DEF ReadersKnow, Reads, Writes, At, ValueOf, ValueAfter
  <2>1. q # p
    BY <1>3, <1>4
  <2>2. Reads(q) /\ After(call[q], call'[q], k, Unknown)
    BY <1>3, <1>5, <2>1
  <2>3. Holds(q)
    BY <2>2, CallParts DEF Good, Shapes, Reads, At, Holds
  <2>4. /\ call'[q].size = call[q].size /\ call'[q].key = call[q].key
        /\ call'[q].inode = call[q].inode /\ call[q].inode \in Live /\ call[q].key \in Keys
        /\ call'[q].seen = IF call[q].key = k THEN call[q].seen \cup {Unknown} ELSE call[q].seen
    BY <1>5, <2>1, <2>2, <2>3 DEF After, Reads, At
  <2>5. CASE call[q].key = k
    BY <1>18, <2>4, <2>5
  <2>6. CASE call[q].key # k
    <3>1. call[q].inode # i
      BY <1>12, <2>1, <2>3, <2>6
    <3>2. ValueAfter(call[q].key) \in call'[q].seen
      BY <1>19, <2>2, <2>4, <2>6 DEF Good, ReadersKnow
    <3>3. ASSUME Unknown \notin call[q].seen, NEW r \in Instances, call'[r].step = "write"
          PROVE  call'[r].inode # call[q].inode
      <4>1. CASE r = p
        BY <1>3, <1>4, <3>1, <4>1
      <4>2. CASE r # p
        <5>1. Writes(r) /\ call'[r].inode = call[r].inode
          BY <1>5, <1>14, <3>3, <4>2
        <5>2. QED
          BY <2>2, <3>3, <5>1 DEF Good, ReadersKnow
      <4>3. QED
        BY <4>1, <4>2
    <3>4. content'[call[q].inode] = content[call[q].inode]
      BY <1>9, <2>4, <3>1
    <3>5. QED
      BY <2>2, <2>4, <2>6, <3>2, <3>3, <3>4 DEF Good, ReadersKnow
  <2>7. QED
    BY <2>5, <2>6
<1>21. QED
  BY <1>3, <1>10, <1>11, <1>13, <1>15, <1>16, <1>17, <1>18, <1>19, <1>20 DEF Good


\* A file with a block more is a file, and one that held the first n - 1 blocks
\* of the data holds the first n.
LEMMA PutBlock ==
    ASSUME NEW c \in Seq(Blocks), NEW d \in Seq(Blocks), NEW n \in 1..Len(d)
    PROVE  /\ Put(c, n, d[n]) \in Seq(Blocks)
           /\ c = SubSeq(d, 1, n - 1) => Put(c, n, d[n]) = SubSeq(d, 1, n)
<1> DEFINE m == IF n > Len(c) THEN n ELSE Len(c)
           f == [x \in 1..m |-> CASE x = n -> d[n] [] x # n /\ x <= Len(c) -> c[x] [] OTHER -> Nul]
<1>1. Put(c, n, d[n]) = f
  BY DEF Put
<1>2. m \in Nat /\ Nul \in Blocks /\ d[n] \in Blocks
  BY DEF Blocks
<1>3. \A x \in 1..m : f[x] \in Blocks
  BY <1>2
<1>4. f \in Seq(Blocks)
  <2>1. f \in [1..m -> Blocks]
    BY <1>3
  <2> HIDE DEF f, m
  <2>2. QED
    BY <1>2, <2>1
<1>5. ASSUME c = SubSeq(d, 1, n - 1)
      PROVE  f = SubSeq(d, 1, n)
  <2>1. Len(c) = n - 1 /\ \A x \in 1..n - 1 : c[x] = d[x]
    BY <1>5
  <2>2. m = n /\ \A x \in 1..n : f[x] = d[x]
    BY <2>1
  <2>3. SubSeq(d, 1, n) = [x \in 1..n |-> d[x]]
    OBVIOUS
  <2>4. f = [x \in 1..n |-> f[x]]
    BY <2>2
  <2> HIDE DEF f, m
  <2>5. QED
    BY <2>2, <2>3, <2>4
<1>6. QED
  BY <1>1, <1>4, <1>5

\* Writing a block, or failing to: only the file that is written to differs, and
\* nobody relies on it.
LEMMA BlockKeeps ==
    ASSUME Good, NEW p \in Instances, writeFileBlock(p)
    PROVE  /\ Good'
           /\ \A k \in Keys : ValueAfter(k) = ValueOf(k)
           /\ \A q \in Instances : q # p => call'[q] = call[q]
           /\ call'[p] \in Writing /\ Writes(p) /\ call'[p].key = call[p].key
           /\ call'[p].data = call[p].data /\ call'[p].alone = call[p].alone
<1> DEFINE w == call[p]
           i == w.inode
           n == w.pos + 1
<1>1. /\ Writes(p) /\ w.pos < Len(w.data)
      /\ UNCHANGED <<dir, file, clean>>
      /\ \/ /\ content' = [content EXCEPT ![i] = Put(content[i], n, w.data[n])]
            /\ call' = [call EXCEPT ![p].pos = n]
         \/ /\ call' = [call EXCEPT ![p].lost = TRUE]
            /\ UNCHANGED content
  BY DEF writeFileBlock, Writes
<1>2. call \in [Instances -> Calls] /\ content \in [Live -> Seq(Blocks)]
  BY DEF Good, Shapes
<1>3. w \in Writing
  BY <1>1, <1>2, CallParts DEF Writes, At
<1>4. /\ w.key \in Keys /\ w.data \in Values[w.key] /\ w.data \in Seq(Blocks) /\ i \in Inodes
      /\ w.pos \in Nat /\ Holds(p) /\ n \in 1..Len(w.data)
  BY <1>1, <1>3 DEF Writing, WriteCalls, Holds, Holding
<1>5. i \in Live /\ content[i] \in Seq(Blocks)
  BY <1>2, <1>4 DEF Live
<1>6. /\ call'[p] \in Writing /\ call'[p].key = w.key /\ call'[p].inode = i
      /\ call'[p].data = w.data /\ call'[p].alone = w.alone
      /\ \A q \in Instances : q # p => call'[q] = call[q]
      /\ call' = [q \in Instances |-> call'[q]]
  <2>1. CASE call' = [call EXCEPT ![p].pos = n]
    <3>1. call'[p] = [w EXCEPT !.pos = n] /\ call' = [q \in Instances |-> call'[q]]
          /\ \A q \in Instances : q # p => call'[q] = call[q]
      BY <1>2, <2>1
    <3>2. n \in Nat /\ n <= Len(w.data)
      BY <1>4
    <3> HIDE DEF w, n
    <3>3. QED
      BY <1>3, <3>1, <3>2 DEF Writing, WriteCalls, i
  <2>2. CASE call' = [call EXCEPT ![p].lost = TRUE]
    <3>1. call'[p] = [w EXCEPT !.lost = TRUE] /\ call' = [q \in Instances |-> call'[q]]
          /\ \A q \in Instances : q # p => call'[q] = call[q]
      BY <1>2, <2>2
    <3> HIDE DEF w
    <3>2. QED
      BY <1>3, <3>1 DEF Writing, WriteCalls, i
  <2>3. QED
    BY <1>1, <2>1, <2>2
<1>7. call' \in [Instances -> Calls] /\ call'[p] \in Holding /\ call'[p].step = "write"
  <2>1. call'[p] \in Calls /\ call'[p] \in Holding
    BY <1>6 DEF Calls, Holding
  <2>2. \A q \in Instances : call'[q] \in Calls
    BY <1>2, <1>6, <2>1
  <2>3. call'[p].step = "write"
    BY <1>6, <2>1, CallParts
  <2> HIDE DEF w
  <2>4. QED
    BY <1>6, <2>1, <2>2, <2>3
<1>8. Live' = Live
  <2>1. \A q \in Instances : /\ call'[q] \in Holding <=> call[q] \in Holding
                             /\ call[q] \in Holding => call'[q].inode = call[q].inode
    BY <1>4, <1>6, <1>7 DEF Holds
  <2>2. QED
    BY <1>1, <2>1 DEF Live, Holds
<1>9. /\ content' \in [Live' -> Seq(Blocks)]
      /\ \A j \in Live : j # i => content'[j] = content[j]
  <2>1. CASE content' = [content EXCEPT ![i] = Put(content[i], n, w.data[n])]
    <3>1. Put(content[i], n, w.data[n]) \in Seq(Blocks)
      BY <1>4, <1>5, PutBlock
    <3> HIDE DEF Live, w, i, n
    <3>2. QED
      BY <1>2, <1>5, <1>8, <2>1, <3>1
  <2>2. CASE UNCHANGED content
    BY <1>2, <1>8, <2>2
  <2>3. QED
    BY <1>1, <2>1, <2>2
<1>10. Shapes' /\ NamesOK'
  BY <1>1, <1>7, <1>9 DEF Good, Shapes, NamesOK, Stored
<1>11. i \notin clean
  BY <1>1 DEF Good, LoneWriterExact, Writes
<1> HIDE DEF w, i, n
<1>12. \A k \in Keys : file[k] \in clean => content'[file[k]] = content[file[k]]
  <2> SUFFICES ASSUME NEW k \in Keys, file[k] \in clean
               PROVE  content'[file[k]] = content[file[k]]
    OBVIOUS
  <2>1. file[k] \in Live
    BY DEF Good, Shapes, Live
  <2>2. QED
    BY <1>9, <1>11, <2>1
<1>13. CleanIsValue'
  BY <1>1, <1>12 DEF Good, CleanIsValue
<1>14. \A k \in Keys : ValueAfter(k) = ValueOf(k)
  BY <1>1, <1>12 DEF ValueAfter, ValueOf
<1>15. HeldByKey'
  BY <1>1, <1>4, <1>6 DEF Good, HeldByKey, Holds, w, i
<1>16. AloneIsOnly'
  BY <1>1, <1>6, <1>7 DEF Good, AloneIsOnly, Writes, At, w
<1>17. \A q \in Instances : q # p /\ Holds(q) => call[q].inode \in Live
  BY DEF Live, Holds, Holding, Writing, WriteCalls, ReadCalls
<1>18. LoneWriterExact'
  <2> SUFFICES ASSUME NEW q \in Instances, call'[q].step = "write"
               PROVE  /\ call'[q].alone =>
                            /\ file[call'[q].key] = call'[q].inode
                            /\ content'[call'[q].inode] = SubSeq(call'[q].data, 1, call'[q].pos)
                      /\ call'[q].inode \notin clean
    BY <1>1 DEF LoneWriterExact, At
  <2>1. CASE q = p
    <3>1. i \notin clean /\ (w.alone => file[w.key] = i /\ content[i] = SubSeq(w.data, 1, w.pos))
      BY <1>1 DEF Good, LoneWriterExact, Writes, w, i
    <3>2. ASSUME w.alone PROVE content'[i] = SubSeq(w.data, 1, call'[p].pos)
      <4>1. content[i] = SubSeq(w.data, 1, w.pos) /\ w.pos = n - 1 /\ n \in Nat
        BY <1>4, <3>1, <3>2 DEF n
      <4>2. CASE content' = [content EXCEPT ![i] = Put(content[i], n, w.data[n])]
                 /\ call' = [call EXCEPT ![p].pos = n]
        <5>1. content'[i] = Put(content[i], n, w.data[n])
          BY <1>2, <1>5, <4>2
        <5>2. Put(content[i], n, w.data[n]) = SubSeq(w.data, 1, n)
          BY <1>4, <1>5, <4>1, PutBlock
        <5>3. call'[p] = [w EXCEPT !.pos = n]
          BY <1>2, <4>2 DEF w
        <5>4. call'[p].pos = n
          BY <1>3, <5>3 DEF Writing, WriteCalls
        <5>5. QED
          BY <5>1, <5>2, <5>4
      <4>3. CASE call' = [call EXCEPT ![p].lost = TRUE] /\ UNCHANGED content
        <5>1. call'[p] = [w EXCEPT !.lost = TRUE]
          BY <1>2, <4>3 DEF w
        <5>2. call'[p].pos = w.pos
          BY <1>3, <5>1 DEF Writing, WriteCalls
        <5>3. QED
          BY <4>1, <4>3, <5>2
      <4>4. QED
        BY <1>1, <4>2, <4>3 DEF w, i, n
    <3>3. QED
      BY <1>6, <2>1, <3>1, <3>2
  <2>2. CASE q # p
    <3>1. call'[q] = call[q] /\ Writes(q) /\ Holds(q)
      BY <1>2, <1>6, <2>2, CallParts DEF Writes, At, Holds
    <3>2. call[q].inode \notin clean
      BY <3>1 DEF Good, LoneWriterExact, Writes
    <3>3. ASSUME call[q].alone
          PROVE  /\ file[call[q].key] = call[q].inode
                 /\ content'[call[q].inode] = SubSeq(call[q].data, 1, call[q].pos)
      <4>1. /\ file[call[q].key] = call[q].inode
            /\ content[call[q].inode] = SubSeq(call[q].data, 1, call[q].pos)
        BY <3>1, <3>3 DEF Good, LoneWriterExact, Writes
      <4>2. call[q].inode # i
        <5> SUFFICES ASSUME call[q].inode = i PROVE FALSE
          OBVIOUS
        <5>1. call[q].key \in Keys
          BY <3>1 DEF Holds, Holding, Writing, WriteCalls, ReadCalls
        <5>2. call[q].key = w.key
          BY <1>4, <4>1, <5>1 DEF Good, HeldByKey, w, i
        <5>3. QED
          BY <1>1, <2>2, <3>1, <3>3, <5>2 DEF Good, AloneIsOnly, w
      <4>3. QED
        BY <1>9, <1>17, <2>2, <3>1, <4>1, <4>2
    <3>4. QED
      BY <3>1, <3>2, <3>3
  <2>3. QED
    BY <2>1, <2>2
<1>19. ReadersKnow'
  <2> SUFFICES ASSUME NEW q \in Instances, call'[q].step = "read"
               PROVE  /\ ValueAfter(call'[q].key) \in call'[q].seen
                      /\ Unknown \notin call'[q].seen =>
                            /\ content'[call'[q].inode] \in call'[q].seen
                            /\ Len(content'[call'[q].inode]) = call'[q].size
                            /\ \A r \in Instances : call'[r].step = "write" =>
                                  call'[r].inode # call'[q].inode
    BY DEF ReadersKnow, Reads, Writes, At, ValueOf, ValueAfter
  <2>1. q # p /\ call'[q] = call[q] /\ Reads(q)
    BY <1>6, <1>7 DEF Reads, At
  <2>2. Holds(q) /\ call[q].key \in Keys
    <3>1. call[q] \in ReadCalls
      BY <1>2, <2>1, CallParts DEF Reads, At
    <3>2. QED
      BY <3>1 DEF Holds, Holding, ReadCalls
  <2>3. \A r \in Instances : call'[r].step = "write" => Writes(r) /\ call'[r].inode = call[r].inode
    BY <1>1, <1>6 DEF Writes, At, w, i
  <2>4. ValueAfter(call[q].key) \in call[q].seen
    BY <1>14, <2>1, <2>2 DEF Good, ReadersKnow
  <2>5. Unknown \notin call[q].seen => call[q].inode # i
    BY <1>1, <2>1 DEF Good, ReadersKnow, i, w
  <2>6. QED
    BY <1>9, <1>17, <2>1, <2>2, <2>3, <2>4, <2>5 DEF Good, ReadersKnow
<1>20. QED
  BY <1>1, <1>6, <1>10, <1>13, <1>14, <1>15, <1>16, <1>18, <1>19 DEF Good, w

\* Opening a file to read: what is known of its key is noted.
LEMMA BeginReadKeeps ==
    ASSUME Good, NEW p \in Instances, call[p] \in Loose, NEW k \in Keys, file[k] # None,
           call' = [call EXCEPT ![p] = [step |-> "read", key |-> k, inode |-> file[k],
                                        size |-> Len(content[file[k]]), seen |-> {ValueOf(k)}]],
           UNCHANGED <<dir, file, content, clean>>
    PROVE  /\ Good'
           /\ \A q \in Instances : q # p => call'[q] = call[q]
           /\ call'[p] = [step |-> "read", key |-> k, inode |-> file[k],
                          size |-> Len(content[file[k]]), seen |-> {ValueOf(k)}]
           /\ \A l \in Keys : ValueAfter(l) = ValueOf(l)
<1> DEFINE r == [step |-> "read", key |-> k, inode |-> file[k],
                 size |-> Len(content[file[k]]), seen |-> {ValueOf(k)}]
<1>1. /\ call \in [Instances -> Calls] /\ content \in [Live -> Seq(Blocks)]
      /\ file[k] \in Inodes /\ file[k] \in Live
  BY DEF Good, Shapes, Live
<1>2. ValueOf(k) = IF file[k] \in clean THEN content[file[k]] ELSE Unknown
  BY DEF ValueOf
<1>3. ValueOf(k) \in Readings /\ content[file[k]] \in Seq(Blocks) /\ Len(content[file[k]]) \in Nat
  BY <1>1, <1>2 DEF Readings
<1>4. r \in ReadCalls
  BY <1>1, <1>3 DEF ReadCalls
<1>5. /\ r.step = "read" /\ r.key = k /\ r.inode = file[k] /\ r.size = Len(content[file[k]])
      /\ r.seen = {ValueOf(k)}
  OBVIOUS
<1>6. call' = [call EXCEPT ![p] = r]
  OBVIOUS
<1>7. \A l \in Keys : ValueAfter(l) = ValueOf(l)
  BY DEF ValueAfter, ValueOf
<1> HIDE DEF r
<1>8. /\ call' \in [Instances -> Calls] /\ call'[p] = r
      /\ \A q \in Instances : q # p => call'[q] = call[q]
  BY <1>1, <1>4, <1>6 DEF Calls, Holding
<1>9. ~Holds(p) /\ ~Writes(p) /\ call'[p] \in Holding
  BY <1>1, <1>4, <1>8, CallParts DEF Holds, Writes, At, Holding
<1>10. Live' = Live
  <2>1. \A q \in Instances : q # p => (call'[q] \in Holding <=> Holds(q))
    BY <1>8 DEF Holds
  <2>2. QED
    BY <1>1, <1>5, <1>8, <1>9, <2>1 DEF Live, Holds
<1>11. Shapes' /\ NamesOK' /\ CleanIsValue'
  BY <1>8, <1>10 DEF Good, Shapes, NamesOK, Stored, CleanIsValue
<1>12. HeldByKey'
  BY <1>5, <1>8, <1>9 DEF Good, HeldByKey, NamesOK, Holds
<1>13. \A q \in Instances : call'[q].step = "write" => q # p /\ Writes(q) /\ call'[q] = call[q]
  BY <1>5, <1>8 DEF Writes, At
<1>14. AloneIsOnly'
  BY <1>13 DEF Good, AloneIsOnly, Writes, At
<1>15. LoneWriterExact'
  BY <1>13 DEF Good, LoneWriterExact, Writes, At
<1>16. ReadersKnow'
  <2> SUFFICES ASSUME NEW q \in Instances, call'[q].step = "read"
               PROVE  /\ ValueAfter(call'[q].key) \in call'[q].seen
                      /\ Unknown \notin call'[q].seen =>
                            /\ content[call'[q].inode] \in call'[q].seen
                            /\ Len(content[call'[q].inode]) = call'[q].size
                            /\ \A x \in Instances : call'[x].step = "write" =>
                                  call'[x].inode # call'[q].inode
    BY DEF ReadersKnow, Reads, Writes, At, ValueOf, ValueAfter
  <2>1. CASE q = p
    <3>1. ASSUME Unknown # ValueOf(k) PROVE file[k] \in clean /\ ValueOf(k) = content[file[k]]
      BY <1>2, <3>1
    <3>2. file[k] \in clean => \A x \in Instances : call'[x].step = "write" =>
                                  call'[x].inode # file[k]
      BY <1>13 DEF Good, LoneWriterExact, Writes
    <3>3. QED
      BY <1>5, <1>7, <1>8, <2>1, <3>1, <3>2
  <2>2. CASE q # p
    <3>1. call'[q] = call[q] /\ Reads(q)
      BY <1>8, <2>2 DEF Reads, At
    <3>2. call[q].key \in Keys
      BY <1>1, <3>1, CallParts DEF Reads, At, ReadCalls
    <3>3. QED
      BY <1>7, <1>13, <3>1, <3>2 DEF Good, ReadersKnow
  <2>3. QED
    BY <2>1, <2>2
<1>17. QED
  BY <1>7, <1>8, <1>11, <1>12, <1>14, <1>15, <1>16 DEF Good, r


\* A step of a call that neither holds a file nor gets one, and changes none.
LEMMA LooseKeeps ==
    ASSUME Good, NEW p \in Instances, call[p] \in Loose, NEW c \in Loose,
           call' = [call EXCEPT ![p] = c], UNCHANGED <<file, content, clean>>,
           dir' \in BOOLEAN, Stored # {} => dir'
    PROVE  /\ Good'
           /\ \A k \in Keys : ValueAfter(k) = ValueOf(k)
<1>1. call \in [Instances -> Calls] /\ content \in [Live -> Seq(Blocks)]
  BY DEF Good, Shapes
<1>2. call'[p] = c /\ \A q \in Instances : q # p => call'[q] = call[q]
  BY <1>1
<1>3. call[p].step \notin {"write", "read"}
  BY <1>1, CallParts
<1>4. \A j \in Live : \/ \E k \in Keys : file'[k] = j
                      \/ \E q \in Instances : call'[q].step \in {"write", "read"} /\ call'[q].inode = j
  <2> SUFFICES ASSUME NEW j \in Live, ~\E k \in Keys : file[k] = j
               PROVE  \E q \in Instances : call'[q].step \in {"write", "read"} /\ call'[q].inode = j
    OBVIOUS
  <2>1. PICK q \in Instances : call[q] \in Holding /\ call[q].inode = j
    BY DEF Live, Holds
  <2>2. call[q].step \in {"write", "read"}
    BY <1>1, <2>1, CallParts
  <2>3. QED
    BY <1>2, <1>3, <2>1, <2>2
<1>5. Kept(file', call') = Live
  BY <1>1, <1>4 DEF Kept
<1>6. Reclaim
  <2>1. content = [j \in Live |-> content[j]]
    BY <1>1
  <2>2. QED
    BY <1>5, <2>1 DEF Reclaim
<1>7. QED
  BY <1>6, ReleaseKeeps

\* Answers are not Quiet and say what was called and by whom.
LEMMA AnswerParts ==
    ASSUME NEW p \in Instances, NEW m \in Methods, NEW code \in Codes
    PROVE  /\ Answer(p, m, code) \in AnswerType
           /\ Answer(p, m, code) # Quiet
           /\ Answer(p, m, code).by = p /\ Answer(p, m, code).to = m
           /\ Answer(p, m, code).code = code
<1>1. <<>> \in Seq(Blocks)
  OBVIOUS
<1>2. Answer(p, m, code) \in AnswerType
  BY <1>1 DEF Answer, AnswerType
<1>3. /\ Answer(p, m, code).by = p /\ Answer(p, m, code).to = m
      /\ Answer(p, m, code).code = code
  BY DEF Answer
<1>4. QED
  BY <1>2, <1>3, MarkersAssumption

\* Which file writeFile opens, and what it holds then.
LEMMA OpenStep ==
    ASSUME Good, NEW p \in Instances, writeFileOpen(p), reply' = Quiet
    PROVE  LET k == call[p].key
           IN /\ k \in Keys /\ call[p].data \in Values[k] /\ reply' = Quiet
              /\ Good'
              /\ \A q \in Instances : q # p => After(call[q], call'[q], k, Unknown)
              /\ call'[p].step = "write" /\ call'[p].key = k /\ call'[p].data = call[p].data
              /\ call'[p].alone = (Writers(k) = {})
              /\ ValueAfter(k) = Unknown
              /\ \A l \in Keys : l # k => ValueAfter(l) = ValueOf(l)
<1> DEFINE k == call[p].key
           new == file[k] = None
           i == IF new THEN CHOOSE j \in Inodes : j \notin DOMAIN content ELSE file[k]
           w == [step |-> "write", key |-> k, data |-> call[p].data, inode |-> i, pos |-> 0,
                 lost |-> FALSE, alone |-> Writers(k) = {}]
<1>1. Answer(p, "setData", "NE_ST_STKEYWE") # Quiet
  BY AnswerParts DEF Methods, Codes
<1>2. /\ call[p].step = "open" /\ dir /\ UNCHANGED dir
      /\ file' = [file EXCEPT ![k] = i]
      /\ content' = [j \in DOMAIN content \cup {i} |-> IF j = i THEN <<>> ELSE content[j]]
      /\ clean' = clean \ {i}
      /\ call' = [Changed(call, k, Unknown) EXCEPT ![p] = w]
      /\ reply' = Quiet
  BY <1>1 DEF writeFileOpen, At, Opened
<1>3. /\ call[p] \in Calls /\ DOMAIN content = Live
      /\ file \in [Keys -> Inodes \cup {None}]
  BY DEF Good, Shapes
<1>4. k \in Keys /\ call[p].data \in Values[k] /\ call[p] \in Loose
  BY <1>2, <1>3, CallParts
<1>5. i \in Inodes /\ IF file[k] = None THEN i \notin Live ELSE i = file[k]
  <2>1. CASE new
    <3>1. \E j \in Inodes : j \notin DOMAIN content
      BY <1>4, <2>1, FreshInode
    <3>2. QED
      BY <1>3, <2>1, <3>1
  <2>2. CASE ~new
    BY <1>3, <1>4, <2>2
  <2>3. QED
    BY <2>1, <2>2
<1> HIDE DEF i, k
<1>6. /\ Good'
      /\ \A q \in Instances : q # p => After(call[q], call'[q], k, Unknown)
      /\ ValueAfter(k) = Unknown
      /\ \A l \in Keys : l # k => ValueAfter(l) = ValueOf(l)
  BY <1>2, <1>4, <1>5, OpenKeeps
<1>7. call'[p] = w
  BY <1>2 DEF Changed
<1>8. /\ call'[p].step = "write" /\ call'[p].key = k /\ call'[p].data = call[p].data
      /\ call'[p].alone = (Writers(k) = {})
  BY <1>7
<1>9. QED
  BY <1>2, <1>4, <1>6, <1>8 DEF k


-----------------------------------------------------------------------------
(* The refinement mapping. *)

\* The set and the get that a call is.
LEMMA MapParts ==
    ASSUME NEW c \in Calls
    PROVE  /\ c.step = "write" => /\ SetOf(c) # None /\ SetOf(c).key = c.key
                                  /\ SetOf(c).data = c.data /\ SetOf(c).alone = c.alone
                                  /\ SetOf(c) \in [key : Keys, data : Seq(Blocks), alone : BOOLEAN]
           /\ c.step # "write" => SetOf(c) = None
           /\ c.step = "read" => /\ GetOf(c) # None /\ GetOf(c).key = c.key
                                 /\ GetOf(c).seen = c.seen
                                 /\ GetOf(c) \in [key : Keys, seen : SUBSET Readings]
           /\ c.step # "read" => GetOf(c) = None
<1>1. ASSUME c.step = "write"
      PROVE  /\ SetOf(c) # None /\ SetOf(c).key = c.key
             /\ SetOf(c).data = c.data /\ SetOf(c).alone = c.alone
             /\ SetOf(c) \in [key : Keys, data : Seq(Blocks), alone : BOOLEAN]
  <2> DEFINE s == [key |-> c.key, data |-> c.data, alone |-> c.alone]
  <2>1. c.key \in Keys /\ c.data \in Seq(Blocks) /\ c.alone \in BOOLEAN
    BY <1>1, CallParts DEF Writing, WriteCalls
  <2>2. s \in [key : Keys, data : Seq(Blocks), alone : BOOLEAN]
    BY <2>1
  <2>3. SetOf(c) = s
    BY <1>1 DEF SetOf
  <2>4. s.key = c.key /\ s.data = c.data /\ s.alone = c.alone
    OBVIOUS
  <2> HIDE DEF s
  <2>5. QED
    BY <2>2, <2>3, <2>4, MarkersAssumption
<1>2. ASSUME c.step = "read"
      PROVE  /\ GetOf(c) # None /\ GetOf(c).key = c.key /\ GetOf(c).seen = c.seen
             /\ GetOf(c) \in [key : Keys, seen : SUBSET Readings]
  <2> DEFINE g == [key |-> c.key, seen |-> c.seen]
  <2>1. c.key \in Keys /\ c.seen \in SUBSET Readings
    BY <1>2, CallParts DEF ReadCalls
  <2>2. g \in [key : Keys, seen : SUBSET Readings]
    BY <2>1
  <2>3. GetOf(c) = g
    BY <1>2 DEF GetOf
  <2>4. g.key = c.key /\ g.seen = c.seen
    OBVIOUS
  <2>5. None \notin [key : Keys, seen : SUBSET Readings]
    BY MarkersAssumption DEF Readings
  <2> HIDE DEF g
  <2>6. QED
    BY <2>2, <2>3, <2>4, <2>5
<1>3. QED
  BY <1>1, <1>2 DEF SetOf, GetOf

\* A record of a set with another last field.
LEMMA AloneRecord ==
    ASSUME NEW s \in [key : Keys, data : Seq(Blocks), alone : BOOLEAN], NEW x
    PROVE  [s EXCEPT !.alone = x] = [key |-> s.key, data |-> s.data, alone |-> x]
OBVIOUS

\* What the change of a key's value makes of a set and of a get.
LEMMA AfterMaps ==
    ASSUME NEW c \in Calls, NEW d, NEW k \in Keys, NEW v \in Readings, After(c, d, k, v)
    PROVE  /\ SetOf(d) = IF SetOf(c) # None /\ SetOf(c).key = k
                         THEN [SetOf(c) EXCEPT !.alone = FALSE] ELSE SetOf(c)
           /\ GetOf(d) = IF GetOf(c) # None /\ GetOf(c).key = k
                         THEN [GetOf(c) EXCEPT !.seen = @ \cup {v}] ELSE GetOf(c)
<1>1. d.step = c.step /\ d \in Calls
  BY DEF After
<1>2. SetOf(d) = IF SetOf(c) # None /\ SetOf(c).key = k
                 THEN [SetOf(c) EXCEPT !.alone = FALSE] ELSE SetOf(c)
  <2>1. CASE c.step # "write"
    BY <1>1, <2>1, MapParts
  <2>2. CASE c.step = "write"
    <3> DEFINE s == SetOf(c)
    <3>1. /\ s # None /\ s.key = c.key /\ s.data = c.data /\ s.alone = c.alone
          /\ s \in [key : Keys, data : Seq(Blocks), alone : BOOLEAN]
      BY <2>2, MapParts
    <3>2. SetOf(d) = [key |-> d.key, data |-> d.data, alone |-> d.alone]
      BY <1>1, <2>2 DEF SetOf
    <3>3. /\ d.key = s.key /\ d.data = s.data
          /\ d.alone = IF s.key = k THEN FALSE ELSE s.alone
      BY <2>2, <3>1 DEF After
    <3> HIDE DEF s
    <3>4. SetOf(d) = IF s.key = k THEN [s EXCEPT !.alone = FALSE] ELSE s
      <4>1. CASE s.key = k
        <5>1. SetOf(d) = [key |-> s.key, data |-> s.data, alone |-> FALSE]
          BY <3>2, <3>3, <4>1
        <5>2. [s EXCEPT !.alone = FALSE] = [key |-> s.key, data |-> s.data, alone |-> FALSE]
          BY <3>1, AloneRecord
        <5>3. QED
          BY <4>1, <5>1, <5>2
      <4>2. CASE s.key # k
        <5>1. SetOf(d) = [key |-> s.key, data |-> s.data, alone |-> s.alone]
          BY <3>2, <3>3, <4>2
        <5>2. s = [key |-> s.key, data |-> s.data, alone |-> s.alone]
          BY <3>1
        <5>3. QED
          BY <4>2, <5>1, <5>2
      <4>3. QED
        BY <4>1, <4>2
    <3>5. QED
      BY <3>1, <3>4 DEF s
  <2>3. QED
    BY <2>1, <2>2
<1>3. GetOf(d) = IF GetOf(c) # None /\ GetOf(c).key = k
                 THEN [GetOf(c) EXCEPT !.seen = @ \cup {v}] ELSE GetOf(c)
  <2>1. CASE c.step # "read"
    BY <1>1, <2>1, MapParts
  <2>2. CASE c.step = "read"
    <3> DEFINE g == GetOf(c)
    <3>1. /\ g # None /\ g.key = c.key /\ g.seen = c.seen
          /\ g \in [key : Keys, seen : SUBSET Readings]
      BY <2>2, MapParts
    <3>2. GetOf(d) = [key |-> d.key, seen |-> d.seen]
      BY <1>1, <2>2 DEF GetOf
    <3>3. d.key = g.key /\ d.seen = IF g.key = k THEN g.seen \cup {v} ELSE g.seen
      BY <2>2, <3>1 DEF After
    <3> HIDE DEF g
    <3>4. GetOf(d) = IF g.key = k THEN [g EXCEPT !.seen = @ \cup {v}] ELSE g
      BY <3>1, <3>2, <3>3
    <3>5. QED
      BY <3>1, <3>4 DEF g
  <2>3. QED
    BY <2>1, <2>2
<1>4. QED
  BY <1>2, <1>3

\* The state of SafeStore after the step.
LEMMA NowAfter ==
    /\ StoreNow' = [k \in Keys |-> ValueAfter(k)]
    /\ SetsNow' = [p \in Instances |-> SetOf(call'[p])]
    /\ GetsNow' = [p \in Instances |-> GetOf(call'[p])]
BY DEF StoreNow, SetsNow, GetsNow, ValueOf, ValueAfter, SetOf, GetOf

\* Gets under way note the new value of a key: those of other keys know the
\* value of theirs already.
LEMMA NotedNow ==
    ASSUME Good, NEW p \in Instances, NEW k \in Keys, NEW v \in Readings,
           call' \in [Instances -> Calls],
           \A q \in Instances : q # p => After(call[q], call'[q], k, v),
           ~Reads(p), call'[p].step # "read",
           ValueAfter(k) = v, \A l \in Keys : l # k => ValueAfter(l) = ValueOf(l)
    PROVE  /\ StoreNow' = [StoreNow EXCEPT ![k] = v]
           /\ GetsNow' = Abstract!Noted
           /\ \A q \in Instances : q # p => SetsNow'[q] = Abstract!Disturbed(k)[q]
<1>1. call \in [Instances -> Calls]
  BY DEF Good, Shapes
<1>2. /\ StoreNow' = [l \in Keys |-> ValueAfter(l)]
      /\ \A q \in Instances : SetsNow'[q] = SetOf(call'[q]) /\ SetsNow[q] = SetOf(call[q])
      /\ GetsNow' = [q \in Instances |-> GetOf(call'[q])]
      /\ \A q \in Instances : GetsNow[q] = GetOf(call[q])
  BY NowAfter DEF SetsNow, GetsNow
<1>3. StoreNow' = [StoreNow EXCEPT ![k] = v]
  BY <1>2 DEF StoreNow
<1>4. ASSUME NEW q \in Instances
      PROVE  GetOf(call'[q]) = IF GetsNow[q] = None THEN None
                               ELSE [GetsNow[q] EXCEPT !.seen = @ \cup {StoreNow'[GetsNow[q].key]}]
  <2> DEFINE g == GetOf(call[q])
  <2>1. call[q] \in Calls /\ call'[q] \in Calls /\ GetsNow[q] = g
    BY <1>1, <1>2
  <2>2. CASE call[q].step # "read"
    <3>1. g = None
      BY <2>1, <2>2, MapParts
    <3>2. GetOf(call'[q]) = None
      <4>1. CASE q = p
        BY <2>1, <4>1, MapParts
      <4>2. CASE q # p
        BY <2>1, <3>1, <4>2, AfterMaps
      <4>3. QED
        BY <4>1, <4>2
    <3>3. QED
      BY <2>1, <3>1, <3>2
  <2>3. CASE call[q].step = "read"
    <3>1. /\ g # None /\ g.key = call[q].key /\ g.seen = call[q].seen
          /\ g \in [key : Keys, seen : SUBSET Readings]
      BY <2>1, <2>3, MapParts
    <3>2. q # p
      BY <2>3 DEF Reads, At
    <3>3. GetOf(call'[q]) = IF g.key = k THEN [g EXCEPT !.seen = @ \cup {v}] ELSE g
      BY <2>1, <3>1, <3>2, AfterMaps
    <3>4. g.key \in Keys /\ StoreNow'[g.key] = ValueAfter(g.key)
      BY <1>2, <3>1
    <3>5. ValueOf(g.key) \in g.seen
      BY <2>3, <3>1 DEF Good, ReadersKnow, Reads, At
    <3> HIDE DEF g
    <3>6. CASE g.key = k
      <4>1. StoreNow'[g.key] = v
        BY <3>4, <3>6
      <4>2. QED
        BY <2>1, <3>1, <3>3, <3>6, <4>1
    <3>7. CASE g.key # k
      <4>1. StoreNow'[g.key] = ValueOf(g.key)
        BY <3>4, <3>7
      <4>2. g.seen \cup {StoreNow'[g.key]} = g.seen
        BY <3>5, <4>1
      <4>3. [g EXCEPT !.seen = g.seen \cup {StoreNow'[g.key]}] = g
        BY <3>1, <4>2
      <4>4. QED
        BY <2>1, <3>1, <3>3, <3>7, <4>3
    <3>8. QED
      BY <3>6, <3>7
  <2>4. QED
    BY <2>2, <2>3
<1>5. GetsNow' = Abstract!Noted
  BY <1>2, <1>4 DEF Abstract!Noted
<1>6. ASSUME NEW q \in Instances, q # p
      PROVE  SetsNow'[q] = Abstract!Disturbed(k)[q]
  <2>1. call[q] \in Calls /\ After(call[q], call'[q], k, v)
    BY <1>1, <1>6
  <2>2. SetOf(call'[q]) = IF SetOf(call[q]) # None /\ SetOf(call[q]).key = k
                          THEN [SetOf(call[q]) EXCEPT !.alone = FALSE] ELSE SetOf(call[q])
    BY <2>1, AfterMaps
  <2>3. QED
    BY <1>2, <2>2 DEF Abstract!Disturbed, Abstract!Writers
<1>7. QED
  BY <1>3, <1>5, <1>6


\* The keys getKeys gives back as they are: those in whose name nothing looks
\* like the extension.
KeysComeBack == \A k \in Keys : KeyOf(FileName(k)) = k

\* SafeStore sees no change.
Unseen == StoreNow' = StoreNow /\ SetsNow' = SetsNow /\ GetsNow' = GetsNow

\* A step that answers nothing and that SafeStore does not see.
LEMMA IdleNext ==
    ASSUME Unseen, reply' = Quiet
    PROVE  ReplyOK' /\ Abstract!Next
<1>1. Abstract!Idle
  BY DEF Abstract!Idle, Unseen
<1>2. QED
  BY <1>1 DEF ReplyOK, Abstract!Next

\* A call that fails.
LEMMA FailNext ==
    ASSUME NEW p \in Instances, NEW m \in Methods, NEW code \in Abstract!Errors, Unseen,
           reply' = Answer(p, m, code)
    PROVE  ReplyOK' /\ Abstract!Next
<1>1. code \in Codes
  BY DEF Abstract!Errors, Codes
<1>2. reply' # Quiet /\ reply'.by = p /\ reply'.code = code
  BY <1>1, AnswerParts
<1>3. Abstract!Fail
  BY <1>2 DEF Abstract!Fail, Unseen
<1>4. QED
  BY <1>1, <1>2, <1>3 DEF ReplyOK, Abstract!Next

\* A step between two calls that hold no file.
LEMMA LooseStep ==
    ASSUME Good, NEW p \in Instances, call[p] \in Loose, NEW c \in Loose,
           call' = [call EXCEPT ![p] = c], UNCHANGED <<file, content, clean>>,
           dir' \in BOOLEAN, Stored # {} => dir'
    PROVE  Good' /\ Unseen
<1>1. Good' /\ \A k \in Keys : ValueAfter(k) = ValueOf(k)
  BY LooseKeeps
<1>2. call \in [Instances -> Calls]
  BY DEF Good, Shapes
<1>3. call'[p] = c /\ \A q \in Instances : q # p => call'[q] = call[q]
  BY <1>2
<1>4. SetOf(c) = None /\ GetOf(c) = None /\ SetOf(call[p]) = None /\ GetOf(call[p]) = None
  <2>1. c \in Calls /\ call[p] \in Calls
    BY <1>2 DEF Calls
  <2>2. c.step \notin {"write", "read"} /\ call[p].step \notin {"write", "read"}
    BY <2>1, CallParts
  <2>3. QED
    BY <2>2 DEF SetOf, GetOf
<1>5. StoreNow' = StoreNow
  BY <1>1, NowAfter DEF StoreNow
<1>6. SetsNow' = SetsNow /\ GetsNow' = GetsNow
  BY <1>3, <1>4, NowAfter DEF SetsNow, GetsNow
<1>7. QED
  BY <1>1, <1>5, <1>6 DEF Unseen

\* The same when the call stays as it is.
LEMMA SameCall ==
    ASSUME Good, NEW p \in Instances, At(p, "idle"), UNCHANGED <<call, file, content, clean>>,
           dir' \in BOOLEAN, Stored # {} => dir'
    PROVE  Good' /\ Unseen
<1>1. call \in [Instances -> Calls] /\ call[p] \in Loose
  BY CallParts DEF Good, Shapes, At
<1>2. call' = [call EXCEPT ![p] = call[p]]
  BY <1>1
<1>3. QED
  BY <1>1, <1>2, LooseStep

\* The shapes of the calls that hold no file.
LEMMA LooseCalls ==
    /\ NoCall \in Loose
    /\ [step |-> "list"] \in Loose
    /\ \A k \in Keys : [step |-> "remove", key |-> k] \in Loose
    /\ \A k \in Keys : \A v \in Values[k] : [step |-> "open", key |-> k, data |-> v] \in Loose
    /\ \A T \in SUBSET Keys : [step |-> "clear", todo |-> T] \in Loose
<1>1. \A k \in Keys : \A v \in Values[k] : [step |-> "open", key |-> k, data |-> v] \in Loose
  <2> SUFFICES ASSUME NEW k \in Keys, NEW v \in Values[k]
               PROVE  [step |-> "open", key |-> k, data |-> v] \in Loose
    OBVIOUS
  <2>1. [step |-> "open", key |-> k, data |-> v] \in OpenCalls
    BY ValuesAssumption DEF OpenCalls
  <2>2. QED
    BY <2>1 DEF Loose
<1>2. QED
  BY <1>1 DEF Loose, NoCall

\* A call that is not at write or read holds no file; the directory is there
\* if there are names.
LEMMA StepFacts ==
    ASSUME Good, NEW p \in Instances
    PROVE  /\ call[p] \in Calls
           /\ call[p].step \notin {"write", "read"} => call[p] \in Loose
           /\ dir \in BOOLEAN /\ (Stored # {} => dir)
BY CallParts DEF Good, Shapes, NamesOK

\* Calls that are refused.
LEMMA ValidateStep ==
    ASSUME Good, NEW p \in Instances, __validateStorageBucket(p)
    PROVE  Good' /\ ReplyOK' /\ Abstract!Next
<1>1. PICK e \in {"NE_RT_NATRTER", "NE_ST_INVSTKY"} :
        /\ At(p, "idle") /\ UNCHANGED <<dir, file, content, call, clean>>
        /\ reply' = Answer(p, "refused", e)
  BY DEF __validateStorageBucket
<1>2. Good' /\ Unseen
  BY <1>1, StepFacts, SameCall
<1>3. e \in Abstract!Errors
  BY DEF Abstract!Errors
<1>4. QED
  BY <1>1, <1>2, <1>3, FailNext DEF Methods

\* setData up to the call of writeFile or of the removal.
LEMMA SetDataStep ==
    ASSUME Good, NEW p \in Instances, setData(p)
    PROVE  Good' /\ ReplyOK' /\ Abstract!Next
<1>1. At(p, "idle") /\ UNCHANGED <<file, content, clean>> /\ call[p] \in Loose
  BY StepFacts DEF setData, At
<1>2. CASE /\ dir' \in {dir, TRUE} /\ reply' = Answer(p, "setData", "NE_RT_NATRTER")
           /\ UNCHANGED call
  <2>1. Good' /\ Unseen
    <3>1. dir' \in BOOLEAN
      BY <1>2, StepFacts
    <3>2. dir' = dir \/ dir' = TRUE
      BY <1>2
    <3>3. Stored # {} => dir'
      <4>1. Stored # {} => dir
        BY StepFacts
      <4>2. CASE dir' = dir
        BY <4>1, <4>2
      <4>3. CASE dir' = TRUE
        BY <4>3
      <4>4. QED
        BY <3>2, <4>2, <4>3
    <3>4. QED
      BY <1>1, <1>2, <3>1, <3>3, SameCall
  <2>2. "NE_RT_NATRTER" \in Abstract!Errors
    BY DEF Abstract!Errors
  <2>3. QED
    BY <1>2, <2>1, <2>2, FailNext DEF Methods
<1>3. ASSUME NEW c \in Loose, dir' = TRUE, reply' = Quiet, call' = [call EXCEPT ![p] = c]
      PROVE  Good' /\ ReplyOK' /\ Abstract!Next
  <2>1. Good' /\ Unseen
    BY <1>1, <1>3, LooseStep
  <2>2. QED
    BY <1>3, <2>1, IdleNext
<1>4. QED
  BY <1>2, <1>3, LooseCalls DEF setData

\* Ends of calls, between a loose call and none.
LEMMA FinishLoose ==
    ASSUME Good, NEW p \in Instances, call[p] \in Loose, call' = [call EXCEPT ![p] = NoCall],
           UNCHANGED <<dir, file, content, clean>>
    PROVE  Good' /\ Unseen
BY LooseStep, LooseCalls, StepFacts

\* writeFile opens the file: a set begins, or fails.
LEMMA OpenFileStep ==
    ASSUME Good, NEW p \in Instances, writeFileOpen(p)
    PROVE  Good' /\ ReplyOK' /\ Abstract!Next
<1>1. call[p].step = "open" /\ call[p] \in Loose /\ call \in [Instances -> Calls]
  BY StepFacts DEF writeFileOpen, At, Good, Shapes
<1>2. CASE reply' = Quiet
  <2> DEFINE k == call[p].key
             v == call[p].data
  <2>1. /\ k \in Keys /\ v \in Values[k] /\ reply' = Quiet
        /\ Good'
        /\ \A q \in Instances : q # p => After(call[q], call'[q], k, Unknown)
        /\ call'[p].step = "write" /\ call'[p].key = k /\ call'[p].data = v
        /\ call'[p].alone = (Writers(k) = {})
        /\ ValueAfter(k) = Unknown
        /\ \A l \in Keys : l # k => ValueAfter(l) = ValueOf(l)
    BY <1>2, OpenStep
  <2> HIDE DEF k, v
  <2>2. ~Reads(p) /\ call' \in [Instances -> Calls] /\ Unknown \in Readings
    BY <1>1, <2>1 DEF Reads, At, Good, Shapes, Readings
  <2>3. /\ StoreNow' = [StoreNow EXCEPT ![k] = Unknown]
        /\ GetsNow' = Abstract!Noted
        /\ \A q \in Instances : q # p => SetsNow'[q] = Abstract!Disturbed(k)[q]
    BY <2>1, <2>2, NotedNow
  <2>4. \A q \in Instances : SetsNow[q] # None /\ SetsNow[q].key = k <=> q \in Writers(k)
    <3> SUFFICES ASSUME NEW q \in Instances
                 PROVE  SetOf(call[q]) # None /\ SetOf(call[q]).key = k <=> q \in Writers(k)
      BY DEF SetsNow
    <3>1. QED
      BY <1>1, MapParts DEF Writers, At
  <2>5. Abstract!Writers(k) = Writers(k)
    BY <2>4 DEF Abstract!Writers, Writers
  <2>6. SetsNow[p] = None
    BY <1>1, MapParts DEF SetsNow
  <2>7. SetsNow'[p] = [key |-> k, data |-> v, alone |-> Abstract!Writers(k) = {}]
    <3>1. SetsNow'[p] = SetOf(call'[p])
      BY NowAfter
    <3>2. SetOf(call'[p]) = [key |-> call'[p].key, data |-> call'[p].data, alone |-> call'[p].alone]
      BY <2>1 DEF SetOf
    <3>3. QED
      BY <2>1, <2>5, <3>1, <3>2, Zenon
  <2>8. SetsNow' = [Abstract!Disturbed(k) EXCEPT
                      ![p] = [key |-> k, data |-> v, alone |-> Abstract!Writers(k) = {}]]
    <3>1. SetsNow' = [q \in Instances |-> SetsNow'[q]]
      BY NowAfter
    <3>2. Abstract!Disturbed(k) = [q \in Instances |-> Abstract!Disturbed(k)[q]]
      BY DEF Abstract!Disturbed
    <3> DEFINE s == [key |-> k, data |-> v, alone |-> Abstract!Writers(k) = {}]
    <3>3. SetsNow'[p] = s
      BY <2>7
    <3> HIDE DEF s
    <3>4. SetsNow' = [Abstract!Disturbed(k) EXCEPT ![p] = s]
      BY <2>3, <3>1, <3>2, <3>3
    <3>5. QED
      BY <3>4 DEF s
  <2>9. Abstract!BeginSet(p, k, v)
    BY <2>1, <2>3, <2>6, <2>8 DEF Abstract!BeginSet
  <2>10. QED
    BY <2>1, <2>9 DEF Abstract!Next, ReplyOK
<1>3. CASE /\ call' = [call EXCEPT ![p] = NoCall] /\ reply' = Answer(p, "setData", "NE_ST_STKEYWE")
           /\ UNCHANGED <<dir, file, content, clean>>
  <2>1. Good' /\ Unseen
    BY <1>1, <1>3, FinishLoose
  <2>2. "NE_ST_STKEYWE" \in Abstract!Errors
    BY DEF Abstract!Errors
  <2>3. QED
    BY <1>3, <2>1, <2>2, FailNext DEF Methods
<1>4. QED
  BY <1>2, <1>3 DEF writeFileOpen


\* A block is written: SafeStore does not see it.
LEMMA BlockStep ==
    ASSUME Good, NEW p \in Instances, writeFileBlock(p)
    PROVE  Good' /\ ReplyOK' /\ Abstract!Next
<1>1. /\ Good'
      /\ \A k \in Keys : ValueAfter(k) = ValueOf(k)
      /\ \A q \in Instances : q # p => call'[q] = call[q]
      /\ call'[p] \in Writing /\ Writes(p) /\ call'[p].key = call[p].key
      /\ call'[p].data = call[p].data /\ call'[p].alone = call[p].alone
  BY BlockKeeps
<1>2. StoreNow' = StoreNow
  BY <1>1, NowAfter DEF StoreNow
<1>3. SetOf(call'[p]) = SetOf(call[p]) /\ GetOf(call'[p]) = GetOf(call[p])
  <2>1. call'[p].step = "write" /\ call[p].step = "write"
    BY <1>1 DEF Writes, At, Writing, WriteCalls
  <2>2. QED
    BY <1>1, <2>1 DEF SetOf, GetOf
<1>4. SetsNow' = SetsNow /\ GetsNow' = GetsNow
  BY <1>1, <1>3, NowAfter DEF SetsNow, GetsNow
<1>5. reply' = Quiet
  BY DEF writeFileBlock
<1>6. QED
  BY <1>1, <1>2, <1>4, <1>5, IdleNext DEF Unseen

\* A call that held a file ends, and the file may go: SafeStore sees a set that
\* is lost, a get that ends, or nothing.
LEMMA FinishStep ==
    ASSUME Good, NEW p \in Instances, call' = [call EXCEPT ![p] = NoCall],
           UNCHANGED <<dir, file, clean>>, Reclaim
    PROVE  /\ Good' /\ StoreNow' = StoreNow
           /\ Writes(p) => SetsNow' = [SetsNow EXCEPT ![p] = None]
           /\ ~Writes(p) => SetsNow' = SetsNow
           /\ Reads(p) => GetsNow' = [GetsNow EXCEPT ![p] = None]
           /\ ~Reads(p) => GetsNow' = GetsNow
           /\ Writes(p) => SetsNow[p] # None
           /\ Reads(p) => GetsNow[p] # None
<1>1. Good' /\ \A k \in Keys : ValueAfter(k) = ValueOf(k)
  BY ReleaseKeeps, LooseCalls, StepFacts
<1>2. call \in [Instances -> Calls]
  BY DEF Good, Shapes
<1>3. call'[p] = NoCall /\ \A q \in Instances : q # p => call'[q] = call[q]
  BY <1>2
<1>4. StoreNow' = StoreNow
  BY <1>1, NowAfter DEF StoreNow
<1>5. SetOf(NoCall) = None /\ GetOf(NoCall) = None
  BY DEF SetOf, GetOf, NoCall
<1>6. /\ Writes(p) => SetsNow[p] # None
      /\ ~Writes(p) => SetsNow[p] = None
      /\ Reads(p) => GetsNow[p] # None
      /\ ~Reads(p) => GetsNow[p] = None
  BY <1>2, MapParts DEF SetsNow, GetsNow, Writes, Reads, At
<1>7. SetsNow' = [SetsNow EXCEPT ![p] = None] /\ GetsNow' = [GetsNow EXCEPT ![p] = None]
  <2>1. /\ SetsNow' = [q \in Instances |-> SetOf(call'[q])]
        /\ GetsNow' = [q \in Instances |-> GetOf(call'[q])]
    BY NowAfter
  <2>2. /\ SetsNow = [q \in Instances |-> SetOf(call[q])]
        /\ GetsNow = [q \in Instances |-> GetOf(call[q])]
    BY DEF SetsNow, GetsNow
  <2>3. \A q \in Instances : /\ SetsNow'[q] = IF q = p THEN None ELSE SetsNow[q]
                             /\ GetsNow'[q] = IF q = p THEN None ELSE GetsNow[q]
    BY <1>3, <1>5, <2>1, <2>2
  <2>4. /\ SetsNow' = [q \in Instances |-> SetsNow'[q]]
        /\ GetsNow' = [q \in Instances |-> GetsNow'[q]]
    BY <2>1
  <2>5. /\ SetsNow = [q \in Instances |-> SetsNow[q]]
        /\ GetsNow = [q \in Instances |-> GetsNow[q]]
    BY <2>2
  <2>6. QED
    BY <2>3, <2>4, <2>5
<1>8. SetsNow = [q \in Instances |-> SetsNow[q]] /\ GetsNow = [q \in Instances |-> GetsNow[q]]
  BY DEF SetsNow, GetsNow
<1>9. QED
  BY <1>1, <1>4, <1>6, <1>7, <1>8

\* The end of a set: the key has its value if nothing disturbed it.
LEMMA CloseStep ==
    ASSUME Good, NEW p \in Instances, writeFileClose(p)
    PROVE  Good' /\ ReplyOK' /\ Abstract!Next
<1> DEFINE w == call[p]
<1>1. /\ Writes(p) /\ (w.lost \/ w.pos = Len(w.data))
      /\ reply' = Answer(p, "setData", "success")
      /\ UNCHANGED <<dir, file>> /\ Reclaim
  BY DEF writeFileClose, Writes
<1>2. /\ call \in [Instances -> Calls] /\ w \in Writing /\ Holds(p) /\ ~Reads(p)
  BY <1>1, CallParts DEF Good, Shapes, Writes, Reads, At, Holds, Holding
<1>3. /\ ReplyOK' /\ Abstract!Answers(p, "setData", "success")
  <2>1. reply' # Quiet /\ reply'.by = p /\ reply'.to = "setData" /\ reply'.code = "success"
    BY <1>1, AnswerParts DEF Methods, Codes
  <2>2. QED
    BY <2>1 DEF ReplyOK, Abstract!Answers, Codes
<1>4. CASE w.alone /\ ~w.lost
  <2> DEFINE k == w.key
             v == w.data
  <2>1. /\ clean' = clean \cup {w.inode}
        /\ call' = [Changed(call, k, v) EXCEPT ![p] = NoCall]
        /\ w.pos = Len(v)
    BY <1>1, <1>4 DEF writeFileClose
  <2>2. k \in Keys /\ v \in Seq(Blocks) /\ v \in Readings
    BY <1>2 DEF Writing, WriteCalls, Readings
  <2>3. /\ Good'
        /\ \A q \in Instances : q # p => call'[q] \in Calls /\ After(call[q], call'[q], k, v)
        /\ ValueAfter(k) = v
        /\ \A l \in Keys : l # k => ValueAfter(l) = ValueOf(l)
    BY <1>1, <1>4, <2>1, SettleKeeps
  <2>4. call' \in [Instances -> Calls] /\ call'[p] = NoCall /\ call'[p].step # "read"
    <3>1. call'[p] = NoCall
      BY <2>1 DEF Changed
    <3>2. QED
      BY <2>3, <3>1 DEF Good, Shapes, NoCall
  <2>5. SetsNow[p].key = k /\ SetsNow[p].data = v /\ SetsNow[p].alone /\ SetsNow[p] # None
    BY <1>1, <1>2, <1>4, MapParts DEF SetsNow, Writes, At
  <2> HIDE DEF k, v
  <2>6. /\ StoreNow' = [StoreNow EXCEPT ![k] = v]
        /\ GetsNow' = Abstract!Noted
        /\ \A q \in Instances : q # p => SetsNow'[q] = Abstract!Disturbed(k)[q]
    BY <1>2, <2>2, <2>3, <2>4, NotedNow
  <2>7. \A q \in Instances : q # p => SetsNow'[q] = SetsNow[q]
    <3> SUFFICES ASSUME NEW q \in Instances, q # p PROVE SetsNow'[q] = SetsNow[q]
      OBVIOUS
    <3>1. ~(SetsNow[q] # None /\ SetsNow[q].key = k)
      <4> SUFFICES ASSUME SetsNow[q] # None, SetsNow[q].key = k PROVE FALSE
        OBVIOUS
      <4>1. Writes(q) /\ call[q].key = k
        BY <1>2, MapParts DEF SetsNow, Writes, At
      <4>2. QED
        BY <1>1, <1>4, <4>1 DEF Good, AloneIsOnly, k
    <3>2. QED
      BY <2>6, <3>1 DEF Abstract!Disturbed, Abstract!Writers
  <2>8. SetsNow' = [SetsNow EXCEPT ![p] = None]
    <3>1. SetsNow' = [q \in Instances |-> SetsNow'[q]] /\ SetsNow'[p] = SetOf(call'[p])
      BY NowAfter
    <3>2. SetOf(call'[p]) = None
      BY <2>4 DEF SetOf, NoCall
    <3>3. SetsNow = [q \in Instances |-> SetsNow[q]]
      BY DEF SetsNow
    <3>4. QED
      BY <2>7, <3>1, <3>2, <3>3
  <2>9. Abstract!EndSet(p)
    BY <1>3, <2>5, <2>6, <2>8 DEF Abstract!EndSet
  <2>10. QED
    BY <1>3, <2>3, <2>9 DEF Abstract!Next
<1>5. CASE ~(w.alone /\ ~w.lost)
  <2>1. call' = [call EXCEPT ![p] = NoCall] /\ UNCHANGED clean
    BY <1>5 DEF writeFileClose
  <2>2. /\ Good' /\ StoreNow' = StoreNow /\ SetsNow' = [SetsNow EXCEPT ![p] = None]
        /\ GetsNow' = GetsNow /\ SetsNow[p] # None
    BY <1>1, <1>2, <2>1, FinishStep
  <2>3. Abstract!LoseSet(p)
    BY <1>3, <2>2 DEF Abstract!LoseSet
  <2>4. QED
    BY <1>3, <2>2, <2>3 DEF Abstract!Next
<1>6. QED
  BY <1>4, <1>5

\* The process ends: a set or a get under way is lost.
LEMMA EndsStep ==
    ASSUME Good, NEW p \in Instances, Ends(p)
    PROVE  Good' /\ ReplyOK' /\ Abstract!Next
<1>1. /\ call' = [call EXCEPT ![p] = NoCall] /\ reply' = Quiet
      /\ UNCHANGED <<dir, file, clean>> /\ Reclaim
  BY DEF Ends
<1>2. /\ Good' /\ StoreNow' = StoreNow
      /\ Writes(p) => SetsNow' = [SetsNow EXCEPT ![p] = None]
      /\ ~Writes(p) => SetsNow' = SetsNow
      /\ Reads(p) => GetsNow' = [GetsNow EXCEPT ![p] = None]
      /\ ~Reads(p) => GetsNow' = GetsNow
      /\ Writes(p) => SetsNow[p] # None
      /\ Reads(p) => GetsNow[p] # None
  BY <1>1, FinishStep
<1>3. CASE Writes(p)
  <2>1. ~Reads(p)
    BY <1>3 DEF Writes, Reads, At
  <2>2. Abstract!LoseSet(p)
    BY <1>1, <1>2, <1>3, <2>1 DEF Abstract!LoseSet
  <2>3. QED
    BY <1>1, <1>2, <2>2 DEF Abstract!Next, ReplyOK
<1>4. CASE Reads(p)
  <2>1. ~Writes(p)
    BY <1>4 DEF Writes, Reads, At
  <2>2. Abstract!LoseGet(p)
    BY <1>1, <1>2, <1>4, <2>1 DEF Abstract!LoseGet
  <2>3. QED
    BY <1>1, <1>2, <2>2 DEF Abstract!Next, ReplyOK
<1>5. CASE ~Writes(p) /\ ~Reads(p)
  BY <1>1, <1>2, <1>5, IdleNext DEF Unseen
<1>6. QED
  BY <1>3, <1>4, <1>5

\* A key that has a file has a value, known or not.
LEMMA ValueIsThere ==
    ASSUME Good, NEW k \in Keys
    PROVE  (ValueOf(k) # None <=> file[k] # None) /\ StoreNow[k] = ValueOf(k)
<1>1. StoreNow[k] = ValueOf(k)
  BY DEF StoreNow
<1>2. file[k] \in clean => content[file[k]] \in Values[k] /\ content[file[k]] # None
  BY MarkersAssumption DEF Good, CleanIsValue
<1>3. QED
  BY <1>1, <1>2, MarkersAssumption DEF ValueOf


\* A name that is there is taken away: the key is removed.
LEMMA UnlinkMaps ==
    ASSUME Good, NEW p \in Instances, NEW c \in Loose, NEW k \in Keys, call[p] \in Loose,
           Unlink(k, [Changed(call, k, None) EXCEPT ![p] = c])
    PROVE  /\ Good'
           /\ StoreNow' = [StoreNow EXCEPT ![k] = None]
           /\ GetsNow' = Abstract!Noted
           /\ SetsNow' = Abstract!Disturbed(k)
<1>1. /\ Good'
      /\ \A q \in Instances : q # p => After(call[q], call'[q], k, None)
      /\ ValueAfter(k) = None
      /\ \A l \in Keys : l # k => ValueAfter(l) = ValueOf(l)
  BY UnlinkKeeps
<1>2. /\ call' \in [Instances -> Calls] /\ call \in [Instances -> Calls] /\ None \in Readings
  BY <1>1 DEF Good, Shapes, Readings
<1>3. call'[p] = c
  BY DEF Unlink, Changed
<1>4. /\ call[p].step \notin {"write", "read"} /\ call'[p].step \notin {"write", "read"}
  <2>1. c \in Calls
    BY DEF Calls
  <2>2. QED
    BY <1>2, <1>3, <2>1, CallParts
<1>5. ~Reads(p)
  BY <1>4 DEF Reads, At
<1>6. /\ StoreNow' = [StoreNow EXCEPT ![k] = None]
      /\ GetsNow' = Abstract!Noted
      /\ \A q \in Instances : q # p => SetsNow'[q] = Abstract!Disturbed(k)[q]
  BY <1>1, <1>2, <1>4, <1>5, NotedNow
<1>7. SetsNow'[p] = Abstract!Disturbed(k)[p]
  <2>1. SetsNow'[p] = SetOf(call'[p]) /\ SetsNow[p] = SetOf(call[p])
    BY NowAfter DEF SetsNow
  <2>2. SetsNow'[p] = None /\ SetsNow[p] = None
    BY <1>4, <2>1 DEF SetOf
  <2>3. QED
    BY <2>2 DEF Abstract!Disturbed, Abstract!Writers
<1>8. /\ SetsNow' = [q \in Instances |-> SetsNow'[q]]
      /\ Abstract!Disturbed(k) = [q \in Instances |-> Abstract!Disturbed(k)[q]]
  BY NowAfter DEF Abstract!Disturbed
<1>9. QED
  BY <1>1, <1>6, <1>7, <1>8

\* removeData, and setData without data.
LEMMA RemoveStep ==
    ASSUME Good, NEW p \in Instances, NEW k \in Keys, call[p] \in Loose,
           __removeStorageBucket(p, k)
    PROVE  Good' /\ ReplyOK' /\ Abstract!Next
<1>1. CASE /\ file[k] # None
           /\ Unlink(k, [Changed(call, k, None) EXCEPT ![p] = NoCall])
           /\ reply' = Answer(p, "removeData", "success")
  <2>1. /\ Good' /\ StoreNow' = [StoreNow EXCEPT ![k] = None]
        /\ GetsNow' = Abstract!Noted /\ SetsNow' = Abstract!Disturbed(k)
    BY <1>1, LooseCalls, UnlinkMaps
  <2>2. StoreNow[k] # None
    BY <1>1, ValueIsThere
  <2>3. reply' # Quiet /\ reply'.by = p /\ reply'.to = "removeData" /\ reply'.code = "success"
    BY <1>1, AnswerParts DEF Methods, Codes
  <2>4. Abstract!Remove(p, k)
    BY <2>1, <2>2, <2>3 DEF Abstract!Remove, Abstract!Answers
  <2>5. QED
    BY <2>1, <2>3, <2>4 DEF Abstract!Next, ReplyOK, Codes
<1>2. CASE /\ call' = [call EXCEPT ![p] = NoCall]
           /\ reply' = Answer(p, "removeData", "NE_ST_STKEYRE")
           /\ UNCHANGED <<dir, file, content, clean>>
  <2>1. Good' /\ Unseen
    BY <1>2, FinishLoose
  <2>2. "NE_ST_STKEYRE" \in Abstract!Errors
    BY DEF Abstract!Errors
  <2>3. QED
    BY <1>2, <2>1, <2>2, FailNext DEF Methods
<1>3. QED
  BY <1>1, <1>2 DEF __removeStorageBucket

\* clear takes a name away; one that another instance took away before is
\* nothing to SafeStore, since no set of the key is undisturbed then and every
\* get of it knows that it is gone.
LEMMA ClearFileStep ==
    ASSUME Good, NEW p \in Instances, clearFile(p)
    PROVE  Good' /\ ReplyOK' /\ Abstract!Next
<1>1. /\ At(p, "clear") /\ reply' = Quiet
      /\ call \in [Instances -> Calls] /\ call[p] \in Loose
      /\ call[p] \in [step : {"clear"}, todo : SUBSET Keys]
  BY CallParts DEF clearFile, At, Good, Shapes
<1>2. PICK k \in call[p].todo : Unlink(k, [Changed(call, k, None) EXCEPT ![p].todo = @ \ {k}])
  BY DEF clearFile
<1> DEFINE c == [step |-> "clear", todo |-> call[p].todo \ {k}]
<1>3. k \in Keys /\ c \in Loose
  BY <1>1, LooseCalls
<1>4. [Changed(call, k, None) EXCEPT ![p].todo = @ \ {k}] = [Changed(call, k, None) EXCEPT ![p] = c]
  <2>1. Changed(call, k, None)[p] = call[p]
    BY <1>1 DEF Changed, At
  <2>2. [call[p] EXCEPT !.todo = call[p].todo \ {k}] = c
    BY <1>1
  <2>3. QED
    BY <2>1, <2>2
<1>5. /\ Good' /\ StoreNow' = [StoreNow EXCEPT ![k] = None]
      /\ GetsNow' = Abstract!Noted /\ SetsNow' = Abstract!Disturbed(k)
  <2> HIDE DEF c
  <2>1. QED
    BY <1>1, <1>2, <1>3, <1>4, UnlinkMaps
<1>6. CASE file[k] # None
  <2>1. StoreNow[k] # None
    BY <1>3, <1>6, ValueIsThere
  <2>2. Abstract!Remove(p, k)
    BY <1>1, <1>5, <2>1 DEF Abstract!Remove
  <2>3. QED
    BY <1>1, <1>3, <1>5, <2>2 DEF Abstract!Next, ReplyOK
<1>7. CASE file[k] = None
  <2>1. StoreNow[k] = None
    BY <1>3, <1>7, ValueIsThere
  <2>2. StoreNow' = StoreNow
    BY <1>3, <1>5, <2>1 DEF StoreNow
  <2>3. ASSUME NEW q \in Instances
        PROVE  Abstract!Disturbed(k)[q] = SetsNow[q]
    <3>1. CASE SetsNow[q] # None /\ SetsNow[q].key = k
      <4>1. SetsNow[q] = SetOf(call[q]) /\ call[q] \in Calls
        BY <1>1 DEF SetsNow
      <4>2. call[q].step = "write" /\ call[q].key = k /\ SetsNow[q].alone = call[q].alone
            /\ SetsNow[q] \in [key : Keys, data : Seq(Blocks), alone : BOOLEAN]
        BY <3>1, <4>1, MapParts
      <4>3. call[q].inode \in Inodes
        BY <4>1, <4>2, CallParts DEF Writing, WriteCalls
      <4>4. ~call[q].alone
        BY <1>7, <4>2, <4>3, MarkersAssumption DEF Good, LoneWriterExact, At
      <4>5. SetsNow[q].alone \in BOOLEAN /\ ~SetsNow[q].alone
        BY <4>2, <4>4
      <4>6. SetsNow[q].alone = FALSE
        BY <4>5
      <4>7. SetsNow[q] = [key |-> SetsNow[q].key, data |-> SetsNow[q].data, alone |-> SetsNow[q].alone]
        BY <4>2
      <4>8. [SetsNow[q] EXCEPT !.alone = FALSE] = SetsNow[q]
        BY <4>2, <4>6, <4>7, AloneRecord
      <4>9. QED
        BY <3>1, <4>8 DEF Abstract!Disturbed, Abstract!Writers
    <3>2. CASE ~(SetsNow[q] # None /\ SetsNow[q].key = k)
      BY <3>2 DEF Abstract!Disturbed, Abstract!Writers
    <3>3. QED
      BY <3>1, <3>2
  <2>4. SetsNow' = SetsNow
    <3>1. Abstract!Disturbed(k) = [q \in Instances |-> Abstract!Disturbed(k)[q]]
      BY DEF Abstract!Disturbed
    <3>2. SetsNow = [q \in Instances |-> SetsNow[q]]
      BY DEF SetsNow
    <3>3. QED
      BY <1>5, <2>3, <3>1, <3>2
  <2>5. ASSUME NEW q \in Instances, GetsNow[q] # None
        PROVE  [GetsNow[q] EXCEPT !.seen = @ \cup {StoreNow'[GetsNow[q].key]}] = GetsNow[q]
    <3> DEFINE g == GetsNow[q]
    <3>1. g = GetOf(call[q]) /\ call[q] \in Calls
      BY <1>1 DEF GetsNow
    <3>2. call[q].step = "read" /\ g.key = call[q].key /\ g.seen = call[q].seen
          /\ g \in [key : Keys, seen : SUBSET Readings]
      BY <2>5, <3>1, MapParts
    <3>3. ValueOf(g.key) \in g.seen
      BY <3>2 DEF Good, ReadersKnow, Reads, At
    <3>4. StoreNow[g.key] = ValueOf(g.key)
      BY <3>2, ValueIsThere
    <3> HIDE DEF g
    <3>5. g.seen \cup {StoreNow'[g.key]} = g.seen
      BY <2>2, <3>3, <3>4
    <3>6. [g EXCEPT !.seen = g.seen \cup {StoreNow'[g.key]}] = g
      BY <3>2, <3>5
    <3>7. QED
      BY <3>6 DEF g
  <2>6. GetsNow' = GetsNow
    <3>1. GetsNow = [q \in Instances |-> GetsNow[q]]
      BY DEF GetsNow
    <3>2. Abstract!Noted = [q \in Instances |-> IF GetsNow[q] = None THEN None ELSE GetsNow[q]]
      BY <2>5 DEF Abstract!Noted
    <3>3. QED
      BY <1>5, <3>1, <3>2
  <2>7. QED
    BY <1>1, <1>5, <2>2, <2>4, <2>6, IdleNext DEF Unseen
<1>8. QED
  BY <1>6, <1>7

\* clear begins, and ends with the directory.
LEMMA ClearStep ==
    ASSUME Good, NEW p \in Instances, clear(p) \/ clearDir(p)
    PROVE  Good' /\ ReplyOK' /\ Abstract!Next
<1>1. call[p] \in Loose
  BY StepFacts DEF clear, clearDir, At
<1>2. CASE clear(p)
  <2>1. [step |-> "clear", todo |-> Stored] \in Loose
    BY LooseCalls DEF Stored
  <2>2. /\ call' = [call EXCEPT ![p] = [step |-> "clear", todo |-> Stored]]
        /\ UNCHANGED <<dir, file, content, clean>> /\ reply' = Quiet
    BY <1>2 DEF clear
  <2>3. Good' /\ Unseen
    BY <1>1, <2>1, <2>2, StepFacts, LooseStep
  <2>4. QED
    BY <2>2, <2>3, IdleNext
<1>3. CASE clearDir(p) /\ Stored = {}
  <2>1. /\ call' = [call EXCEPT ![p] = NoCall] /\ dir' = FALSE
        /\ UNCHANGED <<file, content, clean>> /\ reply' = Answer(p, "clear", "success")
    BY <1>3 DEF clearDir
  <2>2. Good' /\ Unseen
    BY <1>1, <1>3, <2>1, LooseCalls, LooseStep
  <2>3. reply' # Quiet /\ reply'.by = p /\ reply'.to = "clear" /\ reply'.code = "success"
    BY <2>1, AnswerParts DEF Methods, Codes
  <2>4. \A k \in Keys : StoreNow[k] = None
    BY <1>3, ValueIsThere DEF Stored
  <2>5. Abstract!Cleared(p)
    BY <2>2, <2>3, <2>4 DEF Abstract!Cleared, Abstract!Answers, Unseen
  <2>6. QED
    BY <2>2, <2>3, <2>5 DEF Abstract!Next, ReplyOK, Codes
<1>4. CASE clearDir(p) /\ Stored # {}
  <2>1. /\ call' = [call EXCEPT ![p] = NoCall]
        /\ UNCHANGED <<dir, file, content, clean>> /\ reply' = Answer(p, "clear", "NE_RT_NATRTER")
    BY <1>4 DEF clearDir
  <2>2. Good' /\ Unseen
    BY <1>1, <2>1, FinishLoose
  <2>3. "NE_RT_NATRTER" \in Abstract!Errors
    BY DEF Abstract!Errors
  <2>4. QED
    BY <2>1, <2>2, <2>3, FailNext DEF Methods
<1>5. QED
  BY <1>2, <1>3, <1>4


\* Filling an answer leaves who asked, for what, and the code.
LEMMA FilledSame ==
    ASSUME NEW p, NEW m, NEW code, NEW x
    PROVE  LET a == Answer(p, m, code)
           IN /\ [a EXCEPT !.key = x].by = p /\ [a EXCEPT !.key = x].to = m
              /\ [a EXCEPT !.key = x].code = code
              /\ [a EXCEPT !.data = x].by = p /\ [a EXCEPT !.data = x].to = m
              /\ [a EXCEPT !.data = x].code = code
              /\ [a EXCEPT !.keys = x].by = p /\ [a EXCEPT !.keys = x].to = m
              /\ [a EXCEPT !.keys = x].code = code
BY DEF Answer

\* readFile takes the size of the file: a get begins, or finds no file.
LEMMA GetDataStep ==
    ASSUME Good, NEW p \in Instances, getData(p)
    PROVE  Good' /\ ReplyOK' /\ Abstract!Next
<1>1. /\ At(p, "idle") /\ UNCHANGED <<dir, file, content, clean>>
      /\ call[p] \in Loose /\ call \in [Instances -> Calls]
  BY StepFacts DEF getData, At, Good, Shapes
<1>2. ASSUME NEW k \in Keys, file[k] = None, UNCHANGED call,
             reply' = [Answer(p, "getData", "NE_ST_NOSTKEX") EXCEPT !.key = k]
      PROVE  Good' /\ ReplyOK' /\ Abstract!Next
  <2>1. Good' /\ Unseen
    BY <1>1, <1>2, StepFacts, SameCall
  <2>2. reply' # Quiet /\ reply'.key = k
    <3>1. Answer(p, "getData", "NE_ST_NOSTKEX") \in AnswerType
      BY AnswerParts DEF Methods, Codes
    <3>2. reply' \in AnswerType /\ reply'.key = k
      BY <1>2, <3>1 DEF AnswerType
    <3>3. QED
      BY <3>2, MarkersAssumption
  <2>3. reply'.by = p /\ reply'.to = "getData" /\ reply'.code = "NE_ST_NOSTKEX"
    BY <1>2, FilledSame
  <2>4. StoreNow[k] = None
    BY <1>2, ValueIsThere
  <2>5. Abstract!GetAbsent(p)
    BY <2>1, <2>2, <2>3, <2>4 DEF Abstract!GetAbsent, Abstract!Answers, Unseen
  <2>6. QED
    BY <2>1, <2>2, <2>3, <2>5 DEF Abstract!Next, ReplyOK, Codes
<1>3. ASSUME NEW k \in Keys, file[k] # None, reply' = Quiet,
             call' = [call EXCEPT ![p] = [step |-> "read", key |-> k, inode |-> file[k],
                                          size |-> Len(content[file[k]]), seen |-> {ValueOf(k)}]]
      PROVE  Good' /\ ReplyOK' /\ Abstract!Next
  <2>1. /\ Good'
        /\ \A q \in Instances : q # p => call'[q] = call[q]
        /\ call'[p] = [step |-> "read", key |-> k, inode |-> file[k],
                       size |-> Len(content[file[k]]), seen |-> {ValueOf(k)}]
        /\ \A l \in Keys : ValueAfter(l) = ValueOf(l)
    BY <1>1, <1>3, BeginReadKeeps
  <2>2. StoreNow' = StoreNow
    BY <2>1, NowAfter DEF StoreNow
  <2>3. /\ SetsNow[p] = None /\ GetsNow[p] = None
        /\ SetOf(call'[p]) = None /\ GetOf(call'[p]) = [key |-> k, seen |-> {ValueOf(k)}]
    <3>1. call[p].step = "idle"
      BY <1>1 DEF At
    <3>2. QED
      BY <2>1, <3>1 DEF SetsNow, GetsNow, SetOf, GetOf
  <2>4. \A q \in Instances : /\ SetsNow'[q] = SetsNow[q]
                             /\ GetsNow'[q] = IF q = p THEN [key |-> k, seen |-> {ValueOf(k)}]
                                              ELSE GetsNow[q]
    BY <2>1, <2>3, NowAfter DEF SetsNow, GetsNow
  <2>5. /\ SetsNow' = [q \in Instances |-> SetsNow'[q]] /\ SetsNow = [q \in Instances |-> SetsNow[q]]
        /\ GetsNow' = [q \in Instances |-> GetsNow'[q]] /\ GetsNow = [q \in Instances |-> GetsNow[q]]
    BY NowAfter DEF SetsNow, GetsNow
  <2>6. /\ SetsNow' = SetsNow
        /\ GetsNow' = [GetsNow EXCEPT ![p] = [key |-> k, seen |-> {StoreNow[k]}]]
    <3> DEFINE g == [key |-> k, seen |-> {ValueOf(k)}]
    <3>1. StoreNow[k] = ValueOf(k)
      BY ValueIsThere
    <3>2. \A q \in Instances : GetsNow'[q] = IF q = p THEN g ELSE GetsNow[q]
      BY <2>4
    <3> HIDE DEF g
    <3>3. GetsNow' = [GetsNow EXCEPT ![p] = g] /\ SetsNow' = SetsNow
      BY <2>4, <2>5, <3>2
    <3>4. QED
      BY <3>1, <3>3 DEF g
  <2>7. StoreNow[k] # None
    BY <1>3, ValueIsThere
  <2>8. Abstract!BeginGet(p, k)
    BY <1>3, <2>2, <2>3, <2>6, <2>7 DEF Abstract!BeginGet
  <2>9. QED
    BY <1>3, <2>1, <2>8 DEF Abstract!Next, ReplyOK
<1>4. QED
  BY <1>2, <1>3 DEF getData

\* readFile reads: a get ends with a value its key had, unless the value could
\* not be told meanwhile.
LEMMA ReadStep ==
    ASSUME Good, NEW p \in Instances, readFileRead(p)
    PROVE  Good' /\ ReplyOK' /\ Abstract!Next
<1> DEFINE r == call[p]
           c == content[r.inode]
           d == [n \in 1..r.size |-> IF n <= Len(c) THEN c[n] ELSE Nul]
<1>1. /\ Reads(p) /\ call' = [call EXCEPT ![p] = NoCall]
      /\ UNCHANGED <<dir, file, clean>> /\ Reclaim
      /\ reply' = [Answer(p, "getData", "success") EXCEPT !.data = d]
  BY DEF readFileRead, Reads
<1>2. r \in ReadCalls /\ r \in Calls /\ ~Writes(p)
  BY <1>1, CallParts DEF Good, Shapes, Reads, Writes, At
<1>3. r.inode \in Inodes /\ r.size \in Nat /\ r.key \in Keys
  BY <1>2 DEF ReadCalls
<1>4. r.inode \in Live
  BY <1>2, <1>3 DEF Live, Holds, Holding
<1>5. c \in Seq(Blocks)
  BY <1>4 DEF Good, Shapes
<1>6. d \in Seq(Blocks)
  <2>1. Nul \in Blocks
    BY DEF Blocks
  <2>2. \A n \in 1..r.size : d[n] \in Blocks
    <3> HIDE DEF c, r
    <3>1. QED
      BY <1>3, <1>5, <2>1
  <2>3. d = [n \in 1..r.size |-> d[n]]
    OBVIOUS
  <2> HIDE DEF d, r
  <2>4. QED
    BY <1>3, <2>2, <2>3
<1>7. Unknown \notin r.seen => d \in r.seen
  <2> SUFFICES ASSUME Unknown \notin r.seen PROVE d \in r.seen
    OBVIOUS
  <2>1. c \in r.seen /\ Len(c) = r.size
    BY <1>1 DEF Good, ReadersKnow
  <2>2. d = c
    <3>1. c = [n \in 1..Len(c) |-> c[n]]
      BY <1>5
    <3>2. \A n \in 1..Len(c) : d[n] = c[n]
      BY <1>5, <2>1
    <3> HIDE DEF c, r
    <3>3. QED
      BY <2>1, <3>1, <3>2
  <2>3. QED
    BY <2>1, <2>2
<1>8. /\ Good' /\ StoreNow' = StoreNow /\ SetsNow' = SetsNow
      /\ GetsNow' = [GetsNow EXCEPT ![p] = None] /\ GetsNow[p] # None
  BY <1>1, <1>2, FinishStep
<1>9. GetsNow[p].seen = r.seen
  BY <1>1, <1>2, MapParts DEF GetsNow, Reads, At
<1> HIDE DEF d, r
<1>10. reply' # Quiet /\ reply'.data = d
  <2>1. Answer(p, "getData", "success") \in AnswerType
    BY AnswerParts DEF Methods, Codes
  <2>2. reply' \in AnswerType /\ reply'.data = d
    BY <1>1, <1>6, <2>1 DEF AnswerType
  <2>3. QED
    BY <2>2, MarkersAssumption
<1>11. reply'.by = p /\ reply'.to = "getData" /\ reply'.code = "success"
  BY <1>1, FilledSame
<1>12. Abstract!EndGet(p)
  BY <1>7, <1>8, <1>9, <1>10, <1>11 DEF Abstract!EndGet, Abstract!Answers
<1>13. QED
  BY <1>8, <1>10, <1>11, <1>12 DEF Abstract!Next, ReplyOK, Codes

\* getKeys asks for the directory.
LEMMA GetKeysStep ==
    ASSUME Good, NEW p \in Instances, getKeys(p)
    PROVE  Good' /\ ReplyOK' /\ Abstract!Next
<1>1. At(p, "idle") /\ UNCHANGED <<dir, file, content, clean>> /\ call[p] \in Loose
  BY StepFacts DEF getKeys, At
<1>2. CASE call' = [call EXCEPT ![p] = [step |-> "list"]] /\ reply' = Quiet
  <2>1. Good' /\ Unseen
    BY <1>1, <1>2, LooseCalls, StepFacts, LooseStep
  <2>2. QED
    BY <1>2, <2>1, IdleNext
<1>3. CASE reply' = Answer(p, "getKeys", "NE_ST_NOSTDIR") /\ UNCHANGED call
  <2>1. Good' /\ Unseen
    BY <1>1, <1>3, StepFacts, SameCall
  <2>2. "NE_ST_NOSTDIR" \in Abstract!Errors
    BY DEF Abstract!Errors
  <2>3. QED
    BY <1>3, <2>1, <2>2, FailNext DEF Methods
<1>4. QED
  BY <1>2, <1>3 DEF getKeys

\* readDirectory lists the names; the keys are those that have a value if they
\* come back as they are.
LEMMA ListStep ==
    ASSUME Good, NEW p \in Instances, readDirectory(p)
    PROVE  Good' /\ ReplyOK' /\ (KeysComeBack => Abstract!Next)
<1>1. /\ At(p, "list") /\ UNCHANGED <<dir, file, content, clean>> /\ call[p] \in Loose
      /\ call' = [call EXCEPT ![p] = NoCall]
  BY StepFacts DEF readDirectory, At
<1>2. Good' /\ Unseen
  BY <1>1, FinishLoose
<1>3. CASE ~dir
  <2>1. reply' = Answer(p, "getKeys", "NE_RT_NATRTER")
    BY <1>3 DEF readDirectory
  <2>2. "NE_RT_NATRTER" \in Abstract!Errors
    BY DEF Abstract!Errors
  <2>3. QED
    BY <1>2, <2>1, <2>2, FailNext DEF Methods
<1>4. CASE dir
  <2> DEFINE T == {KeyOf(FileName(k)) : k \in Stored}
  <2>1. reply' = [Answer(p, "getKeys", "success") EXCEPT !.keys = T]
    BY <1>4 DEF readDirectory
  <2> HIDE DEF T
  <2>2. reply'.by = p /\ reply'.to = "getKeys" /\ reply'.code = "success"
    BY <2>1, FilledSame
  <2>3. ASSUME KeysComeBack PROVE Abstract!Next
    <3>1. T = Stored /\ Stored \in SUBSET Keys
      BY <2>3 DEF T, KeysComeBack, Stored
    <3>2. reply' # Quiet /\ reply'.keys = Stored
      <4>1. Answer(p, "getKeys", "success") \in AnswerType
        BY AnswerParts DEF Methods, Codes
      <4>2. reply' \in AnswerType /\ reply'.keys = Stored
        BY <2>1, <3>1, <4>1 DEF AnswerType
      <4>3. QED
        BY <4>2, MarkersAssumption
    <3>3. Stored = {k \in Keys : StoreNow[k] # None}
      BY ValueIsThere DEF Stored
    <3>4. Abstract!GetKeys(p)
      BY <1>2, <2>2, <3>2, <3>3 DEF Abstract!GetKeys, Abstract!Answers, Unseen
    <3>5. QED
      BY <3>4 DEF Abstract!Next
  <2>4. ReplyOK'
    BY <2>2 DEF ReplyOK, Codes
  <2>5. QED
    BY <1>2, <2>3, <2>4
<1>5. QED
  BY <1>3, <1>4


-----------------------------------------------------------------------------
(* The theorems. *)

\* The empty directory is as it should be, and is the empty map.
LEMMA InitIInv == Init => IInv /\ Abstract!Init
<1> SUFFICES ASSUME Init PROVE IInv /\ Abstract!Init
  OBVIOUS
<1>1. /\ \A p \in Instances : call[p] = NoCall
      /\ \A k \in Keys : file[k] = None
  BY DEF Init
<1>2. NoCall \in Loose /\ NoCall.step = "idle" /\ NoCall \in Calls /\ NoCall \notin Holding
  <2>1. NoCall \in Loose /\ NoCall.step = "idle" /\ NoCall \in Calls
    BY LooseCalls DEF NoCall, Calls
  <2>2. QED
    BY <2>1, CallParts
<1>3. Live = {}
  BY <1>1, <1>2, MarkersAssumption DEF Live, Holds
<1>4. Shapes
  <2>1. content \in [{} -> Seq(Blocks)]
    BY DEF Init
  <2>2. call \in [Instances -> Calls] /\ file \in [Keys -> Inodes \cup {None}]
    BY <1>2 DEF Init
  <2>3. dir \in BOOLEAN /\ clean \subseteq Inodes
    BY DEF Init
  <2>4. QED
    BY <1>3, <2>1, <2>2, <2>3 DEF Shapes
<1>5. NamesOK
  BY <1>1 DEF Init, NamesOK, Stored
<1>6. HeldByKey /\ AloneIsOnly /\ LoneWriterExact /\ ReadersKnow
  BY <1>1, <1>2 DEF HeldByKey, AloneIsOnly, LoneWriterExact, ReadersKnow, Holds, Writes, Reads, At
<1>7. CleanIsValue /\ ReplyOK
  BY DEF Init, CleanIsValue, ReplyOK
<1>8. \A k \in Keys : ValueOf(k) = None
  BY <1>1 DEF ValueOf
<1>9. \A p \in Instances : SetOf(call[p]) = None /\ GetOf(call[p]) = None
  BY <1>1, <1>2 DEF SetOf, GetOf
<1>10. Abstract!Init
  BY <1>8, <1>9 DEF Abstract!Init, StoreNow, SetsNow, GetsNow, Init
<1>11. QED
  BY <1>4, <1>5, <1>6, <1>7, <1>10 DEF IInv, Good

\* Every step of an instance keeps the invariant and is a step of SafeStore.
LEMMA StepMaps ==
    ASSUME IInv, NEW p \in Instances, Step(p)
    PROVE  IInv' /\ (KeysComeBack => Abstract!Next)
<1>1. Good
  BY DEF IInv
<1>2. CASE removeData(p)
  <2>1. PICK k \in Keys : __removeStorageBucket(p, k)
    BY <1>2 DEF removeData
  <2>2. call[p] \in Loose
    BY <1>1, <1>2, StepFacts DEF removeData, At
  <2>3. QED
    BY <1>1, <2>1, <2>2, RemoveStep DEF IInv
<1>3. CASE setDataRemove(p)
  <2>1. call[p].step = "remove" /\ call[p] \in Calls /\ __removeStorageBucket(p, call[p].key)
    BY <1>1, <1>3, StepFacts DEF setDataRemove, At
  <2>2. call[p] \in Loose /\ call[p].key \in Keys
    BY <1>1, <2>1, StepFacts, CallParts
  <2>3. QED
    BY <1>1, <2>1, <2>2, RemoveStep DEF IInv
<1>4. QED
  BY <1>1, <1>2, <1>3, ValidateStep, SetDataStep, OpenFileStep, BlockStep, CloseStep, ClearStep,
     ClearFileStep, GetDataStep, ReadStep, GetKeysStep, ListStep, EndsStep DEF Step, IInv

\* Stuttering changes nothing, for SafeStore neither.
LEMMA Stutters ==
    ASSUME IInv, UNCHANGED vars
    PROVE  IInv' /\ UNCHANGED Abstract!vars
<1>1. UNCHANGED <<dir, file, content, call, clean, reply>>
  BY DEF vars
<1>2. Live' = Live
  BY <1>1 DEF Live, Holds
<1>3. Good' <=> Good
  BY <1>1, <1>2
  DEF Good, Shapes, NamesOK, Stored, HeldByKey, AloneIsOnly, LoneWriterExact, CleanIsValue,
      ReadersKnow, ValueOf, Holds, Writes, Reads, At
<1>4. ReplyOK' <=> ReplyOK
  BY <1>1 DEF ReplyOK
<1>5. StoreNow' = StoreNow /\ SetsNow' = SetsNow /\ GetsNow' = GetsNow
  BY <1>1 DEF StoreNow, SetsNow, GetsNow, ValueOf, SetOf, GetOf
<1>6. QED
  BY <1>1, <1>3, <1>4, <1>5 DEF IInv, Abstract!vars

\* Every step keeps the inductive invariant.
LEMMA NextIInv == IInv /\ [Next]_vars => IInv'
BY StepMaps, Stutters DEF Next

\* The inductive invariant holds in every state.
THEOREM Invariance == Spec => []IInv
BY InitIInv, NextIInv, PTL DEF Spec

\* Calls have the types TypeOK names.
LEMMA CallTyped ==
    ASSUME NEW c \in Calls
    PROVE  CallType(c)
<1>1. CASE c.step = "write"
  <2>1. c \in Writing
    BY <1>1, CallParts
  <2>2. /\ c.key \in Keys /\ c.data \in Values[c.key] /\ c.inode \in Inodes /\ c.pos \in Nat
        /\ c.pos <= Len(c.data) /\ c.data \in Seq(Blocks)
        /\ c.lost \in BOOLEAN /\ c.alone \in BOOLEAN
    BY <2>1 DEF Writing, WriteCalls
  <2>3. c.pos \in 0..Len(c.data)
    BY <2>2
  <2>4. QED
    BY <1>1, <2>2, <2>3 DEF CallType
<1>2. CASE c.step = "read"
  BY <1>2, CallParts DEF CallType, ReadCalls
<1>3. CASE c.step \notin {"write", "read"}
  BY <1>3, CallParts DEF CallType
<1>4. QED
  BY <1>1, <1>2, <1>3

\* Every variable has its type: for any number of instances, keys and values,
\* files are in a directory that exists, no two keys share one, the disk holds
\* the files that have a name or are held open and no others, and what counts
\* as set completely has a name.
THEOREM TypeCorrect == Spec => []TypeOK
<1>1. IInv => TypeOK
  <2> SUFFICES ASSUME IInv PROVE TypeOK
    OBVIOUS
  <2>1. Shapes /\ NamesOK /\ ReplyOK
    BY DEF IInv, Good
  <2>2. \A p \in Instances : call[p] \in Calls /\ CallType(call[p])
    BY <2>1, CallTyped DEF Shapes
  <2>3. DOMAIN content = Live /\ Live \subseteq Inodes
    BY <2>1 DEF Shapes, Live
  <2>4. Kept(file, call) = Live
    <3>1. \A p \in Instances : Holds(p) <=> call[p].step \in {"write", "read"}
      BY <2>2, CallParts DEF Holds
    <3>2. QED
      BY <2>3, <3>1 DEF Kept, Live
  <2>5. clean \subseteq {file[k] : k \in Stored}
    BY <2>1, MarkersAssumption DEF NamesOK, Shapes, Stored
  <2>6. \A k, l \in Stored : file[k] = file[l] => k = l
    BY <2>1 DEF NamesOK, Stored
  <2>7. QED
    BY <2>1, <2>2, <2>3, <2>4, <2>5, <2>6 DEF TypeOK, Shapes, NamesOK, ReplyOK
<1>2. QED
  BY <1>1, Invariance, PTL

\* A set that nothing disturbs has written exactly the part of its data it is
\* at, to the file of its key, and a file that was set completely is written to
\* by nobody, whatever the other instances remove, clear, set and hold open.
THEOREM LoneWriterCorrect == Spec => []LoneWriterExact
<1>1. IInv => LoneWriterExact
  BY DEF IInv, Good
<1>2. QED
  BY <1>1, Invariance, PTL

\* The storage implements SafeStore: instances that share it see a map in which
\* every key is a safe register, if no key looks as if the extension were in it.
THEOREM Refinement ==
    ASSUME KeysComeBack
    PROVE  Spec => ImplementsSafeStore
<1>1. Init => Abstract!Init
  BY InitIInv
<1>2. IInv /\ [Next]_vars => [Abstract!Next]_(Abstract!vars)
  BY StepMaps, Stutters DEF Next
<1>3. QED
  BY <1>1, <1>2, Invariance, PTL DEF Spec, ImplementsSafeStore, Abstract!Spec


=============================================================================
