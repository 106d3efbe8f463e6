----------------------- MODULE SpawnedProcessesProofs -----------------------
(***************************************************************************)
(* Proofs about SpawnedProcesses, for every number of callers, children,   *)
(* ids and bounds.                                                         *)
(***************************************************************************)
EXTENDS SpawnedProcesses, TLAPS

\* A caller in the middle of a call owns the lock and points to a live object;
\* an idle one points to nothing.
CallerInv ==
    \A t \in Callers :
        IF pc[t] = "idle"
        THEN cur[t] = None
        ELSE /\ lock = t
             /\ cur[t] \in Children
             /\ proc[cur[t]].heap = "live"
             /\ pc[t] = "spawning" => proc[cur[t]].thread = "none"

\* The process thread of a child exists only while the object does, and a table
\* entry points to a live object that was given the entry's id.
ObjectInv ==
    /\ \A c \in Children :
          /\ proc[c].thread \notin {"none", "done"} => proc[c].heap = "live"
          /\ proc[c].thread = "done" => proc[c].heap = "freed"
          /\ proc[c].heap = "none" => proc[c].thread = "none"
    /\ \A id \in VirtualPids : spawnedProcesses[id] # None =>
          /\ proc[spawnedProcesses[id]].heap = "live"
          /\ proc[spawnedProcesses[id]].vpid = id

\* Until the wrap, ids are handed out in increasing order, hence once.
IdInv ==
    ~wrapped =>
        /\ \A c \in Children : proc[c].heap # "none" => proc[c].vpid < nextVirtualPid
        /\ \A c, d \in Children :
              proc[c].heap # "none" /\ proc[d].heap # "none" /\ proc[c].vpid = proc[d].vpid
                  => c = d

\* What the stages of the reader and of the process thread have established.
OutputInv ==
    \A c \in Children :
        /\ proc[c].os \in {"none", "failed"} =>
              ~proc[c].outOpen /\ proc[c].consumed = proc[c].produced
        /\ proc[c].os = "failed" => proc[c].closed
        /\ proc[c].reader = "done" => ~proc[c].outOpen /\ proc[c].consumed = proc[c].produced
        /\ proc[c].thread \in {"joining", "dispatching", "locking", "done"} => proc[c].closed
        /\ proc[c].thread \in {"dispatching", "locking", "done"} =>
              proc[c].reader = "done" \/ proc[c].os = "failed"
        /\ proc[c].exitSent => proc[c].thread \in {"locking", "done"}

IInv ==
    /\ TypeOK
    /\ CallerInv
    /\ ObjectInv
    /\ IdInv
    /\ ListedUntilWrap
    /\ OutputInv

-----------------------------------------------------------------------------
\* The definitions every step about a single action expands.
USE DEF vars, tableVars, childOnly

\* TypeOK holds initially.
LEMMA InitTypeOK == Init => TypeOK
  <1> SUFFICES ASSUME Init PROVE TypeOK
    OBVIOUS
  <1> USE ThreadsAssumption, BoundsAssumption DEF Init, VirtualPids
  <1>1. Unallocated \in Proc
    BY DEF Unallocated, Proc
  <1>2. proc \in [Children -> Proc]
    BY <1>1
  <1>3. wrapped \in BOOLEAN
    OBVIOUS
  <1>4. nextVirtualPid \in VirtualPids /\ calls \in 0..MaxCalls
    OBVIOUS
  <1> QED
    BY <1>2, <1>3, <1>4 DEF TypeOK

\* The constructor makes a Proc.
LEMMA ConstructedType ==
    ASSUME NEW id \in VirtualPids, NEW ev \in BOOLEAN, NEW forked \in BOOLEAN
    PROVE  Constructed(id, ev, forked) \in Proc
  BY BoundsAssumption DEF Constructed, Proc

\* The field updates of the actions, one record at a time.
LEMMA FieldTypes ==
    ASSUME NEW p \in Proc
    PROVE  /\ [p EXCEPT !.stdin = FALSE] \in Proc
           /\ [p EXCEPT !.outOpen = FALSE] \in Proc
           /\ [p EXCEPT !.os = "exited"] \in Proc
           /\ [p EXCEPT !.inOpen = FALSE, !.inPipe = 0] \in Proc
           /\ p.inPipe # PipeCapacity => [p EXCEPT !.inPipe = @ + 1] \in Proc
  <1>1. [p EXCEPT !.stdin = FALSE] \in Proc
    BY DEF Proc
  <1>2. [p EXCEPT !.outOpen = FALSE] \in Proc
    BY DEF Proc
  <1>3. [p EXCEPT !.os = "exited"] \in Proc
    BY DEF Proc
  <1>4. ASSUME p.inPipe # PipeCapacity PROVE [p EXCEPT !.inPipe = @ + 1] \in Proc
    <2>1. p.inPipe + 1 \in 0..PipeCapacity
      BY <1>4, BoundsAssumption DEF Proc
    <2> QED
      BY <2>1 DEF Proc
  <1>5. [p EXCEPT !.inOpen = FALSE, !.inPipe = 0] \in Proc
    <2>1. 0 \in 0..PipeCapacity
      BY BoundsAssumption
    <2>2. PICK q : q = [p EXCEPT !.inOpen = FALSE]
      OBVIOUS
    <2>3. q \in Proc
      BY <2>2 DEF Proc
    <2>4. [q EXCEPT !.inPipe = 0] \in Proc
      BY <2>1, <2>3 DEF Proc
    <2> QED
      BY <2>2, <2>4 DEF Proc
  <1> QED
    BY <1>1, <1>2, <1>3, <1>4, <1>5

\* Process::kill keeps everything but the record of the last signal.
LEMMA KillEffect ==
    ASSUME NEW p \in Proc
    PROVE  /\ Kill(p) \in Proc
           /\ Kill(p) = [p EXCEPT !.signalled = Kill(p).signalled]
  BY DEF Kill, Proc

\* Every action preserves the types.
LEMMA NextTypeOK == TypeOK /\ CallerInv /\ [Next]_vars => TypeOK'
  <1> SUFFICES ASSUME TypeOK /\ CallerInv, [Next]_vars PROVE TypeOK'
    OBVIOUS
  <1> USE DEF TypeOK
  <1>1. ASSUME NEW t \in Callers, NEW c \in Children, NEW forked \in BOOLEAN,
               SpawnBegin(t, c, forked)
        PROVE  TypeOK'
    <2>1. Constructed(VirtualPid, t \notin Quiet, forked) \in Proc
      BY ConstructedType DEF VirtualPid
    <2>2. AdvancedVirtualPid \in VirtualPids
      BY BoundsAssumption DEF AdvancedVirtualPid, VirtualPids
    <2>3. calls' \in 0..MaxCalls
      BY <1>1, BoundsAssumption DEF SpawnBegin, Begin
    <2> QED
      BY <1>1, <2>1, <2>2, <2>3 DEF SpawnBegin
  <1>2. ASSUME NEW t \in Callers, SpawnRegister(t)
        PROVE  TypeOK'
    <2>1. cur[t] \in Children
      BY <1>2 DEF SpawnRegister, CallerInv
    <2>2. proc' \in [Children -> Proc]
      BY <1>2, <2>1 DEF SpawnRegister, Proc
    <2> QED
      BY <1>2, <2>1, <2>2 DEF SpawnRegister, Proc
  <1>3. ASSUME NEW t \in Callers, SpawnReturn(t)
        PROVE  TypeOK'
    BY <1>3 DEF SpawnReturn
  <1>4. ASSUME NEW t \in Callers, CallWithoutEffect(t)
        PROVE  TypeOK'
    BY <1>4, BoundsAssumption DEF CallWithoutEffect, Begin
  <1>5. ASSUME NEW t \in Callers, NEW id \in VirtualPids, UpdateExit(t, id)
        PROVE  TypeOK'
    <2>1. spawnedProcesses[id] \in Children
      BY <1>5 DEF UpdateExit
    <2>2. Kill(proc[spawnedProcesses[id]]) \in Proc
      BY <2>1, KillEffect
    <2>3. calls' \in 0..MaxCalls
      BY <1>5, BoundsAssumption DEF UpdateExit, Begin
    <2> QED
      BY <1>5, <2>1, <2>2, <2>3 DEF UpdateExit
  <1>6. ASSUME NEW t \in Callers, NEW id \in VirtualPids, UpdateStdInEnd(t, id)
        PROVE  TypeOK'
    <2>1. spawnedProcesses[id] \in Children
      BY <1>6 DEF UpdateStdInEnd
    <2>2. proc' \in [Children -> Proc]
      BY <1>6, <2>1, FieldTypes DEF UpdateStdInEnd
    <2>3. calls' \in 0..MaxCalls
      BY <1>6, BoundsAssumption DEF UpdateStdInEnd, Begin
    <2> QED
      BY <1>6, <2>2, <2>3 DEF UpdateStdInEnd
  <1>7. ASSUME NEW t \in Callers, NEW id \in VirtualPids, UpdateStdIn(t, id)
        PROVE  TypeOK'
    <2>1. spawnedProcesses[id] \in Children
      BY <1>7 DEF UpdateStdIn
    <2>2. calls' \in 0..MaxCalls
      BY <1>7, BoundsAssumption DEF UpdateStdIn, Begin
    <2> QED
      BY <1>7, <2>1, <2>2 DEF UpdateStdIn
  <1>8. ASSUME NEW t \in Callers, WriteReturn(t)
        PROVE  TypeOK'
    <2>1. cur[t] \in Children
      BY <1>8 DEF WriteReturn, CallerInv
    <2>2. proc' \in [Children -> Proc]
      BY <1>8, <2>1, FieldTypes DEF WriteReturn, Blocked
    <2> QED
      BY <1>8, <2>2 DEF WriteReturn
  <1>9. ASSUME NEW c \in Children, ChildReads(c)
        PROVE  TypeOK'
    BY <1>9, BoundsAssumption DEF ChildReads, Proc
  <1>10. ASSUME NEW c \in Children, ChildWrites(c)
        PROVE  TypeOK'
    BY <1>10, BoundsAssumption DEF ChildWrites, Proc
  <1>11. ASSUME NEW c \in Children, ChildExits(c)
        PROVE  TypeOK'
    BY <1>11, FieldTypes DEF ChildExits
  <1>12. ASSUME NEW c \in Children, ClosesOutput(c)
        PROVE  TypeOK'
    BY <1>12, FieldTypes DEF ClosesOutput
  <1>13. ASSUME NEW c \in Children, ReaderReads(c)
        PROVE  TypeOK'
    BY <1>13, BoundsAssumption DEF ReaderReads, Proc
  <1>14. ASSUME NEW c \in Children, ReaderEnds(c)
        PROVE  TypeOK'
    BY <1>14, BoundsAssumption DEF ReaderEnds, Proc
  <1>15. ASSUME NEW c \in Children, ThreadReap(c)
        PROVE  TypeOK'
    BY <1>15, BoundsAssumption DEF ThreadReap, Proc
  <1>16. ASSUME NEW c \in Children, ThreadNoProcess(c)
        PROVE  TypeOK'
    BY <1>16, BoundsAssumption DEF ThreadNoProcess, Proc
  <1>17. ASSUME NEW c \in Children, ThreadMarkClosed(c)
        PROVE  TypeOK'
    BY <1>17, BoundsAssumption DEF ThreadMarkClosed, Proc
  <1>18. ASSUME NEW c \in Children, ThreadCloseFds(c)
        PROVE  TypeOK'
    BY <1>18, BoundsAssumption DEF ThreadCloseFds, Proc
  <1>19. ASSUME NEW c \in Children, ThreadDispatchExit(c)
        PROVE  TypeOK'
    BY <1>19, BoundsAssumption DEF ThreadDispatchExit, Proc
  <1>20. ASSUME NEW c \in Children, ThreadErase(c)
        PROVE  TypeOK'
    BY <1>20, BoundsAssumption DEF ThreadErase, Proc
  <1>21. ASSUME NEW c \in Children, ClosesInput(c)
        PROVE  TypeOK'
    BY <1>21, FieldTypes DEF ClosesInput
  <1>22. CASE UNCHANGED vars
    BY <1>22
  <1> QED
    BY <1>1, <1>2, <1>3, <1>4, <1>5, <1>6, <1>7, <1>8, <1>9, <1>10, <1>11, <1>12, <1>13, <1>14, <1>15, <1>16, <1>17, <1>18, <1>19, <1>20, <1>21, <1>22
    DEF Next, CallerNext, ChildNext, ReaderNext, ThreadNext

\* A caller keeps the lock and a live object for as long as its call lasts.
LEMMA NextCallerInv == TypeOK /\ CallerInv /\ ObjectInv /\ [Next]_vars => CallerInv'
  <1> SUFFICES ASSUME TypeOK /\ CallerInv /\ ObjectInv, [Next]_vars PROVE CallerInv'
    OBVIOUS
  <1> USE ThreadsAssumption DEF TypeOK, CallerInv, ObjectInv, Proc
  <1>1. ASSUME NEW t \in Callers, NEW c \in Children, NEW forked \in BOOLEAN,
               SpawnBegin(t, c, forked)
        PROVE  CallerInv'
    BY <1>1 DEF SpawnBegin, Begin, Constructed, VirtualPid, AdvancedVirtualPid
  <1>2. ASSUME NEW t \in Callers, SpawnRegister(t)
        PROVE  CallerInv'
    BY <1>2 DEF SpawnRegister
  <1>3. ASSUME NEW t \in Callers, SpawnReturn(t)
        PROVE  CallerInv'
    BY <1>3 DEF SpawnReturn
  <1>4. ASSUME NEW t \in Callers, CallWithoutEffect(t)
        PROVE  CallerInv'
    BY <1>4 DEF CallWithoutEffect, Begin
  <1>5. ASSUME NEW t \in Callers, NEW id \in VirtualPids, UpdateExit(t, id)
        PROVE  CallerInv'
    <2>1. spawnedProcesses[id] \in Children
      BY <1>5 DEF UpdateExit, TypeOK
    <2>2. /\ Kill(proc[spawnedProcesses[id]]) \in Proc
          /\ Kill(proc[spawnedProcesses[id]]) =
                [proc[spawnedProcesses[id]] EXCEPT
                    !.signalled = Kill(proc[spawnedProcesses[id]]).signalled]
      BY <2>1, KillEffect DEF TypeOK
    <2> QED
      BY <1>5, <2>1, <2>2 DEF UpdateExit, Begin
  <1>6. ASSUME NEW t \in Callers, NEW id \in VirtualPids, UpdateStdInEnd(t, id)
        PROVE  CallerInv'
    BY <1>6 DEF UpdateStdInEnd, Begin
  <1>7. ASSUME NEW t \in Callers, NEW id \in VirtualPids, UpdateStdIn(t, id)
        PROVE  CallerInv'
    BY <1>7 DEF UpdateStdIn, Begin
  <1>8. ASSUME NEW t \in Callers, WriteReturn(t)
        PROVE  CallerInv'
    BY <1>8 DEF WriteReturn, Blocked
  <1>9. ASSUME NEW c \in Children, ChildReads(c)
        PROVE  CallerInv'
    BY <1>9 DEF ChildReads
  <1>10. ASSUME NEW c \in Children, ChildWrites(c)
        PROVE  CallerInv'
    BY <1>10 DEF ChildWrites
  <1>11. ASSUME NEW c \in Children, ChildExits(c)
        PROVE  CallerInv'
    BY <1>11 DEF ChildExits
  <1>12. ASSUME NEW c \in Children, ClosesOutput(c)
        PROVE  CallerInv'
    BY <1>12 DEF ClosesOutput
  <1>13. ASSUME NEW c \in Children, ReaderReads(c)
        PROVE  CallerInv'
    BY <1>13 DEF ReaderReads
  <1>14. ASSUME NEW c \in Children, ReaderEnds(c)
        PROVE  CallerInv'
    BY <1>14 DEF ReaderEnds
  <1>15. ASSUME NEW c \in Children, ThreadReap(c)
        PROVE  CallerInv'
    BY <1>15 DEF ThreadReap
  <1>16. ASSUME NEW c \in Children, ThreadNoProcess(c)
        PROVE  CallerInv'
    BY <1>16 DEF ThreadNoProcess
  <1>17. ASSUME NEW c \in Children, ThreadMarkClosed(c)
        PROVE  CallerInv'
    BY <1>17 DEF ThreadMarkClosed
  <1>18. ASSUME NEW c \in Children, ThreadCloseFds(c)
        PROVE  CallerInv'
    BY <1>18 DEF ThreadCloseFds
  <1>19. ASSUME NEW c \in Children, ThreadDispatchExit(c)
        PROVE  CallerInv'
    BY <1>19 DEF ThreadDispatchExit
  <1>20. ASSUME NEW c \in Children, ThreadErase(c)
        PROVE  CallerInv'
    BY <1>20 DEF ThreadErase
  <1>21. ASSUME NEW c \in Children, ClosesInput(c)
        PROVE  CallerInv'
    BY <1>21 DEF ClosesInput
  <1>22. CASE UNCHANGED vars
    BY <1>22
  <1> QED
    BY <1>1, <1>2, <1>3, <1>4, <1>5, <1>6, <1>7, <1>8, <1>9, <1>10, <1>11, <1>12, <1>13, <1>14, <1>15, <1>16, <1>17, <1>18, <1>19, <1>20, <1>21, <1>22
    DEF Next, CallerNext, ChildNext, ReaderNext, ThreadNext

\* Table entries stay valid.
LEMMA NextObjectInv == TypeOK /\ CallerInv /\ ObjectInv /\ [Next]_vars => ObjectInv'
  <1> SUFFICES ASSUME TypeOK /\ CallerInv /\ ObjectInv, [Next]_vars PROVE ObjectInv'
    OBVIOUS
  <1> USE ThreadsAssumption DEF TypeOK, CallerInv, ObjectInv, Proc
  <1>1. ASSUME NEW t \in Callers, NEW c \in Children, NEW forked \in BOOLEAN,
               SpawnBegin(t, c, forked)
        PROVE  ObjectInv'
    BY <1>1 DEF SpawnBegin, Begin, Constructed, VirtualPid, AdvancedVirtualPid
  <1>2. ASSUME NEW t \in Callers, SpawnRegister(t)
        PROVE  ObjectInv'
    BY <1>2 DEF SpawnRegister
  <1>3. ASSUME NEW t \in Callers, SpawnReturn(t)
        PROVE  ObjectInv'
    BY <1>3 DEF SpawnReturn
  <1>4. ASSUME NEW t \in Callers, CallWithoutEffect(t)
        PROVE  ObjectInv'
    BY <1>4 DEF CallWithoutEffect, Begin
  <1>5. ASSUME NEW t \in Callers, NEW id \in VirtualPids, UpdateExit(t, id)
        PROVE  ObjectInv'
    <2>1. spawnedProcesses[id] \in Children
      BY <1>5 DEF UpdateExit, TypeOK
    <2>2. /\ Kill(proc[spawnedProcesses[id]]) \in Proc
          /\ Kill(proc[spawnedProcesses[id]]) =
                [proc[spawnedProcesses[id]] EXCEPT
                    !.signalled = Kill(proc[spawnedProcesses[id]]).signalled]
      BY <2>1, KillEffect DEF TypeOK
    <2> QED
      BY <1>5, <2>1, <2>2 DEF UpdateExit, Begin
  <1>6. ASSUME NEW t \in Callers, NEW id \in VirtualPids, UpdateStdInEnd(t, id)
        PROVE  ObjectInv'
    BY <1>6 DEF UpdateStdInEnd, Begin
  <1>7. ASSUME NEW t \in Callers, NEW id \in VirtualPids, UpdateStdIn(t, id)
        PROVE  ObjectInv'
    BY <1>7 DEF UpdateStdIn, Begin
  <1>8. ASSUME NEW t \in Callers, WriteReturn(t)
        PROVE  ObjectInv'
    BY <1>8 DEF WriteReturn, Blocked
  <1>9. ASSUME NEW c \in Children, ChildReads(c)
        PROVE  ObjectInv'
    BY <1>9 DEF ChildReads
  <1>10. ASSUME NEW c \in Children, ChildWrites(c)
        PROVE  ObjectInv'
    BY <1>10 DEF ChildWrites
  <1>11. ASSUME NEW c \in Children, ChildExits(c)
        PROVE  ObjectInv'
    BY <1>11 DEF ChildExits
  <1>12. ASSUME NEW c \in Children, ClosesOutput(c)
        PROVE  ObjectInv'
    BY <1>12 DEF ClosesOutput
  <1>13. ASSUME NEW c \in Children, ReaderReads(c)
        PROVE  ObjectInv'
    BY <1>13 DEF ReaderReads
  <1>14. ASSUME NEW c \in Children, ReaderEnds(c)
        PROVE  ObjectInv'
    BY <1>14 DEF ReaderEnds
  <1>15. ASSUME NEW c \in Children, ThreadReap(c)
        PROVE  ObjectInv'
    BY <1>15 DEF ThreadReap
  <1>16. ASSUME NEW c \in Children, ThreadNoProcess(c)
        PROVE  ObjectInv'
    BY <1>16 DEF ThreadNoProcess
  <1>17. ASSUME NEW c \in Children, ThreadMarkClosed(c)
        PROVE  ObjectInv'
    BY <1>17 DEF ThreadMarkClosed
  <1>18. ASSUME NEW c \in Children, ThreadCloseFds(c)
        PROVE  ObjectInv'
    BY <1>18 DEF ThreadCloseFds
  <1>19. ASSUME NEW c \in Children, ThreadDispatchExit(c)
        PROVE  ObjectInv'
    BY <1>19 DEF ThreadDispatchExit
  <1>20. ASSUME NEW c \in Children, ThreadErase(c)
        PROVE  ObjectInv'
    BY <1>20 DEF ThreadErase
  <1>21. ASSUME NEW c \in Children, ClosesInput(c)
        PROVE  ObjectInv'
    BY <1>21 DEF ClosesInput
  <1>22. CASE UNCHANGED vars
    BY <1>22
  <1> QED
    BY <1>1, <1>2, <1>3, <1>4, <1>5, <1>6, <1>7, <1>8, <1>9, <1>10, <1>11, <1>12, <1>13, <1>14, <1>15, <1>16, <1>17, <1>18, <1>19, <1>20, <1>21, <1>22
    DEF Next, CallerNext, ChildNext, ReaderNext, ThreadNext

\* What every step other than the start of a spawn keeps of the ids.
KeepsIds ==
    /\ wrapped' = wrapped
    /\ nextVirtualPid' = nextVirtualPid
    /\ \A d \in Children : /\ proc'[d].vpid = proc[d].vpid
                           /\ proc'[d].heap = "none" <=> proc[d].heap = "none"

\* Such a step preserves IdInv.
LEMMA IdsKept == IdInv /\ KeepsIds => IdInv'
  BY DEF IdInv, KeepsIds

\* Ids are unique until the wrap.
LEMMA NextIdInv == TypeOK /\ CallerInv /\ ObjectInv /\ IdInv /\ [Next]_vars => IdInv'
  <1> SUFFICES ASSUME TypeOK /\ CallerInv /\ ObjectInv /\ IdInv, [Next]_vars PROVE IdInv'
    OBVIOUS
  <1>1. ASSUME NEW t \in Callers, NEW c \in Children, NEW forked \in BOOLEAN,
               SpawnBegin(t, c, forked)
        PROVE  IdInv'
    <2>1. /\ \A d \in Children \ {c} : proc'[d] = proc[d]
          /\ \A d \in Children : proc[d].vpid \in Int
          /\ nextVirtualPid \in Int
      BY <1>1, BoundsAssumption DEF SpawnBegin, TypeOK, Proc, VirtualPids
    <2>2. proc'[c].vpid = nextVirtualPid
      BY <1>1 DEF SpawnBegin, Constructed, VirtualPid, TypeOK
    <2>3. ASSUME ~wrapped' PROVE ~wrapped /\ nextVirtualPid' = nextVirtualPid + 1
      BY <1>1, <2>3 DEF SpawnBegin, AdvancedVirtualPid
    <2> QED
      BY <2>1, <2>2, <2>3 DEF IdInv
  <1>2. ASSUME NEW t \in Callers, SpawnRegister(t)
        PROVE  IdInv'
    <2>8. KeepsIds
      BY <1>2, ThreadsAssumption DEF SpawnRegister, TypeOK, CallerInv, ObjectInv, Proc, KeepsIds
    <2> QED
      BY <2>8, IdsKept
  <1>3. ASSUME NEW t \in Callers, SpawnReturn(t)
        PROVE  IdInv'
    <2>8. KeepsIds
      BY <1>3, ThreadsAssumption DEF SpawnReturn, TypeOK, CallerInv, ObjectInv, Proc, KeepsIds
    <2> QED
      BY <2>8, IdsKept
  <1>4. ASSUME NEW t \in Callers, CallWithoutEffect(t)
        PROVE  IdInv'
    <2>8. KeepsIds
      BY <1>4, ThreadsAssumption DEF CallWithoutEffect, TypeOK, CallerInv, ObjectInv, Proc, KeepsIds
    <2> QED
      BY <2>8, IdsKept
  <1>5. ASSUME NEW t \in Callers, NEW id \in VirtualPids, UpdateExit(t, id)
        PROVE  IdInv'
    <2>1. spawnedProcesses[id] \in Children
      BY <1>5 DEF UpdateExit, TypeOK
    <2>2. /\ Kill(proc[spawnedProcesses[id]]) \in Proc
          /\ Kill(proc[spawnedProcesses[id]]) =
                [proc[spawnedProcesses[id]] EXCEPT
                    !.signalled = Kill(proc[spawnedProcesses[id]]).signalled]
      BY <2>1, KillEffect DEF TypeOK
    <2>8. KeepsIds
      BY <1>5, <2>1, <2>2, ThreadsAssumption DEF UpdateExit, TypeOK, CallerInv, ObjectInv, Proc, KeepsIds
    <2> QED
      BY <2>8, IdsKept
  <1>6. ASSUME NEW t \in Callers, NEW id \in VirtualPids, UpdateStdInEnd(t, id)
        PROVE  IdInv'
    <2>8. KeepsIds
      BY <1>6, ThreadsAssumption DEF UpdateStdInEnd, TypeOK, CallerInv, ObjectInv, Proc, KeepsIds
    <2> QED
      BY <2>8, IdsKept
  <1>7. ASSUME NEW t \in Callers, NEW id \in VirtualPids, UpdateStdIn(t, id)
        PROVE  IdInv'
    <2>8. KeepsIds
      BY <1>7, ThreadsAssumption DEF UpdateStdIn, TypeOK, CallerInv, ObjectInv, Proc, KeepsIds
    <2> QED
      BY <2>8, IdsKept
  <1>8. ASSUME NEW t \in Callers, WriteReturn(t)
        PROVE  IdInv'
    <2>8. KeepsIds
      BY <1>8, ThreadsAssumption DEF WriteReturn, TypeOK, CallerInv, ObjectInv, Proc, KeepsIds
    <2> QED
      BY <2>8, IdsKept
  <1>9. ASSUME NEW c \in Children, ChildReads(c)
        PROVE  IdInv'
    <2>8. KeepsIds
      BY <1>9, ThreadsAssumption DEF ChildReads, TypeOK, CallerInv, ObjectInv, Proc, KeepsIds
    <2> QED
      BY <2>8, IdsKept
  <1>10. ASSUME NEW c \in Children, ChildWrites(c)
        PROVE  IdInv'
    <2>8. KeepsIds
      BY <1>10, ThreadsAssumption DEF ChildWrites, TypeOK, CallerInv, ObjectInv, Proc, KeepsIds
    <2> QED
      BY <2>8, IdsKept
  <1>11. ASSUME NEW c \in Children, ChildExits(c)
        PROVE  IdInv'
    <2>8. KeepsIds
      BY <1>11, ThreadsAssumption DEF ChildExits, TypeOK, CallerInv, ObjectInv, Proc, KeepsIds
    <2> QED
      BY <2>8, IdsKept
  <1>12. ASSUME NEW c \in Children, ClosesOutput(c)
        PROVE  IdInv'
    <2>8. KeepsIds
      BY <1>12, ThreadsAssumption DEF ClosesOutput, TypeOK, CallerInv, ObjectInv, Proc, KeepsIds
    <2> QED
      BY <2>8, IdsKept
  <1>13. ASSUME NEW c \in Children, ReaderReads(c)
        PROVE  IdInv'
    <2>8. KeepsIds
      BY <1>13, ThreadsAssumption DEF ReaderReads, TypeOK, CallerInv, ObjectInv, Proc, KeepsIds
    <2> QED
      BY <2>8, IdsKept
  <1>14. ASSUME NEW c \in Children, ReaderEnds(c)
        PROVE  IdInv'
    <2>8. KeepsIds
      BY <1>14, ThreadsAssumption DEF ReaderEnds, TypeOK, CallerInv, ObjectInv, Proc, KeepsIds
    <2> QED
      BY <2>8, IdsKept
  <1>15. ASSUME NEW c \in Children, ThreadReap(c)
        PROVE  IdInv'
    <2>8. KeepsIds
      BY <1>15, ThreadsAssumption DEF ThreadReap, TypeOK, CallerInv, ObjectInv, Proc, KeepsIds
    <2> QED
      BY <2>8, IdsKept
  <1>16. ASSUME NEW c \in Children, ThreadNoProcess(c)
        PROVE  IdInv'
    <2>8. KeepsIds
      BY <1>16, ThreadsAssumption DEF ThreadNoProcess, TypeOK, CallerInv, ObjectInv, Proc, KeepsIds
    <2> QED
      BY <2>8, IdsKept
  <1>17. ASSUME NEW c \in Children, ThreadMarkClosed(c)
        PROVE  IdInv'
    <2>8. KeepsIds
      BY <1>17, ThreadsAssumption DEF ThreadMarkClosed, TypeOK, CallerInv, ObjectInv, Proc, KeepsIds
    <2> QED
      BY <2>8, IdsKept
  <1>18. ASSUME NEW c \in Children, ThreadCloseFds(c)
        PROVE  IdInv'
    <2>8. KeepsIds
      BY <1>18, ThreadsAssumption DEF ThreadCloseFds, TypeOK, CallerInv, ObjectInv, Proc, KeepsIds
    <2> QED
      BY <2>8, IdsKept
  <1>19. ASSUME NEW c \in Children, ThreadDispatchExit(c)
        PROVE  IdInv'
    <2>8. KeepsIds
      BY <1>19, ThreadsAssumption DEF ThreadDispatchExit, TypeOK, CallerInv, ObjectInv, Proc, KeepsIds
    <2> QED
      BY <2>8, IdsKept
  <1>20. ASSUME NEW c \in Children, ThreadErase(c)
        PROVE  IdInv'
    <2>8. KeepsIds
      BY <1>20, ThreadsAssumption DEF ThreadErase, TypeOK, CallerInv, ObjectInv, Proc, KeepsIds
    <2> QED
      BY <2>8, IdsKept
  <1>21. ASSUME NEW c \in Children, ClosesInput(c)
        PROVE  IdInv'
    <2>8. KeepsIds
      BY <1>21, ThreadsAssumption DEF ClosesInput, TypeOK, CallerInv, ObjectInv, Proc, KeepsIds
    <2> QED
      BY <2>8, IdsKept
  <1>22. CASE UNCHANGED vars
    BY <1>22, IdsKept DEF KeepsIds
  <1> QED
    BY <1>1, <1>2, <1>3, <1>4, <1>5, <1>6, <1>7, <1>8, <1>9, <1>10, <1>11, <1>12, <1>13, <1>14, <1>15, <1>16, <1>17, <1>18, <1>19, <1>20, <1>21, <1>22
    DEF Next, CallerNext, ChildNext, ReaderNext, ThreadNext

\* Live children stay listed.
LEMMA NextListedUntilWrap == TypeOK /\ CallerInv /\ ObjectInv /\ IdInv /\ ListedUntilWrap /\ [Next]_vars => ListedUntilWrap'
  <1> SUFFICES ASSUME TypeOK /\ CallerInv /\ ObjectInv /\ IdInv /\ ListedUntilWrap, [Next]_vars PROVE ListedUntilWrap'
    OBVIOUS
  <1> USE ThreadsAssumption DEF TypeOK, CallerInv, ObjectInv, IdInv, Proc, ListedUntilWrap
  <1>1. ASSUME NEW t \in Callers, NEW c \in Children, NEW forked \in BOOLEAN,
               SpawnBegin(t, c, forked)
        PROVE  ListedUntilWrap'
    BY <1>1 DEF SpawnBegin, Begin, Constructed, VirtualPid, AdvancedVirtualPid
  <1>2. ASSUME NEW t \in Callers, SpawnRegister(t)
        PROVE  ListedUntilWrap'
    BY <1>2 DEF SpawnRegister
  <1>3. ASSUME NEW t \in Callers, SpawnReturn(t)
        PROVE  ListedUntilWrap'
    BY <1>3 DEF SpawnReturn
  <1>4. ASSUME NEW t \in Callers, CallWithoutEffect(t)
        PROVE  ListedUntilWrap'
    BY <1>4 DEF CallWithoutEffect, Begin
  <1>5. ASSUME NEW t \in Callers, NEW id \in VirtualPids, UpdateExit(t, id)
        PROVE  ListedUntilWrap'
    <2>1. spawnedProcesses[id] \in Children
      BY <1>5 DEF UpdateExit, TypeOK
    <2>2. /\ Kill(proc[spawnedProcesses[id]]) \in Proc
          /\ Kill(proc[spawnedProcesses[id]]) =
                [proc[spawnedProcesses[id]] EXCEPT
                    !.signalled = Kill(proc[spawnedProcesses[id]]).signalled]
      BY <2>1, KillEffect DEF TypeOK
    <2> QED
      <3>1. \A c \in Children : /\ proc'[c].heap = proc[c].heap /\ proc'[c].thread = proc[c].thread
                                /\ proc'[c].vpid = proc[c].vpid
        BY <1>5, <2>1, <2>2 DEF UpdateExit
      <3> QED
        BY <1>5, <3>1 DEF UpdateExit
  <1>6. ASSUME NEW t \in Callers, NEW id \in VirtualPids, UpdateStdInEnd(t, id)
        PROVE  ListedUntilWrap'
    BY <1>6 DEF UpdateStdInEnd, Begin
  <1>7. ASSUME NEW t \in Callers, NEW id \in VirtualPids, UpdateStdIn(t, id)
        PROVE  ListedUntilWrap'
    BY <1>7 DEF UpdateStdIn, Begin
  <1>8. ASSUME NEW t \in Callers, WriteReturn(t)
        PROVE  ListedUntilWrap'
    BY <1>8 DEF WriteReturn, Blocked
  <1>9. ASSUME NEW c \in Children, ChildReads(c)
        PROVE  ListedUntilWrap'
    BY <1>9 DEF ChildReads
  <1>10. ASSUME NEW c \in Children, ChildWrites(c)
        PROVE  ListedUntilWrap'
    BY <1>10 DEF ChildWrites
  <1>11. ASSUME NEW c \in Children, ChildExits(c)
        PROVE  ListedUntilWrap'
    BY <1>11 DEF ChildExits
  <1>12. ASSUME NEW c \in Children, ClosesOutput(c)
        PROVE  ListedUntilWrap'
    BY <1>12 DEF ClosesOutput
  <1>13. ASSUME NEW c \in Children, ReaderReads(c)
        PROVE  ListedUntilWrap'
    BY <1>13 DEF ReaderReads
  <1>14. ASSUME NEW c \in Children, ReaderEnds(c)
        PROVE  ListedUntilWrap'
    BY <1>14 DEF ReaderEnds
  <1>15. ASSUME NEW c \in Children, ThreadReap(c)
        PROVE  ListedUntilWrap'
    BY <1>15 DEF ThreadReap
  <1>16. ASSUME NEW c \in Children, ThreadNoProcess(c)
        PROVE  ListedUntilWrap'
    BY <1>16 DEF ThreadNoProcess
  <1>17. ASSUME NEW c \in Children, ThreadMarkClosed(c)
        PROVE  ListedUntilWrap'
    BY <1>17 DEF ThreadMarkClosed
  <1>18. ASSUME NEW c \in Children, ThreadCloseFds(c)
        PROVE  ListedUntilWrap'
    BY <1>18 DEF ThreadCloseFds
  <1>19. ASSUME NEW c \in Children, ThreadDispatchExit(c)
        PROVE  ListedUntilWrap'
    BY <1>19 DEF ThreadDispatchExit
  <1>20. ASSUME NEW c \in Children, ThreadErase(c)
        PROVE  ListedUntilWrap'
    BY <1>20 DEF ThreadErase
  <1>21. ASSUME NEW c \in Children, ClosesInput(c)
        PROVE  ListedUntilWrap'
    BY <1>21 DEF ClosesInput
  <1>22. CASE UNCHANGED vars
    BY <1>22
  <1> QED
    BY <1>1, <1>2, <1>3, <1>4, <1>5, <1>6, <1>7, <1>8, <1>9, <1>10, <1>11, <1>12, <1>13, <1>14, <1>15, <1>16, <1>17, <1>18, <1>19, <1>20, <1>21, <1>22
    DEF Next, CallerNext, ChildNext, ReaderNext, ThreadNext

\* An object without a process is closed and nobody writes to its pipe.
LEMMA ConstructedFailed ==
    ASSUME NEW id \in VirtualPids, NEW ev \in BOOLEAN, NEW forked \in BOOLEAN,
           Constructed(id, ev, forked).os = "failed"
    PROVE  Constructed(id, ev, forked).closed /\ ~Constructed(id, ev, forked).outOpen
  <1>1. CASE forked
    BY <1>1 DEF Constructed
  <1>2. CASE ~forked
    BY <1>2, Zenon DEF Constructed
  <1> QED
    BY <1>1, <1>2

\* Order of the stages.
LEMMA NextOutputInv == TypeOK /\ CallerInv /\ ObjectInv /\ OutputInv /\ [Next]_vars => OutputInv'
  <1> SUFFICES ASSUME TypeOK /\ CallerInv /\ ObjectInv /\ OutputInv, [Next]_vars PROVE OutputInv'
    OBVIOUS
  <1> USE DEF TypeOK, CallerInv, ObjectInv, Proc, OutputInv
  <1>1. ASSUME NEW t \in Callers, NEW c \in Children, NEW forked \in BOOLEAN,
               SpawnBegin(t, c, forked)
        PROVE  OutputInv'
    <2>1. \A d \in Children \ {c} : proc'[d] = proc[d]
      BY <1>1 DEF SpawnBegin
    <2>2. proc'[c] = Constructed(VirtualPid, t \notin Quiet, forked)
      BY <1>1 DEF SpawnBegin
    <2>3. /\ proc'[c].os \in {"running", "failed"} /\ proc'[c].consumed = proc'[c].produced
          /\ proc'[c].thread = "none" /\ ~proc'[c].exitSent /\ proc'[c].reader # "done"
      BY <2>2 DEF Constructed
    <2>4. proc'[c].os = "failed" => ~proc'[c].outOpen /\ proc'[c].closed
      <3>1. PICK ev \in BOOLEAN : ev = (t \notin Quiet)
        OBVIOUS
      <3>2. proc'[c] = Constructed(VirtualPid, ev, forked) /\ VirtualPid \in VirtualPids
        BY <2>2, <3>1, Zenon DEF VirtualPid
      <3> QED
        BY <3>2, ConstructedFailed
    <2> QED
      BY <2>1, <2>3, <2>4 DEF OutputInv
  <1>2. ASSUME NEW t \in Callers, SpawnRegister(t)
        PROVE  OutputInv'
    BY <1>2 DEF SpawnRegister
  <1>3. ASSUME NEW t \in Callers, SpawnReturn(t)
        PROVE  OutputInv'
    BY <1>3 DEF SpawnReturn
  <1>4. ASSUME NEW t \in Callers, CallWithoutEffect(t)
        PROVE  OutputInv'
    BY <1>4 DEF CallWithoutEffect, Begin
  <1>5. ASSUME NEW t \in Callers, NEW id \in VirtualPids, UpdateExit(t, id)
        PROVE  OutputInv'
    <2>1. spawnedProcesses[id] \in Children
      BY <1>5 DEF UpdateExit, TypeOK
    <2>2. /\ Kill(proc[spawnedProcesses[id]]) \in Proc
          /\ Kill(proc[spawnedProcesses[id]]) =
                [proc[spawnedProcesses[id]] EXCEPT
                    !.signalled = Kill(proc[spawnedProcesses[id]]).signalled]
      BY <2>1, KillEffect DEF TypeOK
    <2> QED
      BY <1>5, <2>1, <2>2 DEF UpdateExit, Begin
  <1>6. ASSUME NEW t \in Callers, NEW id \in VirtualPids, UpdateStdInEnd(t, id)
        PROVE  OutputInv'
    BY <1>6 DEF UpdateStdInEnd, Begin
  <1>7. ASSUME NEW t \in Callers, NEW id \in VirtualPids, UpdateStdIn(t, id)
        PROVE  OutputInv'
    BY <1>7 DEF UpdateStdIn, Begin
  <1>8. ASSUME NEW t \in Callers, WriteReturn(t)
        PROVE  OutputInv'
    BY <1>8 DEF WriteReturn, Blocked
  <1>9. ASSUME NEW c \in Children, ChildReads(c)
        PROVE  OutputInv'
    BY <1>9 DEF ChildReads
  <1>10. ASSUME NEW c \in Children, ChildWrites(c)
        PROVE  OutputInv'
    BY <1>10 DEF ChildWrites
  <1>11. ASSUME NEW c \in Children, ChildExits(c)
        PROVE  OutputInv'
    BY <1>11 DEF ChildExits
  <1>12. ASSUME NEW c \in Children, ClosesOutput(c)
        PROVE  OutputInv'
    BY <1>12 DEF ClosesOutput
  <1>13. ASSUME NEW c \in Children, ReaderReads(c)
        PROVE  OutputInv'
    BY <1>13 DEF ReaderReads
  <1>14. ASSUME NEW c \in Children, ReaderEnds(c)
        PROVE  OutputInv'
    BY <1>14 DEF ReaderEnds
  <1>15. ASSUME NEW c \in Children, ThreadReap(c)
        PROVE  OutputInv'
    BY <1>15 DEF ThreadReap
  <1>16. ASSUME NEW c \in Children, ThreadNoProcess(c)
        PROVE  OutputInv'
    BY <1>16 DEF ThreadNoProcess
  <1>17. ASSUME NEW c \in Children, ThreadMarkClosed(c)
        PROVE  OutputInv'
    BY <1>17 DEF ThreadMarkClosed
  <1>18. ASSUME NEW c \in Children, ThreadCloseFds(c)
        PROVE  OutputInv'
    BY <1>18 DEF ThreadCloseFds
  <1>19. ASSUME NEW c \in Children, ThreadDispatchExit(c)
        PROVE  OutputInv'
    BY <1>19 DEF ThreadDispatchExit
  <1>20. ASSUME NEW c \in Children, ThreadErase(c)
        PROVE  OutputInv'
    BY <1>20 DEF ThreadErase
  <1>21. ASSUME NEW c \in Children, ClosesInput(c)
        PROVE  OutputInv'
    BY <1>21 DEF ClosesInput
  <1>22. CASE UNCHANGED vars
    BY <1>22
  <1> QED
    BY <1>1, <1>2, <1>3, <1>4, <1>5, <1>6, <1>7, <1>8, <1>9, <1>10, <1>11, <1>12, <1>13, <1>14, <1>15, <1>16, <1>17, <1>18, <1>19, <1>20, <1>21, <1>22
    DEF Next, CallerNext, ChildNext, ReaderNext, ThreadNext

\* The inductive invariant holds initially.
LEMMA InitIInv == Init => IInv
  <1> SUFFICES ASSUME Init PROVE IInv
    OBVIOUS
  <1>1. TypeOK
    BY InitTypeOK
  <1>2. /\ \A c \in Children : proc[c] = Unallocated
        /\ \A t \in Callers : pc[t] = "idle" /\ cur[t] = None
        /\ \A id \in VirtualPids : spawnedProcesses[id] = None
    BY DEF Init
  <1>3. CallerInv /\ ObjectInv
    BY <1>2 DEF CallerInv, ObjectInv, Unallocated
  <1>4. IdInv /\ ListedUntilWrap
    BY <1>2 DEF IdInv, ListedUntilWrap, Unallocated
  <1>5. OutputInv
    BY <1>2 DEF OutputInv, Unallocated
  <1> QED
    BY <1>1, <1>3, <1>4, <1>5 DEF IInv

\* Every step preserves the inductive invariant.
LEMMA NextIInv == IInv /\ [Next]_vars => IInv'
  BY NextTypeOK, NextCallerInv, NextObjectInv, NextIdInv, NextListedUntilWrap, NextOutputInv
  DEF IInv

\* The inductive invariant holds in every reachable state.
THEOREM Invariance == Spec => []IInv
  BY InitIInv, NextIInv, PTL DEF Spec

\* Every variable keeps its type, and the id counter stays within an int.
THEOREM TypeCorrect == Spec => []TypeOK
  <1>1. IInv => TypeOK
    BY DEF IInv
  <1> QED
    BY <1>1, Invariance, PTL

\* No caller and no table entry ever points to a deleted Process object,
\* before or after the ids wrap.
THEOREM MemorySafety == Spec => []NoUseAfterFree
  <1>1. IInv => NoUseAfterFree
    BY DEF IInv, TypeOK, CallerInv, ObjectInv, NoUseAfterFree
  <1> QED
    BY <1>1, Invariance, PTL

\* Until the ids wrap, a live child stays in the table under its own id.
THEOREM LiveChildrenListed == Spec => []ListedUntilWrap
  <1>1. IInv => ListedUntilWrap
    BY DEF IInv
  <1> QED
    BY <1>1, Invariance, PTL

\* The exit event comes after all of the child's output.
THEOREM ExitEventLast == Spec => []ExitIsLast
  <1>1. IInv => ExitIsLast
    BY DEF IInv, OutputInv, ExitIsLast
  <1> QED
    BY <1>1, Invariance, PTL

\* Only updateSpawnedProcess signals, and never a closed object.
LEMMA SignalStep ==
    ASSUME IInv, [Next]_vars, NEW c \in Children, proc[c].exitSent
    PROVE  proc'[c].signalled = proc[c].signalled
  <1>0. proc[c].closed /\ proc[c].heap # "none"
    BY DEF IInv, OutputInv, ObjectInv
  <1> DEFINE Goal == proc'[c].signalled = proc[c].signalled
  <1>1. ASSUME NEW t \in Callers, NEW b \in Children, NEW forked \in BOOLEAN,
               SpawnBegin(t, b, forked)
        PROVE  Goal
    BY <1>0, <1>1 DEF SpawnBegin, IInv, TypeOK
  <1>2. ASSUME NEW t \in Callers, SpawnRegister(t)
        PROVE  Goal
    BY <1>2, ThreadsAssumption DEF SpawnRegister, IInv, CallerInv, TypeOK, Proc
  <1>3. ASSUME NEW t \in Callers, SpawnReturn(t)
        PROVE  Goal
    BY <1>3, ThreadsAssumption DEF SpawnReturn, IInv, CallerInv, TypeOK, Proc
  <1>4. ASSUME NEW t \in Callers, CallWithoutEffect(t)
        PROVE  Goal
    BY <1>4, ThreadsAssumption DEF CallWithoutEffect, IInv, CallerInv, TypeOK, Proc
  <1>5. ASSUME NEW t \in Callers, NEW id \in VirtualPids, UpdateExit(t, id)
        PROVE  Goal
    BY <1>0, <1>5, ThreadsAssumption DEF UpdateExit, Kill, IInv, TypeOK
  <1>6. ASSUME NEW t \in Callers, NEW id \in VirtualPids, UpdateStdInEnd(t, id)
        PROVE  Goal
    BY <1>6, ThreadsAssumption DEF UpdateStdInEnd, IInv, CallerInv, TypeOK, Proc
  <1>7. ASSUME NEW t \in Callers, NEW id \in VirtualPids, UpdateStdIn(t, id)
        PROVE  Goal
    BY <1>7, ThreadsAssumption DEF UpdateStdIn, IInv, CallerInv, TypeOK, Proc
  <1>8. ASSUME NEW t \in Callers, WriteReturn(t)
        PROVE  Goal
    BY <1>8, ThreadsAssumption DEF WriteReturn, IInv, CallerInv, TypeOK, Proc
  <1>9. ASSUME NEW b \in Children, ChildReads(b)
        PROVE  Goal
    BY <1>9 DEF ChildReads, IInv, TypeOK, Proc
  <1>10. ASSUME NEW b \in Children, ChildWrites(b)
        PROVE  Goal
    BY <1>10 DEF ChildWrites, IInv, TypeOK, Proc
  <1>11. ASSUME NEW b \in Children, ChildExits(b)
        PROVE  Goal
    BY <1>11 DEF ChildExits, IInv, TypeOK, Proc
  <1>12. ASSUME NEW b \in Children, ClosesOutput(b)
        PROVE  Goal
    BY <1>12 DEF ClosesOutput, IInv, TypeOK, Proc
  <1>13. ASSUME NEW b \in Children, ReaderReads(b)
        PROVE  Goal
    BY <1>13 DEF ReaderReads, IInv, TypeOK, Proc
  <1>14. ASSUME NEW b \in Children, ReaderEnds(b)
        PROVE  Goal
    BY <1>14 DEF ReaderEnds, IInv, TypeOK, Proc
  <1>15. ASSUME NEW b \in Children, ThreadReap(b)
        PROVE  Goal
    BY <1>15 DEF ThreadReap, IInv, TypeOK, Proc
  <1>16. ASSUME NEW b \in Children, ThreadNoProcess(b)
        PROVE  Goal
    BY <1>16 DEF ThreadNoProcess, IInv, TypeOK, Proc
  <1>17. ASSUME NEW b \in Children, ThreadMarkClosed(b)
        PROVE  Goal
    BY <1>17 DEF ThreadMarkClosed, IInv, TypeOK, Proc
  <1>18. ASSUME NEW b \in Children, ThreadCloseFds(b)
        PROVE  Goal
    BY <1>18 DEF ThreadCloseFds, IInv, TypeOK, Proc
  <1>19. ASSUME NEW b \in Children, ThreadDispatchExit(b)
        PROVE  Goal
    BY <1>19 DEF ThreadDispatchExit, IInv, TypeOK, Proc
  <1>20. ASSUME NEW b \in Children, ThreadErase(b)
        PROVE  Goal
    BY <1>20 DEF ThreadErase, IInv, TypeOK, Proc
  <1>21. ASSUME NEW b \in Children, ClosesInput(b)
        PROVE  Goal
    BY <1>21 DEF ClosesInput, IInv, TypeOK, Proc
  <1>22. CASE UNCHANGED vars
    BY <1>22
  <1> QED
    BY <1>1, <1>2, <1>3, <1>4, <1>5, <1>6, <1>7, <1>8, <1>9, <1>10, <1>11, <1>12, <1>13, <1>14, <1>15, <1>16, <1>17, <1>18, <1>19, <1>20, <1>21, <1>22
    DEF Next, CallerNext, ChildNext, ReaderNext, ThreadNext

\* Once the exit event of a child is out, no update signals its old pid.
THEOREM NoLateSignal == Spec => NoSignalAfterExitEvent
  <1>1. IInv /\ [Next]_vars =>
            [\A c \in Children :
                proc[c].exitSent => proc'[c].signalled = proc[c].signalled]_vars
    BY SignalStep
  <1> QED
    BY <1>1, Invariance, PTL DEF Spec, NoSignalAfterExitEvent

=============================================================================
