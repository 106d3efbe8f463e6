----------------------------- MODULE SafeStore ------------------------------
(***************************************************************************)
(* What the storage API promises to the instances of an application (each  *)
(* window made by window.create is a process) that share one storage: a    *)
(* map from keys to values in which every key is a safe register.  A get   *)
(* answers a value the key had while the get was under way; if a set of    *)
(* that key overlapped it, or the last set of the key was disturbed or cut *)
(* short, it may answer anything.  A set that nothing disturbs leaves the  *)
(* key with its value.                                                     *)
(***************************************************************************)
CONSTANTS
    Instances,
    Keys,
    Values,         \* key -> the values clients set it to
    None,           \* the key is not there; no set or get under way
    Unknown,        \* the value cannot be told
    Quiet           \* a step that answers no call

VARIABLES
    store,          \* key -> value, None or Unknown
    writing,        \* instance -> its set under way, or None
    reading,        \* instance -> its get under way, or None
    answer          \* what the last step answered, and Quiet if nothing

vars == <<store, writing, reading, answer>>

Init ==
    /\ store = [k \in Keys |-> None]
    /\ writing = [p \in Instances |-> None]
    /\ reading = [p \in Instances |-> None]
    /\ answer = Quiet

\* Writers of a key.
Writers(k) == {p \in Instances : writing[p] # None /\ writing[p].key = k}

\* What the others' sets are after another set or a removal of k.
Disturbed(k) ==
    [p \in Instances |-> IF p \in Writers(k) THEN [writing[p] EXCEPT !.alone = FALSE]
                         ELSE writing[p]]

\* Gets under way take note of the value their key has now.
Noted == [p \in Instances |-> IF reading[p] = None THEN None
                              ELSE [reading[p] EXCEPT !.seen = @ \cup {store'[reading[p].key]}]]

\* The step answers the call of method m that p made.
Answers(p, m, code) ==
    answer' # Quiet /\ answer'.by = p /\ answer'.to = m /\ answer'.code = code

Errors == {"NE_ST_INVSTKY", "NE_RT_NATRTER", "NE_ST_STKEYWE", "NE_ST_STKEYRE", "NE_ST_NOSTDIR"}

BeginSet(p, k, v) ==
    /\ writing[p] = None
    /\ store' = [store EXCEPT ![k] = Unknown]
    /\ writing' = [Disturbed(k) EXCEPT
                      ![p] = [key |-> k, data |-> v, alone |-> Writers(k) = {}]]
    /\ reading' = Noted
    /\ answer' = Quiet

\* A set ends with all its data written: the key has the value if nothing
\* disturbed the set.
EndSet(p) ==
    /\ writing[p] # None
    /\ store' = IF writing[p].alone
                THEN [store EXCEPT ![writing[p].key] = writing[p].data] ELSE store
    /\ writing' = [writing EXCEPT ![p] = None]
    /\ reading' = Noted
    /\ Answers(p, "setData", "success")

\* The disk is full or the process ends in the middle of a set.
LoseSet(p) ==
    /\ writing[p] # None
    /\ writing' = [writing EXCEPT ![p] = None]
    /\ answer' = Quiet \/ Answers(p, "setData", "success")
    /\ UNCHANGED <<store, reading>>

\* A key is removed, by removeData, by setData without data or by clear.
Remove(p, k) ==
    /\ store[k] # None
    /\ store' = [store EXCEPT ![k] = None]
    /\ writing' = Disturbed(k)
    /\ reading' = Noted
    /\ answer' = Quiet \/ Answers(p, "removeData", "success")

\* clear succeeds: no key is left.
Cleared(p) ==
    /\ \A k \in Keys : store[k] = None
    /\ Answers(p, "clear", "success")
    /\ UNCHANGED <<store, writing, reading>>

BeginGet(p, k) ==
    /\ reading[p] = None
    /\ store[k] # None
    /\ reading' = [reading EXCEPT ![p] = [key |-> k, seen |-> {store[k]}]]
    /\ answer' = Quiet
    /\ UNCHANGED <<store, writing>>

EndGet(p) ==
    /\ reading[p] # None
    /\ Answers(p, "getData", "success")
    /\ answer'.data \in reading[p].seen \/ Unknown \in reading[p].seen
    /\ reading' = [reading EXCEPT ![p] = None]
    /\ UNCHANGED <<store, writing>>

\* The process ends in the middle of a get.
LoseGet(p) ==
    /\ reading[p] # None
    /\ reading' = [reading EXCEPT ![p] = None]
    /\ answer' = Quiet
    /\ UNCHANGED <<store, writing>>

\* A get of a key that is not there.
GetAbsent(p) ==
    /\ Answers(p, "getData", "NE_ST_NOSTKEX")
    /\ store[answer'.key] = None
    /\ UNCHANGED <<store, writing, reading>>

\* getKeys answers the keys that are there.
GetKeys(p) ==
    /\ Answers(p, "getKeys", "success")
    /\ answer'.keys = {k \in Keys : store[k] # None}
    /\ UNCHANGED <<store, writing, reading>>

\* Calls that fail change nothing, and neither do steps between.
Fail == answer' # Quiet /\ answer'.code \in Errors /\ UNCHANGED <<store, writing, reading>>
Idle == answer' = Quiet /\ UNCHANGED <<store, writing, reading>>

Next ==
    \/ \E p \in Instances :
          \/ \E k \in Keys : \/ BeginGet(p, k)
                             \/ Remove(p, k)
                             \/ \E v \in Values[k] : BeginSet(p, k, v)
          \/ EndSet(p) \/ LoseSet(p) \/ Cleared(p)
          \/ EndGet(p) \/ LoseGet(p) \/ GetAbsent(p) \/ GetKeys(p)
    \/ Fail
    \/ Idle

Spec == Init /\ [][Next]_vars
=============================================================================
