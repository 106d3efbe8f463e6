------------------------ MODULE ConfigurationProofs -------------------------
(***************************************************************************)
(* What the loops over the command line, over the overrides of the         *)
(* options, over the characters of a command and over the pieces and names *)
(* of a path compute, for input of any length and any tree of files.       *)
(* Each loop is a recursive function of the number of turns made: that it  *)
(* exists, and what it keeps, is shown with the least turn at which it     *)
(* would not.                                                              *)
(***************************************************************************)
EXTENDS Startup, Router, SequenceTheorems, WellFoundedInduction, TLAPS

\* A set of natural numbers that is not empty has a least element.
LEMMA LeastNatural ==
    ASSUME NEW T, T \subseteq Nat, T # {}
    PROVE  \E x \in T : \A y \in T : x <= y
<1> DEFINE R == OpToRel(<, Nat)
<1>1. IsWellFoundedOn(R, Nat)
  BY NatLessThanWellFounded
<1> HIDE DEF R
<1>2. PICK x \in T : \A y \in T : ~(<<y, x>> \in R)
  BY <1>1, WFMin
<1>3. \A y \in T : ~(y < x)
  BY <1>2 DEF OpToRel, R
<1>4. QED
  BY <1>3

\* What holds at the beginning, and after a turn if it held before it, holds
\* after every turn; H is the set of the turns after which it holds.
LEMMA EveryTurn ==
    ASSUME NEW n \in Nat, NEW H, 0 \in H, \A i \in 1..n : i - 1 \in H => i \in H
    PROVE  \A i \in 0..n : i \in H
<1> DEFINE Out == {i \in 0..n : i \notin H}
<1> SUFFICES ASSUME Out # {} PROVE FALSE
  OBVIOUS
<1>1. Out \subseteq Nat
  OBVIOUS
<1>2. PICK m \in Out : \A y \in Out : m <= y
  <2> HIDE DEF Out
  <2>1. QED
    BY <1>1, LeastNatural
<1>3. m # 0 /\ m \in 1..n
  OBVIOUS
<1>4. m - 1 \in 0..n /\ ~(m <= m - 1)
  BY <1>3
<1>5. m - 1 \in H
  BY <1>2, <1>4
<1>6. QED
  BY <1>3, <1>5

-----------------------------------------------------------------------------
(* The loops. *)

\* One turn of each of the loops.
Turn(loop, st, x) ==
    CASE loop = "patches" -> Patched(st, x)
      [] loop = "args" -> ArgRead(st, x)
      [] loop = "chars" -> NextToken(st, x)
      [] loop = "pieces" -> NextPiece(st, x)
      [] loop = "names" -> st \o <<Slash>> \o x
      [] loop = "tree" -> SeekName(x.files, st, x.name)

\* w is what a loop over s has computed after each of m turns.
IsLoop(loop, w, m, begin, s) ==
    w = [i \in 0..m |-> IF i = 0 THEN begin ELSE Turn(loop, w[i - 1], s[i])]

\* Every loop computes something.
LEMMA LoopExists ==
    ASSUME NEW loop, NEW begin, NEW s, NEW n \in Nat
    PROVE  \E w : IsLoop(loop, w, n, begin, s)
<1> DEFINE H == {m \in 0..n : \E w : IsLoop(loop, w, m, begin, s)}
<1>1. 0 \in H
  <2>1. IsLoop(loop, [i \in 0..0 |-> begin], 0, begin, s)
    BY DEF IsLoop
  <2>2. QED
    BY <2>1
<1>2. ASSUME NEW m \in 1..n, m - 1 \in H PROVE m \in H
  <2>1. PICK v : IsLoop(loop, v, m - 1, begin, s)
    BY <1>2
  <2> DEFINE last == Turn(loop, v[m - 1], s[m])
             w == [i \in 0..m |-> IF i = m THEN last ELSE v[i]]
  <2>2. ASSUME NEW i \in 0..m
        PROVE  w[i] = IF i = 0 THEN begin ELSE Turn(loop, w[i - 1], s[i])
    <3>1. CASE i = m
      <4>1. w[i - 1] = v[m - 1] /\ i # 0
        BY <3>1
      <4>2. QED
        BY <3>1, <4>1
    <3>2. CASE i # m
      <4>1. i \in 0..m - 1
        BY <3>2
      <4>2. w[i] = v[i]
        BY <3>2
      <4>3. v[i] = IF i = 0 THEN begin ELSE Turn(loop, v[i - 1], s[i])
        BY <2>1, <4>1 DEF IsLoop
      <4>4. i # 0 => w[i - 1] = v[i - 1]
        BY <4>1
      <4>5. QED
        BY <4>2, <4>3, <4>4
    <3>3. QED
      BY <3>1, <3>2
  <2>3. w = [i \in 0..m |-> w[i]]
    OBVIOUS
  <2> HIDE DEF w
  <2>4. IsLoop(loop, w, m, begin, s)
    BY <2>2, <2>3, Zenon DEF IsLoop
  <2>5. QED
    BY <2>4
<1>3. \A m \in 0..n : m \in H
  <2> HIDE DEF H
  <2>1. QED
    BY <1>1, <1>2, EveryTurn
<1>4. QED
  BY <1>3

\* settings::init makes its patches one after the other.
LEMMA PatchesLoop ==
    ASSUME NEW o, NEW ov, Len(ov) \in Nat
    PROVE  \E w : /\ ApplyOverrides(o, ov) = w[Len(ov)]
                  /\ w[0] = o
                  /\ \A i \in 1..Len(ov) : w[i] = Patched(w[i - 1], ov[i])
<1> DEFINE w == CHOOSE f : f = [i \in 0..Len(ov) |->
                                  IF i = 0 THEN o ELSE Patched(f[i - 1], ov[i])]
<1>1. ApplyOverrides(o, ov) = w[Len(ov)]
  BY Zenon DEF ApplyOverrides
<1>2. \E f : f = [i \in 0..Len(ov) |-> IF i = 0 THEN o ELSE Patched(f[i - 1], ov[i])]
  <2>1. PICK f : IsLoop("patches", f, Len(ov), o, ov)
    BY LoopExists
  <2>2. \A st, x : Turn("patches", st, x) = Patched(st, x)
    BY DEF Turn
  <2>3. QED
    BY <2>1, <2>2 DEF IsLoop
<1>3. w = [i \in 0..Len(ov) |-> IF i = 0 THEN o ELSE Patched(w[i - 1], ov[i])]
  BY <1>2, Zenon
<1> HIDE DEF w
<1>4. w[0] = o
  BY <1>3
<1>5. ASSUME NEW i \in 1..Len(ov) PROVE w[i] = Patched(w[i - 1], ov[i])
  BY <1>3
<1>6. QED
  BY <1>1, <1>4, <1>5

\* settings::setGlobalArgs reads the arguments one after the other.
LEMMA ArgsLoop ==
    ASSUME NEW begin, NEW args, Len(args) \in Nat
    PROVE  \E w : /\ ArgsRead(begin, args) = w[Len(args)]
                  /\ w[0] = begin
                  /\ \A i \in 1..Len(args) : w[i] = ArgRead(w[i - 1], args[i])
<1> DEFINE w == CHOOSE f : f = [i \in 0..Len(args) |->
                                  IF i = 0 THEN begin ELSE ArgRead(f[i - 1], args[i])]
<1>1. ArgsRead(begin, args) = w[Len(args)]
  BY Zenon DEF ArgsRead
<1>2. \E f : f = [i \in 0..Len(args) |-> IF i = 0 THEN begin ELSE ArgRead(f[i - 1], args[i])]
  <2>1. PICK f : IsLoop("args", f, Len(args), begin, args)
    BY LoopExists
  <2>2. \A st, x : Turn("args", st, x) = ArgRead(st, x)
    BY DEF Turn
  <2>3. QED
    BY <2>1, <2>2 DEF IsLoop
<1>3. w = [i \in 0..Len(args) |-> IF i = 0 THEN begin ELSE ArgRead(w[i - 1], args[i])]
  BY <1>2, Zenon
<1> HIDE DEF w
<1>4. w[0] = begin
  BY <1>3
<1>5. ASSUME NEW i \in 1..Len(args) PROVE w[i] = ArgRead(w[i - 1], args[i])
  BY <1>3
<1>6. QED
  BY <1>1, <1>4, <1>5

\* helpers::tokenizeCommand reads the characters one after the other.
LEMMA CharsLoop ==
    ASSUME NEW command, Len(command) \in Nat
    PROVE  \E w : /\ Tokenized(command) = w[Len(command)]
                  /\ w[0] = [tokens |-> <<>>, current |-> <<>>, quote |-> "none",
                             rejected |-> FALSE]
                  /\ \A i \in 1..Len(command) : w[i] = NextToken(w[i - 1], command[i])
<1> DEFINE begin == [tokens |-> <<>>, current |-> <<>>, quote |-> "none", rejected |-> FALSE]
           w == CHOOSE f : f = [i \in 0..Len(command) |->
                                  IF i = 0 THEN begin ELSE NextToken(f[i - 1], command[i])]
<1>1. Tokenized(command) = w[Len(command)]
  BY Zenon DEF Tokenized
<1> HIDE DEF begin
<1>2. \E f : f = [i \in 0..Len(command) |->
                     IF i = 0 THEN begin ELSE NextToken(f[i - 1], command[i])]
  <2>1. PICK f : IsLoop("chars", f, Len(command), begin, command)
    BY LoopExists
  <2>2. \A st, x : Turn("chars", st, x) = NextToken(st, x)
    BY DEF Turn
  <2>3. QED
    BY <2>1, <2>2 DEF IsLoop
<1>3. w = [i \in 0..Len(command) |->
               IF i = 0 THEN begin ELSE NextToken(w[i - 1], command[i])]
  BY <1>2, Zenon
<1> HIDE DEF w
<1>4. w[0] = begin
  BY <1>3
<1>5. ASSUME NEW i \in 1..Len(command) PROVE w[i] = NextToken(w[i - 1], command[i])
  BY <1>3
<1>6. QED
  BY <1>1, <1>4, <1>5 DEF begin
-----------------------------------------------------------------------------
(* The patches of settings::init. *)

Places == Modes \cup {"root"}

\* The option of a key at the root or of a mode.
ValueAt(o, at, key) == IF at = "root" THEN o.root[key] ELSE o.modes[at][key]

IsOverride(p) == p.at \in Places /\ p.key \in Keys

\* The override is of this option.
Hits(p, at, key) == p.at = at /\ p.key = key

\* A patch sets the option it is for, and no other.
LEMMA PatchedOne ==
    ASSUME NEW o, IsOptions(o), NEW p, IsOverride(p)
    PROVE  /\ IsOptions(Patched(o, p))
           /\ \A at \in Places, key \in Keys :
                 ValueAt(Patched(o, p), at, key) =
                    IF Hits(p, at, key) THEN Converted(p) ELSE ValueAt(o, at, key)
<1> DEFINE v == Converted(p)
<1> HIDE DEF v
<1>1. "root" \notin Modes
  BY DEF Modes
<1>2. PICK r, ms : o = [root |-> r, modes |-> ms]
  BY DEF IsOptions
<1>3. /\ r = [k \in Keys |-> r[k]]
      /\ ms = [m \in Modes |-> [k \in Keys |-> ms[m][k]]]
  BY <1>2 DEF IsOptions
<1>4. CASE p.at = "root"
  <2> DEFINE r2 == [r EXCEPT ![p.key] = v]
  <2>1. Patched(o, p) = [root |-> r2, modes |-> ms]
    BY <1>2, <1>4 DEF Patched, v
  <2>2. r2 = [k \in Keys |-> IF k = p.key THEN v ELSE r[k]]
    BY <1>3 DEF IsOverride
  <2> HIDE DEF r2
  <2>3. r2 = [k \in Keys |-> r2[k]]
    BY <2>2
  <2>4. IsOptions(Patched(o, p))
    BY <1>3, <2>1, <2>3 DEF IsOptions
  <2>5. ASSUME NEW at \in Places, NEW key \in Keys
        PROVE  ValueAt(Patched(o, p), at, key) =
                    IF Hits(p, at, key) THEN v ELSE ValueAt(o, at, key)
    BY <1>1, <1>2, <1>4, <2>1, <2>2 DEF ValueAt, Hits, Places
  <2>6. QED
    BY <2>4, <2>5 DEF v
<1>5. CASE p.at # "root"
  <2> DEFINE ms2 == [ms EXCEPT ![p.at][p.key] = v]
  <2>1. Patched(o, p) = [root |-> r, modes |-> ms2]
    BY <1>2, <1>5 DEF Patched, v
  <2>2. p.at \in Modes
    BY <1>5 DEF IsOverride, Places
  <2>3. ms2 = [m \in Modes |-> IF m = p.at THEN [ms[m] EXCEPT ![p.key] = v] ELSE ms[m]]
    BY <1>3, <2>2
  <2>4. \A m \in Modes : ms[m] = [k \in Keys |-> ms[m][k]]
    BY <1>3
  <2>5. \A m \in Modes : ms2[m] = [k \in Keys |-> IF m = p.at /\ k = p.key THEN v ELSE ms[m][k]]
    <3> SUFFICES ASSUME NEW m \in Modes
                 PROVE  ms2[m] = [k \in Keys |->
                                     IF m = p.at /\ k = p.key THEN v ELSE ms[m][k]]
      OBVIOUS
    <3>1. CASE m = p.at
      <4>1. ms2[m] = [ms[m] EXCEPT ![p.key] = v]
        BY <2>3, <3>1
      <4>2. [ms[m] EXCEPT ![p.key] = v] = [k \in Keys |-> IF k = p.key THEN v ELSE ms[m][k]]
        BY <2>4 DEF IsOverride
      <4>3. QED
        BY <3>1, <4>1, <4>2
    <3>2. CASE m # p.at
      BY <2>3, <2>4, <3>2
    <3>3. QED
      BY <3>1, <3>2
  <2>6. DOMAIN ms2 = Modes /\ ms2 = [m \in Modes |-> ms2[m]]
    BY <2>3
  <2> HIDE DEF ms2
  <2>7. \A m \in Modes : ms2[m] = [k \in Keys |-> ms2[m][k]]
    BY <2>5
  <2>8. ms2 = [m \in Modes |-> [k \in Keys |-> ms2[m][k]]]
    BY <2>6, <2>7
  <2>9. IsOptions(Patched(o, p))
    BY <1>3, <2>1, <2>8 DEF IsOptions
  <2>10. ASSUME NEW at \in Places, NEW key \in Keys
         PROVE  ValueAt(Patched(o, p), at, key) =
                    IF Hits(p, at, key) THEN v ELSE ValueAt(o, at, key)
    <3>1. CASE at = "root"
      BY <1>2, <1>5, <2>1, <3>1 DEF ValueAt, Hits
    <3>2. CASE at # "root"
      <4>1. at \in Modes
        BY <3>2 DEF Places
      <4>2. ValueAt(Patched(o, p), at, key) = ms2[at][key] /\ ValueAt(o, at, key) = ms[at][key]
        BY <1>2, <2>1, <3>2 DEF ValueAt
      <4>3. ms2[at][key] = IF at = p.at /\ key = p.key THEN v ELSE ms[at][key]
        BY <2>5, <4>1
      <4>4. QED
        BY <4>2, <4>3 DEF Hits
    <3>3. QED
      BY <3>1, <3>2
  <2>11. QED
    BY <2>9, <2>10 DEF v
<1>6. QED
  BY <1>4, <1>5

\* The overrides say nothing of a key.
Silent(ov, key) == \A j \in 1..Len(ov) : ov[j].key # key

AreOverrides(ov) == Len(ov) \in Nat /\ \A i \in 1..Len(ov) : IsOverride(ov[i])

\* The last override of an option is number i.
LastHit(ov, i, at, key) ==
    /\ i \in 1..Len(ov)
    /\ Hits(ov[i], at, key)
    /\ \A j \in 1..Len(ov) : Hits(ov[j], at, key) => j <= i

\* After all patches an option has the value of the last override of it, and
\* one that no override is of is what it was.
LEMMA PatchesApplied ==
    ASSUME NEW o, IsOptions(o), NEW ov, AreOverrides(ov)
    PROVE  /\ IsOptions(ApplyOverrides(o, ov))
           /\ \A at \in Places, key \in Keys :
                 (\A i \in 1..Len(ov) : ~Hits(ov[i], at, key)) =>
                    ValueAt(ApplyOverrides(o, ov), at, key) = ValueAt(o, at, key)
           /\ \A at \in Places, key \in Keys : \A i \in 1..Len(ov) :
                 LastHit(ov, i, at, key) =>
                    ValueAt(ApplyOverrides(o, ov), at, key) = Converted(ov[i])
<1> DEFINE n == Len(ov)
<1>1. n \in Nat /\ \A i \in 1..n : IsOverride(ov[i])
  BY DEF AreOverrides
<1>2. PICK w : /\ ApplyOverrides(o, ov) = w[n]
               /\ w[0] = o
               /\ \A i \in 1..n : w[i] = Patched(w[i - 1], ov[i])
  BY <1>1, PatchesLoop
<1> HIDE DEF n
<1>3. \A i \in 0..n : IsOptions(w[i])
  <2> DEFINE H == {i \in 0..n : IsOptions(w[i])}
  <2>1. 0 \in H
    BY <1>1, <1>2
  <2>2. ASSUME NEW i \in 1..n, i - 1 \in H PROVE i \in H
    BY <1>1, <1>2, <2>2, PatchedOne
  <2> HIDE DEF H
  <2>3. \A i \in 0..n : i \in H
    BY <1>1, <2>1, <2>2, EveryTurn
  <2>4. QED
    BY <2>3 DEF H
<1>4. ASSUME NEW i \in 1..n, NEW at \in Places, NEW key \in Keys
      PROVE  ValueAt(w[i], at, key) =
                IF Hits(ov[i], at, key) THEN Converted(ov[i]) ELSE ValueAt(w[i - 1], at, key)
  <2>1. i - 1 \in 0..n /\ IsOptions(w[i - 1]) /\ IsOverride(ov[i])
    BY <1>1, <1>3
  <2>2. w[i] = Patched(w[i - 1], ov[i])
    BY <1>2
  <2>3. QED
    BY <2>1, <2>2, PatchedOne
<1>5. ASSUME NEW at \in Places, NEW key \in Keys, \A i \in 1..n : ~Hits(ov[i], at, key)
      PROVE  ValueAt(w[n], at, key) = ValueAt(o, at, key)
  <2> DEFINE H == {i \in 0..n : ValueAt(w[i], at, key) = ValueAt(o, at, key)}
  <2>1. 0 \in H
    BY <1>1, <1>2
  <2>2. ASSUME NEW i \in 1..n, i - 1 \in H PROVE i \in H
    BY <1>1, <1>4, <1>5, <2>2
  <2> HIDE DEF H
  <2>3. \A i \in 0..n : i \in H
    BY <1>1, <2>1, <2>2, EveryTurn
  <2>4. QED
    BY <1>1, <2>3 DEF H
<1>6. ASSUME NEW at \in Places, NEW key \in Keys, NEW l \in 1..n, LastHit(ov, l, at, key)
      PROVE  ValueAt(w[n], at, key) = Converted(ov[l])
  <2> DEFINE H == {i \in 0..n : i >= l => ValueAt(w[i], at, key) = Converted(ov[l])}
  <2>1. 0 \in H
    BY <1>1
  <2>2. ASSUME NEW i \in 1..n, i - 1 \in H PROVE i \in H
    <3>1. CASE i < l
      BY <3>1
    <3>2. CASE i = l
      BY <1>4, <1>6, <3>2 DEF LastHit
    <3>3. CASE i > l
      <4>1. ~Hits(ov[i], at, key)
        BY <1>6, <3>3 DEF LastHit, n
      <4>2. ValueAt(w[i - 1], at, key) = Converted(ov[l])
        BY <2>2, <3>3
      <4>3. QED
        BY <1>4, <4>1, <4>2
    <3>4. QED
      BY <3>1, <3>2, <3>3
  <2> HIDE DEF H
  <2>3. \A i \in 0..n : i \in H
    BY <1>1, <2>1, <2>2, EveryTurn
  <2>4. QED
    BY <1>1, <2>3 DEF H
<1>7. QED
  BY <1>1, <1>2, <1>3, <1>5, <1>6 DEF n
-----------------------------------------------------------------------------
(* The arguments of settings::setGlobalArgs. *)

\* The argument sets a key, and the value it gives.
Setting(arg, key) ==
    /\ arg.key \in DOMAIN cliMappings
    /\ cliMappings[arg.key].key = key
    /\ arg.key = "--mode" => arg.value \in Modes

ArgValue(arg) ==
    IF cliMappings[arg.key].type = "bool" THEN arg.value \in {"", "true"} ELSE arg.value

\* The keys of which CliWins speaks, and where they are looked up.
CliKeys == cliMappingAliases \cup {"defaultMode"}
PlacesOf(key) == IF key \in cliMappingAliases THEN Modes ELSE {"root"}

\* The table of the arguments.
LEMMA Mappings ==
    ASSUME NEW a \in DOMAIN cliMappings
    PROVE  /\ cliMappings[a].key \in Keys
           /\ cliMappings[a].at \in {"root", "window"}
           /\ cliMappings[a].key \in CliKeys => cliMappings[a].at = "root"
           /\ cliMappings[a].key = "defaultMode" <=> a = "--mode"
           /\ cliMappings[a].key \notin
                 {"extensions", "nativeAllowList", "nativeBlockList", "commandAllowList",
                  "filesystemScopes", "tokenSecurity"}
           /\ a \notin {"--load-dir-res", "--res-mode", "--neu-dev-extension"}
BY DEF cliMappings, TextArgs, BoolArgs, WindowArgs, Keys, CliKeys, cliMappingAliases

\* The override of an argument as it is written, and the ones of the modes.
OverrideAt(arg, at) ==
    [at |-> at, key |-> cliMappings[arg.key].key, type |-> cliMappings[arg.key].type,
     value |-> IF cliMappings[arg.key].type = "bool" /\ arg.value = ""
               THEN "true" ELSE arg.value]
ModesInOrder == <<"window", "browser", "cloud", "chrome">>

\* What applyConfigOverride answers: nothing, one override, or one and its copies.
LEMMA OverridesOfArg ==
    ASSUME NEW arg
    PROVE  \/ /\ applyConfigOverride(arg) = <<>>
              /\ \A key : ~Setting(arg, key)
           \/ /\ arg.key \in DOMAIN cliMappings
              /\ arg.key = "--mode" => arg.value \in Modes
              /\ cliMappings[arg.key].key \notin cliMappingAliases
              /\ applyConfigOverride(arg) = <<OverrideAt(arg, cliMappings[arg.key].at)>>
           \/ /\ arg.key \in DOMAIN cliMappings
              /\ arg.key = "--mode" => arg.value \in Modes
              /\ cliMappings[arg.key].key \in cliMappingAliases
              /\ applyConfigOverride(arg) =
                    <<OverrideAt(arg, cliMappings[arg.key].at)>>
                        \o [i \in 1..4 |-> OverrideAt(arg, ModesInOrder[i])]
<1> DEFINE m == cliMappings[arg.key]
           val == IF m.type = "bool" /\ arg.value = "" THEN "true" ELSE arg.value
<1>1. CASE arg.key \notin DOMAIN cliMappings \/ (arg.key = "--mode" /\ arg.value \notin Modes)
  BY <1>1 DEF applyConfigOverride, Setting
<1>2. CASE ~(arg.key \notin DOMAIN cliMappings \/ (arg.key = "--mode" /\ arg.value \notin Modes))
  <2>1. applyConfigOverride(arg) = Overrides(m, val)
    BY <1>2, Zenon DEF applyConfigOverride
  <2>2. \A at : OverrideAt(arg, at) =
                  [at |-> at, key |-> m.key, type |-> m.type, value |-> val]
    BY Zenon DEF OverrideAt
  <2>3. CASE m.key \notin cliMappingAliases
    <3>1. Overrides(m, val) = <<OverrideAt(arg, m.at)>> \o <<>>
      BY <2>2, <2>3, Zenon DEF Overrides
    <3>2. <<OverrideAt(arg, m.at)>> \o <<>> = <<OverrideAt(arg, m.at)>>
      OBVIOUS
    <3>3. QED
      BY <1>2, <2>1, <2>3, <3>1, <3>2
  <2>4. CASE m.key \in cliMappingAliases
    <3>1. m.at = "root"
      BY <1>2, <2>4, Mappings DEF CliKeys
    <3>2. Overrides(m, val) = <<OverrideAt(arg, m.at)>>
                                \o [i \in 1..4 |-> OverrideAt(arg, ModesInOrder[i])]
      BY <2>4, <3>1, Zenon DEF Overrides, ModesInOrder, OverrideAt
    <3>3. applyConfigOverride(arg) =
              <<OverrideAt(arg, m.at)>> \o [i \in 1..4 |-> OverrideAt(arg, ModesInOrder[i])]
      <4> HIDE DEF m, val
      <4>1. QED
        BY <2>1, <3>2, Zenon
    <3>4. arg.key \in DOMAIN cliMappings /\ (arg.key = "--mode" => arg.value \in Modes)
      BY <1>2
    <3>5. QED
      BY <2>4, <3>3, <3>4, Zenon
  <2>5. QED
    BY <2>3, <2>4
<1>3. QED
  BY <1>1, <1>2

\* The text of an argument, converted, is the value CliWins speaks of.
LEMMA ConvertedArg ==
    ASSUME NEW arg, NEW at
    PROVE  Converted(OverrideAt(arg, at)) = ArgValue(arg)
<1> DEFINE o == OverrideAt(arg, at)
           t == cliMappings[arg.key].type
<1>1. o.type = t /\ o.value = IF t = "bool" /\ arg.value = "" THEN "true" ELSE arg.value
  BY DEF OverrideAt
<1> HIDE DEF o, t
<1>2. CASE t = "bool"
  <2> DEFINE yes == {"", "true"}
  <2>1. (o.value = "true") <=> (arg.value \in yes)
    BY <1>1, <1>2
  <2>2. Converted(o) = (o.value = "true") /\ ArgValue(arg) = (arg.value \in yes)
    BY <1>1, <1>2, Zenon DEF Converted, ArgValue, t
  <2> HIDE DEF yes
  <2>3. (o.value = "true") = (arg.value \in yes)
    BY <2>1, SMT
  <2>4. QED
    BY <2>2, <2>3, Zenon DEF o
<1>3. CASE t # "bool"
  BY <1>1, <1>3 DEF Converted, ArgValue, o, t
<1>4. QED
  BY <1>2, <1>3

\* The list of overrides comes from an argument.
ComesFrom(r, arg) == r = applyConfigOverride(arg)

\* An argument overrides the key it sets, in each place where the key is looked
\* up, with its value; it overrides no other key.
LEMMA OneArg ==
    ASSUME NEW arg, NEW r, ComesFrom(r, arg)
    PROVE  /\ r \in Seq(Range(r))
           /\ AreOverrides(r)
           /\ \A key : ~Setting(arg, key) => \A i \in 1..Len(r) : r[i].key # key
           /\ \A key \in CliKeys : Setting(arg, key) =>
                 \A at \in PlacesOf(key) :
                    \E i \in 1..Len(r) : LastHit(r, i, at, key) /\ Converted(r[i]) = ArgValue(arg)
<1> DEFINE m == cliMappings[arg.key]
<1>1. CASE r = <<>> /\ \A key : ~Setting(arg, key)
  BY <1>1 DEF AreOverrides
<1>2. ASSUME arg.key \in DOMAIN cliMappings, arg.key = "--mode" => arg.value \in Modes
      PROVE  /\ m.key \in Keys /\ m.at \in {"root", "window"}
             /\ \A at \in Places : IsOverride(OverrideAt(arg, at))
             /\ \A at : OverrideAt(arg, at).key = m.key /\ OverrideAt(arg, at).at = at
             /\ \A key : Setting(arg, key) <=> key = m.key
  <2>1. m.key \in Keys /\ m.at \in {"root", "window"}
    BY <1>2, Mappings
  <2>2. \A at : OverrideAt(arg, at).key = m.key /\ OverrideAt(arg, at).at = at
    BY DEF OverrideAt
  <2>3. \A key : Setting(arg, key) <=> key = m.key
    BY <1>2 DEF Setting
  <2>4. QED
    BY <2>1, <2>2, <2>3 DEF IsOverride
<1>3. {"root", "window"} \subseteq Places
  BY DEF Places, Modes
<1>4. CASE /\ arg.key \in DOMAIN cliMappings /\ (arg.key = "--mode" => arg.value \in Modes)
           /\ m.key \notin cliMappingAliases
           /\ r = <<OverrideAt(arg, m.at)>>
  <2>1. Len(r) = 1 /\ r[1] = OverrideAt(arg, m.at) /\ DOMAIN r = 1..1
    BY <1>4
  <2>2. r \in Seq(Range(r))
    <3>1. r[1] \in Range(r)
      BY <2>1 DEF Range
    <3>2. QED
      BY <1>4, <2>1, <3>1
  <2>3. IsOverride(r[1]) /\ r[1].key = m.key /\ r[1].at = m.at
    BY <1>2, <1>3, <1>4, <2>1
  <2>4. AreOverrides(r)
    BY <2>1, <2>3 DEF AreOverrides
  <2>5. ASSUME NEW key \in CliKeys, Setting(arg, key), NEW at \in PlacesOf(key)
        PROVE  LastHit(r, 1, at, key) /\ Converted(r[1]) = ArgValue(arg)
    <3>1. key = m.key /\ key = "defaultMode" /\ at = "root"
      BY <1>2, <1>4, <2>5 DEF CliKeys, PlacesOf
    <3>2. m.at = "root"
      BY <1>4, <3>1, Mappings DEF CliKeys
    <3>3. QED
      BY <2>1, <2>3, <3>1, <3>2, ConvertedArg DEF LastHit, Hits
  <2>6. QED
    BY <1>2, <1>4, <2>1, <2>2, <2>3, <2>4, <2>5
<1>5. CASE /\ arg.key \in DOMAIN cliMappings /\ (arg.key = "--mode" => arg.value \in Modes)
           /\ m.key \in cliMappingAliases
           /\ r = <<OverrideAt(arg, m.at)>>
                        \o [i \in 1..4 |-> OverrideAt(arg, ModesInOrder[i])]
  <2> DEFINE f == [i \in 1..4 |-> OverrideAt(arg, ModesInOrder[i])]
             X == {OverrideAt(arg, at) : at \in Places}
  <2>1. \A i \in 1..4 : ModesInOrder[i] \in Modes
    BY DEF ModesInOrder, Modes
  <2>2. f \in Seq(X)
    BY <2>1 DEF Places
  <2>3. <<OverrideAt(arg, m.at)>> \in Seq(X)
    BY <1>2, <1>3, <1>5
  <2>4. Len(f) = 4
    OBVIOUS
  <2>5. f = [i \in 1..4 |-> OverrideAt(arg, ModesInOrder[i])]
    OBVIOUS
  <2> HIDE DEF f, X
  <2>6. /\ r \in Seq(X) /\ Len(r) = 5 /\ r[1] = OverrideAt(arg, m.at)
        /\ \A i \in 2..5 : r[i] = f[i - 1]
    BY <1>5, <2>2, <2>3, <2>4, <2>5
  <2>7. \A i \in 2..5 : r[i] = OverrideAt(arg, ModesInOrder[i - 1])
    BY <2>5, <2>6
  <2>8. m.at = "root"
    BY <1>5, Mappings DEF CliKeys
  <2>9. \A i \in 1..5 : IsOverride(r[i]) /\ r[i].key = m.key
    BY <1>2, <1>3, <1>5, <2>1, <2>6, <2>7, <2>8 DEF Places
  <2>10. AreOverrides(r)
    BY <2>6, <2>9 DEF AreOverrides
  <2>11. r \in Seq(Range(r))
    <3>1. DOMAIN r = 1..5
      BY <2>6
    <3>2. \A i \in 1..5 : r[i] \in Range(r)
      BY <3>1 DEF Range
    <3>3. r \in [1..5 -> Range(r)]
      <4>1. r \in [1..5 -> X]
        BY <2>6, LenProperties
      <4>2. QED
        BY <3>2, <4>1
    <3>4. QED
      BY <3>3, Zenon, SeqDef
  <2>12. ASSUME NEW key \in CliKeys, Setting(arg, key), NEW at \in PlacesOf(key)
         PROVE  \E i \in 1..Len(r) : LastHit(r, i, at, key) /\ Converted(r[i]) = ArgValue(arg)
    <3>1. key = m.key /\ at \in Modes
      BY <1>2, <1>5, <2>12 DEF PlacesOf
    <3>2. PICK i \in 1..4 : at = ModesInOrder[i]
      BY <3>1 DEF Modes, ModesInOrder
    <3>3. \A j \in 1..4 : ModesInOrder[j] = at => j = i
      BY <3>2 DEF ModesInOrder
    <3>4. \A j \in 1..5 : r[j].at = at => j = i + 1
      <4>1. r[1].at = "root" /\ "root" \notin Modes
        BY <1>2, <1>5, <2>6, <2>8 DEF Modes
      <4>2. \A j \in 2..5 : r[j].at = ModesInOrder[j - 1]
        BY <1>2, <1>5, <2>7
      <4>3. QED
        BY <3>1, <3>3, <4>1, <4>2
    <3>5. r[i + 1] = OverrideAt(arg, at)
      BY <2>7, <3>2
    <3>6. LastHit(r, i + 1, at, key)
      BY <1>2, <1>5, <2>6, <2>9, <3>1, <3>4, <3>5 DEF LastHit, Hits
    <3>7. QED
      BY <2>6, <3>5, <3>6, ConvertedArg
  <2>13. QED
    BY <1>2, <1>5, <2>6, <2>9, <2>10, <2>11, <2>12
<1>6. QED
  BY <1>1, <1>4, <1>5, OverridesOfArg DEF ComesFrom

\* Two lists one after the other.
LEMMA Joined ==
    ASSUME NEW S, NEW a \in Seq(S), NEW b \in Seq(S), NEW c, c = a \o b
    PROVE  /\ c \in Seq(S) /\ Len(a) \in Nat /\ Len(b) \in Nat /\ Len(c) = Len(a) + Len(b)
           /\ \A i \in 1..Len(a) : c[i] = a[i]
           /\ \A i \in 1..Len(b) : c[Len(a) + i] = b[i]
           /\ \A i \in 1..Len(c) :
                 i \in 1..Len(a) \/ (i - Len(a) \in 1..Len(b) /\ c[i] = b[i - Len(a)])
OBVIOUS

LEMMA JoinedOverrides ==
    ASSUME NEW S, NEW a \in Seq(S), NEW b \in Seq(S), NEW c, c = a \o b,
           AreOverrides(a), AreOverrides(b)
    PROVE  AreOverrides(c)
<1>1. ASSUME NEW i \in 1..Len(c) PROVE IsOverride(c[i])
  <2>1. CASE i \in 1..Len(a)
    BY <2>1, Joined DEF AreOverrides
  <2>2. CASE i - Len(a) \in 1..Len(b) /\ c[i] = b[i - Len(a)]
    BY <2>2 DEF AreOverrides
  <2>3. QED
    BY <2>1, <2>2, Joined
<1>2. QED
  BY <1>1, Joined DEF AreOverrides

\* The last override of an option is in the second list, or else in the first.
LEMMA LastInSecond ==
    ASSUME NEW S, NEW a \in Seq(S), NEW b \in Seq(S), NEW c, c = a \o b,
           NEW i, NEW at, NEW key, LastHit(b, i, at, key)
    PROVE  LastHit(c, Len(a) + i, at, key) /\ c[Len(a) + i] = b[i]
<1>1. i \in 1..Len(b) /\ c[Len(a) + i] = b[i] /\ Len(a) + i \in 1..Len(c)
  BY Joined DEF LastHit
<1>2. ASSUME NEW j \in 1..Len(c), Hits(c[j], at, key) PROVE j <= Len(a) + i
  <2>1. CASE j \in 1..Len(a)
    BY <1>1, <2>1, Joined
  <2>2. CASE j - Len(a) \in 1..Len(b) /\ c[j] = b[j - Len(a)]
    <3>1. j - Len(a) <= i
      BY <1>2, <2>2 DEF LastHit
    <3>2. QED
      BY <1>1, <3>1, Joined
  <2>3. QED
    BY <2>1, <2>2, Joined
<1>3. QED
  BY <1>1, <1>2 DEF LastHit

LEMMA LastInFirst ==
    ASSUME NEW S, NEW a \in Seq(S), NEW b \in Seq(S), NEW c, c = a \o b,
           NEW i, NEW at, NEW key, LastHit(a, i, at, key), Silent(b, key)
    PROVE  LastHit(c, i, at, key)
<1>1. i \in 1..Len(a) /\ c[i] = a[i] /\ i \in 1..Len(c)
  BY Joined DEF LastHit
<1>2. ASSUME NEW j \in 1..Len(c), Hits(c[j], at, key) PROVE j <= i
  <2>1. CASE j \in 1..Len(a)
    <3>1. c[j] = a[j]
      BY <2>1, Joined
    <3>2. QED
      BY <1>2, <2>1, <3>1 DEF LastHit
  <2>2. CASE j - Len(a) \in 1..Len(b) /\ c[j] = b[j - Len(a)]
    BY <1>2, <2>2 DEF Hits, Silent
  <2>3. QED
    BY <2>1, <2>2, Joined
<1>3. QED
  BY <1>1, <1>2 DEF LastHit

Reading(rm, ld, ov) == [resMode |-> rm, loaded |-> ld, overrides |-> ov]
ResModes == {"embedded", "bundle", "directory"}

\* One turn of setGlobalArgs: the overrides grow by those of the argument, and
\* the mode of the resources remains one of the three.
LEMMA ArgReadOne ==
    ASSUME NEW rm \in ResModes, NEW ld, NEW S, NEW ov \in Seq(S), NEW arg
    PROVE  \E st : /\ ArgRead(Reading(rm, ld, ov), arg) = st
                   /\ st = Reading(st.resMode, st.loaded, ov \o applyConfigOverride(arg))
                   /\ st.resMode \in ResModes
                   /\ st.loaded = ld \/ st.loaded = ld \cup {DevTools}
<1> DEFINE ov2 == ov \o applyConfigOverride(arg)
           st == ArgRead(Reading(rm, ld, ov), arg)
<1>1. ASSUME NEW rm2, NEW ld2, NEW ov3, st = Reading(rm2, ld2, ov3)
      PROVE  st.resMode = rm2 /\ st.loaded = ld2 /\ st.overrides = ov3
  BY <1>1 DEF Reading
<1>2. CASE \/ arg.key \in {"--load-dir-res", "--res-mode"}
           \/ arg.key = "--neu-dev-extension" /\ rm = "directory"
  <2>1. arg.key \notin DOMAIN cliMappings
    BY <1>2, Mappings
  <2>2. applyConfigOverride(arg) = <<>>
    BY <2>1 DEF applyConfigOverride
  <2>3. ov2 = ov
    BY <2>2
  <2>4. CASE arg.key = "--load-dir-res"
    <3>1. st = Reading("directory", ld, ov)
      BY <2>4 DEF ArgRead, Reading
    <3>2. QED
      BY <1>1, <2>3, <3>1 DEF ResModes
  <2>5. CASE arg.key = "--res-mode"
    <3> DEFINE rm2 == IF arg.value \in {"directory", "bundle", "embedded"} THEN arg.value ELSE rm
    <3>1. st = Reading(rm2, ld, ov)
      BY <2>5 DEF ArgRead, Reading
    <3>2. rm2 \in ResModes
      BY DEF ResModes
    <3> HIDE DEF rm2, st
    <3>3. st.resMode = rm2 /\ st.loaded = ld
      BY <1>1, <3>1
    <3>4. st = Reading(st.resMode, st.loaded, ov2)
      BY <2>3, <3>1, <3>3
    <3>5. QED
      BY <3>2, <3>3, <3>4 DEF st
  <2>6. CASE arg.key = "--neu-dev-extension" /\ rm = "directory"
    <3>1. st = Reading(rm, ld \cup {DevTools}, ov)
      BY <2>6 DEF ArgRead, Reading
    <3>2. QED
      BY <1>1, <2>3, <3>1
  <2>7. QED
    BY <1>2, <2>4, <2>5, <2>6
<1>3. CASE ~(\/ arg.key \in {"--load-dir-res", "--res-mode"}
             \/ arg.key = "--neu-dev-extension" /\ rm = "directory")
  <2>1. st = [Reading(rm, ld, ov) EXCEPT !.overrides = @ \o applyConfigOverride(arg)]
    BY <1>3 DEF ArgRead, Reading
  <2>2. [Reading(rm, ld, ov) EXCEPT !.overrides = @ \o applyConfigOverride(arg)]
            = Reading(rm, ld, ov2)
    <3>1. Reading(rm, ld, ov).overrides \o applyConfigOverride(arg) = ov2
      BY DEF Reading
    <3> HIDE DEF ov2
    <3>2. [Reading(rm, ld, ov) EXCEPT !.overrides = ov2] = Reading(rm, ld, ov2)
      BY DEF Reading
    <3>3. QED
      BY <3>1, <3>2, Zenon
  <2>3. st = Reading(rm, ld, ov2)
    BY <2>1, <2>2, Zenon
  <2>4. QED
    BY <1>1, <2>3
<1>4. QED
  BY <1>2, <1>3

\* Argument i is the last that sets a key.
LastSetting(args, i, key) ==
    /\ i \in 1..Len(args)
    /\ Setting(args[i], key)
    /\ \A j \in 1..Len(args) : Setting(args[j], key) => j <= i

\* The overrides say what the first n arguments say: nothing of a key that none
\* of them sets, and last of all what the last one says that sets the key.
SayTheSame(ov, args, n) ==
    /\ AreOverrides(ov)
    /\ \A key : (\A i \in 1..n : ~Setting(args[i], key)) => Silent(ov, key)
    /\ \A key \in CliKeys : \A i \in 1..n :
          Setting(args[i], key) /\ (\A j \in 1..n : Setting(args[j], key) => j <= i) =>
             \A at \in PlacesOf(key) :
                \E h : LastHit(ov, h, at, key) /\ Converted(ov[h]) = ArgValue(args[i])

LEMMA OneMoreArg ==
    ASSUME NEW S, NEW ov \in Seq(S), NEW args, NEW n \in Nat, SayTheSame(ov, args, n),
           NEW r \in Seq(S), ComesFrom(r, args[n + 1])
    PROVE  SayTheSame(ov \o r, args, n + 1) /\ ov \o r \in Seq(S)
<1>1. AreOverrides(ov)
  BY DEF SayTheSame
<1>2. AreOverrides(r)
  BY OneArg
<1>3. PICK c : c = ov \o r
  OBVIOUS
<1>4. c \in Seq(S) /\ AreOverrides(c)
  <2>1. c \in Seq(S)
    BY <1>3, Joined
  <2>2. AreOverrides(c)
    BY <1>1, <1>2, <1>3, JoinedOverrides, Zenon
  <2>3. QED
    BY <2>1, <2>2
<1>5. ASSUME NEW key, \A i \in 1..n + 1 : ~Setting(args[i], key)
      PROVE  Silent(c, key)
  <2>1. \A j \in 1..Len(ov) : ov[j].key # key
    <3>1. \A i \in 1..n : ~Setting(args[i], key)
      BY <1>5
    <3>2. QED
      BY <3>1 DEF SayTheSame, Silent
  <2>2. \A j \in 1..Len(r) : r[j].key # key
    <3>1. ~Setting(args[n + 1], key)
      BY <1>5
    <3>2. QED
      BY <3>1, OneArg
  <2>3. QED
    BY <1>3, <2>1, <2>2, Joined DEF Silent
<1>6. ASSUME NEW key \in CliKeys, NEW i \in 1..n + 1, Setting(args[i], key),
             \A j \in 1..n + 1 : Setting(args[j], key) => j <= i, NEW at \in PlacesOf(key)
      PROVE  \E h : LastHit(c, h, at, key) /\ Converted(c[h]) = ArgValue(args[i])
  <2>1. CASE i = n + 1
    <3>1. PICK h \in 1..Len(r) : LastHit(r, h, at, key) /\ Converted(r[h]) = ArgValue(args[i])
      BY <1>6, <2>1, OneArg
    <3>2. LastHit(c, Len(ov) + h, at, key) /\ c[Len(ov) + h] = r[h]
      BY <1>3, <3>1, LastInSecond, Zenon
    <3>3. QED
      BY <3>1, <3>2
  <2>2. CASE i # n + 1
    <3>1. i \in 1..n
      BY <2>2
    <3>2. PICK h : LastHit(ov, h, at, key) /\ Converted(ov[h]) = ArgValue(args[i])
      BY <1>6, <3>1 DEF SayTheSame
    <3>3. ~Setting(args[n + 1], key)
      BY <1>6, <3>1
    <3>4. Silent(r, key)
      BY <3>3, OneArg DEF Silent
    <3>5. LastHit(c, h, at, key) /\ c[h] = ov[h]
      <4>1. LastHit(ov, h, at, key)
        BY <3>2
      <4>2. LastHit(c, h, at, key)
        BY <1>3, <3>4, <4>1, LastInFirst
      <4>3. h \in 1..Len(ov)
        BY <4>1 DEF LastHit
      <4>4. QED
        BY <1>3, <4>2, <4>3, Joined
    <3>6. QED
      BY <3>2, <3>5
  <2>3. QED
    BY <2>1, <2>2
<1>7. SayTheSame(c, args, n + 1)
  BY <1>4, <1>5, <1>6 DEF SayTheSame
<1>8. QED
  BY <1>3, <1>4, <1>7

\* setGlobalArgs keeps of every command line what it says.
LEMMA ArgsApplied ==
    ASSUME NEW args, Len(args) \in Nat, NEW rm \in ResModes, NEW X, NEW ld \in SUBSET X,
           DevTools \in X
    PROVE  \E rm2 \in ResModes, ld2 \in SUBSET X : \E ov :
              /\ ArgsRead(Reading(rm, ld, <<>>), args) = Reading(rm2, ld2, ov)
              /\ SayTheSame(ov, args, Len(args))
<1> DEFINE n == Len(args)
           S == UNION {Range(applyConfigOverride(args[i])) : i \in 1..n}
<1>1. n \in Nat
  OBVIOUS
<1>2. PICK w : /\ ArgsRead(Reading(rm, ld, <<>>), args) = w[n]
               /\ w[0] = Reading(rm, ld, <<>>)
               /\ \A i \in 1..n : w[i] = ArgRead(w[i - 1], args[i])
  BY ArgsLoop
<1>3. ASSUME NEW i \in 1..n PROVE applyConfigOverride(args[i]) \in Seq(S)
  <2> DEFINE r == applyConfigOverride(args[i])
  <2>1. r \in Seq(Range(r))
    BY OneArg DEF ComesFrom
  <2>2. Range(r) \subseteq S
    OBVIOUS
  <2> HIDE DEF r, S
  <2>3. r \in Seq(S)
    BY <2>1, <2>2, SeqMonotonic
  <2>4. QED
    BY <2>3 DEF r
<1> DEFINE H == {i \in 0..n : \E rm2 \in ResModes, ld2 \in SUBSET X, ov \in Seq(S) :
                    w[i] = Reading(rm2, ld2, ov) /\ SayTheSame(ov, args, i)}
<1> HIDE DEF n, S
<1>4. 0 \in H
  <2>1. SayTheSame(<<>>, args, 0)
    BY DEF SayTheSame, AreOverrides, Silent
  <2>2. <<>> \in Seq(S)
    OBVIOUS
  <2>3. 0 \in 0..n
    BY <1>1
  <2>4. QED
    BY <1>2, <2>1, <2>2, <2>3, Zenon
<1>5. ASSUME NEW i \in 1..n, i - 1 \in H PROVE i \in H
  <2>1. PICK rm1 \in ResModes, ld1 \in SUBSET X, ov \in Seq(S) :
            w[i - 1] = Reading(rm1, ld1, ov) /\ SayTheSame(ov, args, i - 1)
    BY <1>5
  <2> DEFINE r == applyConfigOverride(args[i])
  <2>2. PICK st : /\ ArgRead(Reading(rm1, ld1, ov), args[i]) = st
                  /\ st = Reading(st.resMode, st.loaded, ov \o r)
                  /\ st.resMode \in ResModes
                  /\ st.loaded = ld1 \/ st.loaded = ld1 \cup {DevTools}
    BY ArgReadOne
  <2>3. r \in Seq(S)
    BY <1>3
  <2>4. i - 1 \in Nat /\ (i - 1) + 1 = i
    OBVIOUS
  <2>5. SayTheSame(ov \o r, args, i) /\ ov \o r \in Seq(S)
    <3> HIDE DEF r
    <3>1. ComesFrom(r, args[(i - 1) + 1])
      BY <2>4 DEF r, ComesFrom
    <3>2. QED
      BY <2>1, <2>3, <2>4, <3>1, OneMoreArg
  <2>6. w[i] = Reading(st.resMode, st.loaded, ov \o r)
    BY <1>2, <2>1, <2>2
  <2>7. st.loaded \in SUBSET X /\ st.resMode \in ResModes
    BY <2>2
  <2> HIDE DEF r
  <2>8. i \in 0..n
    OBVIOUS
  <2>9. QED
    BY <2>5, <2>6, <2>7, <2>8, Zenon
<1>6. \A i \in 0..n : i \in H
  <2> HIDE DEF H
  <2>1. QED
    BY <1>1, <1>4, <1>5, EveryTurn
<1>7. n \in H
  BY <1>1, <1>6
<1>8. QED
  BY <1>2, <1>7 DEF n

\* No argument sets the key; of these keys none does.
Unset(args, key) == \A i \in 1..Len(args) : ~Setting(args[i], key)
FileKeys == {"extensions", "nativeAllowList", "nativeBlockList", "commandAllowList",
             "filesystemScopes", "tokenSecurity"}

LEMMA FileKeysUnset ==
    ASSUME NEW args, NEW key \in FileKeys
    PROVE  Unset(args, key) /\ key \in Keys \ {"port"}
<1>1. \A arg : ~Setting(arg, key)
  BY Mappings DEF Setting, FileKeys
<1>2. QED
  BY <1>1 DEF Unset, FileKeys, Keys

\* The options after settings::init: those that no argument sets are as they
\* were, and the others are what the command line says of them last.
LEMMA OptionsRead ==
    ASSUME NEW args, Len(args) \in Nat, NEW o, IsOptions(o),
           NEW ov, SayTheSame(ov, args, Len(args))
    PROVE  /\ IsOptions(ApplyOverrides(o, ov))
           /\ \A key \in Keys : Unset(args, key) =>
                 \A at \in Places : ValueAt(ApplyOverrides(o, ov), at, key) = ValueAt(o, at, key)
           /\ \A key \in CliKeys : \A i \in 1..Len(args) : \A at \in PlacesOf(key) :
                 LastSetting(args, i, key) =>
                    ValueAt(ApplyOverrides(o, ov), at, key) = ArgValue(args[i])
<1> DEFINE n == Len(args)
<1>1. AreOverrides(ov)
  BY DEF SayTheSame
<1>2. IsOptions(ApplyOverrides(o, ov))
  BY <1>1, PatchesApplied
<1>3. ASSUME NEW key \in Keys, Unset(args, key), NEW at \in Places
      PROVE  ValueAt(ApplyOverrides(o, ov), at, key) = ValueAt(o, at, key)
  <2>1. Silent(ov, key)
    BY <1>3 DEF SayTheSame, Unset
  <2>2. \A i \in 1..Len(ov) : ~Hits(ov[i], at, key)
    BY <2>1 DEF Silent, Hits
  <2>3. QED
    BY <1>1, <2>2, PatchesApplied
<1>4. ASSUME NEW key \in CliKeys, NEW i \in 1..Len(args), NEW at \in PlacesOf(key),
             LastSetting(args, i, key)
      PROVE  ValueAt(ApplyOverrides(o, ov), at, key) = ArgValue(args[i])
  <2>1. PICK h : LastHit(ov, h, at, key) /\ Converted(ov[h]) = ArgValue(args[i])
    <3>1. i \in 1..n /\ Setting(args[i], key) /\ \A j \in 1..n : Setting(args[j], key) => j <= i
      BY <1>4 DEF LastSetting
    <3>2. QED
      BY <3>1 DEF SayTheSame
  <2>2. h \in 1..Len(ov) /\ LastHit(ov, h, at, key)
    BY <2>1 DEF LastHit
  <2>3. key \in Keys /\ at \in Places
    BY DEF CliKeys, cliMappingAliases, Keys, PlacesOf, Places
  <2>4. ValueAt(ApplyOverrides(o, ov), at, key) = Converted(ov[h])
    BY <1>1, <2>2, <2>3, PatchesApplied
  <2>5. QED
    BY <2>1, <2>4
<1>5. QED
  BY <1>2, <1>3, <1>4

-----------------------------------------------------------------------------
(* The characters of helpers::tokenizeCommand. *)

Tok(t, c, q, b) == [tokens |-> t, current |-> c, quote |-> q, rejected |-> b]

LEMMA TokRead ==
    ASSUME NEW t, NEW c, NEW q, NEW b
    PROVE  /\ Tok(t, c, q, b).tokens = t /\ Tok(t, c, q, b).current = c
           /\ Tok(t, c, q, b).quote = q /\ Tok(t, c, q, b).rejected = b
BY DEF Tok

LEMMA TokQuote ==
    ASSUME NEW t, NEW c, NEW q, NEW b, NEW x
    PROVE  [Tok(t, c, q, b) EXCEPT !.quote = x] = Tok(t, c, x, b)
BY DEF Tok

LEMMA TokCurrent ==
    ASSUME NEW t, NEW c, NEW q, NEW b, NEW x
    PROVE  [Tok(t, c, q, b) EXCEPT !.current = x] = Tok(t, x, q, b)
BY DEF Tok

LEMMA TokRejected ==
    ASSUME NEW t, NEW c, NEW q, NEW b, NEW x
    PROVE  [Tok(t, c, q, b) EXCEPT !.rejected = x] = Tok(t, c, q, x)
BY DEF Tok

\* One turn of the loop: inside quotes, at a quote, at a space, at a letter, at a
\* character of the shell.
LEMMA TurnInside ==
    ASSUME NEW t, NEW c, NEW b, ~b, NEW ch, ch # "dq"
    PROVE  NextToken(Tok(t, c, "dq", b), ch) = Tok(t, Append(c, ch), "dq", b)
<1>1. PICK st : st = Tok(t, c, "dq", b)
  OBVIOUS
<1>2. PICK d : d = Append(c, ch)
  OBVIOUS
<1>3. ~st.rejected /\ st.quote = "dq" /\ st.current = c
  BY <1>1, TokRead
<1>4. NextToken(st, ch) = [st EXCEPT !.current = d]
  BY <1>2, <1>3 DEF NextToken
<1>5. [Tok(t, c, "dq", b) EXCEPT !.current = d] = Tok(t, d, "dq", b)
  BY TokCurrent
<1>6. QED
  BY <1>1, <1>2, <1>4, <1>5

LEMMA TurnClosing ==
    ASSUME NEW t, NEW c, NEW b, ~b
    PROVE  NextToken(Tok(t, c, "dq", b), "dq") = Tok(t, c, "none", b)
<1>1. PICK st : st = Tok(t, c, "dq", b)
  OBVIOUS
<1>2. ~st.rejected /\ st.quote = "dq"
  BY <1>1, TokRead
<1>3. NextToken(st, "dq") = [st EXCEPT !.quote = "none"]
  BY <1>2 DEF NextToken
<1>4. QED
  BY <1>1, <1>3, TokQuote

LEMMA TurnOpening ==
    ASSUME NEW t, NEW c, NEW b, ~b
    PROVE  NextToken(Tok(t, c, "none", b), "dq") = Tok(t, c, "dq", b)
<1>1. PICK st : st = Tok(t, c, "none", b)
  OBVIOUS
<1>2. ~st.rejected /\ st.quote = "none"
  BY <1>1, TokRead
<1>3. NextToken(st, "dq") = [st EXCEPT !.quote = "dq"]
  BY <1>2 DEF NextToken
<1>4. QED
  BY <1>1, <1>3, TokQuote

LEMMA TurnSpace ==
    ASSUME NEW t, NEW c, NEW b, ~b, c # <<>>
    PROVE  NextToken(Tok(t, c, "none", b), "sp") = Tok(Append(t, c), <<>>, "none", b)
<1>1. PICK st : st = Tok(t, c, "none", b)
  OBVIOUS
<1>2. PICK d, e : d = Append(t, c) /\ e = <<>>
  OBVIOUS
<1>3. ~st.rejected /\ st.quote = "none" /\ st.current = c /\ st.tokens = t
  BY <1>1, TokRead
<1>4. NextToken(st, "sp") = [st EXCEPT !.tokens = d, !.current = e]
  BY <1>2, <1>3 DEF NextToken
<1>5. [Tok(t, c, "none", b) EXCEPT !.tokens = d, !.current = e] = Tok(d, e, "none", b)
  <2> DEFINE all == {"tokens", "current", "quote", "rejected"}
  <2>1. Tok(t, c, "none", b) = [f \in all |-> Tok(t, c, "none", b)[f]]
    BY DEF Tok
  <2>2. Tok(d, e, "none", b) = [f \in all |-> Tok(d, e, "none", b)[f]]
    BY DEF Tok
  <2>3. [Tok(t, c, "none", b) EXCEPT !.tokens = d, !.current = e]
          = [f \in all |-> IF f = "current" THEN e ELSE IF f = "tokens" THEN d
                                                     ELSE Tok(t, c, "none", b)[f]]
    BY <2>1
  <2>4. \A f \in all : Tok(d, e, "none", b)[f] = IF f = "current" THEN e ELSE IF f = "tokens" THEN d
                                                     ELSE Tok(t, c, "none", b)[f]
    BY DEF Tok
  <2>5. QED
    BY <2>2, <2>3, <2>4, Zenon
<1>6. QED
  BY <1>1, <1>2, <1>4, <1>5

LEMMA TurnLetter ==
    ASSUME NEW t, NEW c, NEW b, ~b
    PROVE  NextToken(Tok(t, c, "none", b), "x") = Tok(t, Append(c, "x"), "none", b)
<1>1. PICK st : st = Tok(t, c, "none", b)
  OBVIOUS
<1>2. PICK d : d = Append(c, "x")
  OBVIOUS
<1>3. ~st.rejected /\ st.quote = "none" /\ st.current = c
  BY <1>1, TokRead
<1>4. NextToken(st, "x") = [st EXCEPT !.current = d]
  BY <1>2, <1>3 DEF NextToken
<1>5. [Tok(t, c, "none", b) EXCEPT !.current = d] = Tok(t, d, "none", b)
  BY TokCurrent
<1>6. QED
  BY <1>1, <1>2, <1>4, <1>5

LEMMA TurnMeta ==
    ASSUME NEW t, NEW c, NEW b, ~b
    PROVE  NextToken(Tok(t, c, "none", b), "meta").rejected
<1>1. PICK st : st = Tok(t, c, "none", b)
  OBVIOUS
<1>2. ~st.rejected /\ st.quote = "none"
  BY <1>1, TokRead
<1>3. NextToken(st, "meta") = [st EXCEPT !.rejected = TRUE]
  BY <1>2 DEF NextToken
<1>4. PICK x : x = TRUE
  OBVIOUS
<1>5. NextToken(st, "meta") = Tok(t, c, "none", x)
  <2>1. [Tok(t, c, "none", b) EXCEPT !.rejected = x] = Tok(t, c, "none", x)
    BY TokRejected
  <2>2. QED
    BY <1>1, <1>3, <1>4, <2>1
<1>6. NextToken(st, "meta").rejected = x
  BY <1>5, TokRead
<1>7. QED
  BY <1>1, <1>4, <1>6
\* w is what the loop over s has read after each of n turns.
IsReading(w, s, n) == \A i \in 1..n : w[i] = NextToken(w[i - 1], s[i])

\* After k characters, s goes on with a word in double quotes.
StandsQuoted(s, k, word) ==
    /\ s[k + 1] = "dq" /\ s[k + 2 + Len(word)] = "dq"
    /\ \A j \in 1..Len(word) : s[k + 1 + j] = word[j]

\* A word between double quotes is read as it is, whatever characters it holds,
\* and the loop is outside quotes again after it.
LEMMA QuotedWord ==
    ASSUME NEW t, NEW b, ~b, NEW w, NEW s, NEW n \in Nat, NEW k \in Nat, NEW S,
           NEW word \in Seq(S), "dq" \notin S,
           k + 2 + Len(word) <= n,
           IsReading(w, s, n), StandsQuoted(s, k, word), w[k] = Tok(t, <<>>, "none", b)
    PROVE  w[k + 2 + Len(word)] = Tok(t, word, "none", b)
<1> DEFINE m == Len(word)
           Read(j) == SubSeq(word, 1, j)
           H == {j \in 0..m : w[k + 1 + j] = Tok(t, Read(j), "dq", b)}
<1>1. m \in Nat
  BY LenProperties
<1>2. Read(0) = <<>>
  BY SubSeqEmpty
<1>3. 0 \in H
  <2>1. k + 1 \in 1..n /\ (k + 1) - 1 = k /\ k + 1 + 0 = k + 1
    BY <1>1
  <2>2. w[k + 1] = NextToken(w[k], "dq")
    BY <2>1 DEF IsReading, StandsQuoted
  <2>3. w[k + 1] = Tok(t, <<>>, "dq", b)
    BY <2>2, TurnOpening
  <2>4. w[k + 1 + 0] = Tok(t, Read(0), "dq", b)
    BY <1>2, <2>1, <2>3, Zenon
  <2>5. QED
    BY <1>1, <2>4
<1>4. ASSUME NEW j \in 1..m, j - 1 \in H PROVE j \in H
  <2>1. /\ k + 1 + j \in 1..n /\ (k + 1 + j) - 1 = k + 1 + (j - 1)
        /\ j \in 0..m /\ j \in 1..Len(word)
    BY <1>1
  <2>2. w[k + 1 + j] = NextToken(w[(k + 1 + j) - 1], s[k + 1 + j]) /\ s[k + 1 + j] = word[j]
    BY <2>1 DEF IsReading, StandsQuoted
  <2>3. w[k + 1 + j] = NextToken(w[k + 1 + (j - 1)], word[j])
    BY <2>1, <2>2
  <2>4. w[k + 1 + (j - 1)] = Tok(t, Read(j - 1), "dq", b)
    BY <1>4
  <2>5. word[j] # "dq"
    BY <2>1, ElementOfSeq
  <2>6. PICK old, ch : old = Read(j - 1) /\ ch = word[j]
    OBVIOUS
  <2>7. NextToken(Tok(t, old, "dq", b), ch) = Tok(t, Append(old, ch), "dq", b)
    BY <2>5, <2>6, TurnInside
  <2>8. Append(Read(j - 1), word[j]) = Read(j)
    <3>1. Read(j) = Read(j - 1) \o <<word[j]>>
      <4>1. 1 \in 1..Len(word) /\ j \in 1..Len(word)
        BY <1>1, <2>1
      <4>2. QED
        BY <4>1, SubSeqRecursiveSecond
    <3>2. Read(j - 1) \in Seq(S) /\ word[j] \in S
      BY <1>1, <2>1, SubSeqProperties, ElementOfSeq
    <3>3. QED
      BY <3>1, <3>2, AppendIsConcat
  <2>9. w[k + 1 + j] = Tok(t, Read(j), "dq", b)
    BY <2>3, <2>4, <2>6, <2>7, <2>8, Zenon
  <2>10. QED
    BY <2>1, <2>9
<1>5. m \in H
  <2> HIDE DEF H
  <2>1. \A j \in 0..m : j \in H
    BY <1>1, <1>3, <1>4, EveryTurn
  <2>2. QED
    BY <1>1, <2>1
<1>6. w[k + 1 + m] = Tok(t, word, "dq", b)
  BY <1>5, SubSeqFull
<1>7. k + 2 + m \in 1..n /\ (k + 2 + m) - 1 = k + 1 + m
  BY <1>1
<1>8. w[k + 2 + m] = NextToken(w[k + 1 + m], "dq")
  BY <1>7 DEF IsReading, StandsQuoted
<1>9. QED
  BY <1>6, <1>8, TurnClosing

-----------------------------------------------------------------------------
(* Commands whose program stands in double quotes. *)

\* s is such a command; x stands for the quotes, y for the space.
IsCommand(s, x, y, program, tail) == s = <<x>> \o program \o <<x>> \o <<y>> \o tail

Joins(c, a, b) == c = a \o b

LEMMA Together ==
    ASSUME NEW S, NEW a \in Seq(S), NEW b \in Seq(S), NEW c, Joins(c, a, b)
    PROVE  /\ c \in Seq(S) /\ Len(a) \in Nat /\ Len(b) \in Nat /\ Len(c) = Len(a) + Len(b)
           /\ \A i \in 1..Len(a) : c[i] = a[i]
           /\ \A i \in 1..Len(b) : c[Len(a) + i] = b[i]
BY Joined DEF Joins

\* The characters of such a command.
LEMMA CommandChars ==
    ASSUME NEW S, NEW x \in S, NEW y \in S, NEW program \in Seq(S), NEW tail \in Seq(S),
           NEW e, IsCommand(e, x, y, program, tail)
    PROVE  /\ e \in Seq(S)
           /\ Len(e) = Len(program) + 3 + Len(tail)
           /\ e[1] = x
           /\ \A j \in 1..Len(program) : e[1 + j] = program[j]
           /\ e[2 + Len(program)] = x
           /\ e[3 + Len(program)] = y
           /\ \A j \in 1..Len(tail) : e[3 + Len(program) + j] = tail[j]
<1>1. PICK dq, sp : dq = <<x>> /\ sp = <<y>>
  OBVIOUS
<1>2. dq \in Seq(S) /\ sp \in Seq(S)
  BY <1>1
<1>3. Len(dq) = 1 /\ dq[1] = x /\ Len(sp) = 1 /\ sp[1] = y
  BY <1>1
<1>4. Len(program) \in Nat /\ Len(tail) \in Nat
  BY LenProperties
<1>5. PICK a : Joins(a, dq, program)
  BY DEF Joins
<1>6. /\ a \in Seq(S) /\ Len(a) = 1 + Len(program) /\ a[1] = x
      /\ \A j \in 1..Len(program) : a[1 + j] = program[j]
  <2>1. /\ a \in Seq(S) /\ Len(a) = Len(dq) + Len(program)
        /\ \A j \in 1..Len(dq) : a[j] = dq[j]
        /\ \A j \in 1..Len(program) : a[Len(dq) + j] = program[j]
    BY <1>2, <1>5, Together
  <2>2. QED
    BY <1>3, <2>1
<1>7. PICK q : Joins(q, a, dq)
  BY DEF Joins
<1>8. /\ q \in Seq(S) /\ Len(q) = 2 + Len(program) /\ q[2 + Len(program)] = x
      /\ \A j \in 1..1 + Len(program) : q[j] = a[j]
  <2>1. /\ q \in Seq(S) /\ Len(q) = Len(a) + Len(dq)
        /\ \A j \in 1..Len(a) : q[j] = a[j]
        /\ \A j \in 1..Len(dq) : q[Len(a) + j] = dq[j]
    <3>1. a \in Seq(S)
      BY <1>6
    <3>2. QED
      BY <1>2, <1>7, <3>1, Together
  <2>2. Len(a) + 1 = 2 + Len(program)
    BY <1>4, <1>6
  <2>3. QED
    BY <1>3, <1>6, <2>1, <2>2
<1>9. PICK d : Joins(d, q, sp)
  BY DEF Joins
<1>10. /\ d \in Seq(S) /\ Len(d) = 3 + Len(program) /\ d[3 + Len(program)] = y
       /\ \A j \in 1..2 + Len(program) : d[j] = q[j]
  <2>1. /\ d \in Seq(S) /\ Len(d) = Len(q) + Len(sp)
        /\ \A j \in 1..Len(q) : d[j] = q[j]
        /\ \A j \in 1..Len(sp) : d[Len(q) + j] = sp[j]
    <3>1. q \in Seq(S)
      BY <1>8
    <3>2. QED
      BY <1>2, <1>9, <3>1, Together
  <2>2. Len(q) + 1 = 3 + Len(program)
    BY <1>4, <1>8
  <2>3. QED
    BY <1>3, <1>8, <2>1, <2>2
<1>11. Joins(e, d, tail)
  BY <1>1, <1>5, <1>7, <1>9 DEF IsCommand, Joins
<1>12. /\ e \in Seq(S) /\ Len(e) = Len(d) + Len(tail)
       /\ \A j \in 1..Len(d) : e[j] = d[j]
       /\ \A j \in 1..Len(tail) : e[Len(d) + j] = tail[j]
  BY <1>10, <1>11, Together
<1>13. /\ 1 \in 1..Len(d) /\ 1 \in 1..2 + Len(program) /\ 1 \in 1..1 + Len(program)
       /\ 2 + Len(program) \in 1..Len(d) /\ 2 + Len(program) \in 1..2 + Len(program)
       /\ 3 + Len(program) \in 1..Len(d)
       /\ 3 + Len(program) + Len(tail) = Len(program) + 3 + Len(tail)
  BY <1>4, <1>10
<1>14. ASSUME NEW j \in 1..Len(program) PROVE e[1 + j] = program[j]
  <2>1. 1 + j \in 1..Len(d) /\ 1 + j \in 1..2 + Len(program) /\ 1 + j \in 1..1 + Len(program)
    BY <1>4, <1>10
  <2>2. QED
    BY <1>6, <1>8, <1>10, <1>12, <2>1
<1>15. e[1] = x /\ e[2 + Len(program)] = x /\ e[3 + Len(program)] = y
  BY <1>6, <1>8, <1>10, <1>12, <1>13
<1>16. Len(e) = Len(program) + 3 + Len(tail)
  BY <1>10, <1>12, <1>13
<1>17. \A j \in 1..Len(tail) : e[3 + Len(program) + j] = tail[j]
  BY <1>10, <1>12
<1>18. QED
  BY <1>12, <1>14, <1>15, <1>16, <1>17

\* After the program and the space the loop holds the program as its one token.
LEMMA ProgramRead ==
    ASSUME NEW S, "dq" \in S, "sp" \in S, NEW T, T \subseteq S, "dq" \notin T,
           NEW program \in Seq(T), program # <<>>, NEW tail \in Seq(S),
           NEW s, IsCommand(s, "dq", "sp", program, tail), NEW w, NEW t,
           NEW b, ~b, w[0] = Tok(t, <<>>, "none", b),
           IsReading(w, s, Len(s))
    PROVE  w[3 + Len(program)] = Tok(Append(t, program), <<>>, "none", b)
<1>1. program \in Seq(S) /\ Len(program) \in Nat /\ Len(tail) \in Nat
  BY LenProperties, SeqMonotonic
<1>2. /\ Len(s) = Len(program) + 3 + Len(tail)
      /\ s[1] = "dq" /\ s[2 + Len(program)] = "dq" /\ s[3 + Len(program)] = "sp"
      /\ \A j \in 1..Len(program) : s[1 + j] = program[j]
  BY <1>1, CommandChars
<1>3. w[2 + Len(program)] = Tok(t, program, "none", b)
  <2>1. PICK n, k : n = Len(s) /\ k = 0
    OBVIOUS
  <2>2. n \in Nat /\ k \in Nat /\ k + 2 + Len(program) <= n
    BY <1>1, <1>2, <2>1
  <2>6. /\ k + 1 = 1 /\ k + 2 + Len(program) = 2 + Len(program)
        /\ \A j \in 1..Len(program) : k + 1 + j = 1 + j
    BY <1>1, <1>2, <2>1
  <2>3. StandsQuoted(s, k, program)
    BY <1>2, <2>6 DEF StandsQuoted
  <2>7. w[k] = Tok(t, <<>>, "none", b) /\ IsReading(w, s, n)
    BY <2>1
  <2>4. w[k + 2 + Len(program)] = Tok(t, program, "none", b)
    BY <2>2, <2>3, <2>7, QuotedWord
  <2>5. QED
    BY <2>4, <2>6
<1>4. w[3 + Len(program)] = NextToken(w[2 + Len(program)], "sp")
  <2>1. 3 + Len(program) \in 1..Len(s) /\ (3 + Len(program)) - 1 = 2 + Len(program)
    BY <1>1, <1>2
  <2>2. QED
    BY <1>2, <2>1 DEF IsReading
<1>5. QED
  BY <1>3, <1>4, TurnSpace
\* The loop starts with nothing, outside quotes, nothing rejected.
LEMMA ReadingExists ==
    ASSUME NEW s, Len(s) \in Nat
    PROVE  \E w, t, b : /\ Tokenized(s) = w[Len(s)]
                        /\ w[0] = Tok(t, <<>>, "none", b) /\ t = <<>> /\ ~b
                        /\ IsReading(w, s, Len(s))
<1>1. PICK w : /\ Tokenized(s) = w[Len(s)]
               /\ w[0] = [tokens |-> <<>>, current |-> <<>>, quote |-> "none", rejected |-> FALSE]
               /\ \A i \in 1..Len(s) : w[i] = NextToken(w[i - 1], s[i])
  BY CharsLoop
<1>2. PICK t, b : t = <<>> /\ b = FALSE
  OBVIOUS
<1>3. w[0] = Tok(t, <<>>, "none", b)
  BY <1>1, <1>2 DEF Tok
<1>4. QED
  BY <1>1, <1>2, <1>3 DEF IsReading

LEMMA TwoTokens ==
    ASSUME NEW a, NEW b
    PROVE  Append(<<a>>, b) = <<a, b>>
<1>1. PICK s : s = <<a>>
  OBVIOUS
<1>2. Len(s) = 1 /\ s[1] = a /\ s \in Seq({a, b})
  BY <1>1
<1>3. Append(s, b) = [i \in 1..2 |-> IF i = 2 THEN b ELSE s[i]]
  <2>1. PICK r : r = Append(s, b)
    OBVIOUS
  <2>2. s \in Seq({a, b}) /\ b \in {a, b}
    BY <1>2
  <2>3. /\ r \in Seq({a, b}) /\ Len(r) = Len(s) + 1 /\ r[Len(s) + 1] = b
        /\ \A i \in 1..Len(s) : r[i] = s[i]
    BY <2>1, <2>2, AppendProperties
  <2>4. Len(r) = 2 /\ r[2] = b /\ r[1] = s[1]
    BY <1>2, <2>3
  <2>5. r = [i \in 1..2 |-> r[i]]
    BY <2>3, <2>4, LenProperties
  <2>6. r = [i \in 1..2 |-> IF i = 2 THEN b ELSE s[i]]
    BY <2>4, <2>5
  <2>7. QED
    BY <2>1, <2>6
<1>4. <<a, b>> = [i \in 1..2 |-> IF i = 2 THEN b ELSE s[i]]
  BY <1>2
<1>5. QED
  BY <1>1, <1>3, <1>4

\* A program and an argument in double quotes are the two tokens of a command.
LEMMA QuotedCommand ==
    ASSUME NEW S, "dq" \in S, "sp" \in S, NEW T, T \subseteq S, "dq" \notin T,
           NEW program \in Seq(T), program # <<>>, NEW argument \in Seq(T), argument # <<>>,
           NEW tail \in Seq(S), Len(tail) = 2 + Len(argument),
           StandsQuoted(tail, 0, argument),
           NEW s, IsCommand(s, "dq", "sp", program, tail)
    PROVE  tokenizeCommand(s) = <<program, argument>>
<1>1. program \in Seq(S) /\ Len(program) \in Nat /\ Len(argument) \in Nat
  BY LenProperties, SeqMonotonic
<1>2. /\ Len(s) = Len(program) + 3 + Len(tail)
      /\ \A j \in 1..Len(tail) : s[3 + Len(program) + j] = tail[j]
  BY <1>1, CommandChars
<1>3. Len(s) \in Nat
  BY <1>1, <1>2
<1>4. PICK w, t, b : /\ Tokenized(s) = w[Len(s)]
                     /\ w[0] = Tok(t, <<>>, "none", b) /\ t = <<>> /\ ~b
                     /\ IsReading(w, s, Len(s))
  BY <1>3, ReadingExists
<1>5. PICK n, k, u : n = Len(s) /\ k = 3 + Len(program) /\ u = Append(t, program)
  OBVIOUS
<1>6. n \in Nat /\ k \in Nat /\ k + 2 + Len(argument) <= n
  BY <1>1, <1>2, <1>5
<1>7. k + 2 + Len(argument) = Len(s)
  BY <1>1, <1>2, <1>5
<1>8. StandsQuoted(s, k, argument)
  <2>1. /\ 1 \in 1..Len(tail) /\ 2 + Len(argument) \in 1..Len(tail)
        /\ tail[1] = "dq" /\ tail[2 + Len(argument)] = "dq"
    BY <1>1 DEF StandsQuoted
  <2>2. s[k + 1] = "dq"
    BY <1>2, <1>5, <2>1
  <2>3. s[k + 2 + Len(argument)] = "dq"
    <3>1. k + 2 + Len(argument) = 3 + Len(program) + (2 + Len(argument))
      BY <1>1, <1>5
    <3>2. QED
      BY <1>2, <2>1, <3>1
  <2>4. ASSUME NEW j \in 1..Len(argument) PROVE s[k + 1 + j] = argument[j]
    <3>1. /\ 1 + j \in 1..Len(tail) /\ k + 1 + j = 3 + Len(program) + (1 + j)
          /\ 0 + 1 + j = 1 + j
      BY <1>1, <1>5
    <3>2. tail[1 + j] = argument[j]
      BY <3>1 DEF StandsQuoted
    <3>3. QED
      BY <1>2, <3>1, <3>2
  <2>5. QED
    BY <2>2, <2>3, <2>4 DEF StandsQuoted
<1>9. w[3 + Len(program)] = Tok(Append(t, program), <<>>, "none", b)
  <2>1. ~b /\ w[0] = Tok(t, <<>>, "none", b) /\ IsReading(w, s, Len(s))
    BY <1>4
  <2>2. QED
    BY <2>1, ProgramRead
<1>10. ~b /\ w[k] = Tok(u, <<>>, "none", b) /\ IsReading(w, s, n)
  BY <1>4, <1>5, <1>9
<1>11. w[k + 2 + Len(argument)] = Tok(u, argument, "none", b)
  BY <1>6, <1>8, <1>10, QuotedWord
<1>12. Tokenized(s) = Tok(u, argument, "none", b)
  BY <1>4, <1>7, <1>11
<1>13. ~Tokenized(s).rejected /\ Tokenized(s).quote = "none"
  BY <1>4, <1>12, TokRead
<1>14. Tokenized(s).current = argument /\ Tokenized(s).tokens = u
  BY <1>12, TokRead
<1>15. tokenizeCommand(s) = Append(u, argument)
  BY <1>13, <1>14 DEF tokenizeCommand
<1>16. Append(u, argument) = <<program, argument>>
  <2>1. u = <<program>>
    BY <1>4, <1>5
  <2>2. Append(<<program>>, argument) = <<program, argument>>
    BY TwoTokens
  <2>3. QED
    BY <2>1, <2>2
<1>17. QED
  BY <1>15, <1>16

IsMeta(tail) == Len(tail) = 2 /\ tail[1] = "x" /\ tail[2] = "meta"

\* A character of the shell outside quotes leaves a command without tokens.
LEMMA MetaCommand ==
    ASSUME NEW S, "dq" \in S, "sp" \in S, "x" \in S, "meta" \in S,
           NEW T, T \subseteq S, "dq" \notin T,
           NEW program \in Seq(T), program # <<>>,
           NEW tail \in Seq(S), IsMeta(tail),
           NEW s, IsCommand(s, "dq", "sp", program, tail)
    PROVE  tokenizeCommand(s) = <<>>
<1>1. program \in Seq(S) /\ Len(program) \in Nat
  BY LenProperties, SeqMonotonic
<1>2. /\ Len(s) = Len(program) + 3 + Len(tail)
      /\ \A j \in 1..Len(tail) : s[3 + Len(program) + j] = tail[j]
  BY <1>1, CommandChars
<1>3. Len(s) \in Nat /\ Len(s) = Len(program) + 5
  BY <1>1, <1>2 DEF IsMeta
<1>4. PICK w, t, b : /\ Tokenized(s) = w[Len(s)]
                     /\ w[0] = Tok(t, <<>>, "none", b) /\ t = <<>> /\ ~b
                     /\ IsReading(w, s, Len(s))
  BY <1>3, ReadingExists
<1>5. PICK u : u = Append(t, program)
  OBVIOUS
<1>6. w[3 + Len(program)] = Tok(Append(t, program), <<>>, "none", b)
  <2>1. ~b /\ w[0] = Tok(t, <<>>, "none", b) /\ IsReading(w, s, Len(s))
    BY <1>4
  <2>2. QED
    BY <2>1, ProgramRead
<1>7. s[4 + Len(program)] = "x" /\ s[5 + Len(program)] = "meta"
  <2>1. 1 \in 1..Len(tail) /\ 2 \in 1..Len(tail) /\ tail[1] = "x" /\ tail[2] = "meta"
    BY DEF IsMeta
  <2>2. 3 + Len(program) + 1 = 4 + Len(program) /\ 3 + Len(program) + 2 = 5 + Len(program)
    BY <1>1
  <2>3. QED
    BY <1>2, <2>1, <2>2
<1>8. w[4 + Len(program)] = NextToken(w[3 + Len(program)], "x")
  <2>1. 4 + Len(program) \in 1..Len(s) /\ (4 + Len(program)) - 1 = 3 + Len(program)
    BY <1>1, <1>3
  <2>2. QED
    BY <1>4, <1>7, <2>1 DEF IsReading
<1>9. PICK c : c = Append(<<>>, "x")
  OBVIOUS
<1>10. w[4 + Len(program)] = Tok(u, c, "none", b)
  <2>1. PICK e : e = <<>>
    OBVIOUS
  <2>2. NextToken(Tok(u, e, "none", b), "x") = Tok(u, Append(e, "x"), "none", b)
    BY <1>4, TurnLetter
  <2>3. QED
    BY <1>5, <1>6, <1>8, <1>9, <2>1, <2>2
<1>11. w[5 + Len(program)] = NextToken(w[4 + Len(program)], "meta")
  <2>1. 5 + Len(program) \in 1..Len(s) /\ (5 + Len(program)) - 1 = 4 + Len(program)
    BY <1>1, <1>3
  <2>2. QED
    BY <1>4, <1>7, <2>1 DEF IsReading
<1>12. Tokenized(s) = NextToken(Tok(u, c, "none", b), "meta")
  <2>1. 5 + Len(program) = Len(s)
    BY <1>1, <1>3
  <2>2. QED
    BY <1>4, <1>10, <1>11, <2>1
<1>13. Tokenized(s).rejected
  <2>1. NextToken(Tok(u, c, "none", b), "meta").rejected
    BY <1>4, TurnMeta
  <2>2. QED
    BY <1>12, <2>1
<1>14. QED
  BY <1>13 DEF tokenizeCommand

-----------------------------------------------------------------------------
(* Paths, piece by piece. *)

\* v is what a loop over s has computed after each of n turns.
Runs(loop, v, n, s) == \A i \in 1..n : v[i] = Turn(loop, v[i - 1], s[i])
Alike(s, q, n) == \A i \in 1..n : s[i] = q[i]

\* Two loops that begin alike and read the same compute the same.
LEMMA SameLoop ==
    ASSUME NEW loop, NEW n \in Nat, NEW v, NEW w, NEW s, NEW q,
           v[0] = w[0], Runs(loop, v, n, s), Runs(loop, w, n, q), Alike(s, q, n)
    PROVE  v[n] = w[n]
<1> DEFINE H == {i \in 0..n : v[i] = w[i]}
<1>1. 0 \in H
  OBVIOUS
<1>2. ASSUME NEW i \in 1..n, i - 1 \in H PROVE i \in H
  <2>1. v[i] = Turn(loop, v[i - 1], s[i]) /\ w[i] = Turn(loop, w[i - 1], q[i]) /\ s[i] = q[i]
    BY DEF Runs, Alike
  <2>2. QED
    BY <1>2, <2>1
<1> HIDE DEF H
<1>3. \A i \in 0..n : i \in H
  BY <1>1, <1>2, EveryTurn
<1>4. QED
  BY <1>3 DEF H

NoNames == [names |-> <<>>, name |-> <<>>]

LEMMA PiecesLoop ==
    ASSUME NEW path, Len(path) \in Nat
    PROVE  \E w : /\ Split(path) = w[Len(path)]
                  /\ w[0] = NoNames
                  /\ Runs("pieces", w, Len(path), path)
<1> DEFINE w == CHOOSE f : f = [i \in 0..Len(path) |->
                                  IF i = 0 THEN NoNames ELSE NextPiece(f[i - 1], path[i])]
<1>1. Split(path) = w[Len(path)]
  BY Zenon DEF Split, NoNames
<1>2. \A st, x : Turn("pieces", st, x) = NextPiece(st, x)
  BY DEF Turn
<1>3. \E f : f = [i \in 0..Len(path) |-> IF i = 0 THEN NoNames ELSE NextPiece(f[i - 1], path[i])]
  <2>1. PICK f : IsLoop("pieces", f, Len(path), NoNames, path)
    BY LoopExists
  <2>2. QED
    BY <1>2, <2>1 DEF IsLoop
<1>4. w = [i \in 0..Len(path) |-> IF i = 0 THEN NoNames ELSE NextPiece(w[i - 1], path[i])]
  BY <1>3, Zenon
<1> HIDE DEF w
<1>5. w[0] = NoNames
  BY <1>4
<1>6. ASSUME NEW i \in 1..Len(path) PROVE w[i] = NextPiece(w[i - 1], path[i])
  BY <1>4
<1>7. QED
  BY <1>1, <1>2, <1>5, <1>6 DEF Runs

\* An empty path, and a path with one piece more.
LEMMA SplitEmpty == Split(<<>>) = NoNames
<1>1. Len(<<>>) = 0
  OBVIOUS
<1>2. QED
  BY <1>1, PiecesLoop

LEMMA SplitAppend ==
    ASSUME NEW S, NEW path \in Seq(S), NEW x \in S
    PROVE  Split(Append(path, x)) = NextPiece(Split(path), x)
<1>1. PICK n, q : n = Len(path) /\ q = Append(path, x)
  OBVIOUS
<1>2. n \in Nat /\ Len(q) = n + 1 /\ Len(q) \in Nat /\ q[n + 1] = x /\ Alike(path, q, n)
  BY <1>1 DEF Alike
<1>3. PICK v : Split(path) = v[n] /\ v[0] = NoNames /\ Runs("pieces", v, n, path)
  BY <1>1, <1>2, PiecesLoop
<1>4. PICK w : Split(q) = w[Len(q)] /\ w[0] = NoNames /\ Runs("pieces", w, Len(q), q)
  BY <1>2, PiecesLoop
<1>5. Runs("pieces", w, n, q) /\ w[n + 1] = Turn("pieces", w[n], x)
  BY <1>2, <1>4 DEF Runs
<1>6. v[n] = w[n]
  <2>1. v[0] = w[0]
    BY <1>3, <1>4
  <2>2. QED
    BY <1>2, <1>3, <1>5, <2>1, SameLoop
<1>7. QED
  BY <1>1, <1>2, <1>3, <1>4, <1>5, <1>6 DEF Turn

\* The beginnings of a sequence, one element after the other.
LEMMA Beginnings ==
    ASSUME NEW S, NEW s \in Seq(S)
    PROVE  /\ SubSeq(s, 1, 0) = <<>> /\ SubSeq(s, 1, Len(s)) = s
           /\ \A i \in 0..Len(s) : SubSeq(s, 1, i) \in Seq(S)
           /\ \A i \in 1..Len(s) : s[i] \in S /\ SubSeq(s, 1, i) = Append(SubSeq(s, 1, i - 1), s[i])
<1>1. ASSUME NEW i \in 0..Len(s) PROVE SubSeq(s, 1, i) \in Seq(S)
  BY SubSeqProperties
<1>2. ASSUME NEW i \in 1..Len(s)
      PROVE  s[i] \in S /\ SubSeq(s, 1, i) = Append(SubSeq(s, 1, i - 1), s[i])
  <2>1. s[i] \in S /\ i - 1 \in 0..Len(s) /\ 1 \in 1..Len(s) /\ i \in 1..Len(s)
    OBVIOUS
  <2>2. SubSeq(s, 1, i) = SubSeq(s, 1, i - 1) \o <<s[i]>>
    BY <2>1, SubSeqRecursiveSecond
  <2>3. PICK b : b = SubSeq(s, 1, i - 1)
    OBVIOUS
  <2>4. b \in Seq(S)
    BY <1>1, <2>1, <2>3
  <2>5. Append(b, s[i]) = b \o <<s[i]>>
    BY <2>1, <2>4, AppendIsConcat
  <2>6. QED
    BY <2>1, <2>2, <2>3, <2>5
<1>3. QED
  BY <1>1, <1>2, SubSeqEmpty, SubSeqFull

LEMMA JoinAppend ==
    ASSUME NEW S, NEW a \in Seq(S), NEW b \in Seq(S), NEW x \in S
    PROVE  a \o Append(b, x) = Append(a \o b, x)
<1>1. PICK c : c = a \o b
  OBVIOUS
<1>2. c \in Seq(S) /\ <<x>> \in Seq(S)
  BY <1>1
<1>3. Append(b, x) = b \o <<x>> /\ Append(c, x) = c \o <<x>>
  BY <1>2, AppendIsConcat
<1>4. (a \o b) \o <<x>> = a \o (b \o <<x>>)
  BY <1>2, ConcatAssociative
<1>5. QED
  BY <1>1, <1>3, <1>4

\* What is read of a path is made of its pieces.
NamesOver(S) == Seq(Seq(S \ {Slash}) \ {<<>>})

IsSplit(S, st) ==
    /\ st = [names |-> st.names, name |-> st.name]
    /\ st.names \in NamesOver(S) /\ st.name \in Seq(S \ {Slash})

LEMMA SplitTyped ==
    ASSUME NEW S, NEW path \in Seq(S)
    PROVE  /\ Split(path) = [names |-> Split(path).names, name |-> Split(path).name]
           /\ Split(path).names \in NamesOver(S) /\ Split(path).name \in Seq(S \ {Slash})
           /\ Segments(path) \in NamesOver(S)
<1> DEFINE n == Len(path)
           H == {i \in 0..n : IsSplit(S, Split(SubSeq(path, 1, i)))}
<1>1. n \in Nat
  OBVIOUS
<1>2. IsSplit(S, Split(<<>>))
  <2>1. <<>> \in NamesOver(S) /\ <<>> \in Seq(S \ {Slash})
    BY EmptySeq DEF NamesOver
  <2>2. QED
    <3>1. PICK e : e = <<>>
      OBVIOUS
    <3>2. Split(<<>>) = [names |-> e, name |-> e]
      BY <3>1, SplitEmpty DEF NoNames
    <3>3. e \in NamesOver(S) /\ e \in Seq(S \ {Slash})
      BY <2>1, <3>1
    <3>4. QED
      BY <3>2, <3>3 DEF IsSplit
<1>3. ASSUME NEW st, IsSplit(S, st) PROVE NamesRead(st) \in NamesOver(S)
  BY <1>3 DEF NamesRead, NamesOver, IsSplit
<1>4. ASSUME NEW p \in Seq(S), NEW x \in S, IsSplit(S, Split(p))
      PROVE  IsSplit(S, Split(Append(p, x)))
  <2>1. PICK st : st = Split(p)
    OBVIOUS
  <2>2. Split(Append(p, x)) = NextPiece(st, x)
    BY <2>1, SplitAppend
  <2>3. NamesRead(st) \in NamesOver(S) /\ <<>> \in Seq(S \ {Slash})
    BY <1>3, <1>4, <2>1, EmptySeq
  <2>4. CASE x = Slash
    BY <2>2, <2>3, <2>4 DEF NextPiece, IsSplit
  <2>5. CASE x # Slash
    <3>1. st.name \in Seq(S \ {Slash}) /\ x \in S \ {Slash}
      BY <1>4, <2>1, <2>5 DEF IsSplit
    <3>2. Append(st.name, x) \in Seq(S \ {Slash})
      BY <3>1
    <3>3. NextPiece(st, x) = [names |-> st.names, name |-> Append(st.name, x)]
      BY <2>5 DEF NextPiece
    <3>4. QED
      BY <1>4, <2>1, <2>2, <3>2, <3>3 DEF IsSplit
  <2>6. QED
    BY <2>4, <2>5
<1>5. 0 \in H
  <2>1. PICK e : e = SubSeq(path, 1, 0)
    OBVIOUS
  <2>2. e = <<>>
    BY <2>1, Beginnings
  <2>3. IsSplit(S, Split(e))
    BY <1>2, <2>2
  <2>4. QED
    BY <1>1, <2>1, <2>3
<1>6. ASSUME NEW i \in 1..n, i - 1 \in H PROVE i \in H
  <2>1. PICK p, q : p = SubSeq(path, 1, i - 1) /\ q = SubSeq(path, 1, i)
    OBVIOUS
  <2>2. p \in Seq(S) /\ path[i] \in S /\ q = Append(p, path[i])
    BY <2>1, Beginnings
  <2>3. IsSplit(S, Split(p))
    BY <1>6, <2>1
  <2>4. IsSplit(S, Split(q))
    BY <1>4, <2>2, <2>3
  <2>5. QED
    BY <2>1, <2>4
<1> HIDE DEF H
<1>7. \A i \in 0..n : i \in H
  BY <1>1, <1>5, <1>6, EveryTurn
<1>8. n \in H
  BY <1>1, <1>7
<1>9. IsSplit(S, Split(path))
  <2>1. SubSeq(path, 1, n) = path
    BY Beginnings
  <2>2. QED
    BY <1>8, <2>1 DEF H
<1>10. QED
  BY <1>3, <1>9 DEF IsSplit, Segments

\* A '/' ends a name, and nothing else does.
LEMMA SplitSlash ==
    ASSUME NEW S, Slash \in S, NEW a \in Seq(S)
    PROVE  /\ Split(Append(a, Slash)) = [names |-> Segments(a), name |-> <<>>]
           /\ Segments(Append(a, Slash)) = Segments(a)
<1>1. Split(Append(a, Slash)) = [names |-> Segments(a), name |-> <<>>]
  BY SplitAppend DEF NextPiece, Segments
<1>2. QED
  BY <1>1 DEF Segments, NamesRead

LEMMA SplitPiece ==
    ASSUME NEW S, NEW a \in Seq(S), NEW x \in S \ {Slash}
    PROVE  /\ Split(Append(a, x)) = [names |-> Split(a).names, name |-> Append(Split(a).name, x)]
           /\ Segments(Append(a, x)) = Append(Split(a).names, Append(Split(a).name, x))
<1>1. Split(Append(a, x)) = [names |-> Split(a).names, name |-> Append(Split(a).name, x)]
  BY SplitAppend DEF NextPiece
<1>2. Append(Split(a).name, x) # <<>>
  BY SplitTyped
<1>3. QED
  BY <1>1, <1>2 DEF Segments, NamesRead

\* Paths on both sides of a '/' are cut on their own.
LEMMA NamesJoin ==
    ASSUME NEW S, NEW a \in NamesOver(S), NEW b \in NamesOver(S),
           NEW x \in Seq(S \ {Slash}) \ {<<>>}
    PROVE  a \o Append(b, x) = Append(a \o b, x)
<1>1. PICK N : N = Seq(S \ {Slash}) \ {<<>>}
  OBVIOUS
<1>2. a \in Seq(N) /\ b \in Seq(N) /\ x \in N
  BY <1>1 DEF NamesOver
<1>3. QED
  BY <1>2, JoinAppend

CutsBoth(a, b) ==
    Split(Append(a, Slash) \o b) = [names |-> Segments(a) \o Split(b).names, name |-> Split(b).name]

LEMMA SplitBoth ==
    ASSUME NEW S, Slash \in S, NEW a \in Seq(S), NEW b \in Seq(S)
    PROVE  /\ Split(Append(a, Slash) \o b) = [names |-> Segments(a) \o Split(b).names,
                                              name |-> Split(b).name]
           /\ Segments(Append(a, Slash) \o b) = Segments(a) \o Segments(b)
<1> DEFINE n == Len(b)
           H == {i \in 0..n : CutsBoth(a, SubSeq(b, 1, i))}
<1>1. n \in Nat /\ Append(a, Slash) \in Seq(S)
  OBVIOUS
<1>2. Segments(a) \in NamesOver(S) /\ Segments(a) \o <<>> = Segments(a)
  <2>1. Segments(a) \in NamesOver(S)
    BY SplitTyped
  <2>2. QED
    BY <2>1, ConcatEmptySeq DEF NamesOver
<1>3. CutsBoth(a, <<>>)
  <2>1. Append(a, Slash) \o <<>> = Append(a, Slash)
    BY <1>1, ConcatEmptySeq
  <2>2. QED
    <3>1. PICK e, x, y : e = <<>> /\ x = Segments(a) /\ y = Append(a, Slash)
      OBVIOUS
    <3>2. Split(y) = [names |-> x, name |-> e] /\ x \o e = x /\ y \o e = y
      BY <1>2, <2>1, <3>1, SplitSlash
    <3>3. Split(e).names = e /\ Split(e).name = e
      BY <3>1, SplitEmpty DEF NoNames
    <3>4. CutsBoth(a, e)
      BY <3>1, <3>2, <3>3 DEF CutsBoth
    <3>5. QED
      BY <3>1, <3>4
<1>4. ASSUME NEW p \in Seq(S), NEW x \in S, CutsBoth(a, p) PROVE CutsBoth(a, Append(p, x))
  <2>1. PICK c : c = Append(a, Slash) \o p
    OBVIOUS
  <2>2. c \in Seq(S) /\ Append(a, Slash) \o Append(p, x) = Append(c, x)
    BY <1>1, <2>1, JoinAppend
  <2>3. Split(c).names = Segments(a) \o Split(p).names /\ Split(c).name = Split(p).name
    BY <1>4, <2>1 DEF CutsBoth
  <2>4. Split(p).names \in NamesOver(S) /\ Split(p).name \in Seq(S \ {Slash})
    BY SplitTyped
  <2>5. CASE x = Slash
    <3>1. Split(Append(c, x)) = [names |-> Segments(c), name |-> <<>>]
      BY <2>2, <2>5, SplitSlash
    <3>2. Split(Append(p, x)) = [names |-> Segments(p), name |-> <<>>]
      BY <2>5, SplitSlash
    <3>3. Segments(c) = Segments(a) \o Segments(p)
      <4>1. CASE Split(p).name = <<>>
        BY <2>3, <4>1 DEF Segments, NamesRead
      <4>2. CASE Split(p).name # <<>>
        <5>1. /\ Segments(c) = Append(Segments(a) \o Split(p).names, Split(p).name)
              /\ Segments(p) = Append(Split(p).names, Split(p).name)
          BY <2>3, <4>2 DEF Segments, NamesRead
        <5>2. Split(p).name \in Seq(S \ {Slash}) \ {<<>>}
          BY <2>4, <4>2
        <5>3. QED
          <6>1. PICK k, l, m : k = Segments(a) /\ l = Split(p).names /\ m = Split(p).name
            OBVIOUS
          <6>2. k \o Append(l, m) = Append(k \o l, m)
            BY <1>2, <2>4, <5>2, <6>1, NamesJoin
          <6>3. QED
            BY <5>1, <6>1, <6>2
      <4>3. QED
        BY <4>1, <4>2
    <3>4. QED
      BY <2>2, <3>1, <3>2, <3>3 DEF CutsBoth
  <2>6. CASE x # Slash
    <3>1. x \in S \ {Slash}
      BY <2>6
    <3>2. Split(Append(c, x)) = [names |-> Split(c).names, name |-> Append(Split(c).name, x)]
      BY <2>2, <3>1, SplitPiece
    <3>3. Split(Append(p, x)) = [names |-> Split(p).names, name |-> Append(Split(p).name, x)]
      BY <3>1, SplitPiece
    <3>4. QED
      BY <2>2, <2>3, <3>2, <3>3 DEF CutsBoth
  <2>7. QED
    BY <2>5, <2>6
<1>5. 0 \in H
  <2>1. PICK e : e = SubSeq(b, 1, 0)
    OBVIOUS
  <2>2. e = <<>>
    BY <2>1, Beginnings
  <2>3. CutsBoth(a, e)
    BY <1>3, <2>2
  <2>4. QED
    BY <1>1, <2>1, <2>3
<1>6. ASSUME NEW i \in 1..n, i - 1 \in H PROVE i \in H
  <2>1. PICK p, q : p = SubSeq(b, 1, i - 1) /\ q = SubSeq(b, 1, i)
    OBVIOUS
  <2>2. p \in Seq(S) /\ b[i] \in S /\ q = Append(p, b[i])
    BY <2>1, Beginnings
  <2>3. CutsBoth(a, p)
    BY <1>6, <2>1
  <2>4. CutsBoth(a, q)
    BY <1>4, <2>2, <2>3
  <2>5. QED
    BY <2>1, <2>4
<1> HIDE DEF H
<1>7. \A i \in 0..n : i \in H
  BY <1>1, <1>5, <1>6, EveryTurn
<1>8. CutsBoth(a, b)
  <2>1. SubSeq(b, 1, n) = b /\ n \in H
    BY <1>1, <1>7, Beginnings
  <2>2. QED
    BY <2>1 DEF H
<1>9. Split(b).names \in NamesOver(S) /\ Split(b).name \in Seq(S \ {Slash})
  BY SplitTyped
<1>10. Segments(Append(a, Slash) \o b) = Segments(a) \o Segments(b)
  <2>1. PICK c : c = Append(a, Slash) \o b
    OBVIOUS
  <2>2. Split(c).names = Segments(a) \o Split(b).names /\ Split(c).name = Split(b).name
    BY <1>8, <2>1 DEF CutsBoth
  <2>3. CASE Split(b).name = <<>>
    BY <2>1, <2>2, <2>3 DEF Segments, NamesRead
  <2>4. CASE Split(b).name # <<>>
    <3>1. /\ Segments(c) = Append(Segments(a) \o Split(b).names, Split(b).name)
          /\ Segments(b) = Append(Split(b).names, Split(b).name)
      BY <2>2, <2>4 DEF Segments, NamesRead
    <3>2. Split(b).name \in Seq(S \ {Slash}) \ {<<>>}
      BY <1>9, <2>4
    <3>3. QED
      <4>1. PICK k, l, m : k = Segments(a) /\ l = Split(b).names /\ m = Split(b).name
        OBVIOUS
      <4>2. k \o Append(l, m) = Append(k \o l, m)
        BY <1>2, <1>9, <3>2, <4>1, NamesJoin
      <4>3. QED
        BY <2>1, <3>1, <4>1, <4>2
  <2>5. QED
    BY <2>3, <2>4
<1>11. QED
  BY <1>8, <1>10 DEF CutsBoth

-----------------------------------------------------------------------------
(* Paths and trees. *)

LEMMA PrefixIs ==
    ASSUME NEW S, NEW s \in Seq(S), NEW t \in Seq(S)
    PROVE  IsPrefix(s, t) <=> Len(s) <= Len(t) /\ \A i \in 1..Len(s) : s[i] = t[i]
<1>1. SubSeq(s, 1, Len(s)) = s
  BY SubSeqFull
<1>2. CASE Len(s) <= Len(t)
  <2>1. PICK u : u = SubSeq(t, 1, Len(s))
    OBVIOUS
  <2>2. \A i \in 1..Len(s) : t[i] \in S
    BY <1>2
  <2>3. 1 \in Int /\ Len(s) \in Int /\ Len(s) \in Nat
    OBVIOUS
  <2>4. /\ u \in Seq(S) /\ Len(u) = IF 1 <= Len(s) THEN Len(s) - 1 + 1 ELSE 0
        /\ \A i \in 1..Len(s) - 1 + 1 : u[i] = t[1 + i - 1]
    BY <2>1, <2>2, <2>3, SubSeqProperties
  <2>5. Len(u) = Len(s) /\ \A i \in 1..Len(s) : u[i] = t[i]
    BY <2>3, <2>4
  <2>6. s = u <=> \A i \in 1..Len(s) : s[i] = t[i]
    BY <2>4, <2>5, SeqEqual
  <2>7. QED
    BY <1>1, <1>2, <2>1, <2>6 DEF IsPrefix
<1>3. QED
  BY <1>2 DEF IsPrefix

\* What is before a longer path is before the shorter one or is it.
LEMMA BeforeAppend ==
    ASSUME NEW S, NEW f \in Seq(S), NEW s \in Seq(S), NEW x \in S
    PROVE  IsStrictPrefix(f, Append(s, x)) <=> IsPrefix(f, s)
<1>1. PICK t : t = Append(s, x)
  OBVIOUS
<1>2. t \in Seq(S) /\ Len(t) = Len(s) + 1 /\ \A i \in 1..Len(s) : t[i] = s[i]
  BY <1>1
<1>3. ASSUME IsStrictPrefix(f, t) PROVE IsPrefix(f, s)
  <2>1. Len(f) <= Len(t) /\ (\A i \in 1..Len(f) : f[i] = t[i]) /\ f # t
    BY <1>2, <1>3, PrefixIs DEF IsStrictPrefix
  <2>2. Len(f) # Len(t)
    BY <1>2, <2>1, SeqEqual
  <2>3. Len(f) <= Len(s) /\ \A i \in 1..Len(f) : f[i] = s[i]
    BY <1>2, <2>1, <2>2
  <2>4. QED
    BY <2>3, PrefixIs
<1>4. ASSUME IsPrefix(f, s) PROVE IsStrictPrefix(f, t)
  <2>1. Len(f) <= Len(s) /\ \A i \in 1..Len(f) : f[i] = s[i]
    BY <1>4, PrefixIs
  <2>2. Len(f) <= Len(t) /\ (\A i \in 1..Len(f) : f[i] = t[i]) /\ Len(f) # Len(t)
    BY <1>2, <2>1
  <2>3. QED
    BY <1>2, <2>2, PrefixIs DEF IsStrictPrefix
<1>5. QED
  BY <1>1, <1>3, <1>4

LEMMA PrefixChain ==
    ASSUME NEW S, NEW f \in Seq(S), NEW s \in Seq(S), NEW t \in Seq(S), IsPrefix(f, s)
    PROVE  /\ IsPrefix(f, f)
           /\ IsPrefix(s, t) => IsPrefix(f, t)
           /\ IsStrictPrefix(s, t) => IsStrictPrefix(f, t)
<1>1. IsPrefix(f, f)
  BY PrefixIs
<1>2. Len(f) <= Len(s) /\ \A i \in 1..Len(f) : f[i] = s[i]
  BY PrefixIs
<1>3. ASSUME IsPrefix(s, t) PROVE IsPrefix(f, t)
  <2>1. Len(s) <= Len(t) /\ \A i \in 1..Len(s) : s[i] = t[i]
    BY <1>3, PrefixIs
  <2>2. Len(f) <= Len(t) /\ \A i \in 1..Len(f) : f[i] = t[i]
    BY <1>2, <2>1
  <2>3. QED
    BY <2>2, PrefixIs
<1>4. ASSUME IsStrictPrefix(s, t) PROVE f # t
  <2>1. Len(s) <= Len(t) /\ (\A i \in 1..Len(s) : s[i] = t[i]) /\ s # t
    BY <1>4, PrefixIs DEF IsStrictPrefix
  <2>2. Len(s) # Len(t)
    BY <2>1, SeqEqual
  <2>3. QED
    BY <1>2, <2>1, <2>2
<1>5. QED
  BY <1>1, <1>3, <1>4 DEF IsStrictPrefix

\* A path of which something longer is there is a directory.
There(files, at) == at \in files \/ IsDirectory(files, at)

LEMMA ParentIsDirectory ==
    ASSUME NEW S, NEW files, files \subseteq Seq(S), NEW s \in Seq(S), NEW x \in S,
           There(files, Append(s, x))
    PROVE  IsDirectory(files, s)
<1>1. PICK t : t = Append(s, x)
  OBVIOUS
<1>2. t \in Seq(S) /\ IsPrefix(s, s)
  BY <1>1, PrefixIs
<1>3. IsStrictPrefix(s, t)
  BY <1>1, <1>2, BeforeAppend
<1>4. CASE t \in files
  BY <1>3, <1>4 DEF IsDirectory
<1>5. CASE IsDirectory(files, t)
  <2>1. PICK f \in files : IsStrictPrefix(t, f)
    BY <1>5 DEF IsDirectory
  <2>2. IsStrictPrefix(s, f)
    BY <1>2, <1>3, <2>1, PrefixChain DEF IsStrictPrefix
  <2>3. QED
    BY <2>2 DEF IsDirectory
<1>6. QED
  BY <1>1, <1>4, <1>5 DEF There

\* __seekFilePos goes down the tree name by name.
AtRoot == [null |-> FALSE, at |-> <<>>]
Visits(files, names) == [i \in 1..Len(names) |-> [files |-> files, name |-> names[i]]]

LEMMA TreeLoop ==
    ASSUME NEW files, NEW names, Len(names) \in Nat
    PROVE  \E w : /\ Sought(files, names) = w[Len(names)]
                  /\ w[0] = AtRoot
                  /\ Runs("tree", w, Len(names), Visits(files, names))
<1> DEFINE w == CHOOSE f : f = [i \in 0..Len(names) |->
                                  IF i = 0 THEN AtRoot ELSE SeekName(files, f[i - 1], names[i])]
<1>1. Sought(files, names) = w[Len(names)]
  BY Zenon DEF Sought, AtRoot
<1>2. ASSUME NEW st, NEW i \in 1..Len(names)
      PROVE  Turn("tree", st, Visits(files, names)[i]) = SeekName(files, st, names[i])
  BY DEF Turn, Visits
<1>3. \E f : f = [i \in 0..Len(names) |->
                     IF i = 0 THEN AtRoot ELSE SeekName(files, f[i - 1], names[i])]
  <2>1. PICK f : IsLoop("tree", f, Len(names), AtRoot, Visits(files, names))
    BY LoopExists
  <2>2. ASSUME NEW i \in 0..Len(names)
        PROVE  f[i] = IF i = 0 THEN AtRoot ELSE SeekName(files, f[i - 1], names[i])
    <3>1. f[i] = IF i = 0 THEN AtRoot ELSE Turn("tree", f[i - 1], Visits(files, names)[i])
      BY <2>1 DEF IsLoop
    <3>2. CASE i = 0
      BY <3>1, <3>2
    <3>3. CASE i # 0
      <4>1. PICK g : g = f[i - 1]
        OBVIOUS
      <4>2. i \in 1..Len(names)
        BY <3>3
      <4>3. Turn("tree", g, Visits(files, names)[i]) = SeekName(files, g, names[i])
        BY <1>2, <4>2
      <4>4. QED
        BY <3>1, <3>3, <4>1, <4>3
    <3>4. QED
      BY <3>2, <3>3
  <2>3. f = [i \in 0..Len(names) |-> f[i]]
    BY <2>1 DEF IsLoop
  <2>4. f = [i \in 0..Len(names) |->
                IF i = 0 THEN AtRoot ELSE SeekName(files, f[i - 1], names[i])]
    BY <2>2, <2>3, Zenon
  <2>5. QED
    BY <2>4, Zenon
<1>4. w = [i \in 0..Len(names) |-> IF i = 0 THEN AtRoot ELSE SeekName(files, w[i - 1], names[i])]
  BY <1>3, Zenon
<1> HIDE DEF w
<1>5. w[0] = AtRoot
  BY <1>4
<1>6. ASSUME NEW i \in 1..Len(names) PROVE w[i] = SeekName(files, w[i - 1], names[i])
  BY <1>4
<1>7. Runs("tree", w, Len(names), Visits(files, names))
  <2>1. ASSUME NEW i \in 1..Len(names) PROVE w[i] = Turn("tree", w[i - 1], Visits(files, names)[i])
    BY <1>2, <1>6
  <2>2. QED
    BY <2>1 DEF Runs
<1>8. QED
  BY <1>1, <1>5, <1>7

LEMMA SoughtEmpty ==
    ASSUME NEW files
    PROVE  Sought(files, <<>>) = AtRoot
<1>1. Len(<<>>) = 0
  OBVIOUS
<1>2. QED
  BY <1>1, TreeLoop

LEMMA SoughtAppend ==
    ASSUME NEW files, NEW S, NEW names \in Seq(S), NEW x \in S
    PROVE  Sought(files, Append(names, x)) = SeekName(files, Sought(files, names), x)
<1>1. PICK n, q, s, r : /\ n = Len(names) /\ q = Append(names, x)
                        /\ s = Visits(files, names) /\ r = Visits(files, q)
  OBVIOUS
<1>2. n \in Nat /\ Len(q) = n + 1 /\ Len(q) \in Nat /\ q[n + 1] = x /\ Alike(names, q, n)
  BY <1>1 DEF Alike
<1>3. Alike(s, r, n) /\ r[n + 1] = [files |-> files, name |-> x]
  BY <1>1, <1>2 DEF Alike, Visits
<1>4. PICK v : Sought(files, names) = v[n] /\ v[0] = AtRoot /\ Runs("tree", v, n, s)
  BY <1>1, <1>2, TreeLoop
<1>5. PICK w : Sought(files, q) = w[Len(q)] /\ w[0] = AtRoot /\ Runs("tree", w, Len(q), r)
  BY <1>1, <1>2, TreeLoop
<1>6. Runs("tree", w, n, r) /\ w[n + 1] = Turn("tree", w[n], r[n + 1])
  BY <1>2, <1>5 DEF Runs
<1>7. v[n] = w[n]
  <2>1. v[0] = w[0]
    BY <1>4, <1>5
  <2>2. QED
    BY <1>2, <1>3, <1>4, <1>6, <2>1, SameLoop
<1>8. Turn("tree", w[n], r[n + 1]) = SeekName(files, w[n], x)
  BY <1>3 DEF Turn
<1>9. QED
  BY <1>1, <1>2, <1>4, <1>5, <1>6, <1>7, <1>8

\* What is found of a path that goes on below no file: the path itself if it is
\* there, else nothing.
SeeksIt(files, at) ==
    (\A f \in files : ~IsStrictPrefix(f, at)) =>
        IF at = <<>> \/ There(files, at) THEN Sought(files, at) = [null |-> FALSE, at |-> at]
        ELSE Sought(files, at).null = TRUE

LEMMA SeekStep ==
    ASSUME NEW S, NEW files, files \subseteq Seq(S), NEW at \in Seq(S), NEW x \in S,
           SeeksIt(files, at)
    PROVE  SeeksIt(files, Append(at, x))
<1>1. PICK t, st : t = Append(at, x) /\ st = Sought(files, at)
  OBVIOUS
<1>2. SUFFICES ASSUME \A f \in files : ~IsStrictPrefix(f, t)
               PROVE  /\ t # <<>>
                      /\ There(files, t) => Sought(files, t) = [null |-> FALSE, at |-> t]
                      /\ ~There(files, t) => Sought(files, t).null = TRUE
  BY <1>1 DEF SeeksIt
<1>3. \A f \in files : ~IsPrefix(f, at)
  BY <1>1, <1>2, BeforeAppend
<1>4. at \notin files /\ \A f \in files : ~IsStrictPrefix(f, at)
  BY <1>3, PrefixIs DEF IsStrictPrefix
<1>5. Sought(files, t) = SeekName(files, st, x)
  BY <1>1, SoughtAppend
<1>6. There(files, t) => IsDirectory(files, at)
  BY <1>1, ParentIsDirectory
<1>7. CASE at = <<>> \/ There(files, at)
  <2>1. st = [null |-> FALSE, at |-> at]
    BY <1>1, <1>4, <1>7 DEF SeeksIt
  <2>2. st.null = FALSE /\ st.at = at /\ Append(st.at, x) = t
    BY <1>1, <2>1
  <2>3. There(files, t) => SeekName(files, st, x) = [st EXCEPT !.at = t]
    BY <1>4, <2>2 DEF SeekName, There
  <2>4. ~There(files, t) => SeekName(files, st, x) = [st EXCEPT !.null = TRUE]
    BY <1>4, <2>2 DEF SeekName, There
  <2>5. t # <<>>
    BY <1>1
  <2>6. QED
    BY <1>5, <2>1, <2>3, <2>4, <2>5
<1>8. CASE ~(at = <<>> \/ There(files, at))
  <2>1. st.null = TRUE
    BY <1>1, <1>4, <1>8 DEF SeeksIt
  <2>2. SeekName(files, st, x) = st
    BY <2>1 DEF SeekName
  <2>3. ~There(files, t) /\ t # <<>>
    BY <1>1, <1>6, <1>8 DEF There
  <2>4. QED
    BY <1>5, <2>1, <2>2, <2>3
<1>9. QED
  BY <1>7, <1>8

LEMMA SeekFinds ==
    ASSUME NEW S, NEW files, files \subseteq Seq(S), NEW names \in Seq(S)
    PROVE  SeeksIt(files, names)
<1> DEFINE n == Len(names)
           H == {i \in 0..n : SeeksIt(files, SubSeq(names, 1, i))}
<1>1. n \in Nat
  OBVIOUS
<1>2. 0 \in H
  <2>1. PICK e : e = SubSeq(names, 1, 0)
    OBVIOUS
  <2>2. e = <<>>
    BY <2>1, Beginnings
  <2>3. Sought(files, e) = [null |-> FALSE, at |-> e]
    BY <2>2, SoughtEmpty DEF AtRoot
  <2>4. SeeksIt(files, e)
    BY <2>2, <2>3 DEF SeeksIt
  <2>5. QED
    BY <1>1, <2>1, <2>4
<1>3. ASSUME NEW i \in 1..n, i - 1 \in H PROVE i \in H
  <2>1. PICK p, q : p = SubSeq(names, 1, i - 1) /\ q = SubSeq(names, 1, i)
    OBVIOUS
  <2>2. p \in Seq(S) /\ names[i] \in S /\ q = Append(p, names[i])
    BY <2>1, Beginnings
  <2>3. SeeksIt(files, p)
    BY <1>3, <2>1
  <2>4. SeeksIt(files, q)
    BY <2>2, <2>3, SeekStep
  <2>5. QED
    BY <2>1, <2>4
<1> HIDE DEF H
<1>4. \A i \in 0..n : i \in H
  BY <1>1, <1>2, <1>3, EveryTurn
<1>5. SubSeq(names, 1, n) = names /\ n \in H
  BY <1>1, <1>4, Beginnings
<1>6. QED
  BY <1>5 DEF H

\* Whatever the path, __seekFilePos ends at a file, at the path itself or nowhere.
SeeksSome(files, at) ==
    LET st == Sought(files, at)
    IN /\ st = [null |-> st.null, at |-> st.at]
       /\ \/ st.null = TRUE
          \/ st.null = FALSE /\ st.at \in files
          \/ st.null = FALSE /\ st.at = at /\ (at = <<>> \/ IsDirectory(files, at))

LEMMA SomeStep ==
    ASSUME NEW S, NEW files, NEW at \in Seq(S), NEW x \in S, SeeksSome(files, at)
    PROVE  SeeksSome(files, Append(at, x))
<1>1. PICK t, st : t = Append(at, x) /\ st = Sought(files, at)
  OBVIOUS
<1>2. Sought(files, t) = SeekName(files, st, x)
  BY <1>1, SoughtAppend
<1>3. CASE st.null = TRUE \/ (st.null = FALSE /\ st.at \in files)
  <2>1. SeekName(files, st, x) = st
    BY <1>3 DEF SeekName
  <2>2. QED
    BY <1>1, <1>2, <1>3, <2>1 DEF SeeksSome
<1>4. CASE st.null = FALSE /\ st.at \notin files /\ st.at = at
  <2>1. Append(st.at, x) = t
    BY <1>1, <1>4
  <2>5. st = [null |-> FALSE, at |-> at]
    BY <1>1, <1>4 DEF SeeksSome
  <2>2. CASE There(files, t)
    <3>1. SeekName(files, st, x) = [st EXCEPT !.at = t]
      BY <1>4, <2>1, <2>2 DEF SeekName, There
    <3>2. Sought(files, t) = [null |-> FALSE, at |-> t]
      BY <1>2, <2>5, <3>1
    <3>3. QED
      BY <1>1, <2>2, <3>2 DEF SeeksSome, There
  <2>3. CASE ~There(files, t)
    <3>1. SeekName(files, st, x) = [st EXCEPT !.null = TRUE]
      BY <1>4, <2>1, <2>3 DEF SeekName, There
    <3>2. Sought(files, t) = [null |-> TRUE, at |-> at]
      BY <1>2, <2>5, <3>1
    <3>3. QED
      BY <1>1, <3>2 DEF SeeksSome
  <2>4. QED
    BY <2>2, <2>3
<1>5. QED
  BY <1>1, <1>3, <1>4 DEF SeeksSome

LEMMA SeekSomewhere ==
    ASSUME NEW S, NEW files, NEW names \in Seq(S)
    PROVE  SeeksSome(files, names)
<1> DEFINE n == Len(names)
           H == {i \in 0..n : SeeksSome(files, SubSeq(names, 1, i))}
<1>1. n \in Nat
  OBVIOUS
<1>2. 0 \in H
  <2>1. PICK e : e = SubSeq(names, 1, 0)
    OBVIOUS
  <2>2. e = <<>>
    BY <2>1, Beginnings
  <2>3. Sought(files, e) = [null |-> FALSE, at |-> e]
    BY <2>2, SoughtEmpty DEF AtRoot
  <2>4. SeeksSome(files, e)
    BY <2>2, <2>3 DEF SeeksSome
  <2>5. QED
    BY <1>1, <2>1, <2>4
<1>3. ASSUME NEW i \in 1..n, i - 1 \in H PROVE i \in H
  <2>1. PICK p, q : p = SubSeq(names, 1, i - 1) /\ q = SubSeq(names, 1, i)
    OBVIOUS
  <2>2. p \in Seq(S) /\ names[i] \in S /\ q = Append(p, names[i])
    BY <2>1, Beginnings
  <2>3. SeeksSome(files, p)
    BY <1>3, <2>1
  <2>4. SeeksSome(files, q)
    BY <2>2, <2>3, SomeStep
  <2>5. QED
    BY <2>1, <2>4
<1> HIDE DEF H
<1>4. \A i \in 0..n : i \in H
  BY <1>1, <1>2, <1>3, EveryTurn
<1>5. SubSeq(names, 1, n) = names /\ n \in H
  BY <1>1, <1>4, Beginnings
<1>6. QED
  BY <1>5 DEF H

\* The path of a file, name by name.
LEMMA NamesLoop ==
    ASSUME NEW file, Len(file) \in Nat
    PROVE  \E w : /\ NameOf(file) = w[Len(file)]
                  /\ w[0] = <<>>
                  /\ Runs("names", w, Len(file), file)
<1> DEFINE w == CHOOSE f : f = [i \in 0..Len(file) |->
                                  IF i = 0 THEN <<>> ELSE f[i - 1] \o <<Slash>> \o file[i]]
<1>1. NameOf(file) = w[Len(file)]
  BY Zenon DEF NameOf
<1>2. \A st, x : Turn("names", st, x) = st \o <<Slash>> \o x
  BY DEF Turn
<1>3. \E f : f = [i \in 0..Len(file) |-> IF i = 0 THEN <<>> ELSE f[i - 1] \o <<Slash>> \o file[i]]
  <2>1. PICK f : IsLoop("names", f, Len(file), <<>>, file)
    BY LoopExists
  <2>2. QED
    <3>1. ASSUME NEW i \in 0..Len(file)
          PROVE  f[i] = IF i = 0 THEN <<>> ELSE f[i - 1] \o <<Slash>> \o file[i]
      <4>1. f[i] = IF i = 0 THEN <<>> ELSE Turn("names", f[i - 1], file[i])
        BY <2>1 DEF IsLoop
      <4>2. PICK g, x : g = f[i - 1] /\ x = file[i]
        OBVIOUS
      <4>3. Turn("names", g, x) = g \o <<Slash>> \o x
        BY <1>2
      <4>4. QED
        BY <4>1, <4>2, <4>3, Zenon
    <3>2. f = [i \in 0..Len(file) |-> f[i]]
      BY <2>1 DEF IsLoop
    <3>3. QED
      BY <3>1, <3>2, Zenon
<1>4. w = [i \in 0..Len(file) |-> IF i = 0 THEN <<>> ELSE w[i - 1] \o <<Slash>> \o file[i]]
  BY <1>3, Zenon
<1> HIDE DEF w
<1>5. w[0] = <<>>
  BY <1>4
<1>6. ASSUME NEW i \in 1..Len(file) PROVE w[i] = w[i - 1] \o <<Slash>> \o file[i]
  BY <1>4
<1>7. Runs("names", w, Len(file), file)
  BY <1>2, <1>6, Zenon DEF Runs
<1>8. QED
  BY <1>1, <1>5, <1>7

LEMMA NameOfEmpty == NameOf(<<>>) = <<>>
<1>1. Len(<<>>) = 0
  OBVIOUS
<1>2. QED
  BY <1>1, NamesLoop

LEMMA NameOfAppend ==
    ASSUME NEW S, NEW file \in Seq(S), NEW x \in S
    PROVE  NameOf(Append(file, x)) = NameOf(file) \o <<Slash>> \o x
<1>1. PICK n, q : n = Len(file) /\ q = Append(file, x)
  OBVIOUS
<1>2. n \in Nat /\ Len(q) = n + 1 /\ Len(q) \in Nat /\ q[n + 1] = x /\ Alike(file, q, n)
  BY <1>1 DEF Alike
<1>3. PICK v : NameOf(file) = v[n] /\ v[0] = <<>> /\ Runs("names", v, n, file)
  BY <1>1, <1>2, NamesLoop
<1>4. PICK w : NameOf(q) = w[Len(q)] /\ w[0] = <<>> /\ Runs("names", w, Len(q), q)
  BY <1>2, NamesLoop
<1>5. Runs("names", w, n, q) /\ w[n + 1] = Turn("names", w[n], x)
  BY <1>2, <1>4 DEF Runs
<1>6. v[n] = w[n]
  <2>1. v[0] = w[0]
    BY <1>3, <1>4
  <2>2. QED
    BY <1>2, <1>3, <1>5, <2>1, SameLoop
<1>7. PICK u : u = w[n]
  OBVIOUS
<1>8. Turn("names", u, x) = u \o <<Slash>> \o x
  BY DEF Turn
<1>9. NameOf(file) = u /\ NameOf(q) = Turn("names", u, x)
  BY <1>2, <1>3, <1>4, <1>5, <1>6, <1>7
<1>10. QED
  BY <1>1, <1>8, <1>9

\* A text without a '/' is one name.
IsName(x) == Split(x) = [names |-> <<>>, name |-> x]

LEMMA OneName ==
    ASSUME NEW S, NEW x \in Seq(S \ {Slash}), x # <<>>
    PROVE  Segments(x) = <<x>>
<1> DEFINE n == Len(x)
           H == {i \in 0..n : IsName(SubSeq(x, 1, i))}
<1>1. n \in Nat
  OBVIOUS
<1>2. 0 \in H
  <2>1. PICK e : e = SubSeq(x, 1, 0)
    OBVIOUS
  <2>2. e = <<>>
    BY <2>1, Beginnings
  <2>3. IsName(e)
    BY <2>2, SplitEmpty DEF NoNames, IsName
  <2>4. QED
    BY <1>1, <2>1, <2>3
<1>3. ASSUME NEW i \in 1..n, i - 1 \in H PROVE i \in H
  <2>1. PICK p, q : p = SubSeq(x, 1, i - 1) /\ q = SubSeq(x, 1, i)
    OBVIOUS
  <2>2. p \in Seq(S \ {Slash}) /\ x[i] \in S \ {Slash} /\ q = Append(p, x[i])
    BY <2>1, Beginnings
  <2>3. Split(p) = [names |-> <<>>, name |-> p]
    BY <1>3, <2>1 DEF IsName
  <2>4. x[i] \in (S \ {Slash}) \ {Slash}
    BY <2>2
  <2>5. Split(q) = [names |-> Split(p).names, name |-> Append(Split(p).name, x[i])]
    BY <2>2, <2>4, SplitPiece
  <2>6. IsName(q)
    BY <2>2, <2>3, <2>5 DEF IsName
  <2>7. QED
    BY <2>1, <2>6
<1> HIDE DEF H
<1>4. \A i \in 0..n : i \in H
  BY <1>1, <1>2, <1>3, EveryTurn
<1>5. SubSeq(x, 1, n) = x /\ n \in H
  BY <1>1, <1>4, Beginnings
<1>6. Split(x) = [names |-> <<>>, name |-> x]
  BY <1>5 DEF H, IsName
<1>7. QED
  BY <1>6 DEF Segments, NamesRead

\* The path of a file names it, begins with a '/' and does not end with one.
Named(file) ==
    LET text == NameOf(file)
    IN /\ text \in Texts /\ Segments(text) = file
       /\ file # <<>> => text # <<>> /\ text[1] = Slash /\ text[Len(text)] # Slash

LEMMA NameStep ==
    ASSUME NEW p \in NamesOver(STRING), NEW x \in Seq(STRING \ {Slash}) \ {<<>>}, Named(p)
    PROVE  Named(Append(p, x))
<1>1. PICK N : N = Seq(STRING \ {Slash}) \ {<<>>}
  OBVIOUS
<1>2. p \in Seq(N) /\ x \in N /\ x \in Texts /\ Slash \in STRING
  <2>1. p \in Seq(N) /\ x \in N
    BY <1>1 DEF NamesOver
  <2>2. Slash \in STRING
    BY LiteralsAssumption
  <2>3. x \in Seq(STRING)
    OBVIOUS
  <2>4. QED
    BY <2>1, <2>2, <2>3 DEF Texts
<1>3. PICK a, q, c : a = NameOf(p) /\ q = Append(p, x) /\ c = NameOf(q)
  OBVIOUS
<1>4. a \in Texts /\ Segments(a) = p
  BY <1>3 DEF Named
<1>5. c = a \o <<Slash>> \o x
  BY <1>2, <1>3, NameOfAppend
<1>6. c = Append(a, Slash) \o x
  <2>1. a \in Seq(STRING) /\ Slash \in STRING
    BY <1>2, <1>4 DEF Texts
  <2>2. Append(a, Slash) = a \o <<Slash>>
    BY <2>1, AppendIsConcat
  <2>3. QED
    BY <1>5, <2>2
<1>7. Segments(c) = p \o <<x>>
  <2>1. Segments(Append(a, Slash) \o x) = Segments(a) \o Segments(x)
    BY <1>2, <1>4, SplitBoth DEF Texts
  <2>2. Segments(x) = <<x>>
    BY OneName
  <2>3. QED
    BY <1>4, <1>6, <2>1, <2>2
<1>8. p \o <<x>> = q
  BY <1>2, <1>3, AppendIsConcat
<1>9. c \in Texts /\ c # <<>> /\ c[Len(c)] # Slash
  <2>1. PICK b : b = Append(a, Slash)
    OBVIOUS
  <2>6. a \in Seq(STRING) /\ x \in Seq(STRING) /\ Slash \in STRING
    BY <1>2, <1>4 DEF Texts
  <2>7. Len(x) > 0
    BY <2>6, EmptySeq, LenProperties
  <2>2. b \in Seq(STRING) /\ Len(b) = Len(a) + 1 /\ x \in Seq(STRING) /\ Len(x) > 0
    BY <2>1, <2>6, <2>7, AppendProperties
  <2>3. c \in Seq(STRING) /\ Len(c) = Len(b) + Len(x) /\ c[Len(b) + Len(x)] = x[Len(x)]
    BY <1>6, <2>1, <2>2
  <2>4. x[Len(x)] # Slash
    BY <2>2
  <2>5. QED
    BY <2>2, <2>3, <2>4 DEF Texts
<1>10. c[1] = Slash
  <2>1. PICK b : b = Append(a, Slash)
    OBVIOUS
  <2>7. a \in Seq(STRING) /\ x \in Seq(STRING) /\ Slash \in STRING
    BY <1>2, <1>4 DEF Texts
  <2>2. b \in Seq(STRING) /\ Len(b) = Len(a) + 1 /\ x \in Seq(STRING) /\ b[Len(a) + 1] = Slash
    BY <2>1, <2>7, AppendProperties
  <2>3. c[1] = b[1]
    BY <1>6, <2>1, <2>2
  <2>4. CASE p = <<>>
    <3>1. a = <<>>
      BY <1>3, <2>4, NameOfEmpty
    <3>2. QED
      BY <2>2, <2>3, <3>1
  <2>5. CASE p # <<>>
    <3>1. a # <<>> /\ a[1] = Slash
      BY <1>3, <2>5 DEF Named
    <3>2. b[1] = a[1]
      BY <1>4, <2>1, <3>1 DEF Texts
    <3>3. QED
      BY <2>3, <3>1, <3>2
  <2>6. QED
    BY <2>4, <2>5
<1>11. QED
  BY <1>3, <1>7, <1>8, <1>9, <1>10 DEF Named

LEMMA NameIsFile ==
    ASSUME NEW file \in NamesOver(STRING)
    PROVE  Named(file)
<1> DEFINE n == Len(file)
           H == {i \in 0..n : Named(SubSeq(file, 1, i))}
<1>0. PICK N : N = Seq(STRING \ {Slash}) \ {<<>>}
  OBVIOUS
<1>1. file \in Seq(N) /\ n \in Nat
  BY <1>0 DEF NamesOver
<1>2. 0 \in H
  <2>1. PICK e : e = SubSeq(file, 1, 0)
    OBVIOUS
  <2>2. e = <<>>
    BY <1>1, <2>1, Beginnings
  <2>3. NameOf(e) = e /\ e \in Texts
    BY <2>2, NameOfEmpty DEF Texts
  <2>4. Segments(e) = e
    BY <2>2, SplitEmpty DEF NoNames, Segments, NamesRead
  <2>5. Named(e)
    BY <2>2, <2>3, <2>4 DEF Named
  <2>6. QED
    BY <1>1, <2>1, <2>5
<1>3. ASSUME NEW i \in 1..n, i - 1 \in H PROVE i \in H
  <2>1. PICK p, q : p = SubSeq(file, 1, i - 1) /\ q = SubSeq(file, 1, i)
    OBVIOUS
  <2>2. p \in Seq(N) /\ file[i] \in N /\ q = Append(p, file[i])
    BY <1>1, <2>1, Beginnings
  <2>3. Named(p)
    BY <1>3, <2>1
  <2>4. p \in NamesOver(STRING)
    BY <1>0, <2>2 DEF NamesOver
  <2>5. Named(q)
    BY <1>0, <2>2, <2>3, <2>4, NameStep
  <2>6. QED
    BY <2>1, <2>5
<1> HIDE DEF H
<1>4. \A i \in 0..n : i \in H
  BY <1>1, <1>2, <1>3, EveryTurn
<1>5. SubSeq(file, 1, n) = file /\ n \in H
  BY <1>1, <1>4, Beginnings
<1>6. QED
  BY <1>5 DEF H

\* A path that holds more than '/' has a name.
LEMMA HasName ==
    ASSUME NEW S, NEW path \in Seq(S), NEW k \in 1..Len(path), path[k] # Slash
    PROVE  Segments(path) # <<>>
<1> DEFINE n == Len(path)
           H == {i \in 0..n : i < k \/ Segments(SubSeq(path, 1, i)) # <<>>}
<1>1. n \in Nat
  OBVIOUS
<1>2. 0 \in H
  BY <1>1
<1>3. ASSUME NEW i \in 1..n, i - 1 \in H PROVE i \in H
  <2>1. PICK p, q, x : p = SubSeq(path, 1, i - 1) /\ q = SubSeq(path, 1, i) /\ x = path[i]
    OBVIOUS
  <2>2. p \in Seq(S) /\ x \in S /\ q = Append(p, x)
    BY <2>1, Beginnings
  <2>3. Split(p).names \in NamesOver(S)
    BY <2>2, SplitTyped
  <2>4. CASE x # Slash
    <3>1. x \in S \ {Slash}
      BY <2>2, <2>4
    <3>2. Segments(q) = Append(Split(p).names, Append(Split(p).name, x))
      BY <2>2, <3>1, SplitPiece
    <3>3. Segments(q) # <<>>
      BY <2>3, <3>2 DEF NamesOver
    <3>4. QED
      BY <2>1, <3>3
  <2>5. CASE x = Slash
    <3>1. Segments(q) = Segments(p)
      BY <2>2, <2>5, SplitSlash
    <3>2. i # k
      BY <2>1, <2>5
    <3>3. i - 1 < k => i < k
      BY <3>2
    <3>4. QED
      BY <1>3, <2>1, <3>1, <3>3
  <2>6. QED
    BY <2>4, <2>5
<1> HIDE DEF H
<1>4. \A i \in 0..n : i \in H
  BY <1>1, <1>2, <1>3, EveryTurn
<1>5. SubSeq(path, 1, n) = path /\ n \in H
  BY <1>1, <1>4, Beginnings
<1>6. ~(n < k)
  BY <1>1
<1>7. QED
  BY <1>5, <1>6 DEF H

-----------------------------------------------------------------------------
(* Texts. *)

\* What follows a beginning.
LEMMA RestOfJoin ==
    ASSUME NEW S, NEW a \in Seq(S), NEW b \in Seq(S)
    PROVE  /\ SubSeq(a \o b, Len(a) + 1, Len(a \o b)) = b
           /\ IsPrefix(a, a \o b)
<1>1. PICK c : c = a \o b
  OBVIOUS
<1>2. /\ c \in Seq(S) /\ Len(a) \in Nat /\ Len(b) \in Nat /\ Len(c) = Len(a) + Len(b)
      /\ \A i \in 1..Len(a) : c[i] = a[i]
  BY <1>1
<1>3. \A i \in 1..Len(b) : c[Len(a) + i] = b[i]
  BY <1>1
<1>4. PICK u : u = SubSeq(c, Len(a) + 1, Len(c))
  OBVIOUS
<1>5. \A i \in Len(a) + 1..Len(c) : c[i] \in S
  BY <1>2
<1>6. /\ u \in Seq(S)
      /\ Len(u) = IF Len(a) + 1 <= Len(c) THEN Len(c) - (Len(a) + 1) + 1 ELSE 0
      /\ \A i \in 1..Len(c) - (Len(a) + 1) + 1 : u[i] = c[Len(a) + 1 + i - 1]
  BY <1>2, <1>4, <1>5, SubSeqProperties
<1>7. Len(u) = Len(b)
  BY <1>2, <1>6
<1>8. \A i \in 1..Len(b) : u[i] = b[i]
  <2>1. TAKE i \in 1..Len(b)
  <2>2. i \in 1..Len(c) - (Len(a) + 1) + 1 /\ Len(a) + 1 + i - 1 = Len(a) + i
    BY <1>2
  <2>3. QED
    BY <1>3, <1>6, <2>2
<1>9. u = b
  BY <1>6, <1>7, <1>8, SeqEqual
<1>10. IsPrefix(a, c)
  BY <1>2, PrefixIs
<1>11. QED
  BY <1>1, <1>4, <1>9, <1>10

LEMMA BeginningAndRest ==
    ASSUME NEW S, NEW a \in Seq(S), NEW c \in Seq(S), IsPrefix(a, c)
    PROVE  /\ SubSeq(c, Len(a) + 1, Len(c)) \in Seq(S)
           /\ a \o SubSeq(c, Len(a) + 1, Len(c)) = c
<1>1. Len(a) \in Nat /\ Len(c) \in Nat /\ Len(a) <= Len(c) /\ \A i \in 1..Len(a) : a[i] = c[i]
  BY PrefixIs
<1>2. PICK u : u = SubSeq(c, Len(a) + 1, Len(c))
  OBVIOUS
<1>3. \A i \in Len(a) + 1..Len(c) : c[i] \in S
  BY <1>1
<1>4. /\ u \in Seq(S)
      /\ Len(u) = IF Len(a) + 1 <= Len(c) THEN Len(c) - (Len(a) + 1) + 1 ELSE 0
      /\ \A i \in 1..Len(c) - (Len(a) + 1) + 1 : u[i] = c[Len(a) + 1 + i - 1]
  BY <1>1, <1>2, <1>3, SubSeqProperties
<1>5. Len(u) = Len(c) - Len(a)
  BY <1>1, <1>4
<1>6. PICK d : d = a \o u
  OBVIOUS
<1>7. d \in Seq(S) /\ Len(d) = Len(a) + Len(u) /\ \A i \in 1..Len(a) : d[i] = a[i]
  BY <1>4, <1>6
<1>8. \A i \in 1..Len(u) : d[Len(a) + i] = u[i]
  BY <1>4, <1>6
<1>9. Len(d) = Len(c)
  BY <1>1, <1>5, <1>7
<1>10. \A i \in 1..Len(c) : d[i] = c[i]
  <2>1. TAKE i \in 1..Len(c)
  <2>2. CASE i <= Len(a)
    BY <1>1, <1>7, <2>2
  <2>3. CASE i > Len(a)
    <3>1. PICK j : j = i - Len(a)
      OBVIOUS
    <3>2. j \in 1..Len(u) /\ i = Len(a) + j /\ Len(a) + 1 + j - 1 = i
      BY <1>1, <1>5, <2>3, <3>1
    <3>3. j \in 1..Len(c) - (Len(a) + 1) + 1
      BY <1>1, <1>5, <3>2
    <3>4. u[j] = c[Len(a) + 1 + j - 1]
      BY <1>4, <3>3
    <3>5. d[i] = u[j]
      BY <1>8, <3>2
    <3>6. QED
      BY <3>2, <3>4, <3>5
  <2>4. QED
    BY <1>1, <2>2, <2>3
<1>11. d = c
  BY <1>7, <1>9, <1>10, SeqEqual
<1>12. QED
  BY <1>2, <1>4, <1>6, <1>11

LEMMA Singleton == ASSUME NEW S, NEW x \in S PROVE <<x>> \in Seq(S)
  OBVIOUS

LEMMA EndsInIt ==
    ASSUME NEW a \in Texts, NEW x \in STRING
    PROVE  /\ Append(a, x) \in Texts /\ Append(a, x) # <<>>
           /\ Last(Append(a, x)) = x /\ Front(Append(a, x)) = a
           /\ EndsInSlash(Append(a, x)) <=> x = Slash
<1>1. PICK c : c = Append(a, x)
  OBVIOUS
<1>2. c \in Seq(STRING) /\ Len(c) = Len(a) + 1 /\ c[Len(c)] = x /\ c # <<>> /\ Len(a) \in Nat
  <2>1. a \in Seq(STRING)
    BY DEF Texts
  <2>2. c \in Seq(STRING) /\ Len(c) = Len(a) + 1 /\ c[Len(a) + 1] = x /\ c # <<>>
    BY <1>1, <2>1, AppendProperties
  <2>3. QED
    BY <2>1, <2>2
<1>3. Last(c) = x
  BY <1>2 DEF Last
<1>4. Front(c) = a
  <2>1. a \in Seq(STRING) /\ Len(c) - 1 = Len(a)
    BY <1>2 DEF Texts
  <2>2. a \o <<x>> = c
    BY <1>1, <2>1, AppendIsConcat
  <2>3. SubSeq(c, 1, Len(a)) = a
    <3>1. IsPrefix(a, a \o <<x>>)
      <4>1. PICK y : y = <<x>>
        OBVIOUS
      <4>2. y \in Seq(STRING)
        BY <4>1, Singleton
      <4>3. QED
        BY <2>1, <4>1, <4>2, RestOfJoin
    <3>2. SubSeq(a, 1, Len(a)) = a
      BY <2>1, SubSeqFull
    <3>3. QED
      BY <2>2, <3>1, <3>2 DEF IsPrefix
  <2>4. QED
    BY <2>1, <2>3 DEF Front
<1>5. QED
  BY <1>1, <1>2, <1>3, <1>4 DEF EndsInSlash, Texts

LEMMA WithoutSlash ==
    ASSUME NEW path \in Texts, EndsInSlash(path)
    PROVE  /\ Front(path) \in Texts /\ path = Append(Front(path), Slash)
           /\ Split(path) = [names |-> Segments(path), name |-> <<>>]
           /\ Segments(path) = Segments(Front(path))
<1>1. PICK b : b = Front(path)
  OBVIOUS
<1>2. path \in Seq(STRING) /\ path # <<>> /\ path[Len(path)] = Slash
  BY DEF EndsInSlash, Last, Texts
<1>3. Len(path) \in 1..Len(path) /\ Len(path) - 1 \in 0..Len(path)
  BY <1>2, EmptySeq, LenProperties
<1>4. b = SubSeq(path, 1, Len(path) - 1)
  BY <1>1 DEF Front
<1>5. b \in Seq(STRING) /\ path = Append(b, Slash)
  BY <1>2, <1>3, <1>4, Beginnings
<1>6. Slash \in STRING
  BY LiteralsAssumption
<1>7. Split(Append(b, Slash)) = [names |-> Segments(b), name |-> <<>>]
  BY <1>5, <1>6, SplitSlash
<1>8. Segments(Append(b, Slash)) = Segments(b)
  BY <1>5, <1>6, SplitSlash
<1>9. QED
  BY <1>1, <1>5, <1>7, <1>8 DEF Texts

\* A path that does not end with a '/' has a name.
LEMMA LastName ==
    ASSUME NEW path \in Texts, path # <<>>, ~EndsInSlash(path)
    PROVE  Segments(path) # <<>>
<1>1. path \in Seq(STRING) /\ Len(path) \in 1..Len(path) /\ path[Len(path)] # Slash
  BY EmptySeq, LenProperties DEF EndsInSlash, Last, Texts
<1>2. QED
  BY <1>1, HasName

\* The path of an index page.
LEMMA IndexedIs ==
    ASSUME NEW path \in Texts
    PROVE  /\ Indexed(path) \in Texts /\ HasDot(Indexed(path)) /\ Indexed(path) # <<>>
           /\ Segments(Indexed(path)) # <<>>
           /\ HasDot(path) => Indexed(path) = path
           /\ ~HasDot(path) => /\ Segments(Indexed(path)) = Append(Segments(path), <<Index>>)
                               /\ Last(Indexed(path)) = Index
                               /\ ~EndsInSlash(Indexed(path))
<1>1. Slash \in STRING /\ Index \in STRING /\ Index # Slash /\ Index \in Dotted
  BY LiteralsAssumption, FilesAssumption
<1>2. PICK b : b = IF EndsInSlash(path) THEN path ELSE Append(path, Slash)
  OBVIOUS
<1>3. b \in Texts /\ Split(b) = [names |-> Segments(path), name |-> <<>>]
  <2>1. CASE EndsInSlash(path)
    BY <1>2, <2>1, WithoutSlash
  <2>2. CASE ~EndsInSlash(path)
    <3>1. Append(path, Slash) \in Texts
      BY <1>1, EndsInIt
    <3>2. Split(Append(path, Slash)) = [names |-> Segments(path), name |-> <<>>]
      BY <1>1, SplitSlash DEF Texts
    <3>3. QED
      BY <1>2, <2>2, <3>1, <3>2
  <2>3. QED
    BY <2>1, <2>2
<1>4. PICK c : c = Append(b, Index)
  OBVIOUS
<1>5. c \in Texts /\ c # <<>> /\ Last(c) = Index /\ ~EndsInSlash(c)
  BY <1>1, <1>3, <1>4, EndsInIt
<1>6. HasDot(c)
  <2>1. Len(c) \in DOMAIN c /\ c[Len(c)] = Index
    BY <1>5, EmptySeq, LenProperties DEF Last, Texts
  <2>2. QED
    BY <1>1, <2>1 DEF HasDot
<1>7. Segments(c) = Append(Segments(path), <<Index>>)
  <2>1. Index \in STRING \ {Slash} /\ b \in Seq(STRING)
    BY <1>1, <1>3 DEF Texts
  <2>2. Segments(c) = Append(Split(b).names, Append(Split(b).name, Index))
    BY <1>4, <2>1, SplitPiece
  <2>3. Split(b).names = Segments(path) /\ Split(b).name = <<>>
    BY <1>3
  <2>4. PICK s, e, y : s = Segments(path) /\ e = Split(b).name /\ y = Split(b).names
    OBVIOUS
  <2>5. Append(e, Index) = <<Index>>
    <3>1. e = <<>>
      BY <2>3, <2>4
    <3>2. QED
      BY <3>1
  <2>6. QED
    BY <2>2, <2>3, <2>4, <2>5
<1>8. HasDot(path) => Indexed(path) = path
  BY DEF Indexed
<1>9. ~HasDot(path) => Indexed(path) = c
  BY <1>2, <1>4 DEF Indexed
<1>10. HasDot(path) => path # <<>>
  BY DEF HasDot
<1>11. ASSUME NEW p \in Texts, HasDot(p) PROVE Segments(p) # <<>>
  <2>1. PICK i \in DOMAIN p : p[i] \in Dotted \cup DotEnds
    BY <1>11 DEF HasDot
  <2>2. i \in 1..Len(p) /\ p[i] # Slash /\ p \in Seq(STRING)
    BY <2>1, FilesAssumption, LenProperties DEF Texts
  <2>3. QED
    BY <2>2, HasName
<1>12. CASE HasDot(path)
  BY <1>8, <1>10, <1>11, <1>12
<1>13. CASE ~HasDot(path)
  BY <1>5, <1>6, <1>7, <1>9, <1>11, <1>13
<1>14. QED
  BY <1>12, <1>13

-----------------------------------------------------------------------------
(* What is read of a file system. *)

LEMMA TreeFiles ==
    ASSUME NEW files, IsTree(files)
    PROVE  /\ files \subseteq NamesOver(STRING)
           /\ \A f \in files : f # <<>> /\ ~IsDirectory(files, f) /\ Plain(f)
           /\ \A f, g \in files : ~IsStrictPrefix(f, g)
  BY DEF IsTree, NamesOver, IsDirectory

\* A path without "." and ".." stays in the tree.
LEMMA PlainStays ==
    ASSUME NEW files, NEW N, NEW at \in Seq(N), at # <<>>, Plain(at)
    PROVE  /\ Resolved(files, at) = at
           /\ at \in files \cup Outside <=> at \in files
           /\ IsDirectory(files \cup Outside, at) <=> IsDirectory(files, at)
<1>1. 1 \in DOMAIN at /\ at[1] # <<Up>>
  <2>1. 1 \in DOMAIN at
    BY EmptySeq, LenProperties
  <2>2. at[1] \notin {<<Dot>>, <<Up>>}
    BY <2>1, Zenon DEF Plain
  <2>3. QED
    BY <2>1, <2>2, Zenon
<1>2. ASSUME NEW f \in Outside PROVE at # f /\ ~IsStrictPrefix(at, f)
  <2>1. f[1] = <<Up>>
    BY FilesAssumption
  <2>2. ASSUME IsPrefix(at, f) PROVE at[1] = f[1]
    BY <1>1, <2>2 DEF IsPrefix
  <2>3. QED
    BY <1>1, <2>1, <2>2 DEF IsStrictPrefix
<1>3. Resolved(files, at) = at
  BY DEF Resolved
<1>4. QED
  BY <1>2, <1>3 DEF IsDirectory

\* The bundle and the directory hold the same at a path that goes beyond no file
\* and is not to be resolved.
LEMMA FilesAgree ==
    ASSUME NEW files, IsTree(files), NEW path \in Texts, path # <<>>, ~EndsInSlash(path),
           \A f \in files : ~IsStrictPrefix(f, Segments(path))
    PROVE  /\ Plain(Segments(path)) => readFile(files, path) = seekFilePos(files, path)
           /\ Segments(path) \in files => seekFilePos(files, path) = Found(Segments(path))
           /\ ~There(files, Segments(path)) => seekFilePos(files, path) = Missing
<1>1. PICK at, st : at = Segments(path) /\ st = Sought(files, at)
  OBVIOUS
<1>2. PICK N : N = Seq(STRING \ {Slash}) \ {<<>>}
  OBVIOUS
<1>3. at \in Seq(N) /\ at # <<>> /\ files \subseteq Seq(N)
  <2>1. at \in NamesOver(STRING)
    BY <1>1, SplitTyped DEF Texts
  <2>2. QED
    BY <1>1, <1>2, <2>1, LastName, TreeFiles DEF NamesOver
<1>4. SeeksIt(files, at)
  BY <1>3, SeekFinds
<1>5. Plain(at) => /\ Resolved(files, at) = at
                   /\ at \in files \cup Outside <=> at \in files
                   /\ IsDirectory(files \cup Outside, at) <=> IsDirectory(files, at)
  BY <1>3, PlainStays
<1>6. CASE There(files, at)
  <2>1. st = [null |-> FALSE, at |-> at]
    BY <1>1, <1>4, <1>6 DEF SeeksIt
  <2>2. st.null = FALSE /\ st.at = at
    BY <2>1
  <2>3. CASE at \in files
    <3>1. seekFilePos(files, path) = Found(at)
      BY <1>1, <2>2, <2>3 DEF seekFilePos
    <3>2. Plain(at) => readFile(files, path) = Found(at)
      BY <1>1, <1>5, <2>3 DEF readFile
    <3>3. QED
      BY <1>1, <1>6, <3>1, <3>2
  <2>4. CASE at \notin files
    <3>1. seekFilePos(files, path) = Throws
      BY <1>1, <2>2, <2>4 DEF seekFilePos
    <3>2. Plain(at) => readFile(files, path) = Throws
      BY <1>1, <1>6, <1>5, <2>4 DEF readFile, There
    <3>3. QED
      BY <1>1, <1>6, <2>4, <3>1, <3>2
  <2>5. QED
    BY <2>3, <2>4
<1>7. CASE ~There(files, at)
  <2>1. st.null = TRUE
    BY <1>1, <1>3, <1>4, <1>7 DEF SeeksIt
  <2>2. seekFilePos(files, path) = Missing
    BY <1>1, <2>1 DEF seekFilePos
  <2>3. Plain(at) => readFile(files, path) = Missing
    BY <1>1, <1>7, <1>5 DEF readFile, There
  <2>4. QED
    BY <1>1, <1>7, <2>2, <2>3 DEF There
<1>8. QED
  BY <1>6, <1>7

\* A path of a file is that file.
LEMMA FileRead ==
    ASSUME NEW files, IsTree(files), NEW path \in Texts, path # <<>>, ~EndsInSlash(path),
           Segments(path) \in files
    PROVE  /\ seekFilePos(files, path) = Found(Segments(path))
           /\ readFile(files, path) = Found(Segments(path))
  BY FilesAgree, TreeFiles

\* Nothing but a directory makes a reader throw.
LEMMA FilesAnswer ==
    ASSUME NEW files, NEW path \in Texts, Segments(path) # <<>>,
           ~IsDirectory(files, Segments(path))
    PROVE  seekFilePos(files, path).is \in {"file", "missing"}
<1>1. PICK at, st : at = Segments(path) /\ st = Sought(files, at)
  OBVIOUS
<1>2. at \in NamesOver(STRING)
  BY <1>1, SplitTyped DEF Texts
<1>3. SeeksSome(files, at)
  BY <1>2, SeekSomewhere DEF NamesOver
<1>4. st.null = TRUE \/ (st.null = FALSE /\ st.at \in files)
  BY <1>1, <1>3 DEF SeeksSome
<1>5. seekFilePos(files, path) = Missing \/ seekFilePos(files, path) = Found(st.at)
  BY <1>1, <1>4 DEF seekFilePos
<1>6. Missing.is = "missing" /\ \A f : Found(f).is = "file"
  BY DEF Missing, Found
<1>7. QED
  BY <1>5, <1>6

LEMMA DiskAnswers ==
    ASSUME NEW files, NEW path, ~IsDirectory(files \cup Outside, Resolved(files, Segments(path)))
    PROVE  readFile(files, path).is \in {"file", "missing"}
<1>1. PICK at : at = Resolved(files, Segments(path))
  OBVIOUS
<1>2. readFile(files, path) = Missing \/ readFile(files, path) = Found(at)
  BY <1>1 DEF readFile
<1>3. Missing.is = "missing" /\ \A f : Found(f).is = "file"
  BY DEF Missing, Found
<1>4. QED
  BY <1>2, <1>3

-----------------------------------------------------------------------------
(* The document root. *)

\* What the router reads of the options is text.
RootOf(o) == getOptionForCurrentMode(o, "documentRoot")
TextOptions(o) ==
    /\ RootOf(o) \in Texts \cup {Null}
    /\ getOptionForCurrentMode(o, "url") \in Texts \cup {Null}

LEMMA RootIs ==
    ASSUME NEW o, TextOptions(o)
    PROVE  /\ getDocumentRoot(o) \in Texts
           /\ RootOf(o) # Null /\ EndsInSlash(RootOf(o)) =>
                  RootOf(o) = Append(getDocumentRoot(o), Slash)
<1>1. PICK r, d : r = RootOf(o) /\ d = getDocumentRoot(o)
  OBVIOUS
<1>2. CASE r = Null
  <2>1. d = <<>>
    BY <1>1, <1>2 DEF getDocumentRoot, RootOf
  <2>2. QED
    BY <1>1, <1>2, <2>1, EmptySeq DEF Texts
<1>3. CASE r # Null
  <2>1. r \in Texts
    BY <1>1, <1>3 DEF TextOptions
  <2>2. CASE EndsInSlash(r)
    <3>1. d = Front(r)
      BY <1>1, <1>3, <2>2 DEF getDocumentRoot, RootOf
    <3>2. d \in Texts /\ r = Append(d, Slash)
      BY <2>1, <2>2, <3>1, WithoutSlash
    <3>3. QED
      BY <1>1, <3>2
  <2>3. CASE ~EndsInSlash(r)
    <3>1. d = r
      BY <1>1, <1>3, <2>3 DEF getDocumentRoot, RootOf
    <3>2. QED
      BY <1>1, <2>1, <2>3, <3>1
  <2>4. QED
    BY <2>2, <2>3
<1>4. QED
  BY <1>2, <1>3

LEMMA MainIs ==
    ASSUME NEW o, TextOptions(o)
    PROVE  /\ MainPage(o) \in Texts
           /\ RootOf(o) # Null => /\ MainPage(o) = Append(RootOf(o), Index)
                                  /\ Indexed(MainPage(o)) = MainPage(o)
                                  /\ MainPage(o) # <<>> /\ ~EndsInSlash(MainPage(o))
<1>1. PICK r, u, p : r = RootOf(o) /\ u = getOptionForCurrentMode(o, "url") /\ p = MainPage(o)
  OBVIOUS
<1>2. CASE r = Null
  <2>1. (p = u /\ u # Null) \/ p = DefaultUrl
    BY <1>1, <1>2 DEF MainPage, RootOf
  <2>2. QED
    BY <1>1, <1>2, <2>1, LiteralsAssumption DEF TextOptions
<1>3. CASE r # Null
  <2>1. r \in Texts /\ p = Append(r, Index)
    BY <1>1, <1>3 DEF MainPage, RootOf, TextOptions
  <2>2. Index \in STRING /\ Index # Slash /\ Index \in Dotted
    BY LiteralsAssumption, FilesAssumption
  <2>3. p \in Texts /\ p # <<>> /\ Last(p) = Index /\ ~EndsInSlash(p)
    BY <2>1, <2>2, EndsInIt
  <2>4. Len(p) \in DOMAIN p /\ p[Len(p)] = Index
    BY <2>3, EmptySeq, LenProperties DEF Last, Texts
  <2>5. HasDot(p)
    BY <2>2, <2>4 DEF HasDot
  <2>6. Indexed(p) = p
    BY <2>5 DEF Indexed
  <2>7. QED
    BY <1>1, <2>1, <2>3, <2>6
<1>4. QED
  BY <1>2, <1>3

LEMMA PathnameIs ==
    ASSUME NEW o, TextOptions(o), NEW r \in Texts
    PROVE  /\ Pathname(o, getDocumentRoot(o) \o r) = r
           /\ getDocumentRoot(o) \o r \in Texts
<1>1. PICK d : d = getDocumentRoot(o)
  OBVIOUS
<1>2. d \in Seq(STRING) /\ r \in Seq(STRING)
  BY <1>1, RootIs DEF Texts
<1>3. SubSeq(d \o r, Len(d) + 1, Len(d \o r)) = r
  BY <1>2, RestOfJoin
<1>4. d \o r \in Seq(STRING)
  BY <1>2, ConcatProperties
<1>5. QED
  BY <1>1, <1>3, <1>4 DEF Pathname, Texts

=============================================================================
