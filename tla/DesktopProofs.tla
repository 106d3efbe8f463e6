--------------------------- MODULE DesktopProofs ----------------------------
(***************************************************************************)
(* For every configuration, scale, set of sizes and places, length of the  *)
(* menu array and set of requests: the saved state is whole and opens the  *)
(* window as it was left, one thread at most exits unless both have been   *)
(* inside neuserver::stop, the menu shown is the menu asked for, and a     *)
(* click reports what it shows.                                            *)
(***************************************************************************)
EXTENDS Desktop, SequenceTheorems, WellFoundedInduction, TLAPS

(* The tray. *)

Calls == [items : Requests, next : Nat, step : {"fill", "update"}]

\* The array begins with the items of r, and ends behind them if there is room.
Holds(r) ==
    /\ \A k \in 1..MenuCount(r) : menus[k] = r[k]
    /\ Len(r) < MaxItems => menus[Len(r) + 1] = None

TrayTypes ==
    /\ menus \in [Slots -> Items \cup {None}]
    /\ trayInitialized \in BOOLEAN /\ half \in BOOLEAN

\* How far a setTray in progress has come with the array.
FillProgress ==
    setting # None =>
       /\ setting \in Calls
       /\ setting.step = "fill" =>
             /\ setting.items # NoItems
             /\ setting.next \in 1..MenuCount(setting.items) + 1
             /\ \A k \in 1..setting.next - 1 : menus[k] = setting.items[k]
       /\ setting.step = "update" /\ setting.items # NoItems => Holds(setting.items)

\* Nobody has written to the array since the menu was shown.
Undisturbed == ~half /\ (setting = None \/ setting.items = NoItems)

\* The array, the menu the user sees and the last menu asked for agree.
MenusAgree ==
    /\ accepted # Garbage => accepted \in Seq(Items)
    /\ Undisturbed /\ accepted # Garbage => Holds(accepted)
    /\ Undisturbed => \A k \in Slots : k \in DOMAIN shown => shown[k] = menus[k]
    /\ accepted # Garbage /\ Len(accepted) < MaxItems => shown = accepted

TrayInv == TrayTypes /\ FillProgress /\ MenusAgree

(* The window. *)

\* The geometry that is saved for a window.
Saved(w) == [size |-> getSize(w), place |-> w.place]

\* One thread at most is in app::exit, unless both have been inside
\* neuserver::stop: behind it the server does not listen, and without a server
\* the native method app.exit does not exist.
OneExits ==
    /\ ~raced => \A t, u \in Threads : pc[t] # "idle" /\ pc[u] # "idle" => t = u
    /\ conf.server /\ listening => \A t \in Threads : pc[t] \in {"idle", "stop"}
    /\ \A t \in Threads : pc[t] = "stop" => conf.server
    /\ pc["server"] # "idle" => conf.server

\* Without a process nobody is in app::exit and nothing is queued.
Resting == ~running => pc = Idle /\ deletes = 0 /\ failed = FALSE /\ raced = FALSE

\* All delete-events that wait but one come from app::exit.
QueueBounded ==
    /\ deletes >= 2 => \E t \in Threads : pc[t] = "destroy"
    /\ deletes = 3 => \A t \in Threads : pc[t] = "destroy"

\* The file holds what one of the threads took, or nothing that can be read.
FromOne == file \in {Torn, saving["main"], saving["server"]}

\* What is being saved is the window that was taken; behind the write the file
\* holds it, if no other thread can have written; and what the file holds is the
\* window last left.
SaveExact ==
    /\ \A t \in Threads : pc[t] = "write" => took[t] \in Windows /\ saving[t] = Saved(took[t])
    /\ \A t \in Threads : pc[t] \in {"close", "destroy"} /\ conf.useSavedState /\ ~failed =>
          FromOne /\ (~raced => file = saving[t])
    /\ \A t \in Threads : pc[t] = "write" => FromOne /\ (~raced => file = Torn)
    /\ file \notin {NoFile, Torn} => left \in Windows /\ file = Saved(left)

\* The part of TypeOK that is about the window.
WindowTypes ==
    /\ running \in BOOLEAN /\ conf \in Configs
    /\ file \in Geometries \cup {NoFile, Torn}
    /\ left \in Windows \cup {NoFile}
    /\ IF running THEN wnd \in Windows ELSE wnd = NoWindow
    /\ savedState \in BOOLEAN /\ listening \in BOOLEAN /\ failed \in BOOLEAN
    /\ pc \in [Threads -> {"idle", "stop", "tray", "save", "write", "close", "destroy"}]
    /\ saving \in [Threads -> Geometries \cup {NoWindow}]
    /\ took \in [Threads -> Windows \cup {NoWindow}]
    /\ raced \in BOOLEAN
    /\ deletes \in 0..3
    /\ ended \in {"none", "exited", "killed", "aborted", "crashed"}

WindowInv == WindowTypes /\ OneExits /\ Resting /\ QueueBounded /\ SaveExact

\* The inductive invariant.
IInv == WindowInv /\ TrayInv

-----------------------------------------------------------------------------
(* What tray_update shows of the array. *)

\* A set of natural numbers that is not empty has a least element.
LEMMA LeastNatural ==
    ASSUME NEW T, T \subseteq Nat, T # {}
    PROVE  \E x \in T : \A y \in T : x <= y
<1> DEFINE R == OpToRel(<, Nat)
<1>1. IsWellFoundedOn(R, Nat)
  BY NatLessThanWellFounded
<1> HIDE DEF R
<1>2. PICK x \in T : \A y \in T : ~(<<y, x>> \in R)
  BY <1>1, WFMin
<1>3. \A y \in T : ~(y < x)
  BY <1>2 DEF OpToRel, R
<1>4. QED
  BY <1>3

\* The number of items taken over fits the array and the request.
LEMMA MenuCountBounds ==
    ASSUME NEW r \in Seq(Items)
    PROVE  MenuCount(r) \in Nat /\ MenuCount(r) <= MaxItems /\ MenuCount(r) <= Len(r)
BY MaxItemsAssumption DEF MenuCount

\* If the array holds a menu that leaves room, that menu is what the user sees.
LEMMA BuiltIsMenu ==
    ASSUME TrayTypes, NEW r \in Seq(Items), Holds(r), Len(r) < MaxItems,
           NEW s \in Updated
    PROVE  s = r
<1> DEFINE n == Len(r)
           ends == {k \in Slots : menus[k] = None}
<1>1. n \in Nat /\ MenuCount(r) = n /\ n + 1 \in Slots /\ r = [i \in 1..n |-> r[i]]
  BY MaxItemsAssumption DEF MenuCount, Slots
<1>2. n + 1 \in ends
  BY <1>1 DEF Holds
<1>3. \A k \in 1..n : menus[k] = r[k] /\ r[k] \in Items
  BY <1>1 DEF Holds
<1>4. \A j \in ends : n + 1 <= j
  BY <1>1, <1>3, RequestsAssumption DEF Slots
<1> DEFINE first == CHOOSE k \in ends : \A j \in ends : k <= j
<1>5. first = n + 1
  <2>1. first \in ends /\ \A j \in ends : first <= j
    BY <1>2, <1>4
  <2>2. first <= n + 1 /\ n + 1 <= first
    BY <1>2, <1>4, <2>1
  <2> HIDE DEF first
  <2>3. first \in Int
    BY <2>1 DEF Slots
  <2>4. QED
    BY <1>1, <2>2, <2>3
<1>6. s = Built
  BY <1>2 DEF Updated
<1>7. Built = SubSeq(menus, 1, n)
  <2>1. Built = SubSeq(menus, 1, first - 1)
    BY <1>2 DEF Built
  <2> HIDE DEF first
  <2>2. first - 1 = n
    BY <1>1, <1>5
  <2>3. QED
    BY <2>1, <2>2
<1>8. /\ SubSeq(menus, 1, n) \in Seq(Items)
      /\ Len(SubSeq(menus, 1, n)) = n
      /\ \A i \in 1..n : SubSeq(menus, 1, n)[i] = menus[i]
  <2>1. \A i \in 1..n : menus[i] \in Items
    BY <1>3
  <2>2. /\ SubSeq(menus, 1, n) \in Seq(Items)
        /\ Len(SubSeq(menus, 1, n)) = IF 1 <= n THEN n - 1 + 1 ELSE 0
        /\ \A i \in 1..n - 1 + 1 : SubSeq(menus, 1, n)[i] = menus[1 + i - 1]
    BY <1>1, <2>1, SubSeqProperties
  <2>3. QED
    BY <1>1, <2>2
<1>9. QED
  BY <1>1, <1>3, <1>6, <1>7, <1>8

\* Whatever the array holds, each place of the menu shows the place of the
\* array it points to.
LEMMA BuiltMirrors ==
    ASSUME TrayTypes, NEW s \in Updated, NEW k \in Slots, k \in DOMAIN s
    PROVE  s[k] = menus[k]
<1> DEFINE ends == {j \in Slots : menus[j] = None}
           first == CHOOSE j \in ends : \A i \in ends : j <= i
<1>1. DOMAIN menus = 1..MaxItems /\ MaxItems \in Nat /\ k \in Nat
  BY MaxItemsAssumption DEF TrayTypes, Slots
<1>2. CASE ends = {}
  <2>1. s = menus \/ s = Append(menus, Garbage)
    BY <1>2 DEF Updated, Built
  <2>2. menus \in Seq(Items \cup {None}) /\ Len(menus) = MaxItems
    BY <1>1 DEF TrayTypes, Slots
  <2>3. Append(menus, Garbage)[k] = menus[k]
    BY <1>1, <2>2 DEF Slots
  <2>4. QED
    BY <2>1, <2>3
<1>3. CASE ends # {}
  <2>1. s = SubSeq(menus, 1, first - 1)
    BY <1>3 DEF Updated, Built
  <2>2. first \in ends
    <3>1. ends \subseteq Nat
      BY DEF Slots
    <3>2. \E j \in ends : \A i \in ends : j <= i
      BY <1>3, <3>1, LeastNatural
    <3>3. QED
      BY <3>2
  <2> HIDE DEF first
  <2>3. first \in 1..MaxItems
    BY <2>2 DEF Slots
  <2>4. \A i \in 1..first - 1 : menus[i] \in Items \cup {None}
    BY <1>1, <2>3 DEF TrayTypes, Slots
  <2>5. /\ Len(s) = IF 1 <= first - 1 THEN first - 1 - 1 + 1 ELSE 0
        /\ s \in Seq(Items \cup {None})
        /\ \A i \in 1..first - 1 - 1 + 1 : s[i] = menus[1 + i - 1]
    BY <2>1, <2>3, <2>4, SubSeqProperties
  <2>6. k \in 1..first - 1
    BY <1>1, <2>3, <2>5
  <2>7. QED
    BY <1>1, <2>3, <2>5, <2>6
<1>4. QED
  BY <1>2, <1>3

-----------------------------------------------------------------------------
(* The steps of the tray. *)

\* A call of setTray in progress is not None, and its items are a sequence.
LEMMA CallTypes ==
    ASSUME NEW c \in Calls
    PROVE  c # None /\ (c.items # NoItems => c.items \in Seq(Items))
BY RequestsAssumption DEF Calls

\* An empty array holds the empty menu: before the first setTray, and in a new
\* process.
LEMMA NoMenusInv ==
    ASSUME menus = NoMenus, shown = <<>>, trayInitialized = FALSE, setting = None,
           half = FALSE, accepted = <<>>
    PROVE  TrayInv
<1>1. TrayTypes
  BY DEF TrayTypes, NoMenus
<1>2. FillProgress
  BY DEF FillProgress
<1>3. Holds(accepted) /\ accepted \in Seq(Items)
  BY MaxItemsAssumption DEF Holds, MenuCount, NoMenus, Slots
<1>4. MenusAgree
  BY <1>3 DEF MenusAgree, Slots
<1>5. QED
  BY <1>1, <1>2, <1>4 DEF TrayInv

\* The same of the state a step leads to.
LEMMA TrayEndsKeeps == TrayEnds => TrayInv'
<1> SUFFICES ASSUME TrayEnds PROVE TrayInv'
  OBVIOUS
<1>1. TrayTypes'
  BY DEF TrayTypes, NoMenus, TrayEnds
<1>2. FillProgress'
  BY DEF FillProgress, TrayEnds
<1>3. Holds(accepted)' /\ (accepted \in Seq(Items))'
  BY MaxItemsAssumption DEF Holds, MenuCount, NoMenus, Slots, TrayEnds
<1>4. MenusAgree'
  BY <1>3 DEF MenusAgree, Slots, TrayEnds
<1>5. QED
  BY <1>1, <1>2, <1>4 DEF TrayInv

\* A click and the end of the tray leave menu and array alone.
LEMMA QuietTrayKeeps ==
    ASSUME TrayInv, UNCHANGED <<menus, shown, setting, half, accepted>>,
           trayInitialized' \in BOOLEAN
    PROVE  TrayInv'
<1>1. TrayTypes'
  BY DEF TrayInv, TrayTypes
<1>2. FillProgress'
  BY DEF TrayInv, FillProgress, Holds
<1>3. MenusAgree'
  BY DEF TrayInv, MenusAgree, Undisturbed, Holds
<1>4. QED
  BY <1>1, <1>2, <1>3 DEF TrayInv

\* A new setTray has not written to the array yet.
LEMMA SetTrayKeeps ==
    ASSUME TrayInv, NEW request \in Requests, setTray(request)
    PROVE  TrayInv'
<1>1. UNCHANGED <<menus, shown, trayInitialized, half, accepted>> /\ setting = None
  BY DEF setTray
<1>2. setting' \in Calls /\ setting'.items = request /\ setting'.next = 1
      /\ setting'.step = IF request = NoItems THEN "update" ELSE "fill"
  BY DEF setTray, Calls
<1>3. TrayTypes'
  BY <1>1 DEF TrayInv, TrayTypes
<1>4. FillProgress'
  <2>1. ASSUME request # NoItems PROVE MenuCount(request) \in Nat
    BY <1>2, <2>1, CallTypes, MenuCountBounds
  <2>2. QED
    BY <1>1, <1>2, <2>1 DEF FillProgress
<1>5. Undisturbed' => Undisturbed
  BY <1>1, <1>2 DEF Undisturbed
<1>6. MenusAgree'
  BY <1>1, <1>5 DEF TrayInv, MenusAgree, Holds
<1>7. QED
  BY <1>3, <1>4, <1>6 DEF TrayInv

\* One turn of the loop: one more place agrees with the request, or the call
\* fails and the array is half new.
LEMMA FillItemKeeps ==
    ASSUME TrayInv, FillItem
    PROVE  TrayInv'
<1> DEFINE items == setting.items
           n == setting.next
<1>1. /\ setting \in Calls /\ setting # None
      /\ setting.step = "fill" /\ items # NoItems
      /\ items \in Seq(Items)
      /\ n \in Nat /\ n \in 1..MenuCount(items)
      /\ MenuCount(items) \in Nat /\ MenuCount(items) <= MaxItems /\ MenuCount(items) <= Len(items)
      /\ \A k \in 1..n - 1 : menus[k] = items[k]
      /\ UNCHANGED <<shown, trayInitialized, accepted>>
  <2>1. /\ setting \in Calls /\ setting # None /\ setting.step = "fill" /\ items # NoItems
        /\ n \in 1..MenuCount(items) + 1 /\ n <= MenuCount(items)
        /\ \A k \in 1..n - 1 : menus[k] = items[k]
        /\ UNCHANGED <<shown, trayInitialized, accepted>>
    BY DEF FillItem, TrayInv, FillProgress
  <2>2. items \in Seq(Items) /\ n \in Nat
    BY <2>1, CallTypes DEF Calls
  <2>3. MenuCount(items) \in Nat /\ MenuCount(items) <= MaxItems /\ MenuCount(items) <= Len(items)
    BY <2>2, MenuCountBounds
  <2>4. QED
    BY <2>1, <2>2, <2>3
<1>2. CASE items[n] = Bad
  <2>1. setting' = None /\ half' = TRUE /\ UNCHANGED menus
    BY <1>2 DEF FillItem
  <2>2. TrayTypes' /\ FillProgress'
    BY <1>1, <2>1 DEF TrayInv, TrayTypes, FillProgress
  <2>3. MenusAgree'
    BY <1>1, <2>1 DEF TrayInv, MenusAgree, Undisturbed
  <2>4. QED
    BY <2>2, <2>3 DEF TrayInv
<1>3. CASE items[n] # Bad
  <2>1. /\ menus' = [menus EXCEPT ![n] = items[n]]
        /\ setting' = [setting EXCEPT !.next = n + 1]
        /\ UNCHANGED half
    BY <1>3 DEF FillItem
  <2>2. /\ setting' \in Calls
        /\ setting'.items = items /\ setting'.next = n + 1 /\ setting'.step = "fill"
    BY <1>1, <2>1 DEF Calls
  <2>3. items[n] \in Items /\ n \in Slots
    BY <1>1, MaxItemsAssumption DEF Slots
  <2>4. TrayTypes'
    BY <1>1, <2>1, <2>3 DEF TrayInv, TrayTypes
  <2>5. \A k \in 1..n : menus'[k] = items[k]
    <3> SUFFICES ASSUME NEW k \in 1..n PROVE menus'[k] = items[k]
      OBVIOUS
    <3>1. k \in Slots
      BY <1>1, MaxItemsAssumption DEF Slots
    <3>2. QED
      BY <1>1, <2>1, <2>3, <3>1 DEF TrayInv, TrayTypes
  <2>6. FillProgress'
    <3>1. /\ setting'.items # NoItems
          /\ setting'.next \in 1..MenuCount(setting'.items) + 1
          /\ setting'.next - 1 = n
      BY <1>1, <2>2
    <3>2. QED
      BY <2>2, <2>5, <3>1 DEF FillProgress
  <2>7. setting' # None /\ ~Undisturbed'
    BY <1>1, <2>2, CallTypes DEF Undisturbed
  <2>8. MenusAgree'
    BY <1>1, <2>7 DEF TrayInv, MenusAgree
  <2>9. QED
    BY <2>4, <2>6, <2>8 DEF TrayInv
<1>4. QED
  BY <1>2, <1>3

\* With its end marked the array holds the request.
LEMMA MarkEndKeeps ==
    ASSUME TrayInv, MarkEnd
    PROVE  TrayInv'
<1> DEFINE items == setting.items
<1>1. /\ setting \in Calls /\ setting # None
      /\ setting.step = "fill" /\ items # NoItems
      /\ setting.next \in 1..MenuCount(items) + 1 /\ setting.next > MenuCount(items)
      /\ \A k \in 1..setting.next - 1 : menus[k] = items[k]
      /\ menus' = EndOfMenu(MenuCount(items))
      /\ setting' = [setting EXCEPT !.step = "update"]
      /\ UNCHANGED <<shown, trayInitialized, half, accepted>>
  BY DEF MarkEnd, TrayInv, FillProgress
<1>2. items \in Seq(Items)
  BY <1>1, CallTypes
<1>3. MenuCount(items) \in Nat /\ MenuCount(items) <= MaxItems /\ MenuCount(items) <= Len(items)
  BY <1>2, MenuCountBounds
<1>4. \A k \in 1..MenuCount(items) : menus[k] = items[k]
  BY <1>1, <1>3
<1>5. TrayTypes'
  BY <1>1, <1>3, MaxItemsAssumption DEF TrayInv, TrayTypes, EndOfMenu, Slots
<1>6. \A k \in 1..MenuCount(items) : menus'[k] = menus[k]
  BY <1>1, <1>3, MaxItemsAssumption DEF TrayInv, TrayTypes, EndOfMenu, Slots
<1>7. Len(items) < MaxItems => menus'[Len(items) + 1] = None
  <2> SUFFICES ASSUME Len(items) < MaxItems PROVE menus'[Len(items) + 1] = None
    OBVIOUS
  <2>1. MenuCount(items) = Len(items) /\ Len(items) \in Nat
    BY <1>2, MaxItemsAssumption DEF MenuCount
  <2>2. Len(items) + 1 \in Slots
    BY <2>1, MaxItemsAssumption DEF Slots
  <2>3. menus' = [menus EXCEPT ![Len(items) + 1] = None]
    BY <1>1, <2>1 DEF EndOfMenu
  <2>4. QED
    BY <2>2, <2>3 DEF TrayInv, TrayTypes
<1>8. /\ setting' \in Calls
      /\ setting'.items = items /\ setting'.step = "update"
  BY <1>1 DEF Calls
<1>9. FillProgress'
  BY <1>4, <1>6, <1>7, <1>8 DEF FillProgress, Holds
<1>10. setting' # None /\ ~Undisturbed'
  BY <1>1, <1>8, CallTypes DEF Undisturbed
<1>11. MenusAgree'
  BY <1>1, <1>10 DEF TrayInv, MenusAgree
<1>12. QED
  BY <1>5, <1>9, <1>11 DEF TrayInv

\* The widgets are built from an array that holds the menu asked for; if the
\* tray cannot be made the menu stays what it was.
LEMMA TrayUpdateKeeps ==
    ASSUME TrayInv, trayUpdate
    PROVE  TrayInv'
<1>1. /\ setting \in Calls /\ setting # None /\ setting.step = "update"
      /\ setting' = None
      /\ UNCHANGED menus
  BY DEF trayUpdate, TrayInv, FillProgress
<1>2. half \in BOOLEAN
  BY DEF TrayInv, TrayTypes
<1>3. FillProgress'
  BY <1>1 DEF FillProgress
<1>4. ASSUME shown' \in Updated, trayInitialized' = TRUE, half' = FALSE,
             accepted' = CASE setting.items = NoItems /\ half -> Garbage
                           [] setting.items = NoItems /\ ~half -> accepted
                           [] OTHER -> setting.items
      PROVE  TrayInv'
  <2>1. TrayTypes'
    BY <1>1, <1>4 DEF TrayInv, TrayTypes
  <2>2. \A k \in Slots : k \in DOMAIN shown' => shown'[k] = menus'[k]
    BY <1>1, <1>4, BuiltMirrors DEF TrayInv
  <2>3. ASSUME accepted' # Garbage
        PROVE  accepted' \in Seq(Items) /\ Holds(accepted')
    <3>1. CASE setting.items = NoItems
      <4>1. accepted' = accepted /\ ~half
        BY <1>2, <1>4, <2>3, <3>1
      <4>2. QED
        BY <4>1, <2>3, <3>1 DEF TrayInv, MenusAgree, Undisturbed
    <3>2. CASE setting.items # NoItems
      <4>1. accepted' = setting.items
        BY <1>4, <3>2
      <4>2. QED
        BY <1>1, <3>2, <4>1, CallTypes DEF TrayInv, FillProgress
    <3>3. QED
      BY <3>1, <3>2
  <2>4. (accepted # Garbage => Holds(accepted))'
    BY <1>1, <2>3 DEF Holds
  <2>5. accepted' # Garbage /\ Len(accepted') < MaxItems => shown' = accepted'
    BY <1>4, <2>3, BuiltIsMenu DEF TrayInv
  <2>6. MenusAgree'
    BY <2>2, <2>3, <2>4, <2>5 DEF MenusAgree
  <2>7. QED
    BY <1>3, <2>1, <2>6 DEF TrayInv
<1>5. ASSUME half' = (half \/ setting.items # NoItems),
             UNCHANGED <<shown, trayInitialized, accepted>>
      PROVE  TrayInv'
  <2>1. TrayTypes'
    BY <1>1, <1>2, <1>5 DEF TrayInv, TrayTypes
  <2>2. Undisturbed' => Undisturbed
    BY <1>5 DEF Undisturbed
  <2>3. MenusAgree'
    BY <1>1, <1>5, <2>2 DEF TrayInv, MenusAgree, Holds
  <2>4. QED
    BY <1>3, <2>1, <2>3 DEF TrayInv
<1>6. QED
  BY <1>4, <1>5 DEF trayUpdate

-----------------------------------------------------------------------------
(* Sizes. *)

\* Logical sizes and pixels are numbers.
LEMMA SizeTypes ==
    /\ LogicalSizes \subseteq Nat
    /\ \A s \in LogicalSizes : Pixels(s) \in Nat
    /\ \A w \in Windows : w.size \in Nat
<1>1. \A p \in Sizes : p \in Nat /\ p \div Scale \in Nat
  BY ScaleAssumption
<1>2. LogicalSizes \subseteq Nat
  BY <1>1, ConfigAssumption DEF LogicalSizes
<1>3. \A s \in Nat : Pixels(s) \in Nat
  BY ScaleAssumption DEF Pixels
<1>4. \A w \in Windows : w.size \in Sizes \cup {Pixels(s) : s \in LogicalSizes}
  BY DEF Windows
<1>5. QED
  BY <1>1, <1>2, <1>3, <1>4

\* set_size and getSize: a logical size comes back as it is.
LEMMA LogicalRoundTrip ==
    ASSUME NEW s \in LogicalSizes
    PROVE  Pixels(s) \div Scale = s
<1>1. s \in Nat /\ Scale \in Nat \ {0}
  BY SizeTypes, ScaleAssumption
<1>2. (s * Scale) \div Scale = s
  BY <1>1
<1>3. 0 \div Scale = 0
  BY <1>1
<1>4. QED
  BY <1>1, <1>2, <1>3 DEF Pixels

\* getSize and set_size: a size in pixels loses what is less than a logical one.
LEMMA PixelRoundTrip ==
    ASSUME NEW p \in Nat
    PROVE  Pixels(p \div Scale) = p - (p % Scale)
<1>1. Scale \in Nat \ {0}
  BY ScaleAssumption
<1>2. (p \div Scale) * Scale = p - (p % Scale) /\ p \div Scale \in Nat
  BY <1>1
<1>3. QED
  BY <1>1, <1>2 DEF Pixels

\* What is saved for a window is a geometry the file may hold.
LEMMA SavedType ==
    ASSUME NEW w \in Windows
    PROVE  Saved(w) \in Geometries
<1>1. w.size \in Sizes \cup {Pixels(s) : s \in LogicalSizes}
      /\ w.place \in Places \cup {Configured.place}
  BY DEF Windows
<1>2. w.size \div Scale \in LogicalSizes
  <2>1. CASE w.size \in Sizes
    BY <2>1 DEF LogicalSizes
  <2>2. CASE w.size \in {Pixels(s) : s \in LogicalSizes}
    BY <2>2, LogicalRoundTrip
  <2>3. QED
    BY <1>1, <2>1, <2>2
<1>3. QED
  BY <1>1, <1>2 DEF Saved, getSize, Geometries

\* A window made from a geometry has a size that was asked for.
LEMMA OpenedType ==
    ASSUME NEW g \in Geometries
    PROVE  [size |-> Pixels(g.size), place |-> g.place] \in Windows
BY DEF Geometries, Windows

-----------------------------------------------------------------------------
(* The steps of the window. *)

\* Initially there is no process, no file and no menu.
LEMMA InitIInv == Init => IInv
<1> SUFFICES ASSUME Init PROVE IInv
  OBVIOUS
<1>1. Off \in Configs
  BY ConfigAssumption DEF Off
<1>2. WindowTypes
  <2>1. /\ pc \in [Threads -> {"idle", "stop", "tray", "save", "write", "close", "destroy"}]
        /\ saving \in [Threads -> Geometries \cup {NoWindow}]
    BY DEF Init, Idle, NothingSaved
  <2>2. deletes \in 0..3
    BY DEF Init
  <2>7. raced \in BOOLEAN
    BY DEF Init
  <2>6. took \in [Threads -> Windows \cup {NoWindow}]
    BY DEF Init, NothingSaved
  <2>3. IF running THEN wnd \in Windows ELSE wnd = NoWindow
    BY DEF Init
  <2>4. /\ running \in BOOLEAN /\ conf \in Configs
        /\ file \in Geometries \cup {NoFile, Torn}
        /\ left \in Windows \cup {NoFile}
        /\ savedState \in BOOLEAN /\ listening \in BOOLEAN /\ failed \in BOOLEAN
        /\ ended \in {"none", "exited", "killed", "aborted", "crashed"}
    BY <1>1 DEF Init
  <2>5. QED
    BY <2>1, <2>2, <2>3, <2>4, <2>6, <2>7 DEF WindowTypes
<1>3. OneExits /\ Resting /\ QueueBounded /\ SaveExact
  BY DEF Init, OneExits, Resting, QueueBounded, SaveExact, Idle, Threads
<1>4. TrayInv
  BY NoMenusInv DEF Init, TrayInit
<1>5. QED
  BY <1>2, <1>3, <1>4 DEF IInv, WindowInv

\* The end of a process leaves the file and nothing else.
LEMMA EndsKeeps ==
    ASSUME WindowInv, NEW how \in {"exited", "killed", "aborted", "crashed"}, Ends(how)
    PROVE  WindowInv'
<1>1. Off \in Configs
  BY ConfigAssumption DEF Off
<1>2. WindowTypes'
  <2>1. /\ pc' \in [Threads -> {"idle", "stop", "tray", "save", "write", "close", "destroy"}]
        /\ saving' \in [Threads -> Geometries \cup {NoWindow}]
    BY DEF Ends, Idle, NothingSaved
  <2>7. took' \in [Threads -> Windows \cup {NoWindow}] /\ raced' \in BOOLEAN
    BY DEF Ends, NothingSaved
  <2>2. /\ running' = FALSE /\ conf' = Off /\ wnd' = NoWindow /\ savedState' = FALSE
        /\ listening' = FALSE /\ failed' = FALSE /\ deletes' = 0 /\ ended' = how
        /\ UNCHANGED <<file, left>>
    BY DEF Ends
  <2>3. deletes' \in 0..3
    BY <2>2
  <2>4. IF running' THEN wnd' \in Windows ELSE wnd' = NoWindow
    BY <2>2
  <2>5. /\ running' \in BOOLEAN /\ conf' \in Configs
        /\ file' \in Geometries \cup {NoFile, Torn}
        /\ left' \in Windows \cup {NoFile}
        /\ savedState' \in BOOLEAN /\ listening' \in BOOLEAN /\ failed' \in BOOLEAN
        /\ ended' \in {"none", "exited", "killed", "aborted", "crashed"}
    BY <1>1, <2>2 DEF WindowInv, WindowTypes
  <2>6. QED
    BY <2>1, <2>3, <2>4, <2>5, <2>7 DEF WindowTypes
<1>3. (OneExits /\ Resting /\ QueueBounded)'
  BY DEF Ends, OneExits, Resting, QueueBounded, Idle, Threads
<1>4. SaveExact'
  BY DEF WindowInv, Ends, SaveExact, Idle, Threads, Saved, getSize
<1>5. QED
  BY <1>2, <1>3, <1>4 DEF WindowInv

\* Steps that change the window or the queue only.
LEMMA MovesKeep ==
    ASSUME WindowInv, running,
           wnd' \in Windows,
           deletes' \in 0..1 \/ deletes' = deletes,
           UNCHANGED <<savedState, listening, pc, saving, took, raced, failed, running, conf, file,
                       left, ended>>
    PROVE  WindowInv'
<1>1. WindowTypes'
  BY DEF WindowInv, WindowTypes
<1>2. (OneExits /\ Resting /\ QueueBounded /\ SaveExact)'
  BY DEF WindowInv, OneExits, Resting, QueueBounded, SaveExact, FromOne, Saved, getSize
<1>3. QED
  BY <1>1, <1>2 DEF WindowInv

\* A new window has the geometry of the configuration or of the file.
LEMMA CreateKeeps ==
    ASSUME WindowInv, NEW c \in Configs, createWindow(c)
    PROVE  WindowInv'
<1> DEFINE props == IF c.useSavedState THEN loadSavedWindowProps ELSE Configured
<1>1. /\ ~running /\ running' = TRUE /\ conf' = c
      /\ savedState' \in BOOLEAN
      /\ wnd' = [size |-> Pixels(props.size), place |-> props.place]
      /\ listening' = c.server
      /\ ended' = "none"
      /\ UNCHANGED <<pc, saving, took, raced, deletes, failed, file, left>>
  BY DEF createWindow
<1>2. pc = Idle /\ deletes = 0 /\ failed = FALSE /\ raced = FALSE
  BY <1>1 DEF WindowInv, Resting
<1>3. props \in Geometries
  BY ConfigAssumption
  DEF loadSavedWindowProps, WindowInv, WindowTypes, Geometries, LogicalSizes
<1>4. wnd' \in Windows
  BY <1>1, <1>3, OpenedType
<1>5. c.server \in BOOLEAN
  BY ConfigAssumption
<1>6. WindowTypes'
  BY <1>1, <1>4, <1>5 DEF WindowInv, WindowTypes
<1>7. (OneExits /\ Resting /\ QueueBounded)'
  BY <1>1, <1>2 DEF OneExits, Resting, QueueBounded, Idle, Threads
<1>8. SaveExact'
  BY <1>1, <1>2 DEF WindowInv, SaveExact, Idle, Threads, Saved, getSize
<1>9. QED
  BY <1>6, <1>7, <1>8 DEF WindowInv

\* The main thread ends with the process, the server thread goes on.
LEMMA ThrowsKeeps ==
    ASSUME WindowInv, running, NEW t \in Threads, pc[t] \in {"idle", "stop", "save"}, Throws(t)
    PROVE  WindowInv'
<1>1. CASE t = "main"
  BY <1>1, EndsKeeps DEF Throws
<1>2. CASE t # "main"
  <2>1. /\ pc' = [pc EXCEPT ![t] = "idle"]
        /\ UNCHANGED <<wnd, savedState, listening, saving, took, raced, deletes, failed, running, conf,
                       file, left, ended>>
    BY <1>2 DEF Throws
  <2>2. \A u \in Threads : pc'[u] = IF u = t THEN "idle" ELSE pc[u]
    BY <2>1 DEF WindowInv, WindowTypes
  <2>3. WindowTypes'
    BY <2>1 DEF WindowInv, WindowTypes
  <2>4. OneExits'
    BY <2>1, <2>2 DEF WindowInv, OneExits, Threads
  <2>5. Resting' /\ QueueBounded'
    BY <2>1, <2>2 DEF WindowInv, Resting, QueueBounded
  <2>6. SaveExact'
    BY <2>1, <2>2 DEF WindowInv, SaveExact, FromOne, Saved, getSize
  <2>7. QED
    BY <2>3, <2>4, <2>5, <2>6 DEF WindowInv
<1>3. QED
  BY <1>1, <1>2

\* A step of app::exit moves one thread on.
LEMMA MovedThread ==
    ASSUME WindowTypes, NEW t \in Threads, NEW to, pc' = [pc EXCEPT ![t] = to]
    PROVE  \A u \in Threads : pc'[u] = IF u = t THEN to ELSE pc[u]
BY DEF WindowTypes

\* A thread enters neuserver::stop only if no other is behind it.
LEMMA ExitBeginsKeeps ==
    ASSUME WindowInv, running, NEW t \in Threads, pc[t] = "idle", exitBegins(t),
           t = "main" => deletes > 0,
           t = "server" => conf.server
    PROVE  WindowInv'
<1>1. CASE conf.server /\ ~listening
  BY <1>1, ThrowsKeeps DEF exitBegins
<1>2. CASE ~(conf.server /\ ~listening)
  <2> DEFINE to == IF conf.server THEN "stop" ELSE "tray"
  <2>1. /\ pc' = [pc EXCEPT ![t] = to]
        /\ raced' = (raced \/ \E u \in Threads \ {t} : pc[u] = "stop")
        /\ deletes' = IF t = "main" THEN deletes - 1 ELSE deletes
        /\ UNCHANGED <<wnd, savedState, listening, saving, took, failed, running, conf, file,
                       left, ended>>
    BY <1>2 DEF exitBegins
  <2>2. \A u \in Threads : pc'[u] = IF u = t THEN to ELSE pc[u]
    BY <2>1 DEF WindowInv, WindowTypes
  <2>3. \A u \in Threads : pc[u] \in {"idle", "stop"}
    <3>1. CASE conf.server
      BY <1>2, <3>1 DEF WindowInv, OneExits, WindowTypes
    <3>2. CASE ~conf.server
      BY <3>2 DEF WindowInv, OneExits, Threads
    <3>3. QED
      BY <3>1, <3>2
  <2>10. ~raced' => \A u \in Threads : u # t => pc[u] = "idle"
    BY <2>1, <2>3
  <2>4. WindowTypes'
    <3>1. deletes' \in 0..3
      BY <2>1 DEF WindowInv, WindowTypes
    <3>2. raced' \in BOOLEAN /\ to \in {"stop", "tray"}
      BY <2>1 DEF WindowInv, WindowTypes
    <3>3. QED
      BY <2>1, <3>1, <3>2 DEF WindowInv, WindowTypes
  <2>5. OneExits'
    <3>1. ~raced' => \A u, v \in Threads : pc'[u] # "idle" /\ pc'[v] # "idle" => u = v
      BY <2>2, <2>10
    <3>2. conf.server => \A u \in Threads : pc'[u] \in {"idle", "stop"}
      BY <2>2, <2>3
    <3>3. \A u \in Threads : pc'[u] = "stop" => conf.server
      BY <2>2 DEF WindowInv, OneExits
    <3>4. pc'["server"] # "idle" => conf.server
      BY <2>2 DEF WindowInv, OneExits, Threads
    <3>5. QED
      BY <2>1, <3>1, <3>2, <3>3, <3>4 DEF OneExits
  <2>6. Resting'
    BY <2>1 DEF WindowInv, Resting
  <2>7. QueueBounded'
    BY <2>1, <2>2, <2>3 DEF WindowInv, QueueBounded, WindowTypes
  <2>8. SaveExact'
    <3>1. \A u \in Threads : pc'[u] \notin {"write", "close", "destroy"}
      BY <2>2, <2>3
    <3>2. QED
      BY <2>1, <3>1 DEF WindowInv, SaveExact, Saved, getSize
  <2>9. QED
    BY <2>4, <2>5, <2>6, <2>7, <2>8 DEF WindowInv
<1>3. QED
  BY <1>1, <1>2

\* Behind neuserver::stop the server does not listen.
LEMMA StopsKeeps ==
    ASSUME WindowInv, NEW t \in Threads, exitStops(t)
    PROVE  WindowInv'
<1>1. running /\ pc[t] = "stop"
  BY DEF exitStops
<1>2. CASE Throws(t)
  BY <1>1, <1>2, ThrowsKeeps
<1>3. CASE Ends("crashed")
  BY <1>3, EndsKeeps
<1>4. CASE ~Throws(t) /\ ~Ends("crashed")
  <2>1. /\ listening' = FALSE
        /\ pc' = [pc EXCEPT ![t] = "tray"]
        /\ UNCHANGED <<wnd, savedState, saving, took, raced, deletes, failed, running, conf,
                       file, left, ended>>
    BY <1>4 DEF exitStops
  <2>2. \A u \in Threads : pc'[u] = IF u = t THEN "tray" ELSE pc[u]
    BY <2>1, MovedThread DEF WindowInv
  <2>3. WindowTypes'
    BY <2>1 DEF WindowInv, WindowTypes
  <2>4. OneExits'
    BY <1>1, <2>1, <2>2 DEF WindowInv, OneExits, Threads
  <2>5. Resting' /\ QueueBounded'
    BY <1>1, <2>1, <2>2 DEF WindowInv, Resting, QueueBounded
  <2>6. SaveExact'
    BY <1>1, <2>1, <2>2 DEF WindowInv, SaveExact, FromOne, Saved, getSize
  <2>7. QED
    BY <2>3, <2>4, <2>5, <2>6 DEF WindowInv
<1>5. QED
  BY <1>2, <1>3, <1>4

\* Later steps of app::exit: the thread is the only one and stays it, unless both
\* have been inside neuserver::stop.
LEMMA ExitsAlone ==
    ASSUME WindowInv, running, NEW t \in Threads, NEW to, pc[t] \notin {"idle", "stop"},
           to # "stop", pc' = [pc EXCEPT ![t] = to],
           UNCHANGED <<listening, running, conf, raced>>
    PROVE  /\ OneExits' /\ Resting'
           /\ \A u \in Threads : u # t => pc'[u] = pc[u] /\ (~raced => pc[u] = "idle")
           /\ pc'[t] = to
<1>1. \A u \in Threads : pc'[u] = IF u = t THEN to ELSE pc[u]
  BY MovedThread DEF WindowInv
<1>2. ~raced => \A u \in Threads : u # t => pc[u] = "idle"
  BY DEF WindowInv, OneExits
<1>3. OneExits'
  <2>1. ~(conf.server /\ listening)
    BY DEF WindowInv, OneExits
  <2>2. QED
    BY <1>1, <1>2, <2>1 DEF WindowInv, OneExits, Threads
<1>4. QED
  BY <1>1, <1>2, <1>3 DEF Resting

\* The tray is cleaned up; the state is saved next if it is in use.
LEMMA CleansTrayKeeps ==
    ASSUME WindowInv, NEW t \in Threads, exitCleansTray(t)
    PROVE  WindowInv'
<1> DEFINE to == IF conf.useSavedState THEN "save" ELSE "close"
<1>1. /\ running /\ pc[t] = "tray" /\ pc' = [pc EXCEPT ![t] = to]
      /\ UNCHANGED <<wnd, savedState, listening, saving, took, raced, deletes, failed, running, conf,
                     file, left, ended>>
  BY DEF exitCleansTray
<1>2. /\ OneExits' /\ Resting'
      /\ \A u \in Threads : u # t => pc'[u] = pc[u] /\ (~raced => pc[u] = "idle")
      /\ pc'[t] = to
  BY <1>1, ExitsAlone
<1>3. WindowTypes'
  BY <1>1 DEF WindowInv, WindowTypes
<1>4. QueueBounded'
  BY <1>1, <1>2 DEF WindowInv, QueueBounded
<1>5. SaveExact'
  BY <1>1, <1>2 DEF WindowInv, SaveExact, FromOne, Saved, getSize
<1>6. QED
  BY <1>2, <1>3, <1>4, <1>5 DEF WindowInv

\* The geometry is taken and the file emptied.
LEMMA SaveBeginsKeeps ==
    ASSUME WindowInv, NEW t \in Threads, saveBegins(t)
    PROVE  WindowInv'
<1>1. /\ running /\ pc[t] = "save" /\ pc' = [pc EXCEPT ![t] = "write"]
      /\ saving' = [saving EXCEPT ![t] = Saved(wnd)]
      /\ took' = [took EXCEPT ![t] = wnd]
      /\ file' = Torn /\ left' = NoFile
      /\ UNCHANGED <<wnd, savedState, listening, raced, deletes, failed, running, conf, ended>>
  BY DEF saveBegins, Saved
<1>2. /\ OneExits' /\ Resting'
      /\ \A u \in Threads : u # t => pc'[u] = pc[u] /\ (~raced => pc[u] = "idle")
      /\ pc'[t] = "write"
  BY <1>1, ExitsAlone
<1>3. wnd \in Windows
  BY <1>1 DEF WindowInv, WindowTypes
<1>4. Saved(wnd) \in Geometries
  BY <1>3, SavedType
<1>5. WindowTypes'
  BY <1>1, <1>3, <1>4 DEF WindowInv, WindowTypes
<1>6. QueueBounded'
  BY <1>1, <1>2 DEF WindowInv, QueueBounded
<1>7. \A u \in Threads : saving'[u] = IF u = t THEN Saved(wnd) ELSE saving[u]
  BY <1>1 DEF WindowInv, WindowTypes
<1>11. \A u \in Threads : took'[u] = IF u = t THEN wnd ELSE took[u]
  BY <1>1 DEF WindowInv, WindowTypes
<1>8. FromOne'
  BY <1>1 DEF FromOne
<1>9. SaveExact'
  <2>1. \A u \in Threads : pc'[u] = "write" =>
                              took'[u] \in Windows /\ saving'[u] = Saved(took'[u])
    BY <1>2, <1>3, <1>7, <1>11 DEF WindowInv, SaveExact
  <2>2. ~raced => \A u \in Threads : pc'[u] \notin {"close", "destroy"}
    BY <1>2
  <2>3. QED
    BY <1>1, <1>8, <2>1, <2>2 DEF SaveExact, Saved, getSize
<1>10. QED
  BY <1>2, <1>5, <1>6, <1>9 DEF WindowInv

\* The file cannot be opened or the directory not be made.
LEMMA SaveFailsKeeps ==
    ASSUME WindowInv, NEW t \in Threads, saveFails(t)
    PROVE  WindowInv'
<1>1. CASE Throws(t)
  BY <1>1, ThrowsKeeps DEF saveFails
<1>2. CASE ~Throws(t)
  <2>1. /\ running /\ pc[t] = "save" /\ pc' = [pc EXCEPT ![t] = "close"]
        /\ failed' = TRUE
        /\ UNCHANGED <<wnd, savedState, listening, saving, took, raced, deletes, running, conf, file,
                       left, ended>>
    BY <1>2 DEF saveFails
  <2>2. /\ OneExits' /\ Resting'
        /\ \A u \in Threads : u # t => pc'[u] = pc[u] /\ (~raced => pc[u] = "idle")
        /\ pc'[t] = "close"
    BY <2>1, ExitsAlone
  <2>3. WindowTypes'
    BY <2>1 DEF WindowInv, WindowTypes
  <2>4. QueueBounded'
    BY <2>1, <2>2 DEF WindowInv, QueueBounded
  <2>5. SaveExact'
    BY <2>1, <2>2 DEF WindowInv, SaveExact, FromOne, Saved, getSize
  <2>6. QED
    BY <2>2, <2>3, <2>4, <2>5 DEF WindowInv
<1>3. QED
  BY <1>1, <1>2

\* The file is written by the only thread that exits.
LEMMA SaveEndsKeeps ==
    ASSUME WindowInv, NEW t \in Threads, saveEnds(t)
    PROVE  WindowInv'
<1>1. /\ running /\ pc[t] = "write" /\ pc' = [pc EXCEPT ![t] = "close"]
      /\ \/ file' = saving[t] /\ left' = took[t] /\ UNCHANGED failed
         \/ file' = Torn /\ left' = NoFile /\ failed' = TRUE
         \/ file \notin {Torn, saving[t]} /\ file' = Torn /\ left' = NoFile /\ UNCHANGED failed
      /\ UNCHANGED <<wnd, savedState, listening, saving, took, raced, deletes, running, conf,
                     ended>>
  BY DEF saveEnds
<1>2. /\ OneExits' /\ Resting'
      /\ \A u \in Threads : u # t => pc'[u] = pc[u] /\ (~raced => pc[u] = "idle")
      /\ pc'[t] = "close"
  BY <1>1, ExitsAlone
<1>3. took[t] \in Windows /\ saving[t] = Saved(took[t]) /\ Saved(took[t]) \in Geometries
  BY <1>1, SavedType DEF WindowInv, SaveExact, FromOne, Saved, getSize
<1>4. WindowTypes'
  BY <1>1, <1>3 DEF WindowInv, WindowTypes
<1>5. QueueBounded'
  BY <1>1, <1>2 DEF WindowInv, QueueBounded
<1>6. FromOne'
  BY <1>1 DEF FromOne, Threads
<1>7. SaveExact'
  <2>1. \A u \in Threads : pc'[u] = "write" =>
                              took'[u] \in Windows /\ saving'[u] = Saved(took'[u])
    BY <1>1, <1>2 DEF WindowInv, SaveExact
  <2>2. ~raced /\ ~failed' => file' = saving[t]
    <3>1. ~raced => file = Torn
      BY <1>1 DEF WindowInv, SaveExact
    <3>2. QED
      BY <1>1, <3>1
  <2>3. \A u \in Threads : pc'[u] \in {"close", "destroy"} /\ ~raced => u = t
    BY <1>2
  <2>4. file' \notin {NoFile, Torn} => left' \in Windows /\ file' = Saved(left')
    BY <1>1, <1>3
  <2>5. Saved(left)' = Saved(left')
    BY DEF Saved, getSize
  <2>6. QED
    BY <1>1, <1>2, <1>6, <2>1, <2>2, <2>3, <2>4, <2>5 DEF SaveExact, Saved, getSize
<1>8. QED
  BY <1>2, <1>4, <1>5, <1>7 DEF WindowInv

\* gtk_window_close queues one delete-event more.
LEMMA CloseWindowKeeps ==
    ASSUME WindowInv, NEW t \in Threads, closeWindow(t)
    PROVE  WindowInv'
<1>1. /\ running /\ pc[t] = "close" /\ pc' = [pc EXCEPT ![t] = "destroy"]
      /\ deletes' = deletes + 1
      /\ UNCHANGED <<wnd, savedState, listening, saving, took, raced, failed, running, conf, file, left,
                     ended>>
  BY DEF closeWindow
<1>2. /\ OneExits' /\ Resting'
      /\ \A u \in Threads : u # t => pc'[u] = pc[u] /\ (~raced => pc[u] = "idle")
      /\ pc'[t] = "destroy"
  BY <1>1, ExitsAlone
<1>3. deletes \in 0..2
  BY <1>1 DEF WindowInv, WindowTypes, QueueBounded
<1>4. WindowTypes'
  BY <1>1, <1>3 DEF WindowInv, WindowTypes
<1>5. QueueBounded'
  <2>1. deletes' = 3 => \E u \in Threads : pc[u] = "destroy"
    BY <1>1, <1>3 DEF WindowInv, QueueBounded
  <2>2. deletes' = 3 => \A u \in Threads : pc'[u] = "destroy"
    BY <1>1, <1>2, <2>1 DEF Threads
  <2>3. QED
    BY <1>2, <2>2 DEF QueueBounded
<1>6. SaveExact'
  BY <1>1, <1>2 DEF WindowInv, SaveExact, FromOne, Saved, getSize
<1>7. QED
  BY <1>2, <1>4, <1>5, <1>6 DEF WindowInv

\* Nothing of the window changes.
LEMMA QuietWindowKeeps ==
    ASSUME WindowInv, UNCHANGED <<windowVars, running, conf, file, left, ended>>
    PROVE  WindowInv'
<1>1. WindowTypes'
  BY DEF WindowInv, WindowTypes, windowVars
<1>2. (OneExits /\ Resting /\ QueueBounded /\ SaveExact)'
  BY DEF WindowInv, OneExits, Resting, QueueBounded, SaveExact, FromOne, windowVars, Saved, getSize
<1>3. QED
  BY <1>1, <1>2 DEF WindowInv

\* Every step keeps the window's part of the invariant.
LEMMA NextWindow == WindowInv /\ [Next]_vars => WindowInv'
<1> SUFFICES ASSUME WindowInv, [Next]_vars PROVE WindowInv'
  OBVIOUS
<1>1. ASSUME NEW c \in Configs, createWindow(c) PROVE WindowInv'
  BY <1>1, CreateKeeps
<1>2. ASSUME NEW size \in Sizes, NEW place \in Places,
             UserMoves([size |-> size, place |-> place])
      PROVE  WindowInv'
  <2>1. [size |-> size, place |-> place] \in Windows
    BY DEF Windows
  <2>2. QED
    BY <1>2, <2>1, MovesKeep DEF UserMoves
<1>3. ASSUME NEW p \in Sizes, setSize(p \div Scale) PROVE WindowInv'
  <2>1. running /\ wnd \in Windows
    BY <1>3 DEF setSize, WindowInv, WindowTypes
  <2>2. [wnd EXCEPT !.size = Pixels(p \div Scale)] \in Windows
    BY <2>1 DEF Windows, LogicalSizes
  <2>3. QED
    BY <1>3, <2>2, MovesKeep DEF setSize
<1>4. ASSUME UserCloses PROVE WindowInv'
  <2>1. running /\ wnd \in Windows
    BY <1>4 DEF UserCloses, WindowInv, WindowTypes
  <2>2. QED
    BY <1>4, <2>1, MovesKeep DEF UserCloses
<1>5. ASSUME killProcess PROVE WindowInv'
  BY <1>5, EndsKeeps DEF killProcess
<1>6. ASSUME appExit PROVE WindowInv'
  BY <1>6, ExitBeginsKeeps DEF appExit, ServerFree, Threads
<1>7. ASSUME windowStateChange PROVE WindowInv'
  <2>1. running /\ deletes > 0 /\ pc["main"] = "idle"
    BY <1>7 DEF windowStateChange
  <2>2. CASE ExitsOnClose
    BY <1>7, <2>1, <2>2, ExitBeginsKeeps DEF windowStateChange, Threads
  <2>3. CASE ~ExitsOnClose
    <3>1. /\ deletes' = deletes - 1
          /\ UNCHANGED <<wnd, savedState, listening, pc, saving, took, raced, failed, running, conf,
                         file, left, ended>>
      BY <1>7, <2>3 DEF windowStateChange
    <3>2. wnd' \in Windows /\ deletes' \in 0..1
      BY <2>1, <3>1 DEF WindowInv, WindowTypes, QueueBounded, Threads
    <3>3. QED
      BY <2>1, <3>1, <3>2, MovesKeep
  <2>4. QED
    BY <2>2, <2>3
<1>8. ASSUME NEW t \in Threads, ExitStep(t) PROVE WindowInv'
  <2>1. CASE destroyWindow(t)
    BY <2>1, EndsKeeps DEF destroyWindow
  <2>2. QED
    BY <1>8, <2>1, StopsKeeps, CleansTrayKeeps, SaveBeginsKeeps, SaveFailsKeeps, SaveEndsKeeps,
       CloseWindowKeeps DEF ExitStep
<1>9. ASSUME TrayCalled \/ TrayStep \/ TrayClicked PROVE WindowInv'
  BY <1>9, QuietWindowKeeps DEF TrayCalled, TrayStep, TrayClicked
<1>10. ASSUME TrayCrashes PROVE WindowInv'
  BY <1>10, EndsKeeps DEF TrayCrashes
<1>11. CASE UNCHANGED vars
  BY <1>11, QuietWindowKeeps DEF vars
<1>12. QED
  BY <1>1, <1>2, <1>3, <1>4, <1>5, <1>6, <1>7, <1>8, <1>9, <1>10, <1>11 DEF Next

\* What a step does to the tray.
LEMMA TrayOfStep ==
    ASSUME [Next]_vars
    PROVE  \/ UNCHANGED trayVars
           \/ TrayEnds
           \/ cleanupTray
           \/ \E request \in Requests : setTray(request)
           \/ FillItem \/ MarkEnd \/ trayUpdate
           \/ \E k \in Slots : trayMenuItemClicked(k)
<1>1. ASSUME NEW t \in Threads, Throws(t) PROVE UNCHANGED trayVars \/ TrayEnds
  BY <1>1 DEF Throws, Ends
<1>2. ASSUME NEW t \in Threads, exitBegins(t) PROVE UNCHANGED trayVars \/ TrayEnds
  BY <1>1, <1>2 DEF exitBegins
<1>3. ASSUME appExit \/ windowStateChange PROVE UNCHANGED trayVars \/ TrayEnds
  BY <1>2, <1>3 DEF appExit, windowStateChange, Threads
<1>4. ASSUME NEW t \in Threads, ExitStep(t)
      PROVE  UNCHANGED trayVars \/ TrayEnds \/ cleanupTray
  BY <1>1, <1>4 DEF ExitStep, exitStops, exitCleansTray, saveBegins, saveFails, saveEnds, closeWindow,
                    destroyWindow, Ends
<1>5. ASSUME \/ \E c \in Configs : createWindow(c)
             \/ \E size \in Sizes, place \in Places :
                   UserMoves([size |-> size, place |-> place])
             \/ \E p \in Sizes : setSize(p \div Scale)
             \/ UserCloses
             \/ UNCHANGED vars
      PROVE  UNCHANGED trayVars
  BY <1>5 DEF createWindow, UserMoves, setSize, UserCloses, vars
<1>6. ASSUME killProcess \/ TrayCrashes PROVE TrayEnds
  BY <1>6 DEF killProcess, TrayCrashes, Ends
<1>7. QED
  BY <1>3, <1>4, <1>5, <1>6 DEF Next, TrayCalled, TrayStep, TrayClicked

\* Every step keeps the tray's part of the invariant.
LEMMA NextTray == TrayInv /\ [Next]_vars => TrayInv'
<1> SUFFICES ASSUME TrayInv, [Next]_vars PROVE TrayInv'
  OBVIOUS
<1>1. CASE UNCHANGED trayVars
  BY <1>1, QuietTrayKeeps DEF trayVars, TrayInv, TrayTypes
<1>2. CASE cleanupTray
  BY <1>2, QuietTrayKeeps DEF cleanupTray
<1>3. ASSUME NEW k \in Slots, trayMenuItemClicked(k) PROVE TrayInv'
  BY <1>3, QuietTrayKeeps DEF trayMenuItemClicked, TrayInv, TrayTypes
<1>4. QED
  BY <1>1, <1>2, <1>3, TrayOfStep, TrayEndsKeeps, SetTrayKeeps, FillItemKeeps, MarkEndKeeps,
     TrayUpdateKeeps

-----------------------------------------------------------------------------

\* The inductive invariant holds in every reachable state.
THEOREM Invariance == Spec => []IInv
<1>1. IInv /\ [Next]_vars => IInv'
  BY NextWindow, NextTray DEF IInv
<1>2. QED
  BY <1>1, InitIInv, PTL DEF Spec

\* For every configuration, scale and menu: every variable has its type, the
\* file holds a geometry the application can have had, and three delete-events
\* wait at most.
THEOREM TypeCorrect == Spec => []TypeOK
<1>1. IInv => TypeOK
  BY DEF IInv, WindowInv, WindowTypes, TrayInv, TrayTypes, TypeOK
<1>2. QED
  BY <1>1, Invariance, PTL

\* For every length of the array and every sequence of setTray calls: after one
\* that succeeded and left room, the user sees the items asked for.
THEOREM ShownCorrect == Spec => []ShownIsRequested
<1>1. IInv => ShownIsRequested
  BY DEF IInv, TrayInv, MenusAgree, ShownIsRequested
<1>2. QED
  BY <1>1, Invariance, PTL

\* For every length of the array and every sequence of setTray calls: a click
\* reports the item it was made on, unless the array was written to since.
THEOREM ClickCorrect == Spec => ClickIsShown
<1>1. IInv /\ [Next]_vars =>
        [\A k \in Slots : (trayMenuItemClicked(k) /\ setting = None /\ ~half) =>
            told' = IF shown[k] \in Idless THEN None ELSE shown[k]]_vars
  BY DEF IInv, TrayInv, MenusAgree, Undisturbed, trayMenuItemClicked
<1>2. QED
  BY <1>1, Invariance, PTL DEF Spec, ClickIsShown

\* A window that opens has the geometry of the configuration or the one that
\* was saved.
LEMMA OpensStep ==
    ASSUME IInv, [Next]_vars, ~running, running'
    PROVE  IF savedState'
           THEN /\ wnd'.place = left.place
                /\ wnd'.size = left.size - (left.size % Scale)
           ELSE wnd' = [Configured EXCEPT !.size = Pixels(@)]
<1>1. PICK c \in Configs : createWindow(c)
  BY DEF Next, UserMoves, setSize, UserCloses, killProcess, appExit, windowStateChange,
         ExitStep, exitStops, exitCleansTray, saveBegins, saveFails, saveEnds, closeWindow,
         destroyWindow, TrayCalled, TrayStep, TrayClicked, TrayCrashes, vars
<1> DEFINE props == IF c.useSavedState THEN loadSavedWindowProps ELSE Configured
<1>2. /\ savedState' = (c.useSavedState /\ file \notin {NoFile, Torn})
      /\ wnd' = [size |-> Pixels(props.size), place |-> props.place]
  BY <1>1 DEF createWindow
<1>3. CASE c.useSavedState /\ file \notin {NoFile, Torn}
  <2>1. left \in Windows /\ props = Saved(left) /\ savedState'
    BY <1>2, <1>3 DEF loadSavedWindowProps, IInv, WindowInv, SaveExact
  <2>2. props.size = left.size \div Scale /\ props.place = left.place
    BY <2>1 DEF Saved, getSize
  <2>3. left.size \in Nat
    BY <2>1, SizeTypes
  <2>4. wnd'.size = Pixels(left.size \div Scale) /\ wnd'.place = left.place
    BY <1>2, <2>2
  <2>5. QED
    BY <2>1, <2>3, <2>4, PixelRoundTrip
<1>4. CASE ~(c.useSavedState /\ file \notin {NoFile, Torn})
  <2>1. props = Configured /\ ~savedState'
    BY <1>2, <1>4 DEF loadSavedWindowProps
  <2>2. wnd' = [Configured EXCEPT !.size = Pixels(@)]
    BY <1>2, <2>1, ConfigAssumption
  <2>3. QED
    BY <2>1, <2>2
<1>5. QED
  BY <1>3, <1>4

\* For every scale and every sequence of runs, crashes and failed writes: a
\* window opens as configured or exactly as one was left, short of what is less
\* than a logical pixel.
THEOREM ReopensCorrect == Spec => ReopensAsLeft
<1>1. IInv /\ [Next]_vars =>
        [~running /\ running' =>
          IF savedState'
          THEN /\ wnd'.place = left.place
               /\ wnd'.size = left.size - (left.size % Scale)
          ELSE wnd' = [Configured EXCEPT !.size = Pixels(@)]]_vars
  BY OpensStep
<1>2. QED
  BY <1>1, Invariance, PTL DEF Spec, ReopensAsLeft

\* A process that exits by itself was in the last step of app::exit.
LEMMA ExitStepIsDestroy ==
    ASSUME IInv, [Next]_vars, running, ~running', ended' = "exited"
    PROVE  \E t \in Threads : destroyWindow(t)
<1>1. ASSUME NEW t \in Threads, Throws(t) PROVE FALSE
  BY <1>1 DEF Throws, Ends
<1>2. ASSUME NEW t \in Threads, exitBegins(t) PROVE FALSE
  BY <1>1, <1>2 DEF exitBegins
<1>3. ASSUME appExit \/ windowStateChange PROVE FALSE
  BY <1>2, <1>3 DEF appExit, windowStateChange, Threads
<1>4. ASSUME NEW t \in Threads, ExitStep(t) PROVE destroyWindow(t)
  BY <1>1, <1>4 DEF ExitStep, exitStops, exitCleansTray, saveBegins, saveFails, saveEnds, closeWindow,
                    Ends
<1>5. ASSUME killProcess \/ TrayCrashes PROVE FALSE
  BY <1>5 DEF killProcess, TrayCrashes, Ends
<1>6. QED
  BY <1>3, <1>4, <1>5 DEF Next, createWindow, UserMoves, setSize, UserCloses, TrayCalled,
                          TrayStep, TrayClicked, vars

\* For every configuration and every interleaving of the main and the server
\* thread: a process that exits by itself leaves the whole geometry the exiting
\* thread took, if the disk takes it; if both threads have been inside
\* neuserver::stop it leaves what one of them took, or nothing that can be read.
THEOREM StateWhole == Spec => StateIsWhole
<1>1. ASSUME IInv, [Next]_vars, running, ~running', ended' = "exited",
             conf.useSavedState, ~failed
      PROVE  IF raced THEN file' \in {Torn} \cup {saving[t] : t \in Threads}
             ELSE \E t \in Threads : pc[t] = "destroy" /\ file' = saving[t]
  <2>1. PICK t \in Threads : destroyWindow(t)
    BY <1>1, ExitStepIsDestroy
  <2>2. pc[t] = "destroy" /\ file' = file
    BY <2>1 DEF destroyWindow, Ends
  <2>3. FromOne /\ (~raced => file = saving[t])
    BY <1>1, <2>2 DEF IInv, WindowInv, SaveExact
  <2>4. QED
    BY <2>2, <2>3 DEF FromOne, Threads
<1>2. IInv /\ [Next]_vars =>
        [(running /\ ~running' /\ ended' = "exited" /\ conf.useSavedState /\ ~failed) =>
          IF raced THEN file' \in {Torn} \cup {saving[t] : t \in Threads}
          ELSE \E t \in Threads : pc[t] = "destroy" /\ file' = saving[t]]_vars
  BY <1>1
<1>3. QED
  BY <1>2, Invariance, PTL DEF Spec, StateIsWhole

=============================================================================
