-------------------------------- MODULE Tray --------------------------------
(***************************************************************************)
(* The tray menu of os.setTray (api/os/os.cpp, lib/tray/tray.h on Linux).  *)
(*                                                                         *)
(* The menu is an array of fixed length that ends with an item without a   *)
(* text, if there is room for one.  setTray fills it on the server thread, *)
(* item by item; tray_update then builds the widgets the user sees, each   *)
(* with a pointer to its place in the array.  A click comes on the main    *)
(* thread at any time and reports what that place holds at that moment.    *)
(*                                                                         *)
(* Without a last item tray_update reads past the array: it may stop there,*)
(* show an item nobody asked for, or end the process.  Disabled and checked*)
(* items and separators are left out, and of an icon all but its failure.  *)
(***************************************************************************)
EXTENDS Integers, Sequences

CONSTANTS
    MaxItems,       \* NEU_MAX_TRAY_MENU_ITEMS
    Items,          \* the items of a menu
    Requests,       \* the lists of menu items that are asked for, or NoItems
    Idless,         \* the items without an id
    Bad,            \* an item without a text
    NoItems,        \* a setTray without menuItems (a new icon, say)
    Garbage,        \* what is read behind the array
    None            \* nothing

ASSUME MaxItemsAssumption == MaxItems \in Nat \ {0}
ASSUME RequestsAssumption ==
    /\ \A request \in Requests \ {NoItems} : request \in Seq(Items)
    /\ None \notin Items
    /\ None \notin [items : Requests, next : Nat, step : {"fill", "update"}]

VARIABLES
    menus,              \* the array: an item or None (no text, no callback)
    shown,              \* the items of the menu the user sees
    trayInitialized,
    setting,            \* the call of setTray in progress, or None
    half,               \* history: a setTray has failed half-way since the last menu
    accepted,           \* history: the menu of the last setTray that succeeded, or Garbage
    told                \* what the last click reported, or None

trayVars == <<menus, shown, trayInitialized, setting, half, accepted, told>>

Slots == 1..MaxItems

NoMenus == [k \in Slots |-> None]

TrayInit ==
    /\ menus = NoMenus
    /\ shown = <<>>
    /\ trayInitialized = FALSE
    /\ setting = None
    /\ half = FALSE
    /\ accepted = <<>>
    /\ told = None

\* The process ends, and the tray with it.
TrayEnds ==
    /\ menus' = NoMenus
    /\ shown' = <<>>
    /\ trayInitialized' = FALSE
    /\ setting' = None
    /\ half' = FALSE
    /\ accepted' = <<>>
    /\ told' = None

\* The number of items that are taken over.
MenuCount(items) == IF Len(items) > MaxItems THEN MaxItems ELSE Len(items)

\* setTray is called.
setTray(request) ==
    /\ setting = None
    /\ setting' = [items |-> request, next |-> 1,
                   step |-> IF request = NoItems THEN "update" ELSE "fill"]
    /\ UNCHANGED <<menus, shown, trayInitialized, half, accepted, told>>

\* One turn of the loop: an item without a text throws, which ends the call
\* and leaves the items before it in the array.
FillItem ==
    /\ setting # None
    /\ setting.step = "fill"
    /\ setting.next <= MenuCount(setting.items)
    /\ LET item == setting.items[setting.next]
       IN IF item = Bad
          THEN setting' = None /\ half' = TRUE /\ UNCHANGED menus
          ELSE /\ menus' = [menus EXCEPT ![setting.next] = item]
               /\ setting' = [setting EXCEPT !.next = @ + 1]
               /\ UNCHANGED half
    /\ UNCHANGED <<shown, trayInitialized, accepted, told>>

\* Mutant: the end of the menu is not marked.
EndOfMenu_None(count) == menus

\* The array with its end marked, if there is room.
EndOfMenu(count) ==
    IF count < MaxItems THEN [menus EXCEPT ![count + 1] = None] ELSE menus

MarkEnd ==
    /\ setting # None
    /\ setting.step = "fill"
    /\ setting.next > MenuCount(setting.items)
    /\ menus' = EndOfMenu(MenuCount(setting.items))
    /\ setting' = [setting EXCEPT !.step = "update"]
    /\ UNCHANGED <<shown, trayInitialized, half, accepted, told>>

\* The menu _tray_menu builds: the items up to the first without a text.
Built ==
    LET ends == {k \in Slots : menus[k] = None}
    IN IF ends = {} THEN menus
       ELSE SubSeq(menus, 1, (CHOOSE k \in ends : \A j \in ends : k <= j) - 1)

\* Mutant: the widgets are built once, with the tray.
Updated_Once == IF trayInitialized THEN {shown} ELSE {Built}

\* What the user can see after tray_init or tray_update.
Updated == IF \E k \in Slots : menus[k] = None THEN {Built} ELSE {Built, Append(Built, Garbage)}

\* The end of setTray: the tray is made or brought up to date.  Or it is not, and
\* the array stays as it is filled: an icon that is no text or cannot be put down
\* throws before it, and without the libraries tray_init fails (NE_OS_TRAYIER).
trayUpdate ==
    /\ setting # None
    /\ setting.step = "update"
    /\ setting' = None
    /\ \/ /\ shown' \in Updated
          /\ trayInitialized' = TRUE
          /\ half' = FALSE
          /\ accepted' = CASE setting.items = NoItems /\ half -> Garbage
                           [] setting.items = NoItems /\ ~half -> accepted
                           [] OTHER -> setting.items
       \/ /\ half' = (half \/ setting.items # NoItems)
          /\ UNCHANGED <<shown, trayInitialized, accepted>>
    /\ UNCHANGED <<menus, told>>

\* tray_update on an array without an end runs into memory it may not read.
TrayOverrun ==
    /\ setting # None
    /\ setting.step = "update"
    /\ \A k \in Slots : menus[k] # None

\* The main thread handles a click on a place of the menu.
trayMenuItemClicked(k) ==
    /\ k \in DOMAIN shown
    /\ k \in Slots
    /\ menus[k] # None
    /\ told' = IF menus[k] \in Idless THEN None ELSE menus[k]
    /\ UNCHANGED <<menus, shown, trayInitialized, setting, half, accepted>>

\* The callback of the place is gone, or was never one: the call of a null or
\* wild pointer ends the process.
TrayWildCall(k) == k \in DOMAIN shown /\ (k \in Slots => menus[k] = None)

cleanupTray ==
    /\ trayInitialized' = FALSE
    /\ UNCHANGED <<menus, shown, setting, half, accepted, told>>

=============================================================================
