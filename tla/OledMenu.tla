------------------------------- MODULE OledMenu -------------------------------
(***************************************************************************)
(* The menu on the leader's display: a stack of screens, of which lists    *)
(* have a cursor and a window of four lines, driven by the Xbox controller *)
(* (mode cycle, D-pad, A, B).  One tick of handleInteractiveOledMenuInput  *)
(* is one step.  What the menu asks for is noted in menuAsks: a profile,   *)
(* which LeaderApp activates, or that Pairing resets the pairing.          *)
(*                                                                         *)
(* The menu is left with a profile and comes back at the list it was left  *)
(* from (MenuResumes), which B in a mode the dashboard started may also do *)
(* while the menu was never left.                                          *)
(***************************************************************************)
EXTENDS Integers, Sequences

CONSTANT MaxDpadSteps  \* steps of the D-pad that one tick may find

ASSUME MenuAssumption == MaxDpadSteps \in Nat

VARIABLES
    menuStack,     \* screens from the root to the one shown
    menuScroll,    \* cursor and first line of each list
    menuResume,    \* oledMenuResumeScreen_
    menuBrowse,    \* is the menu what the controller steers?
    menuAsks       \* what the last tick asked of LeaderApp

menuVars == <<menuStack, menuScroll, menuResume, menuBrowse, menuAsks>>

kMaxStackDepth == 4
kVisibleLineCount == 4

(***************************************************************************)
(* The lists.                                                              *)
(***************************************************************************)
Push(screen) == [action |-> "Push", to |-> screen]
Activate(profile) == [action |-> "ActivateProfile", to |-> profile]
Pop == [action |-> "Pop", to |-> "Root"]

Lists == {"Root", "TeleopList", "CalibrationList", "PairingList"}
Screens == Lists \cup
    {"InfoDetail", "IkNotImplementedDetail", "PairingStatusDetail", "PairingResetConfirm"}

ItemActions ==
    [s \in Lists |->
        CASE s = "Root" ->
                <<Push("InfoDetail"), Push("TeleopList"), Activate("Passthrough"),
                  Push("CalibrationList"), Push("PairingList"), Activate("OtaReady")>>
          [] s = "TeleopList" ->
                <<Activate("TeleopEspNow"), Activate("TeleopEspNowTurbo"),
                  Activate("TeleopEspNowFeedback"), Activate("TeleopWifi"),
                  Push("IkNotImplementedDetail"), Pop>>
          [] s = "CalibrationList" ->
                <<Activate("CalibrationLeader"), Activate("CalibrationFollower"), Pop>>
          [] s = "PairingList" ->
                <<Push("PairingStatusDetail"), Push("PairingResetConfirm"), Pop>>]

ItemCount(s) == Len(ItemActions[s])

(***************************************************************************)
(* OledListScrollModel: the cursor (from 0) of a list of count items, and  *)
(* the first item its window shows.                                        *)
(***************************************************************************)
\* Mutant: the window follows the cursor one line late.
WindowLate(count, selected, first) ==
    IF count <= kVisibleLineCount THEN [selected |-> selected, first |-> 0]
    ELSE IF selected < first THEN [selected |-> selected, first |-> selected]
    ELSE IF selected > first + kVisibleLineCount
    THEN [selected |-> selected, first |-> selected - (kVisibleLineCount - 1)]
    ELSE [selected |-> selected, first |-> first]

updateScrollWindow(count, selected, first) ==
    IF count <= kVisibleLineCount THEN [selected |-> selected, first |-> 0]
    ELSE IF selected < first THEN [selected |-> selected, first |-> selected]
    ELSE IF selected >= first + kVisibleLineCount
    THEN [selected |-> selected, first |-> selected - (kVisibleLineCount - 1)]
    ELSE [selected |-> selected, first |-> first]

moveUp(count, scroll) ==
    updateScrollWindow(count,
        IF scroll.selected = 0 THEN count - 1 ELSE scroll.selected - 1, scroll.first)

moveDown(count, scroll) ==
    updateScrollWindow(count, (scroll.selected + 1) % count, scroll.first)

resetScroll(count, scroll) == updateScrollWindow(count, 0, scroll.first)

visibleItems(count, scroll) ==
    {scroll.first + line : line \in 0..(kVisibleLineCount - 1)} \cap 0..(count - 1)

(***************************************************************************)
(* OledMenuNavigator, on a menu m.                                         *)
(***************************************************************************)
Menu ==
    [stack |-> menuStack, scroll |-> menuScroll, resume |-> menuResume,
     browse |-> menuBrowse, asks |-> "nothing"]

currentScreen(m) == m.stack[Len(m.stack)]

onEnter(m, s) ==
    IF s \in Lists THEN [m EXCEPT !.scroll[s] = resetScroll(ItemCount(s), @)] ELSE m

pushScreen(m, s) ==
    IF Len(m.stack) >= kMaxStackDepth THEN m
    ELSE onEnter([m EXCEPT !.stack = Append(@, s)], s)

\* The screen below is shown as it was left.
popScreen(m) ==
    IF Len(m.stack) <= 1 THEN m
    ELSE [m EXCEPT !.stack = SubSeq(@, 1, Len(@) - 1)]

\* Mutant: the root, too, is put on top of the root.
ResumeOnRoot(m, s) == onEnter([m EXCEPT !.stack = <<"Root", s>>], s)

resumeAt(m, s) ==
    onEnter([m EXCEPT !.stack = IF s = "Root" THEN <<"Root">> ELSE <<"Root", s>>], s)

LeaveMenu(m, profile) ==
    [m EXCEPT !.resume = currentScreen(m), !.browse = FALSE, !.asks = profile]

\* The action of the item under the cursor.
applyNavigationResult(m, item) ==
    CASE item.action = "Push" -> pushScreen(m, item.to)
      [] item.action = "Pop" -> popScreen(m)
      [] item.action = "ActivateProfile" -> LeaveMenu(m, item.to)

Select(m) ==
    LET s == currentScreen(m)
    IN  CASE s \in Lists -> applyNavigationResult(m, ItemActions[s][m.scroll[s].selected + 1])
          [] s = "PairingResetConfirm" -> popScreen([m EXCEPT !.asks = "resetPairing"])
          [] OTHER -> m

Move(m, step) ==
    LET s == currentScreen(m)
        count == ItemCount(s)
    IN  IF s \notin Lists THEN m
        ELSE [m EXCEPT !.scroll[s] = IF step = "Up" THEN moveUp(count, @) ELSE moveDown(count, @)]

\* Only the root list takes the mode button, as a step down.
ModeDown(m) == IF m.stack = <<"Root">> THEN Move(m, "Down") ELSE m

Moves(m, steps) ==
    LET moved[i \in 0..Len(steps)] == IF i = 0 THEN m ELSE Move(moved[i - 1], steps[i])
    IN  moved[Len(steps)]

\* Mutant: a press of A is taken twice.
InputTwice(m, cycle, steps, A, B) ==
    LET moved == Moves(IF cycle THEN ModeDown(m) ELSE m, steps)
        selected == IF A THEN Select(Select(moved)) ELSE moved
    IN  IF B THEN popScreen(selected) ELSE selected

\* Everything that waits is taken in one tick, in this order.
handleInteractiveOledMenuInput(m, cycle, steps, A, B) ==
    LET moved == Moves(IF cycle THEN ModeDown(m) ELSE m, steps)
        selected == IF A THEN Select(moved) ELSE moved
    IN  IF B THEN popScreen(selected) ELSE selected

(***************************************************************************)
(* Steps.                                                                  *)
(***************************************************************************)
MenuIs(m) ==
    /\ menuStack' = m.stack
    /\ menuScroll' = m.scroll
    /\ menuResume' = m.resume
    /\ menuBrowse' = m.browse
    /\ menuAsks' = m.asks

DpadSteps == UNION {[1..n -> {"Up", "Down"}] : n \in 0..MaxDpadSteps}

MenuTick ==
    /\ menuBrowse
    /\ \E cycle, A, B \in BOOLEAN, steps \in DpadSteps :
        MenuIs(handleInteractiveOledMenuInput(Menu, cycle, steps, A, B))

MenuResumes == MenuIs(resumeAt([Menu EXCEPT !.browse = TRUE], menuResume))

MenuInit ==
    /\ menuStack = <<"Root">>
    /\ menuScroll = [s \in Lists |-> [selected |-> 0, first |-> 0]]
    /\ menuResume = "Root"
    /\ menuBrowse = TRUE
    /\ menuAsks = "nothing"

MenuNext == MenuTick \/ MenuResumes

MenuSpec == MenuInit /\ [][MenuNext]_menuVars
------------------------------------------------------------------------------
\* Every variable of the menu keeps its type; the stack holds one to four
\* screens.
MenuTypeOK ==
    /\ menuStack \in Seq(Screens) /\ Len(menuStack) \in 1..kMaxStackDepth
    /\ menuScroll \in [Lists -> [selected : Nat, first : Nat]]
    /\ menuResume \in Screens
    /\ menuBrowse \in BOOLEAN
    /\ menuAsks \in {"nothing", "resetPairing"} \cup
                    {"TeleopEspNow", "TeleopEspNowTurbo", "TeleopEspNowFeedback", "TeleopWifi",
                     "Passthrough", "OtaReady", "CalibrationLeader", "CalibrationFollower"}

\* On every list, shown or not, the cursor is on an item, the window shows it,
\* and no line is blank while items are hidden, however lists are entered, left
\* and come back to.
WindowShowsCursor ==
    \A s \in Lists :
        LET count == ItemCount(s)
            scroll == menuScroll[s]
        IN  /\ scroll.selected \in visibleItems(count, scroll)
            /\ count > kVisibleLineCount => scroll.first + kVisibleLineCount <= count
            /\ count <= kVisibleLineCount => scroll.first = 0

Opens(s, t) == \E i \in 1..ItemCount(s) : ItemActions[s][i] = Push(t)

\* The stack is always a path through the menu from its root, so that B leads
\* back over screens that lead there, also where the menu is resumed at a list
\* without its way; and below the root the cursor of a list is still on the item
\* that opened the screen above it.
StackIsPath ==
    /\ menuStack[1] = "Root"
    /\ \A i \in 1..(Len(menuStack) - 1) :
        /\ menuStack[i] \in Lists
        /\ Opens(menuStack[i], menuStack[i + 1])
        /\ i > 1 => ItemActions[menuStack[i]][menuScroll[menuStack[i]].selected + 1]
                        = Push(menuStack[i + 1])

\* The pairing is only reset from the screen that asks for it, shown since the
\* tick before at least, whatever presses one tick finds.
ResetWasConfirmed ==
    [][menuAsks' = "resetPairing" => menuStack[Len(menuStack)] = "PairingResetConfirm"]_menuVars
==============================================================================
