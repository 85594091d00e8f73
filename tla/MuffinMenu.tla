----------------------------- MODULE MuffinMenu -----------------------------
(***************************************************************************)
(* The submenus of the public page's menu, as js/mfn.menu.js opens and     *)
(* closes them.  In a wide window an item with a submenu opens while the   *)
(* mouse is over it; in a narrow one the item has a button, `menu-toggle', *)
(* that opens and closes it.  doMenu() binds the handlers of the layout    *)
(* when the page is loaded and again on every resize, and what it bound    *)
(* for one layout is still bound in the other: what a mouse or a tap does  *)
(* depends on every width the window has had.                              *)
(*                                                                         *)
(* The button is a part of its item, so the mouse enters the item before it*)
(* can press the button, and a browser delivers `mouseenter' before `click'*)
(* for a tap on a touch screen too: Tap is the two together.               *)
(*                                                                         *)
(* An item here is one of the menu's own list.  The columns of a megamenu  *)
(* below it have submenus and buttons too, but no handler of the mouse:    *)
(* what a tap does to those is not modelled.                               *)
(***************************************************************************)
EXTENDS Naturals

CONSTANTS
    Items,      \* the items of the menu itself that have a submenu
    MaxBound    \* bound on the handlers counted for one item

ASSUME MuffinMenuAssumption == MaxBound \in Nat \ {0}

VARIABLES
    desktop,     \* the window is at least mobileInit wide
    everMobile,  \* it has once been narrower
    hoverers,    \* how often mouseenter and mouseleave have been bound
    toggled,     \* click is bound to the buttons
    over,        \* the items the mouse is over
    hover,       \* the items that have the class `hover'
    opened,      \* the items whose submenu is on the screen
    fading       \* the effect that runs on each submenu

muffinVars == <<desktop, everMobile, hoverers, toggled, over, hover, opened, fading>>

-----------------------------------------------------------------------------
Effects == {"none", "in", "out"}

\* The types, and that the handlers of the window's layout are bound.
MuffinTypes ==
    /\ desktop \in BOOLEAN /\ everMobile \in BOOLEAN /\ toggled \in BOOLEAN
    /\ hoverers \in 0..MaxBound
    /\ over \subseteq Items /\ hover \subseteq Items /\ opened \subseteq Items
    /\ fading \in [Items -> Effects]
    /\ IF desktop THEN hoverers > 0 ELSE toggled

\* doMenu() for a window that is wide or not.  The wide branch binds two more
\* handlers and unbinds none.  The other one unbinds the event `hover', which
\* nothing was ever bound to, and binds one click handler in place of the last.
DoMenu(wide) ==
    /\ desktop' = wide
    /\ everMobile' = (everMobile \/ ~wide)
    /\ IF wide
       THEN hoverers' = hoverers + 1 /\ UNCHANGED toggled
       ELSE toggled' = TRUE /\ UNCHANGED hoverers

MuffinInit ==
    /\ desktop \in BOOLEAN
    /\ everMobile = ~desktop
    /\ hoverers = IF desktop THEN 1 ELSE 0
    /\ toggled = ~desktop
    /\ over = {} /\ hover = {} /\ opened = {}
    /\ fading = [i \in Items |-> "none"]

Relayout ==
    /\ hoverers < MaxBound
    /\ \E wide \in BOOLEAN : DoMenu(wide)
    /\ UNCHANGED <<over, hover, opened, fading>>

-----------------------------------------------------------------------------
\* stop(true, true) ends the effect on i's submenu at its last frame.
Stopped(i) ==
    CASE fading[i] = "in"  -> opened \cup {i}
      [] fading[i] = "out" -> opened \ {i}
      [] OTHER             -> opened

\* addClass, then children('ul').stop(true, true).fadeIn
Open(i) ==
    /\ hover' = hover \cup {i}
    /\ opened' = Stopped(i)
    /\ fading' = [fading EXCEPT ![i] = "in"]

\* Mutant of Shut: the class stays.
ShutKeepsClass(i) ==
    /\ hover' = hover
    /\ opened' = Stopped(i)
    /\ fading' = [fading EXCEPT ![i] = "out"]

\* removeClass, then children('ul').stop(true, true).fadeOut
Shut(i) ==
    /\ hover' = hover \ {i}
    /\ opened' = Stopped(i)
    /\ fading' = [fading EXCEPT ![i] = "out"]

\* The handlers bound in a wide window run in every layout.
Enter(i) ==
    /\ over = {}
    /\ over' = {i}
    /\ IF hoverers > 0 THEN Open(i) ELSE UNCHANGED <<hover, opened, fading>>
    /\ UNCHANGED <<desktop, everMobile, hoverers, toggled>>

\* Mutant of Leave: nothing is bound to mouseleave.
LeaveUnheard(i) ==
    /\ i \in over
    /\ over' = over \ {i}
    /\ UNCHANGED <<desktop, everMobile, hoverers, toggled, hover, opened, fading>>

Leave(i) ==
    /\ i \in over
    /\ over' = over \ {i}
    /\ IF hoverers > 0 THEN Shut(i) ELSE UNCHANGED <<hover, opened, fading>>
    /\ UNCHANGED <<desktop, everMobile, hoverers, toggled>>

\* A press of i's button, which the style sheet shows in the narrow layout.
Toggle(i) ==
    /\ ~desktop /\ toggled
    /\ i \in over
    /\ IF i \in hover THEN Shut(i) ELSE Open(i)
    /\ UNCHANGED <<desktop, everMobile, hoverers, toggled, over>>

\* A tap on i's button while nothing is pointed at: mouseenter, if anything
\* listens, opens the item, and click finds the class it has just set.
Tap(i) ==
    /\ ~desktop /\ toggled
    /\ over = {}
    /\ over' = {i}
    /\ IF hoverers = 0
       THEN IF i \in hover THEN Shut(i) ELSE Open(i)
       ELSE /\ hover' = hover \ {i}
            /\ opened' = Stopped(i) \cup {i}
            /\ fading' = [fading EXCEPT ![i] = "out"]
    /\ UNCHANGED <<desktop, everMobile, hoverers, toggled>>

\* The effect on i's submenu ends by itself.
EndFade(i) ==
    /\ fading[i] # "none"
    /\ opened' = Stopped(i)
    /\ fading' = [fading EXCEPT ![i] = "none"]
    /\ UNCHANGED <<desktop, everMobile, hoverers, toggled, over, hover>>

MuffinNext ==
    \/ Relayout
    \/ \E i \in Items : Enter(i) \/ Leave(i) \/ Toggle(i) \/ Tap(i) \/ EndFade(i)

\* jQuery ends every effect it started; mice and windows owe nothing.
MuffinSpec ==
    /\ MuffinInit /\ [][MuffinNext]_muffinVars
    /\ \A i \in Items : WF_muffinVars(EndFade(i))

-----------------------------------------------------------------------------
(* Properties *)

\* Whatever mixture of layouts, entering, leaving and pressing came before, a
\* submenu whose effect is over is on the screen exactly when its item has the
\* class `hover', which the next press of its button looks at.
OpenedFollowsHover == \A i \in Items : fading[i] = "none" => (i \in opened <=> i \in hover)

\* On a page that was never narrow, at most the item under the mouse is open
\* or opening, however many handlers the resizes have piled up.
OnlyPointedOpen ==
    ~everMobile => /\ hover \subseteq over
                   /\ \A i \in Items \ over : fading[i] # "in"

-----------------------------------------------------------------------------
(* The inductive invariant.                                                *)

\* An effect that runs on a submenu leads to what the class of its item says.
FadesFollowHover ==
    \A i \in Items :
        /\ fading[i] = "in"  => i \in hover
        /\ fading[i] = "out" => i \notin hover

\* A page that was never narrow has the wide layout.
MuffinInv ==
    /\ MuffinTypes
    /\ desktop \/ everMobile
    /\ FadesFollowHover
    /\ OpenedFollowsHover
    /\ OnlyPointedOpen

=============================================================================
