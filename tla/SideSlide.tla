----------------------------- MODULE SideSlide -----------------------------
(***************************************************************************)
(* The mobile menu of the public page views/index-be-store.php, as the     *)
(* function sideSlide() of js/scripts.js runs it.  On a narrow document    *)
(* the menu is moved from the top bar into a panel at the edge of the      *)
(* page; a button slides the panel in, a link slides it out, and two icons *)
(* of the panel replace the menu by a list of languages or by a search     *)
(* form.                                                                   *)
(*                                                                         *)
(* Two things make it hard to test.  The handlers change classes at once   *)
(* but move and fade elements through jQuery's effects queues, one FIFO    *)
(* per element, which later clicks join while earlier effects still run.   *)
(* And the function that moves the menu runs on `debouncedresize', some    *)
(* time after the window has its new width, so that clicks fall between.   *)
(*                                                                         *)
(* The window has one of three widths.  "gap" is the scroll bar's width    *)
(* above the limit: the style sheet compares the width of the window with  *)
(* 1239px, reload() compares the narrower width of the document with 1240. *)
(***************************************************************************)
EXTENDS Naturals, Sequences

CONSTANTS
    Panels,     \* the icons whose panel the page has: a subset of Icons
    MaxQueue,   \* bound on the effects that wait for one element
    MaxResizes  \* bound on the changes of the window's width

Icons == {"lang", "search"}

ASSUME SideSlideAssumption ==
    /\ Panels \subseteq Icons
    /\ MaxQueue \in Nat \ {0}
    /\ MaxResizes \in Nat

VARIABLES
    window,   \* the width of the window
    due,      \* a resize whose `debouncedresize' has not been fired
    enabled,  \* the class `enabled' of the panel
    nav,      \* where nav#menu is
    active,   \* the icons that have the class `active'
    shown,    \* which elements are on the screen, as the last effect left them
    fx,       \* the effects queue of each element: TRUE shows, FALSE hides it
    early,    \* the panel was opened while the menu was not in it
    resizes

vars == <<window, due, enabled, nav, active, shown, fx, early, resizes>>

-----------------------------------------------------------------------------
Widths == {"narrow", "gap", "wide"}

\* "body" stands for the shift of the page that makes room for the panel.
Elements == {"slide", "body", "overlay", "menu"} \cup Panels

\* The types, and that two icons are never active together.
TypeOK ==
    /\ window \in Widths
    /\ due \in BOOLEAN
    /\ enabled \in BOOLEAN
    /\ nav \in {"top", "slide"}
    /\ active \in {{}} \cup {{i} : i \in Icons}
    /\ shown \in [Elements -> BOOLEAN]
    /\ fx \in [Elements -> Seq(BOOLEAN)]
    /\ early \in BOOLEAN
    /\ resizes \in 0..MaxResizes

\* reload() compares $(document).width(), which leaves the scroll bar out.
DocumentIsNarrow == window # "wide"

\* The style sheet shows the menu button by the width of the window.
ButtonIsShown == window = "narrow"

OnScreen(e) == shown[e] \/ fx[e] # <<>>

AtRest(S) == \A e \in S : fx[e] = <<>>

\* The effects queues once `show' are told to appear and `hide' to vanish.
\* An element the page lacks is in no jQuery object and gets no effect.
Told(show, hide) ==
    [e \in Elements |-> IF e \in show THEN Append(fx[e], TRUE)
                        ELSE IF e \in hide THEN Append(fx[e], FALSE)
                        ELSE fx[e]]

Room == \A e \in Elements : Len(fx[e]) < MaxQueue

-----------------------------------------------------------------------------
(* The page is loaded: init() calls reload().  Only the panels of the icons*)
(* are hidden by the style sheet; #body_overlay has no style at all.       *)

Init ==
    /\ window \in Widths
    /\ enabled = DocumentIsNarrow
    /\ nav = IF DocumentIsNarrow THEN "slide" ELSE "top"
    /\ active = {}
    /\ shown = [e \in Elements |-> e \in {"overlay", "menu"}]
    /\ fx = [e \in Elements |-> <<>>]
    /\ due = FALSE /\ early = FALSE /\ resizes = 0

\* button(): slides the panel in and resets what it shows.
Button ==
    /\ ButtonIsShown /\ Room
    /\ fx' = Told({"slide", "body", "overlay", "menu"}, Panels)
    /\ active' = {}
    /\ early' = ~enabled
    /\ UNCHANGED <<window, due, enabled, nav, shown, resizes>>

\* Mutant of the next: the page stays shifted.
SlideOutAlone == Told({}, {"slide", "overlay"})

SlideOut == Told({}, {"slide", "body", "overlay"})

\* The link .close of the panel.  #body_overlay has the same handler, but no
\* style gives it a place on the screen where it could be clicked.
Close ==
    /\ OnScreen("slide") /\ Room
    /\ fx' = SlideOut
    /\ early' = FALSE
    /\ UNCHANGED <<window, due, enabled, nav, active, shown, resizes>>

\* A click on an icon that is active: its panel goes, the menu comes back.
HidePanel(i) ==
    /\ OnScreen("slide") /\ Room
    /\ i \in active
    /\ fx' = Told({"menu"}, {i})
    /\ active' = active \ {i}
    /\ UNCHANGED <<window, due, enabled, nav, shown, early, resizes>>

\* Mutant of the next: the other icon keeps its class.
ShowPanelOnly(i) ==
    /\ OnScreen("slide") /\ Room
    /\ i \notin active
    /\ fx' = Told({i}, {"menu"} \cup (Icons \ {i}))
    /\ active' = active \cup {i}
    /\ UNCHANGED <<window, due, enabled, nav, shown, early, resizes>>

\* A click on one that is not: its panel takes the place of the menu and of
\* the other icon's panel.
ShowPanel(i) ==
    /\ OnScreen("slide") /\ Room
    /\ i \notin active
    /\ fx' = Told({i}, {"menu"} \cup (Icons \ {i}))
    /\ active' = {i}
    /\ UNCHANGED <<window, due, enabled, nav, shown, early, resizes>>

\* A click below the panel's content: reset(300).
Background ==
    /\ OnScreen("slide") /\ Room
    /\ fx' = Told({"menu"}, Panels)
    /\ active' = {}
    /\ UNCHANGED <<window, due, enabled, nav, shown, early, resizes>>

\* The window changes its width; `debouncedresize' is due when it rests.
Resize(w) ==
    /\ w # window
    /\ resizes < MaxResizes
    /\ window' = w
    /\ due' = TRUE
    /\ resizes' = resizes + 1
    /\ UNCHANGED <<enabled, nav, active, shown, fx, early>>

\* constructor(): the menu moves into the panel, unless it is there.
Construct ==
    /\ enabled' = TRUE
    /\ nav' = "slide"
    /\ UNCHANGED <<fx, early>>

\* Mutant of Destruct: the panel stays open.
DestructOpen ==
    IF enabled
    THEN nav' = "top" /\ enabled' = FALSE /\ UNCHANGED <<fx, early>>
    ELSE UNCHANGED <<enabled, nav, fx, early>>

\* destructor(): the panel is closed and the menu goes back to the top bar,
\* unless the menu is there already: then the panel is left as it is.
Destruct ==
    IF enabled
    THEN /\ fx' = SlideOut
         /\ nav' = "top"
         /\ enabled' = FALSE
         /\ early' = FALSE
    ELSE UNCHANGED <<enabled, nav, fx, early>>

\* Mutant of the next: the menu never goes back.
ReloadConstructs ==
    /\ due
    /\ due' = FALSE
    /\ Construct
    /\ UNCHANGED <<window, active, shown, resizes>>

Reload ==
    /\ due
    /\ due' = FALSE
    /\ IF DocumentIsNarrow THEN Construct ELSE Destruct
    /\ UNCHANGED <<window, active, shown, resizes>>

\* The first effect in an element's queue ends.
Finish(e) ==
    /\ fx[e] # <<>>
    /\ shown' = [shown EXCEPT ![e] = Head(fx[e])]
    /\ fx' = [fx EXCEPT ![e] = Tail(@)]
    /\ UNCHANGED <<window, due, enabled, nav, active, early, resizes>>

Next ==
    \/ Button
    \/ Close
    \/ \E i \in Icons : HidePanel(i) \/ ShowPanel(i)
    \/ Background
    \/ \E w \in Widths : Resize(w)
    \/ Reload
    \/ \E e \in Elements : Finish(e)

(* jQuery's timer ends every effect it started, and the plugin's timer     *)
(* fires once the window rests.  Nobody has to click or resize.            *)

Spec ==
    /\ Init /\ [][Next]_vars
    /\ WF_vars(Reload)
    /\ \A e \in Elements : WF_vars(Finish(e))

-----------------------------------------------------------------------------
(* Properties *)

\* However fast the button and the close link are clicked, once the effects
\* are over the panel and the shift of the page agree, and no panel is open
\* without the overlay over the rest of the page (scripts.js, button, close).
SlideTogether ==
    AtRest({"slide", "body", "overlay"}) =>
        /\ shown["slide"] = shown["body"]
        /\ shown["slide"] => shown["overlay"]

\* Once the effects are over the panel shows what its icons say: the menu
\* when no icon is active, else the active icon's panel and no other
\* (the two icons' handlers, button, reset).
PanelsFollowIcons ==
    AtRest({"menu"} \cup Panels) =>
        /\ shown["menu"] <=> active = {}
        /\ \A p \in Panels : shown[p] <=> active = {p}

\* On a wide page whose last resize has been handled the panel rests closed,
\* unless it was opened before the menu had been moved into it: destructor()
\* does nothing then (destructor, reload).
WideClosed ==
    ~due /\ ~DocumentIsNarrow /\ AtRest({"slide"}) /\ shown["slide"] => early

\* A window that stays wide in the end has its menu in the top bar for good,
\* and the panel out of the way with the same exception (reload).
MenuReturns ==
    <>[](window = "wide") => <>[](nav = "top" /\ (shown["slide"] => early))

-----------------------------------------------------------------------------
(* The inductive invariant.                                                *)

\* What an element will be once its effects are over.
Settles(e) == IF fx[e] = <<>> THEN shown[e] ELSE fx[e][Len(fx[e])]

\* The three properties about elements at rest, said of where they settle; the
\* menu is where the document's width wants it unless a resize is due, and a
\* panel opened without the menu is remembered until it is closed.
SlideInv ==
    /\ TypeOK
    /\ Settles("slide") = Settles("body")
    /\ Settles("slide") => Settles("overlay")
    /\ Settles("menu") <=> active = {}
    /\ \A p \in Panels : Settles(p) <=> active = {p}
    /\ ~due => (enabled <=> DocumentIsNarrow)
    /\ ~enabled /\ Settles("slide") => early

=============================================================================
