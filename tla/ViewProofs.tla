----------------------------- MODULE ViewProofs -----------------------------
(***************************************************************************)
(* What the parts of the pages promise: SideSlide and MuffinMenu for any   *)
(* panels, submenus and sequence of clicks and resizes, ImageScale for     *)
(* pictures and boxes of any size, WebText for descriptions of any length. *)
(***************************************************************************)
EXTENDS SideSlide, MuffinMenu, ImageScale, WebText, SequenceTheorems,
        FiniteSetTheorems, WellFoundedInduction, TLAPS

USE SideSlideAssumption, MuffinMenuAssumption, ImageScaleAssumption
-----------------------------------------------------------------------------
(* The effects queues of SideSlide.                                        *)

\* The last element of a sequence that has got one.
LEMMA AppendLast ==
  ASSUME NEW S, NEW q \in Seq(S), NEW x \in S
  PROVE  /\ Append(q, x) \in Seq(S) /\ Append(q, x) # <<>>
         /\ Append(q, x)[Len(Append(q, x))] = x
OBVIOUS

\* Taking the first element leaves the last, unless it was the only one.
LEMMA TailLast ==
  ASSUME NEW S, NEW q \in Seq(S), q # <<>>
  PROVE  /\ Head(q) \in S /\ Tail(q) \in Seq(S)
         /\ Tail(q) = <<>> => Head(q) = q[Len(q)]
         /\ Tail(q) # <<>> => Tail(q)[Len(Tail(q))] = q[Len(q)]
<1>1. /\ Len(q) \in Nat /\ Len(q) # 0
      /\ Head(q) = q[1] /\ q[1] \in S
      /\ Tail(q) \in Seq(S) /\ Len(Tail(q)) = Len(q) - 1
      /\ \A i \in 1 .. Len(q) - 1 : Tail(q)[i] = q[i + 1]
  OBVIOUS
<1>2. Tail(q) = <<>> <=> Len(q) = 1
  <2>1. Tail(q) = <<>> <=> Len(Tail(q)) = 0
    BY <1>1, EmptySeq
  <2> QED
    BY <1>1, <2>1
<1>3. Tail(q) # <<>> => Len(q) - 1 \in 1 .. Len(q) - 1
  BY <1>1, <1>2
<1> QED
  BY <1>1, <1>2, <1>3

\* An element that is told to change settles as the last effect told it to, and
\* one that is not settles as before.
LEMMA ToldSettles ==
  ASSUME fx \in [Elements -> Seq(BOOLEAN)], shown' = shown,
         NEW show, NEW hide, fx' = Told(show, hide)
  PROVE  \A e \in Elements :
            /\ e \in show => Settles(e)' = TRUE
            /\ e \in hide \ show => Settles(e)' = FALSE
            /\ e \notin show \cup hide => Settles(e)' = Settles(e)
<1> SUFFICES ASSUME NEW e \in Elements
             PROVE  /\ e \in show => Settles(e)' = TRUE
                    /\ e \in hide \ show => Settles(e)' = FALSE
                    /\ e \notin show \cup hide => Settles(e)' = Settles(e)
  OBVIOUS
<1>1. /\ e \in show => fx'[e] = Append(fx[e], TRUE)
      /\ e \in hide \ show => fx'[e] = Append(fx[e], FALSE)
      /\ e \notin show \cup hide => fx'[e] = fx[e]
  BY Zenon DEF Told
<1>2. /\ Append(fx[e], TRUE) # <<>>
      /\ Append(fx[e], TRUE)[Len(Append(fx[e], TRUE))] = TRUE
      /\ Append(fx[e], FALSE) # <<>>
      /\ Append(fx[e], FALSE)[Len(Append(fx[e], FALSE))] = FALSE
  <2>1. fx[e] \in Seq(BOOLEAN) /\ TRUE \in BOOLEAN /\ FALSE \in BOOLEAN
    OBVIOUS
  <2> QED
    BY <2>1, AppendLast, Zenon
<1> QED
  BY <1>1, <1>2, Zenon DEF Settles

\* Telling elements to change keeps the queues queues.
LEMMA ToldTypes ==
  ASSUME fx \in [Elements -> Seq(BOOLEAN)], NEW show, NEW hide
  PROVE  Told(show, hide) \in [Elements -> Seq(BOOLEAN)]
<1>1. ASSUME NEW e \in Elements
      PROVE  fx[e] \in Seq(BOOLEAN) /\ Append(fx[e], TRUE) \in Seq(BOOLEAN)
             /\ Append(fx[e], FALSE) \in Seq(BOOLEAN)
  OBVIOUS
<1> QED
  BY <1>1 DEF Told

\* The end of an effect changes no element's last word.
LEMMA FinishSettles ==
  ASSUME TypeOK, NEW e \in Elements, Finish(e)
  PROVE  \A d \in Elements : Settles(d)' = Settles(d)
<1> SUFFICES ASSUME NEW d \in Elements PROVE Settles(d)' = Settles(d)
  OBVIOUS
<1>1. CASE d # e
  BY <1>1 DEF Finish, Settles, TypeOK
<1>2. CASE d = e
  <2>1. /\ fx[e] \in Seq(BOOLEAN) /\ fx[e] # <<>>
        /\ shown'[e] = Head(fx[e]) /\ fx'[e] = Tail(fx[e])
    BY DEF Finish, TypeOK
  <2>2. /\ Tail(fx[e]) = <<>> => Head(fx[e]) = fx[e][Len(fx[e])]
        /\ Tail(fx[e]) # <<>> => Tail(fx[e])[Len(Tail(fx[e]))] = fx[e][Len(fx[e])]
    BY <2>1, TailLast, Zenon
  <2> QED
    BY <1>2, <2>1, <2>2, Zenon DEF Settles
<1> QED
  BY <1>1, <1>2
-----------------------------------------------------------------------------
(* SideSlide.                                                              *)

\* The page as it is loaded.
LEMMA SlideInitInv == Init => SlideInv
<1> SUFFICES ASSUME Init PROVE SlideInv
  OBVIOUS
<1> USE DEF Init
<1>1. TypeOK
  <2>1. shown \in [Elements -> BOOLEAN]
    <3>1. \A e \in Elements : (e \in {"overlay", "menu"}) \in BOOLEAN
      OBVIOUS
    <3> QED
      BY <3>1, Zenon
  <2>2. enabled \in BOOLEAN
    <3>1. enabled = (window # "wide")
      BY Zenon DEF DocumentIsNarrow
    <3> QED
      BY <3>1
  <2>3. fx \in [Elements -> Seq(BOOLEAN)]
    OBVIOUS
  <2>4. window \in Widths /\ nav \in {"top", "slide"} /\ active = {}
        /\ due = FALSE /\ early = FALSE /\ resizes \in 0 .. MaxResizes
    OBVIOUS
  <2> QED
    BY <2>1, <2>2, <2>3, <2>4, Zenon DEF TypeOK
<1>2. \A e \in Elements :
         /\ e \in {"overlay", "menu"} => Settles(e) = TRUE
         /\ e \notin {"overlay", "menu"} => Settles(e) = FALSE
  <2>1. ASSUME NEW e \in Elements
        PROVE  /\ e \in {"overlay", "menu"} => shown[e] = TRUE
               /\ e \notin {"overlay", "menu"} => shown[e] = FALSE
    <3>1. /\ e \in {"overlay", "menu"} => shown[e]
          /\ e \notin {"overlay", "menu"} => ~ shown[e]
      BY Zenon
    <3>2. shown[e] \in BOOLEAN
      BY <1>1 DEF TypeOK
    <3> QED
      BY <3>1, <3>2
  <2>2. \A e \in Elements : fx[e] = <<>>
    OBVIOUS
  <2> QED
    BY <2>1, <2>2, Zenon DEF Settles
<1>3. /\ Settles("slide") = FALSE /\ Settles("body") = FALSE
      /\ Settles("menu") = TRUE
      /\ \A p \in Panels : Settles(p) = FALSE
  BY <1>2 DEF Elements, Icons
<1>4. ~due => (enabled <=> DocumentIsNarrow)
  OBVIOUS
<1>5. \A p \in Panels : active # {p}
  OBVIOUS
<1> QED
  BY <1>1, <1>3, <1>4, <1>5, Zenon DEF SlideInv

\* Clicks that only change what the panel shows.
LEMMA InsidePreserves ==
  ASSUME SlideInv,
         Background \/ (\E i \in Icons : HidePanel(i) \/ ShowPanel(i))
  PROVE  SlideInv'
<1> USE DEF SlideInv
<1>1. UNCHANGED <<window, due, enabled, nav, shown, early, resizes>>
  BY DEF Background, HidePanel, ShowPanel
<1> DEFINE Agree(show, hide) ==
      /\ {"slide", "body", "overlay"} \cap (show \cup hide) = {}
      /\ "menu" \in show => active' = {}
      /\ "menu" \in hide \ show => active' # {}
      /\ "menu" \in show \cup hide
      /\ \A p \in Panels :
            /\ p \in show => active' = {p}
            /\ p \in hide \ show => active' # {p}
            /\ p \notin show \cup hide => (active = {p} <=> active' = {p})
      /\ active' \in {{}} \cup {{i} : i \in Icons}
<1>2. PICK show, hide : fx' = Told(show, hide) /\ Agree(show, hide)
  <2>1. CASE Background
    <3>1. fx' = Told({"menu"}, Panels) /\ active' = {}
      BY <2>1 DEF Background
    <3>2. Agree({"menu"}, Panels)
      BY <3>1 DEF Icons
    <3> QED
      BY <3>1, <3>2
  <2>2. ASSUME NEW i \in Icons, HidePanel(i)
        PROVE  fx' = Told({"menu"}, {i}) /\ Agree({"menu"}, {i})
    <3>1. fx' = Told({"menu"}, {i}) /\ active = {i} /\ active' = {}
      BY <2>2 DEF HidePanel, TypeOK
    <3> QED
      BY <3>1 DEF Icons
  <2>3. ASSUME NEW i \in Icons, ShowPanel(i)
        PROVE  /\ fx' = Told({i}, {"menu"} \cup (Icons \ {i}))
               /\ Agree({i}, {"menu"} \cup (Icons \ {i}))
    <3>1. fx' = Told({i}, {"menu"} \cup (Icons \ {i})) /\ active' = {i}
      BY <2>3 DEF ShowPanel
    <3> QED
      BY <3>1 DEF Icons
  <2> HIDE DEF Agree
  <2> QED
    BY <2>1, <2>2, <2>3
<1>3. \A e \in Elements :
         /\ e \in show => Settles(e)' = TRUE
         /\ e \in hide \ show => Settles(e)' = FALSE
         /\ e \notin show \cup hide => Settles(e)' = Settles(e)
  <2>1. fx \in [Elements -> Seq(BOOLEAN)] /\ shown' = shown
    BY <1>1 DEF TypeOK
  <2> QED
    BY <1>2, <2>1, ToldSettles, Zenon
<1>4. Settles("menu")' <=> active' = {}
  BY <1>2, <1>3 DEF Elements
<1>5. ASSUME NEW p \in Panels PROVE Settles(p)' <=> active' = {p}
  BY <1>2, <1>3 DEF Elements
<1>6. \A e \in {"slide", "body", "overlay"} : Settles(e)' = Settles(e)
  BY <1>2, <1>3 DEF Elements
<1>7. TypeOK'
  BY <1>1, <1>2, ToldTypes DEF TypeOK
<1>8. /\ Settles("slide")' = Settles("slide") /\ Settles("body")' = Settles("body")
      /\ Settles("overlay")' = Settles("overlay")
  BY <1>6
<1>9. /\ Settles("slide")' = Settles("body")'
      /\ Settles("slide")' => Settles("overlay")'
      /\ ~enabled' /\ Settles("slide")' => early'
  BY <1>1, <1>8, Zenon
<1>10. ~due' => (enabled' <=> DocumentIsNarrow')
  BY <1>1 DEF DocumentIsNarrow
<1> QED
  BY <1>4, <1>5, <1>7, <1>9, <1>10, Zenon

\* The button, the link that closes the panel and destructor() move the panel
\* and the page together.
LEMMA SlidePreserves ==
  ASSUME SlideInv, Button \/ Close \/ Reload
  PROVE  SlideInv'
<1> USE DEF SlideInv
<1>1. CASE Button
  <2>1. /\ fx' = Told({"slide", "body", "overlay", "menu"}, Panels)
        /\ active' = {} /\ early' = ~enabled
        /\ UNCHANGED <<window, due, enabled, nav, shown, resizes>>
    BY <1>1 DEF Button
  <2>2. \A e \in Elements :
           /\ e \in {"slide", "body", "overlay", "menu"} => Settles(e)' = TRUE
           /\ e \in Panels \ {"slide", "body", "overlay", "menu"} =>
                 Settles(e)' = FALSE
    <3>1. fx \in [Elements -> Seq(BOOLEAN)] /\ shown' = shown
      BY <2>1 DEF TypeOK
    <3>2. ASSUME NEW show, NEW hide, fx' = Told(show, hide)
          PROVE  \A e \in Elements :
                    /\ e \in show => Settles(e)' = TRUE
                    /\ e \in hide \ show => Settles(e)' = FALSE
      BY <3>1, <3>2, ToldSettles, Zenon
    <3> QED
      BY <2>1, <3>2, Zenon
  <2>3. /\ Settles("slide")' = TRUE /\ Settles("body")' = TRUE
        /\ Settles("overlay")' = TRUE /\ Settles("menu")' = TRUE
    BY <2>2 DEF Elements
  <2>4. ASSUME NEW p \in Panels PROVE Settles(p)' = FALSE
    BY <2>2 DEF Elements, Icons
  <2>5. TypeOK'
    BY <2>1, ToldTypes DEF TypeOK
  <2> QED
    BY <2>1, <2>3, <2>4, <2>5 DEF DocumentIsNarrow
<1>2. ASSUME fx' = SlideOut, UNCHANGED <<window, active, shown, resizes>>,
             early' = FALSE, enabled' \in BOOLEAN, nav' \in {"top", "slide"},
             due' \in BOOLEAN, ~due' => (enabled' <=> DocumentIsNarrow)
      PROVE  SlideInv'
  <2>1. \A e \in Elements :
           /\ e \in {"slide", "body", "overlay"} => Settles(e)' = FALSE
           /\ e \notin {"slide", "body", "overlay"} => Settles(e)' = Settles(e)
    <3>1. fx \in [Elements -> Seq(BOOLEAN)] /\ shown' = shown
      BY <1>2 DEF TypeOK
    <3>2. ASSUME NEW show, NEW hide, fx' = Told(show, hide)
          PROVE  \A e \in Elements :
                    /\ e \in hide \ show => Settles(e)' = FALSE
                    /\ e \notin show \cup hide => Settles(e)' = Settles(e)
      BY <3>1, <3>2, ToldSettles, Zenon
    <3>3. fx' = Told({}, {"slide", "body", "overlay"})
      BY <1>2 DEF SlideOut
    <3>4. \A e \in Elements :
             /\ e \in {"slide", "body", "overlay"} \ {} => Settles(e)' = FALSE
             /\ e \notin {} \cup {"slide", "body", "overlay"} =>
                   Settles(e)' = Settles(e)
      BY <3>2, <3>3, Zenon
    <3> QED
      BY <3>4
  <2>2. Settles("slide")' = FALSE /\ Settles("body")' = FALSE
    BY <2>1 DEF Elements
  <2>3. \A e \in {"menu"} \cup Panels : Settles(e)' = Settles(e)
    BY <2>1 DEF Elements, Icons
  <2>4. TypeOK'
    BY <1>2, ToldTypes DEF SlideOut, TypeOK
  <2> QED
    BY <1>2, <2>2, <2>3, <2>4 DEF DocumentIsNarrow
<1>3. CASE Close
  BY <1>2, <1>3 DEF Close, TypeOK
<1>4. CASE Reload
  <2>1. CASE ~ DocumentIsNarrow /\ enabled
    BY <1>2, <1>4, <2>1 DEF Reload, Destruct
  <2>2. CASE DocumentIsNarrow \/ ~ enabled
    <3>1. /\ UNCHANGED <<window, active, shown, fx, early, resizes>>
          /\ due' = FALSE
          /\ enabled' = DocumentIsNarrow
          /\ enabled => enabled'
          /\ nav' \in {"top", "slide"}
      BY <1>4, <2>2 DEF Reload, Construct, Destruct, DocumentIsNarrow, TypeOK
    <3> QED
      BY <3>1 DEF TypeOK, Settles, DocumentIsNarrow
  <2> QED
    BY <2>1, <2>2
<1> QED
  BY <1>1, <1>3, <1>4

\* What the window and the effects do by themselves.
LEMMA OutsidePreserves ==
  ASSUME SlideInv,
         (\E w \in Widths : Resize(w)) \/ (\E e \in Elements : Finish(e))
  PROVE  SlideInv'
<1> USE DEF SlideInv
<1>1. ASSUME NEW w \in Widths, Resize(w)
      PROVE  SlideInv'
  BY <1>1 DEF Resize, TypeOK, Settles
<1>2. ASSUME NEW e \in Elements, Finish(e)
      PROVE  SlideInv'
  <2>1. /\ UNCHANGED <<window, due, enabled, nav, active, early, resizes>>
        /\ \A d \in Elements : Settles(d)' = Settles(d)
    BY <1>2, FinishSettles DEF Finish
  <2>2. TypeOK'
    <3>1. fx[e] \in Seq(BOOLEAN) /\ fx[e] # <<>>
      BY <1>2 DEF Finish, TypeOK
    <3>2. Head(fx[e]) \in BOOLEAN /\ Tail(fx[e]) \in Seq(BOOLEAN)
      BY <3>1, TailLast, Zenon
    <3> QED
      BY <1>2, <3>2 DEF Finish, TypeOK
  <2> QED
    BY <2>1, <2>2 DEF Elements, DocumentIsNarrow
<1> QED
  BY <1>1, <1>2

\* The invariant of the side panel holds in every state, however the clicks, the
\* resizes and the effects' ends mix.
THEOREM SlideInvariant == Spec => []SlideInv
<1>1. ASSUME SlideInv, [Next]_vars PROVE SlideInv'
  <2>1. CASE UNCHANGED vars
    BY <1>1, <2>1 DEF vars, SlideInv, TypeOK, Settles, DocumentIsNarrow
  <2> QED
    BY <1>1, <2>1, InsidePreserves, SlidePreserves, OutsidePreserves DEF Next
<1> QED
  BY <1>1, SlideInitInv, PTL DEF Spec

\* Type correctness of SideSlide.
THEOREM SlideTypeCorrect == Spec => []TypeOK
<1>1. SlideInv => TypeOK
  BY DEF SlideInv
<1> QED
  BY <1>1, SlideInvariant, PTL

\* Once the effects are over the panel and the shift of the page agree, and no
\* panel is open without the overlay.
THEOREM SlidesTogether == Spec => []SlideTogether
<1>1. SlideInv => SlideTogether
  BY DEF SlideInv, SlideTogether, AtRest, Settles
<1> QED
  BY <1>1, SlideInvariant, PTL

\* Once the effects are over the panel shows what its icons say.
THEOREM PanelsFollow == Spec => []PanelsFollowIcons
<1>1. SlideInv => PanelsFollowIcons
  BY DEF SlideInv, PanelsFollowIcons, AtRest, Settles
<1> QED
  BY <1>1, SlideInvariant, PTL

\* On a page that is wide and has handled it the panel rests closed, unless it
\* was opened before the menu had been moved into it.
THEOREM WideIsClosed == Spec => []WideClosed
<1>1. SlideInv => WideClosed
  BY DEF SlideInv, WideClosed, AtRest, Settles, DocumentIsNarrow
<1> QED
  BY <1>1, SlideInvariant, PTL
-----------------------------------------------------------------------------
(* MuffinMenu.                                                             *)

\* A handler that opens or shuts a submenu touches no other submenu.
LEMMA HandlerKeeps ==
  ASSUME MuffinInv, NEW i \in Items, Open(i) \/ Shut(i)
  PROVE  /\ hover' \subseteq Items /\ opened' \subseteq Items
         /\ fading' \in [Items -> Effects]
         /\ FadesFollowHover' /\ OpenedFollowsHover'
<1> USE DEF MuffinInv, MuffinTypes
<1>1. /\ fading' \in [Items -> Effects]
      /\ fading'[i] \in {"in", "out"}
      /\ fading'[i] = "in" <=> i \in hover'
      /\ \A j \in Items : j # i => /\ fading'[j] = fading[j]
                                   /\ j \in hover' <=> j \in hover
                                   /\ j \in opened' <=> j \in opened
      /\ hover' \subseteq Items /\ opened' \subseteq Items
  BY DEF Open, Shut, Stopped, Effects
<1> QED
  BY <1>1 DEF FadesFollowHover, OpenedFollowsHover

\* Each step keeps the effects and the classes in agreement.
LEMMA MuffinStep ==
  ASSUME MuffinInv, [MuffinNext]_muffinVars
  PROVE  MuffinInv'
<1> USE DEF MuffinInv, MuffinTypes
<1>1. CASE Relayout
  <2> PICK wide \in BOOLEAN : DoMenu(wide)
    BY <1>1 DEF Relayout
  <2>1. /\ UNCHANGED <<over, hover, opened, fading>> /\ hoverers < MaxBound
        /\ everMobile => everMobile'
        /\ desktop' \/ everMobile'
    BY <1>1, Zenon DEF Relayout, DoMenu
  <2>2. MuffinTypes'
    <3>1. CASE wide
      <4>1. desktop' = TRUE /\ hoverers' = hoverers + 1 /\ toggled' = toggled
        BY <3>1 DEF DoMenu
      <4>2. everMobile' \in BOOLEAN
        BY DEF DoMenu
      <4> QED
        BY <2>1, <4>1, <4>2
    <3>2. CASE ~wide
      <4>1. desktop' = FALSE /\ hoverers' = hoverers /\ toggled' = TRUE
        BY <3>2 DEF DoMenu
      <4>2. everMobile' \in BOOLEAN
        BY DEF DoMenu
      <4> QED
        BY <2>1, <4>1, <4>2
    <3> QED
      BY <3>1, <3>2
  <2> QED
    BY <2>1, <2>2 DEF FadesFollowHover, OpenedFollowsHover, OnlyPointedOpen
<1>2. ASSUME NEW i \in Items, Enter(i) \/ Leave(i) \/ Toggle(i) \/ Tap(i)
      PROVE  MuffinInv'
  <2>1. /\ UNCHANGED <<desktop, everMobile, hoverers, toggled>>
        /\ over' \subseteq Items
    BY <1>2 DEF Enter, Leave, Toggle, Tap
  <2>2. /\ hover' \subseteq Items /\ opened' \subseteq Items
        /\ fading' \in [Items -> Effects]
        /\ FadesFollowHover' /\ OpenedFollowsHover'
    <3>1. CASE Open(i) \/ Shut(i)
      BY <3>1, HandlerKeeps
    <3>2. CASE UNCHANGED <<hover, opened, fading>>
      BY <3>2 DEF FadesFollowHover, OpenedFollowsHover
    <3>3. CASE /\ hover' = hover \ {i}
               /\ opened' = Stopped(i) \cup {i}
               /\ fading' = [fading EXCEPT ![i] = "out"]
      BY <3>3 DEF Stopped, Effects, FadesFollowHover, OpenedFollowsHover
    <3> QED
      BY <1>2, <3>1, <3>2, <3>3 DEF Enter, Leave, Toggle, Tap
  <2>3. ~everMobile => hover' \subseteq over'
    BY <1>2 DEF Enter, Leave, Toggle, Tap, Open, Shut, OnlyPointedOpen
  <2> QED
    BY <2>1, <2>2, <2>3 DEF FadesFollowHover, OnlyPointedOpen
<1>3. ASSUME NEW i \in Items, EndFade(i)
      PROVE  MuffinInv'
  <2>1. /\ fading' \in [Items -> Effects] /\ fading'[i] = "none"
        /\ i \in opened' <=> i \in hover
        /\ \A j \in Items : j # i => /\ fading'[j] = fading[j]
                                     /\ j \in opened' <=> j \in opened
        /\ opened' \subseteq Items
    BY <1>3 DEF EndFade, Stopped, Effects, FadesFollowHover
  <2> QED
    BY <1>3, <2>1 DEF EndFade, FadesFollowHover, OpenedFollowsHover, OnlyPointedOpen
<1>4. CASE UNCHANGED muffinVars
  BY <1>4 DEF muffinVars, FadesFollowHover, OpenedFollowsHover, OnlyPointedOpen
<1> QED
  BY <1>1, <1>2, <1>3, <1>4 DEF MuffinNext

\* The invariant of the submenus holds in every state.
THEOREM MuffinInvariant == MuffinSpec => []MuffinInv
<1>1. ASSUME MuffinInit PROVE MuffinInv
  <2>1. MuffinTypes
    <3>1. /\ everMobile \in BOOLEAN /\ toggled \in BOOLEAN
          /\ ~desktop => toggled
      BY <1>1, Zenon DEF MuffinInit
    <3>2. /\ fading \in [Items -> Effects] /\ hoverers \in 0 .. MaxBound
          /\ desktop => hoverers > 0
      BY <1>1 DEF MuffinInit, Effects
    <3> QED
      BY <1>1, <3>1, <3>2, Zenon DEF MuffinInit, MuffinTypes
  <2>2. desktop \/ everMobile
    BY <1>1, Zenon DEF MuffinInit
  <2>3. FadesFollowHover /\ OpenedFollowsHover /\ OnlyPointedOpen
    BY <1>1 DEF MuffinInit, FadesFollowHover, OpenedFollowsHover, OnlyPointedOpen
  <2> QED
    BY <2>1, <2>2, <2>3 DEF MuffinInv
<1> QED
  BY <1>1, MuffinStep, PTL DEF MuffinSpec

\* A submenu at rest is on the screen exactly when its item has the class that
\* the next press of its button looks at, in any mixture of layouts.
THEOREM OpenedFollow == MuffinSpec => []OpenedFollowsHover
<1>1. MuffinInv => OpenedFollowsHover
  BY DEF MuffinInv
<1> QED
  BY <1>1, MuffinInvariant, PTL

\* On a page that was never narrow only the item under the mouse is open.
THEOREM OnlyPointed == MuffinSpec => []OnlyPointedOpen
<1>1. MuffinInv => OnlyPointedOpen
  BY DEF MuffinInv
<1> QED
  BY <1>1, MuffinInvariant, PTL
-----------------------------------------------------------------------------
(* ImageScale.                                                             *)

\* What the division leaves: Round() is within half of the quotient.
LEMMA RoundBounds ==
  ASSUME NEW a \in Nat, NEW b \in Nat \ {0}
  PROVE  /\ Round(a, b) \in Int
         /\ 2 * (Round(a, b) * b) <= 2 * a + b
         /\ 2 * a + b < 2 * (Round(a, b) * b) + 2 * b
<1> DEFINE n == 2 * a + b
           d == 2 * b
           q == n \div d
<1>1. n \in Nat /\ d \in Nat /\ d > 0
  OBVIOUS
<1> HIDE DEF n, d
<1>2. q \in Int /\ d * q <= n /\ n < d * q + d
  BY <1>1
<1> QED
  BY <1>2 DEF Round, n, d

Distance(x, y) == IF x - y < 0 THEN -(x - y) ELSE x - y

\* No other whole number is closer to a / b than Round(a, b).
LEMMA RoundIsClosest ==
  ASSUME NEW a \in Nat, NEW b \in Nat \ {0}, NEW y \in Int
  PROVE  Distance(a, Round(a, b) * b) <= Distance(a, y * b)
<1> PICK q : q = Round(a, b)
  OBVIOUS
<1>1. q \in Int /\ 2 * (q * b) <= 2 * a + b /\ 2 * a + b < 2 * (q * b) + 2 * b
  BY RoundBounds
<1>2. PICK p \in Int : p = q * b
  BY <1>1
<1>3. PICK r \in Int : r = y * b
  OBVIOUS
<1>4. y = q \/ r >= p + b \/ r <= p - b
  <2>1. ASSUME NEW k \in Nat PROVE k * b \in Nat
    OBVIOUS
  <2>2. CASE y >= q + 1
    <3>1. (y - q - 1) * b = r - p - b
      BY <1>1, <1>2, <1>3
    <3>2. y - q - 1 \in Nat
      BY <1>1, <2>2
    <3> QED
      BY <2>1, <3>1, <3>2
  <2>3. CASE y <= q - 1
    <3>1. (q - 1 - y) * b = p - b - r
      BY <1>1, <1>2, <1>3
    <3>2. q - 1 - y \in Nat
      BY <1>1, <2>3
    <3> QED
      BY <2>1, <3>1, <3>2
  <2>4. y = q \/ y >= q + 1 \/ y <= q - 1
    BY <1>1
  <2> QED
    BY <2>2, <2>3, <2>4
<1>5. Distance(a, p) <= Distance(a, r)
  BY <1>1, <1>2, <1>3, <1>4 DEF Distance
<1> QED
  BY <1>2, <1>3, <1>5

\* What is found at a path is of one kind only, and an error is not a size.
LEMMA FilesDiffer ==
  /\ Missing \notin Pictures /\ NotPicture \notin Pictures /\ Missing # NotPicture
  /\ Thrown # Null
  /\ \A x, y : Thrown # <<x, y>>
  /\ \A p \in Pictures : p # Null /\ p = <<p[1], p[2]>> /\ p[1] \in Nat /\ p[2] \in Nat
<1>1. Len(<<>>) = 0 /\ Len(<<"not a picture">>) = 1 /\ Len(<<"DivisionByZeroError">>) = 1
  OBVIOUS
<1>2. \A x, y : Len(<<x, y>>) = 2
  OBVIOUS
<1>3. \A p \in Pictures : Len(p) = 2 /\ p = <<p[1], p[2]>> /\ p[1] \in Nat /\ p[2] \in Nat
  BY DEF Pictures
<1>4. Missing \notin Pictures /\ NotPicture \notin Pictures /\ Missing # NotPicture
  BY <1>1, <1>3 DEF Missing, NotPicture
<1>5. Thrown # Null
  BY <1>1 DEF Thrown, Null
<1>6. \A x, y : Thrown # <<x, y>>
  BY <1>1, <1>2 DEF Thrown
<1>7. \A p \in Pictures : p # Null
  BY <1>1, <1>3 DEF Null
<1> QED
  BY <1>3, <1>4, <1>5, <1>6, <1>7

\* The invariant of the pictures holds in every state.
THEOREM ImageInvariant == ImageSpec => []ImageInv
<1>1. ImageInit => ImageInv
  BY DEF ImageInit, ImageInv, Calls
<1>2. ASSUME ImageInv, [ImageNext]_imageVars PROVE ImageInv'
  <2> USE <1>2 DEF ImageInv
  <2>1. CASE ConstructImage
    BY <2>1 DEF ConstructImage, Calls
  <2>2. CASE call = "none" /\ (ScaleDimensions \/ ScaleWidth \/ DivideByZero)
    <3>1. /\ UNCHANGED <<file, path, imageInfo>> /\ call' \in Calls
          /\ path <=> file # Missing
          /\ imageInfo = IF file \in Pictures THEN file ELSE Null
      BY <2>2 DEF ScaleDimensions, ScaleWidth, DivideByZero, Called, Calls
    <3>2. CASE file = Missing
      BY <2>2, <3>1, <3>2, FilesDiffer
         DEF ScaleDimensions, ScaleWidth, DivideByZero, Called, Scalable
    <3>3. CASE file = NotPicture
      <4>1. Width = 0 /\ Height = 0 /\ Longer = 0
        BY <3>1, <3>3, FilesDiffer DEF Width, Height, Longer
      <4> QED
        BY <2>2, <3>1, <3>3, <4>1, FilesDiffer
           DEF ScaleDimensions, ScaleWidth, DivideByZero, Called, Scalable
    <3>4. CASE file \in Pictures
      <4>1. /\ Width = file[1] /\ Height = file[2] /\ path
            /\ Width \in Nat /\ Height \in Nat
        BY <3>1, <3>4, FilesDiffer DEF Width, Height
      <4>2. ASSUME ScaleDimensions PROVE Scalable' /\ SizeIsRounded'
        BY <3>1, <3>4, <4>1, <4>2
           DEF ScaleDimensions, Called, Scalable, SizeIsRounded, Computed, Longer
      <4>3. ASSUME ScaleWidth PROVE Scalable' /\ SizeIsRounded'
        BY <3>1, <3>4, <4>1, <4>3 DEF ScaleWidth, Called, Scalable, SizeIsRounded, Computed
      <4>4. ASSUME DivideByZero PROVE ~ Scalable' /\ outputDim' = Thrown
        BY <3>1, <3>4, <4>1, <4>4 DEF DivideByZero, Called, Scalable, Longer
      <4> QED
        BY <2>2, <3>1, <3>4, <4>2, <4>3, <4>4, FilesDiffer
    <3> QED
      BY <3>1, <3>2, <3>3, <3>4
  <2>3. CASE UNCHANGED imageVars
    BY <2>3 DEF imageVars, SizeIsRounded, Computed, Scalable
  <2> QED
    BY <2>1, <2>2, <2>3
       DEF ImageNext, Shown, ScaleDimensions, ScaleWidth, DivideByZero, Called
<1> QED
  BY <1>1, <1>2, PTL DEF ImageSpec

\* Of the sizes with the same side at the maximum, the one that a page prints is
\* closest to the proportions of the picture, for pictures and boxes of any size; a
\* page ends without one just when its path leads to a file with no pixels to scale.
THEOREM ProportionsAreClosest == ImageSpec => []ClosestProportions
<1>1. ASSUME ImageInv, call \in Calls PROVE outputDim = Thrown <=> file # Missing /\ ~ Scalable
  <2>1. CASE file = Missing
    BY <1>1, <2>1, FilesDiffer DEF ImageInv
  <2>2. CASE Scalable
    BY <1>1, <2>2, FilesDiffer DEF ImageInv, SizeIsRounded, Scalable
  <2> QED
    BY <1>1, <2>1, <2>2 DEF ImageInv
<1>2. ASSUME ImageInv PROVE ClosestProportions
  <2> SUFFICES ASSUME call \in Calls, Scalable, NEW e \in {-1, 1}
               PROVE  Skew(outputDim) <= Skew([outputDim EXCEPT ![Computed] = @ + e])
    BY <1>1, <1>2 DEF ClosestProportions
  <2> PICK w \in Nat, h \in Nat : file = <<w, h>>
    BY FilesDiffer DEF Scalable
  <2>0. outputDim = IF Computed = 2 THEN <<MaxDim, Round(h * MaxDim, w)>>
                                    ELSE <<Round(w * MaxDim, h), MaxDim>>
    BY <1>2 DEF ImageInv, SizeIsRounded
  <2>1. /\ file[1] = w /\ file[2] = h
        /\ Computed = 2 => w \in Nat \ {0}
        /\ Computed = 1 => h \in Nat \ {0}
    BY DEF Scalable, Computed, Calls
  <2>2. h * MaxDim \in Nat /\ w * MaxDim \in Nat
    BY <2>1
  <2>3. CASE Computed = 2
    <3> PICK q : q = Round(h * MaxDim, w)
      OBVIOUS
    <3>1. outputDim = <<MaxDim, q>>
      BY <2>0, <2>3
    <3>2. q \in Int
      BY <2>1, <2>2, <2>3, RoundBounds
    <3>3. \A x \in Int : Skew(<<MaxDim, x>>) = Distance(h * MaxDim, x * w)
      BY <2>1 DEF Skew, Distance
    <3>4. [outputDim EXCEPT ![Computed] = @ + e] = <<MaxDim, q + e>>
      BY <2>3, <3>1
    <3>5. q + e \in Int /\ h * MaxDim \in Nat /\ w \in Nat \ {0}
      BY <2>1, <2>2, <2>3, <3>2
    <3>6. Distance(h * MaxDim, q * w) <= Distance(h * MaxDim, (q + e) * w)
      BY <3>5, RoundIsClosest
    <3> QED
      BY <3>1, <3>2, <3>3, <3>4, <3>5, <3>6
  <2>4. CASE Computed = 1
    <3> PICK q : q = Round(w * MaxDim, h)
      OBVIOUS
    <3>1. outputDim = <<q, MaxDim>>
      BY <2>0, <2>4
    <3>2. q \in Int
      BY <2>1, <2>2, <2>4, RoundBounds
    <3>3. \A x \in Int : Skew(<<x, MaxDim>>) = Distance(w * MaxDim, x * h)
      BY <2>1 DEF Skew, Distance
    <3>4. [outputDim EXCEPT ![Computed] = @ + e] = <<q + e, MaxDim>>
      BY <2>4, <3>1
    <3>5. q + e \in Int /\ w * MaxDim \in Nat /\ h \in Nat \ {0}
      BY <2>1, <2>2, <2>4, <3>2
    <3>6. Distance(w * MaxDim, q * h) <= Distance(w * MaxDim, (q + e) * h)
      BY <3>5, RoundIsClosest
    <3> QED
      BY <3>1, <3>2, <3>3, <3>4, <3>5, <3>6
  <2> QED
    BY <2>3, <2>4 DEF Computed
<1> QED
  BY <1>2, ImageInvariant, PTL
-----------------------------------------------------------------------------
(* Induction, and the folds that the definitions of WebText are.           *)

\* Induction on the naturals, the step stated of a set and not of an operator.
\* It follows from the well-founded order: a set without a least element is empty.
LEMMA NatInd ==
  ASSUME NEW T, 0 \in T, \A n \in Nat : n \in T => n + 1 \in T
  PROVE  Nat \subseteq T
<1> SUFFICES ASSUME NEW m \in Nat, m \notin T PROVE FALSE
  OBVIOUS
<1> DEFINE U == Nat \ T
<1>1. PICK x \in U : \A y \in U : ~ (<<y, x>> \in OpToRel(<, Nat))
  <2> U \subseteq Nat /\ U # {}
    OBVIOUS
  <2> HIDE DEF U
  <2> QED
    BY NatLessThanWellFounded, WFMin, Zenon
<1>2. x \in Nat /\ x # 0 /\ x - 1 \in Nat
  OBVIOUS
<1>3. x - 1 \in U
  OBVIOUS
<1>4. <<x - 1, x>> \in OpToRel(<, Nat)
  BY <1>2 DEF OpToRel
<1> QED
  BY <1>1, <1>3, <1>4

\* Induction on sequences, by appending, the step stated of a set as well.
LEMMA SeqInd ==
  ASSUME NEW S, NEW T, <<>> \in T,
         \A s \in Seq(S), e \in S : s \in T => Append(s, e) \in T
  PROVE  Seq(S) \subseteq T
<1> DEFINE N == {n \in Nat : \A s \in Seq(S) : Len(s) = n => s \in T}
<1>1. 0 \in N
  BY EmptySeq
<1>2. ASSUME NEW n \in Nat, n \in N PROVE n + 1 \in N
  <2> SUFFICES ASSUME NEW s \in Seq(S), Len(s) = n + 1 PROVE s \in T
    OBVIOUS
  <2>1. s # <<>>
    BY EmptySeq
  <2>2. PICK u \in Seq(S), e \in S : s = Append(u, e)
    BY <2>1, SequenceEmptyOrAppend, Zenon
  <2>3. Len(u) = n
    BY <2>2, AppendProperties
  <2> QED
    BY <1>2, <2>2, <2>3
<1> HIDE DEF N
<1>3. Nat \subseteq N
  BY <1>1, <1>2, NatInd, Zenon
<1> QED
  BY <1>3 DEF N

\* The functions a left fold may take: a value and an element give a value.
Steps(V, C) == [V \X C -> V]

\* A left fold by such a function.
Folded(G, b, s) == FoldLeft(LAMBDA v, c : G[<<v, c>>], b, s)

\* The recursion behind FoldLeft, over sets of positions, has F as its solution.
Unfolds(F, G, b, s) ==
  F = [t \in SUBSET DOMAIN s |-> IF t = {} THEN b ELSE G[<<F[t \ {Max(t)}], s[Max(t)]>>]]

\* The largest of some of the first k + 1 positions, if the last is among them.
LEMMA MaxOfPrefix ==
  ASSUME NEW k \in Nat, NEW t \in SUBSET (1 .. k + 1), k + 1 \in t
  PROVE  Max(t) = k + 1
<1>1. \A y \in t : k + 1 >= y
  OBVIOUS
<1>2. Max(t) \in t /\ \A y \in t : Max(t) >= y
  BY <1>1, Zenon DEF Max
<1>3. PICK m : m = Max(t)
  OBVIOUS
<1>4. m \in 1 .. k + 1 /\ m >= k + 1
  BY <1>2, <1>3
<1> QED
  BY <1>3, <1>4

\* Some of the first k positions have a largest one.
LEMMA PrefixMax ==
  ASSUME NEW k \in Nat
  PROVE  \A t \in SUBSET (1 .. k) : t # {} => Max(t) \in t
<1> DEFINE N == {n \in Nat : \A t \in SUBSET (1 .. n) : t # {} => Max(t) \in t}
<1>1. 0 \in N
  <2>1. 1 .. 0 = {}
    OBVIOUS
  <2> QED
    BY <2>1
<1>2. ASSUME NEW n \in Nat, n \in N PROVE n + 1 \in N
  <2> SUFFICES ASSUME NEW t \in SUBSET (1 .. n + 1), t # {} PROVE Max(t) \in t
    OBVIOUS
  <2>1. CASE n + 1 \in t
    BY <2>1, MaxOfPrefix
  <2>2. CASE n + 1 \notin t
    <3>1. t \in SUBSET (1 .. n)
      BY <2>2
    <3> QED
      BY <1>2, <3>1
  <2> QED
    BY <2>1, <2>2
<1> HIDE DEF N
<1>3. Nat \subseteq N
  BY <1>1, <1>2, NatInd, Zenon
<1> QED
  BY <1>3 DEF N

\* The recursion behind FoldLeft has a solution, built one position at a time.
LEMMA FoldExists ==
  ASSUME NEW V, NEW C, NEW G \in Steps(V, C), NEW b \in V, NEW s \in Seq(C)
  PROVE  \E F : Unfolds(F, G, b, s)
<1> DEFINE Body(F, t) == IF t = {} THEN b ELSE G[<<F[t \ {Max(t)}], s[Max(t)]>>]
           N == {n \in Nat : n <= Len(s) =>
                   \E F : F = [t \in SUBSET (1 .. n) |-> Body(F, t)]}
<1>0. DOMAIN s = 1 .. Len(s) /\ Len(s) \in Nat
  OBVIOUS
<1>1. 0 \in N
  <2>1. 1 .. 0 = {} /\ SUBSET {} = {{}}
    OBVIOUS
  <2> DEFINE F == [t \in {{}} |-> b]
  <2>2. F = [t \in SUBSET (1 .. 0) |-> Body(F, t)]
    BY <2>1
  <2> QED
    BY <2>2
<1>2. ASSUME NEW n \in Nat, n \in N PROVE n + 1 \in N
  <2> SUFFICES ASSUME n + 1 <= Len(s)
               PROVE  \E F : F = [t \in SUBSET (1 .. n + 1) |-> Body(F, t)]
    <3>1. n + 1 \in Nat
      OBVIOUS
    <3> QED
      BY <3>1, Zenon
  <2>1. PICK F : F = [t \in SUBSET (1 .. n) |-> Body(F, t)]
    <3>1. n <= Len(s)
      BY <1>0
    <3> QED
      BY <1>2, <3>1, Zenon
  <2> DEFINE E == [t \in SUBSET (1 .. n + 1) |->
                     IF n + 1 \in t THEN G[<<F[t \ {n + 1}], s[n + 1]>>] ELSE F[t]]
  <2>2. ASSUME NEW t \in SUBSET (1 .. n + 1)
        PROVE  E[t] = Body(E, t)
    <3>1. CASE n + 1 \in t
      <4>1. Max(t) = n + 1 /\ t # {}
        BY <3>1, MaxOfPrefix
      <4>2. t \ {n + 1} \in SUBSET (1 .. n + 1) /\ n + 1 \notin t \ {n + 1}
        OBVIOUS
      <4>3. E[t \ {n + 1}] = F[t \ {n + 1}]
        BY <4>2
      <4>4. E[t] = G[<<F[t \ {n + 1}], s[n + 1]>>]
        BY <3>1
      <4> HIDE DEF E
      <4> QED
        BY <4>1, <4>3, <4>4
    <3>2. CASE n + 1 \notin t
      <4>1. t \in SUBSET (1 .. n)
        BY <3>2
      <4>2. E[t] = F[t]
        BY <3>2
      <4>3. F[t] = Body(F, t)
        BY <2>1, <4>1
      <4>4. ASSUME NEW m PROVE E[t \ {m}] = F[t \ {m}]
        BY <3>2
      <4> HIDE DEF E
      <4> QED
        BY <4>2, <4>3, <4>4
    <3> QED
      BY <3>1, <3>2
  <2>3. E = [t \in SUBSET (1 .. n + 1) |-> Body(E, t)]
    <3> DEFINE D == [t \in SUBSET (1 .. n + 1) |-> Body(E, t)]
    <3>1. ASSUME NEW t \in SUBSET (1 .. n + 1) PROVE E[t] = D[t]
      BY <2>2
    <3>2. DOMAIN E = SUBSET (1 .. n + 1) /\ DOMAIN D = SUBSET (1 .. n + 1)
      OBVIOUS
    <3>3. E = [t \in SUBSET (1 .. n + 1) |-> E[t]]
      OBVIOUS
    <3> HIDE DEF Body
    <3> QED
      BY <2>2
  <2> QED
    BY <2>3
<1> HIDE DEF N
<1>3. Nat \subseteq N
  BY <1>1, <1>2, NatInd, Zenon
<1>4. Len(s) \in N /\ Len(s) <= Len(s)
  BY <1>0, <1>3
<1>5. \E F : F = [t \in SUBSET (1 .. Len(s)) |-> Body(F, t)]
  BY <1>4, Zenon DEF N
<1> QED
  BY <1>0, <1>5, Zenon DEF Unfolds

\* What a recursion over sets of positions computes agrees with a fold wherever it
\* has the right type so far.
Parts(it, V, G, b, s) ==
  /\ it[{}] = b
  /\ \A t \in SUBSET (1 .. Len(s)) :
        t # {} /\ it[t \ {Max(t)}] \in V =>
           it[t] = G[<<it[t \ {Max(t)}], s[Max(t)]>>]

\* A recursion that agrees with the fold in that sense ends in the fold's value.
LEMMA FoldedByParts ==
  ASSUME NEW V, NEW C, NEW G \in Steps(V, C), NEW b \in V, NEW s \in Seq(C), NEW it,
         Parts(it, V, G, b, s)
  PROVE  /\ it[1 .. Len(s)] \in V
         /\ it[1 .. Len(s)] = Folded(G, b, s)
<1>1. PICK F : Unfolds(F, G, b, s)
  BY FoldExists, Zenon
<1> DEFINE f[t \in SUBSET DOMAIN s] ==
             IF t = {} THEN b ELSE G[<<f[t \ {Max(t)}], s[Max(t)]>>]
<1>2. Unfolds(f, G, b, s)
  BY <1>1, Zenon DEF Unfolds
<1>3. Folded(G, b, s) = f[DOMAIN s]
  BY Zenon DEF Folded, FoldLeft, MapThenFoldSet
<1>4. DOMAIN s = 1 .. Len(s) /\ Len(s) \in Nat
  OBVIOUS
<1> HIDE DEF f
<1>5. /\ f[{}] = b
      /\ \A t \in SUBSET (1 .. Len(s)) : t # {} =>
            f[t] = G[<<f[t \ {Max(t)}], s[Max(t)]>>]
  BY <1>2, <1>4 DEF Unfolds
<1> DEFINE N == {n \in Nat : n <= Len(s) => it[1 .. n] \in V /\ it[1 .. n] = f[1 .. n]}
<1>6. 0 \in N
  <2>1. 1 .. 0 = {}
    OBVIOUS
  <2> QED
    BY <1>5, <2>1 DEF Parts
<1>7. ASSUME NEW n \in Nat, n \in N PROVE n + 1 \in N
  <2> SUFFICES ASSUME n + 1 <= Len(s)
               PROVE  it[1 .. n + 1] \in V /\ it[1 .. n + 1] = f[1 .. n + 1]
    OBVIOUS
  <2> DEFINE t == 1 .. n + 1
  <2>1. t \in SUBSET (1 .. Len(s)) /\ t # {} /\ Max(t) = n + 1 /\ t \ {n + 1} = 1 .. n
    <3>1. t \in SUBSET (1 .. n + 1) /\ n + 1 \in t /\ t \ {n + 1} = 1 .. n
      OBVIOUS
    <3>2. Max(t) = n + 1
      BY <3>1, MaxOfPrefix
    <3>3. t \in SUBSET (1 .. Len(s))
      BY <1>4
    <3> QED
      BY <3>1, <3>2, <3>3, Zenon
  <2>2. it[1 .. n] \in V /\ it[1 .. n] = f[1 .. n]
    BY <1>4, <1>7
  <2>3. it[t] = G[<<it[1 .. n], s[n + 1]>>] /\ f[t] = G[<<f[1 .. n], s[n + 1]>>]
    <3> HIDE DEF t
    <3> QED
      BY <1>5, <2>1, <2>2 DEF Parts
  <2>4. s[n + 1] \in C
    BY <1>4
  <2>5. <<it[1 .. n], s[n + 1]>> \in V \X C
    BY <2>2, <2>4
  <2> QED
    BY <2>2, <2>3, <2>5 DEF Steps
<1> HIDE DEF N
<1>8. Nat \subseteq N
  BY <1>6, <1>7, NatInd, Zenon
<1> QED
  BY <1>3, <1>4, <1>8 DEF N

\* A fold over nothing.
LEMMA FoldedEmpty ==
  ASSUME NEW V, NEW C, NEW G \in Steps(V, C), NEW b \in V
  PROVE  Folded(G, b, <<>>) = b
<1>1. ASSUME NEW s \in Seq(C), Len(s) = 0
      PROVE  Folded(G, b, s) = b
  <2>0. PICK it : it = [t \in {{}} |-> b]
    OBVIOUS
  <2>1. 1 .. Len(s) = {} /\ it[{}] = b
    BY <1>1, <2>0
  <2>2. \A t \in SUBSET (1 .. Len(s)) : t # {} => FALSE
    BY <2>1
  <2>3. Parts(it, V, G, b, s)
    BY <2>1, <2>2, Zenon DEF Parts
  <2>4. it[1 .. Len(s)] = Folded(G, b, s)
    BY <2>3, FoldedByParts
  <2> QED
    BY <2>1, <2>4
<1> QED
  BY <1>1, EmptySeq

\* One element more is one more step of the fold.
LEMMA FoldedAppend ==
  ASSUME NEW V, NEW C, NEW G \in Steps(V, C), NEW b \in V,
         NEW s \in Seq(C), NEW c \in C
  PROVE  /\ Folded(G, b, s) \in V
         /\ Folded(G, b, Append(s, c)) = G[<<Folded(G, b, s), c>>]
<1> DEFINE u == Append(s, c)
           n == Len(s)
<1>1. /\ u \in Seq(C) /\ Len(u) = n + 1 /\ n \in Nat
      /\ u[n + 1] = c /\ \A i \in 1 .. n : u[i] = s[i]
      /\ DOMAIN u = 1 .. n + 1
  OBVIOUS
<1> HIDE DEF u
<1>2. PICK F : Unfolds(F, G, b, u)
  BY <1>1, FoldExists, Zenon
<1>3. /\ F[{}] = b
      /\ \A t \in SUBSET (1 .. n + 1) : t # {} =>
            F[t] = G[<<F[t \ {Max(t)}], u[Max(t)]>>]
  BY <1>1, <1>2 DEF Unfolds
<1>4. Folded(G, b, u) = F[1 .. n + 1]
  <2>1. Parts(F, V, G, b, u)
    BY <1>1, <1>3, Zenon DEF Parts
  <2> QED
    BY <1>1, <2>1, FoldedByParts
<1>5. F[1 .. n] = Folded(G, b, s) /\ F[1 .. n] \in V
  <2>1. ASSUME NEW t \in SUBSET (1 .. n), t # {}
        PROVE  F[t] = G[<<F[t \ {Max(t)}], s[Max(t)]>>]
    <3>1. Max(t) \in t
      BY <1>1, <2>1, PrefixMax, Zenon
    <3>2. t \in SUBSET (1 .. n + 1) /\ Max(t) \in 1 .. n
      <4>1. 1 .. n \subseteq 1 .. n + 1
        BY <1>1
      <4> QED
        BY <3>1, <4>1, Zenon
    <3>3. u[Max(t)] = s[Max(t)]
      BY <1>1, <3>2
    <3>4. F[t] = G[<<F[t \ {Max(t)}], u[Max(t)]>>]
      BY <1>3, <2>1, <3>2, Zenon
    <3> QED
      BY <3>3, <3>4
  <2>2. Parts(F, V, G, b, s)
    BY <1>3, <2>1, Zenon DEF Parts
  <2> QED
    BY <2>2, FoldedByParts
<1>6. F[1 .. n + 1] = G[<<F[1 .. n], c>>]
  <2> DEFINE t == 1 .. n + 1
  <2>1. t \in SUBSET (1 .. n + 1) /\ n + 1 \in t /\ t \ {n + 1} = 1 .. n
    BY <1>1
  <2>2. Max(t) = n + 1 /\ t # {}
    BY <1>1, <2>1, MaxOfPrefix
  <2> HIDE DEF t
  <2>3. F[t] = G[<<F[t \ {Max(t)}], u[Max(t)]>>]
    BY <1>3, <2>1, <2>2, Zenon
  <2> QED
    BY <1>1, <2>1, <2>2, <2>3 DEF t
<1> QED
  BY <1>4, <1>5, <1>6 DEF u

\* What the recursion takes from a part of a sequence: its last element and the
\* rest.
LEMMA LastOfPart ==
  ASSUME NEW C, NEW s \in Seq(C)
  PROVE  \A t \in SUBSET (1 .. Len(s)) : t # {} =>
            /\ s[Max(t)] \in C
            /\ t \ {Max(t)} \in SUBSET (1 .. Len(s))
<1> SUFFICES ASSUME NEW t \in SUBSET (1 .. Len(s)), t # {}
             PROVE  /\ s[Max(t)] \in C
                    /\ t \ {Max(t)} \in SUBSET (1 .. Len(s))
  OBVIOUS
<1>1. Len(s) \in Nat /\ \A i \in 1 .. Len(s) : s[i] \in C
  OBVIOUS
<1>2. Max(t) \in t
  BY <1>1, PrefixMax, Zenon
<1> QED
  BY <1>1, <1>2, Zenon

\* The solution of the recursion has the type of its steps.
LEMMA UnfoldsTyped ==
  ASSUME NEW V, NEW C, NEW G \in Steps(V, C), NEW b \in V, NEW s \in Seq(C), NEW F,
         Unfolds(F, G, b, s)
  PROVE  \A t \in SUBSET (1 .. Len(s)) :
            /\ F[t] \in V
            /\ t # {} => F[t \ {Max(t)}] \in V /\ s[Max(t)] \in C
<1>1. DOMAIN s = 1 .. Len(s) /\ Len(s) \in Nat
  OBVIOUS
<1>2. /\ F[{}] = b
      /\ \A t \in SUBSET (1 .. Len(s)) : t # {} =>
            F[t] = G[<<F[t \ {Max(t)}], s[Max(t)]>>]
  BY <1>1 DEF Unfolds
<1>3. ASSUME NEW v \in V, NEW c \in C PROVE G[<<v, c>>] \in V
  BY DEF Steps
<1>4. \A t \in SUBSET (1 .. Len(s)) : t # {} =>
         s[Max(t)] \in C /\ t \ {Max(t)} \in SUBSET (1 .. Len(s))
  BY LastOfPart
<1> DEFINE N == {n \in Nat : n <= Len(s) => \A t \in SUBSET (1 .. n) : F[t] \in V}
<1>5. 0 \in N
  <2>1. 1 .. 0 = {}
    OBVIOUS
  <2> QED
    BY <1>2, <2>1
<1>6. ASSUME NEW n \in Nat, n \in N PROVE n + 1 \in N
  <2> SUFFICES ASSUME n + 1 <= Len(s), NEW t \in SUBSET (1 .. n + 1)
               PROVE  F[t] \in V
    OBVIOUS
  <2>1. \A u \in SUBSET (1 .. n) : F[u] \in V
    BY <1>1, <1>6
  <2>2. CASE n + 1 \in t
    <3>1. Max(t) = n + 1 /\ t # {} /\ t \in SUBSET (1 .. Len(s))
      BY <1>1, <2>2, MaxOfPrefix
    <3>2. t \ {n + 1} \in SUBSET (1 .. n)
      OBVIOUS
    <3>3. F[t] = G[<<F[t \ {n + 1}], s[n + 1]>>] /\ s[n + 1] \in C
      BY <1>2, <1>4, <3>1, Zenon
    <3>4. F[t \ {n + 1}] \in V
      BY <2>1, <3>2, Zenon
    <3> QED
      BY <1>3, <3>3, <3>4, Zenon
  <2>3. CASE n + 1 \notin t
    <3>1. t \in SUBSET (1 .. n)
      BY <2>3
    <3> QED
      BY <2>1, <3>1, Zenon
  <2> QED
    BY <2>2, <2>3
<1> HIDE DEF N
<1>7. Nat \subseteq N
  BY <1>5, <1>6, NatInd, Zenon
<1>8. \A t \in SUBSET (1 .. Len(s)) : F[t] \in V
  <2>1. Len(s) \in N /\ Len(s) <= Len(s)
    BY <1>1, <1>7
  <2> QED
    BY <2>1, Zenon DEF N
<1> QED
  BY <1>4, <1>8, Zenon

\* So has the fold.
LEMMA FoldedType ==
  ASSUME NEW V, NEW C, NEW G \in Steps(V, C), NEW b \in V, NEW s \in Seq(C)
  PROVE  Folded(G, b, s) \in V
<1>1. PICK F : Unfolds(F, G, b, s)
  BY FoldExists, Zenon
<1>2. DOMAIN s = 1 .. Len(s)
  OBVIOUS
<1>3. Parts(F, V, G, b, s)
  BY <1>1, <1>2 DEF Parts, Unfolds
<1>4. F[1 .. Len(s)] \in V /\ F[1 .. Len(s)] = Folded(G, b, s)
  BY <1>3, FoldedByParts
<1> QED
  BY <1>4

\* Appending to the second of two sequences appends to both together.
LEMMA ConcatAppend ==
  ASSUME NEW C, NEW s \in Seq(C), NEW t \in Seq(C), NEW c \in C
  PROVE  s \o Append(t, c) = Append(s \o t, c)
<1>1. <<c>> \in Seq(C) /\ s \o t \in Seq(C)
  OBVIOUS
<1>2. Append(t, c) = t \o <<c>> /\ Append(s \o t, c) = (s \o t) \o <<c>>
  BY <1>1, AppendIsConcat
<1> QED
  BY <1>1, <1>2, ConcatAssociative

\* A fold over two sequences is a fold over the second that starts from the first.
LEMMA FoldedConcat ==
  ASSUME NEW V, NEW C, NEW G \in Steps(V, C), NEW b \in V, NEW s \in Seq(C)
  PROVE  \A t \in Seq(C) : Folded(G, b, s \o t) = Folded(G, Folded(G, b, s), t)
<1> DEFINE v == Folded(G, b, s)
           T == {t \in Seq(C) : Folded(G, b, s \o t) = Folded(G, v, t)}
<1>0. v \in V
  BY FoldedType
<1> HIDE DEF v
<1>1. <<>> \in T
  <2>1. <<>> \in Seq(C) /\ s \o <<>> = s
    BY EmptySeq, ConcatEmptySeq
  <2>2. Folded(G, v, <<>>) = v
    BY <1>0, FoldedEmpty
  <2> QED
    BY <2>1, <2>2, Zenon DEF v
<1>2. ASSUME NEW t \in Seq(C), NEW c \in C, t \in T
      PROVE  Append(t, c) \in T
  <2>1. s \o t \in Seq(C) /\ Append(t, c) \in Seq(C)
    OBVIOUS
  <2>2. s \o Append(t, c) = Append(s \o t, c)
    BY ConcatAppend
  <2>3. Folded(G, b, Append(s \o t, c)) = G[<<Folded(G, b, s \o t), c>>]
    <3>1. ASSUME NEW q \in Seq(C)
          PROVE  Folded(G, b, Append(q, c)) = G[<<Folded(G, b, q), c>>]
      BY FoldedAppend
    <3> QED
      BY <2>1, <3>1
  <2>4. Folded(G, v, Append(t, c)) = G[<<Folded(G, v, t), c>>]
    BY <1>0, FoldedAppend
  <2>5. Folded(G, b, s \o t) = Folded(G, v, t)
    BY <1>2
  <2> QED
    BY <2>1, <2>2, <2>3, <2>4, <2>5
<1>3. Seq(C) \subseteq T
  <2> HIDE DEF T
  <2> QED
    BY <1>1, <1>2, SeqInd, Zenon
<1> QED
  BY <1>3 DEF v
-----------------------------------------------------------------------------
(* The folds of WebText.                                                   *)

\* What a tagged text is made of.
Tokens == Characters \cup Tags

\* One step of WordsOf.
WordStep == [p \in Seq(Words) \X Tokens |-> IF p[2] \in Words THEN Append(p[1], p[2]) ELSE p[1]]

\* It is a step of a fold.
LEMMA WordStepType == WordStep \in Steps(Seq(Words), Tokens)
BY DEF WordStep, Steps

\* WordsOf is a fold.
LEMMA WordsOfFolded ==
  ASSUME NEW s \in Seq(Tokens)
  PROVE  WordsOf(s) = Folded(WordStep, <<>>, s)
<1> DEFINE f[t \in SUBSET DOMAIN s] ==
             IF t = {} THEN <<>>
             ELSE IF s[Max(t)] \in Words THEN Append(f[t \ {Max(t)}], s[Max(t)])
                  ELSE f[t \ {Max(t)}]
<1>1. WordsOf(s) = f[DOMAIN s]
  BY Zenon DEF WordsOf, FoldLeft, MapThenFoldSet
<1>2. /\ DOMAIN s = 1 .. Len(s) /\ <<>> \in Seq(Words)
      /\ \A t \in SUBSET (1 .. Len(s)) : t # {} => s[Max(t)] \in Tokens
  BY LastOfPart
<1>3. PICK F : Unfolds(F, WordStep, <<>>, s)
  BY <1>2, WordStepType, FoldExists, Zenon
<1>4. F = [t \in SUBSET DOMAIN s |->
             IF t = {} THEN <<>>
             ELSE IF s[Max(t)] \in Words THEN Append(F[t \ {Max(t)}], s[Max(t)])
                  ELSE F[t \ {Max(t)}]]
  <2>1. \A t \in SUBSET (1 .. Len(s)) : t # {} =>
           F[t \ {Max(t)}] \in Seq(Words) /\ s[Max(t)] \in Tokens
    BY <1>2, <1>3, WordStepType, UnfoldsTyped
  <2> QED
    BY <1>2, <1>3, <2>1 DEF Unfolds, WordStep
<1>5. f = [t \in SUBSET DOMAIN s |->
             IF t = {} THEN <<>>
             ELSE IF s[Max(t)] \in Words THEN Append(f[t \ {Max(t)}], s[Max(t)])
                  ELSE f[t \ {Max(t)}]]
  BY <1>4, Zenon
<1> HIDE DEF f
<1>6. Parts(f, Seq(Words), WordStep, <<>>, s)
  <2>1. f[{}] = <<>>
    BY <1>5
  <2>2. ASSUME NEW t \in SUBSET (1 .. Len(s)), t # {}, f[t \ {Max(t)}] \in Seq(Words)
        PROVE  f[t] = WordStep[<<f[t \ {Max(t)}], s[Max(t)]>>]
    BY <1>2, <1>5, <2>2 DEF WordStep
  <2> QED
    BY <2>1, <2>2, Zenon DEF Parts
<1>7. f[1 .. Len(s)] = Folded(WordStep, <<>>, s)
  <2>1. ASSUME NEW it, NEW b \in Seq(Words), Parts(it, Seq(Words), WordStep, b, s)
        PROVE  it[1 .. Len(s)] = Folded(WordStep, b, s)
    BY <2>1, WordStepType, FoldedByParts
  <2> QED
    BY <1>2, <1>6, <2>1
<1> QED
  BY <1>1, <1>2, <1>7, Zenon

\* Where a tagged text can be.
Depths == {"top", "p", "ul", "li", "bad"}

\* One step of the nesting.
NestStep == [p \in Depths \X Tokens |-> Nest(p[1], p[2])]

\* It is a step of a fold.
LEMMA NestStepType == NestStep \in Steps(Depths, Tokens)
BY DEF NestStep, Steps, Nest, Depths

\* The nesting of a text, as WellNested states it, is a fold.
LEMMA NestFolded ==
  ASSUME NEW s \in Seq(Tokens)
  PROVE  FoldLeft(Nest, "top", s) = Folded(NestStep, "top", s)
<1> DEFINE f[t \in SUBSET DOMAIN s] ==
             IF t = {} THEN "top" ELSE Nest(f[t \ {Max(t)}], s[Max(t)])
<1>1. FoldLeft(Nest, "top", s) = f[DOMAIN s]
  BY Zenon DEF FoldLeft, MapThenFoldSet
<1>2. /\ DOMAIN s = 1 .. Len(s) /\ "top" \in Depths
      /\ \A t \in SUBSET (1 .. Len(s)) : t # {} => s[Max(t)] \in Tokens
  BY LastOfPart DEF Depths
<1>3. PICK F : Unfolds(F, NestStep, "top", s)
  BY <1>2, NestStepType, FoldExists, Zenon
<1>4. F = [t \in SUBSET DOMAIN s |->
             IF t = {} THEN "top" ELSE Nest(F[t \ {Max(t)}], s[Max(t)])]
  <2>1. \A t \in SUBSET (1 .. Len(s)) : t # {} =>
           F[t \ {Max(t)}] \in Depths /\ s[Max(t)] \in Tokens
    BY <1>2, <1>3, NestStepType, UnfoldsTyped
  <2> QED
    BY <1>2, <1>3, <2>1 DEF Unfolds, NestStep
<1>5. f = [t \in SUBSET DOMAIN s |->
             IF t = {} THEN "top" ELSE Nest(f[t \ {Max(t)}], s[Max(t)])]
  BY <1>4, Zenon
<1> HIDE DEF f
<1>6. Parts(f, Depths, NestStep, "top", s)
  <2>1. f[{}] = "top"
    BY <1>5
  <2>2. ASSUME NEW t \in SUBSET (1 .. Len(s)), t # {}, f[t \ {Max(t)}] \in Depths
        PROVE  f[t] = NestStep[<<f[t \ {Max(t)}], s[Max(t)]>>]
    BY <1>2, <1>5, <2>2 DEF NestStep
  <2> QED
    BY <2>1, <2>2, Zenon DEF Parts
<1>7. f[1 .. Len(s)] = Folded(NestStep, "top", s)
  <2>1. ASSUME NEW it, NEW b \in Depths, Parts(it, Depths, NestStep, b, s)
        PROVE  it[1 .. Len(s)] = Folded(NestStep, b, s)
    BY <2>1, NestStepType, FoldedByParts
  <2> QED
    BY <1>2, <1>6, <2>1
<1> QED
  BY <1>1, <1>2, <1>7, Zenon

\* A sequence that is not empty is its front and its last element.
LEMMA FrontLast ==
  ASSUME NEW S, NEW s \in Seq(S), s # <<>>
  PROVE  /\ Front(s) \in Seq(S) /\ Last(s) \in S
         /\ s = Append(Front(s), Last(s))
<1>1. PICK u \in Seq(S), e \in S : s = Append(u, e)
  BY SequenceEmptyOrAppend, Zenon
<1>2. Last(s) = e
  BY <1>1 DEF Last
<1>3. Front(s) = u
  <2>1. Len(s) - 1 = Len(u) /\ Len(u) \in Nat
    BY <1>1
  <2>2. Front(s) \in Seq(S) /\ Len(Front(s)) = Len(u)
        /\ \A i \in 1 .. Len(u) : Front(s)[i] = u[i]
    BY <1>1, <2>1 DEF Front
  <2> QED
    BY <2>2, SeqEqual
<1> QED
  BY <1>1, <1>2, <1>3

\* What Split makes: there is always a part, an empty one of an empty text.
Splits == Seq(Seq(Characters)) \ {<<>>}

\* One step of Split.
SplitOnce(parts, c) ==
  IF c = LF /\ Last(parts) # <<>> /\ Last(Last(parts)) = LF
  THEN Front(parts) \o <<Front(Last(parts)), <<>>>>
  ELSE Append(Front(parts), Append(Last(parts), c))

\* The same as a function.
SplitStep == [p \in Splits \X Characters |-> SplitOnce(p[1], p[2])]

\* It is a step of a fold.
LEMMA SplitStepType == SplitStep \in Steps(Splits, Characters)
<1>1. ASSUME NEW parts \in Splits, NEW c \in Characters
      PROVE  SplitOnce(parts, c) \in Splits
  <2>1. Front(parts) \in Seq(Seq(Characters)) /\ Last(parts) \in Seq(Characters)
    BY FrontLast DEF Splits
  <2>2. CASE c = LF /\ Last(parts) # <<>> /\ Last(Last(parts)) = LF
    <3>1. Front(Last(parts)) \in Seq(Characters)
      BY <2>1, <2>2, FrontLast
    <3>2. <<Front(Last(parts)), <<>>>> \in Seq(Seq(Characters))
      BY <3>1
    <3> QED
      BY <2>1, <2>2, <3>2 DEF SplitOnce, Splits
  <2>3. CASE ~ (c = LF /\ Last(parts) # <<>> /\ Last(Last(parts)) = LF)
    <3>1. Append(Last(parts), c) \in Seq(Characters)
      BY <2>1
    <3> QED
      BY <2>1, <2>3, <3>1 DEF SplitOnce, Splits
  <2> QED
    BY <2>2, <2>3
<1> QED
  BY <1>1 DEF SplitStep, Steps

\* Split is a fold.
LEMMA SplitFolded ==
  ASSUME NEW s \in Seq(Characters)
  PROVE  Split(s) = Folded(SplitStep, <<<<>>>>, s)
<1> DEFINE f[t \in SUBSET DOMAIN s] ==
             IF t = {} THEN <<<<>>>> ELSE SplitOnce(f[t \ {Max(t)}], s[Max(t)])
<1>1. Split(s) = f[DOMAIN s]
  BY Zenon DEF Split, SplitOnce, FoldLeft, MapThenFoldSet
<1>2. /\ DOMAIN s = 1 .. Len(s) /\ <<<<>>>> \in Splits
      /\ \A t \in SUBSET (1 .. Len(s)) : t # {} => s[Max(t)] \in Characters
  BY LastOfPart DEF Splits
<1>3. PICK F : Unfolds(F, SplitStep, <<<<>>>>, s)
  BY <1>2, SplitStepType, FoldExists, Zenon
<1>4. F = [t \in SUBSET DOMAIN s |->
             IF t = {} THEN <<<<>>>> ELSE SplitOnce(F[t \ {Max(t)}], s[Max(t)])]
  <2>1. \A t \in SUBSET (1 .. Len(s)) : t # {} =>
           F[t \ {Max(t)}] \in Splits /\ s[Max(t)] \in Characters
    BY <1>2, <1>3, SplitStepType, UnfoldsTyped
  <2> QED
    BY <1>2, <1>3, <2>1 DEF Unfolds, SplitStep
<1>5. f = [t \in SUBSET DOMAIN s |->
             IF t = {} THEN <<<<>>>> ELSE SplitOnce(f[t \ {Max(t)}], s[Max(t)])]
  BY <1>4, Zenon
<1> HIDE DEF f
<1>6. Parts(f, Splits, SplitStep, <<<<>>>>, s)
  <2>1. f[{}] = <<<<>>>>
    BY <1>5
  <2>2. ASSUME NEW t \in SUBSET (1 .. Len(s)), t # {}, f[t \ {Max(t)}] \in Splits
        PROVE  f[t] = SplitStep[<<f[t \ {Max(t)}], s[Max(t)]>>]
    BY <1>2, <1>5, <2>2 DEF SplitStep
  <2> QED
    BY <2>1, <2>2, Zenon DEF Parts
<1>7. f[1 .. Len(s)] = Folded(SplitStep, <<<<>>>>, s)
  <2>1. ASSUME NEW it, NEW b \in Splits, Parts(it, Splits, SplitStep, b, s)
        PROVE  it[1 .. Len(s)] = Folded(SplitStep, b, s)
    BY <2>1, SplitStepType, FoldedByParts
  <2> QED
    BY <1>2, <1>6, <2>1
<1> QED
  BY <1>1, <1>2, <1>7, Zenon
-----------------------------------------------------------------------------
(* The words of a text.                                                    *)

\* A text is made of tokens, and no word is one of the characters that the methods
\* look for or write.
LEMMA CharactersAreTokens ==
  /\ Seq(Characters) \subseteq Seq(Tokens)
  /\ Words \cap ({CR, LF, Space, Star} \cup Tags) = {}
  /\ Characters \cap Tags = {}
<1>1. {CR, LF, Space, Star} \cap Tags = {}
  BY DEF CR, LF, Space, Star, Tags
<1> QED
  BY <1>1, WebTextAssumption, SeqMonotonic DEF Characters, Tokens

\* The words of a text with one token more.
LEMMA WordsOfAppend ==
  ASSUME NEW s \in Seq(Tokens), NEW c \in Tokens
  PROVE  /\ WordsOf(s) \in Seq(Words)
         /\ WordsOf(Append(s, c)) =
               IF c \in Words THEN Append(WordsOf(s), c) ELSE WordsOf(s)
<1>1. Append(s, c) \in Seq(Tokens) /\ <<>> \in Seq(Words)
  OBVIOUS
<1>2. WordsOf(s) = Folded(WordStep, <<>>, s)
      /\ WordsOf(Append(s, c)) = Folded(WordStep, <<>>, Append(s, c))
  BY <1>1, WordsOfFolded
<1>3. /\ Folded(WordStep, <<>>, s) \in Seq(Words)
      /\ Folded(WordStep, <<>>, Append(s, c)) = WordStep[<<Folded(WordStep, <<>>, s), c>>]
  <2>1. ASSUME NEW b \in Seq(Words)
        PROVE  /\ Folded(WordStep, b, s) \in Seq(Words)
               /\ Folded(WordStep, b, Append(s, c)) =
                     WordStep[<<Folded(WordStep, b, s), c>>]
    BY WordStepType, FoldedAppend
  <2> QED
    BY <1>1, <2>1
<1> QED
  BY <1>2, <1>3 DEF WordStep

\* Nothing has no words.
LEMMA WordsOfEmpty == WordsOf(<<>>) = <<>>
<1>1. <<>> \in Seq(Tokens) /\ <<>> \in Seq(Words)
  OBVIOUS
<1> QED
  BY <1>1, WordsOfFolded, WordStepType, FoldedEmpty

\* The words of a text are words.
LEMMA WordsOfType ==
  ASSUME NEW s \in Seq(Tokens)
  PROVE  WordsOf(s) \in Seq(Words)
<1>1. "<p>" \in Tokens
  BY DEF Tokens, Tags
<1> QED
  BY <1>1, WordsOfAppend

\* The words of two texts, one after the other.
LEMMA WordsOfConcat ==
  ASSUME NEW s \in Seq(Tokens)
  PROVE  \A t \in Seq(Tokens) : WordsOf(s \o t) = WordsOf(s) \o WordsOf(t)
<1> DEFINE T == {t \in Seq(Tokens) : WordsOf(s \o t) = WordsOf(s) \o WordsOf(t)}
<1>1. <<>> \in T
  <2>1. <<>> \in Seq(Tokens) /\ s \o <<>> = s
    BY EmptySeq, ConcatEmptySeq
  <2>2. WordsOf(s) \o <<>> = WordsOf(s)
    BY WordsOfType, ConcatEmptySeq
  <2> QED
    BY <2>1, <2>2, WordsOfEmpty
<1>2. ASSUME NEW t \in Seq(Tokens), NEW c \in Tokens, t \in T
      PROVE  Append(t, c) \in T
  <2>1. s \o t \in Seq(Tokens) /\ Append(t, c) \in Seq(Tokens)
    OBVIOUS
  <2>2. s \o Append(t, c) = Append(s \o t, c)
    BY ConcatAppend
  <2>3. WordsOf(s \o t) = WordsOf(s) \o WordsOf(t)
    BY <1>2
  <2>4. WordsOf(s) \in Seq(Words) /\ WordsOf(t) \in Seq(Words)
    BY WordsOfType
  <2>5. CASE c \in Words
    <3>1. /\ WordsOf(Append(s \o t, c)) = Append(WordsOf(s \o t), c)
          /\ WordsOf(Append(t, c)) = Append(WordsOf(t), c)
      BY <2>1, <2>5, WordsOfAppend
    <3>2. WordsOf(s) \o Append(WordsOf(t), c) = Append(WordsOf(s) \o WordsOf(t), c)
      BY <2>4, <2>5, ConcatAppend
    <3> QED
      BY <2>1, <2>2, <2>3, <3>1, <3>2
  <2>6. CASE c \notin Words
    <3>1. /\ WordsOf(Append(s \o t, c)) = WordsOf(s \o t)
          /\ WordsOf(Append(t, c)) = WordsOf(t)
      BY <2>1, <2>6, WordsOfAppend
    <3> QED
      BY <2>1, <2>2, <2>3, <3>1
  <2> QED
    BY <2>5, <2>6
<1>3. Seq(Tokens) \subseteq T
  <2> HIDE DEF T
  <2> QED
    BY <1>1, <1>2, SeqInd, Zenon
<1> QED
  BY <1>3

\* A text whose tokens are none of them words has no words.
LEMMA NoWords ==
  \A s \in Seq(Tokens) : (\A i \in 1 .. Len(s) : s[i] \notin Words) => WordsOf(s) = <<>>
<1> DEFINE T == {s \in Seq(Tokens) : (\A i \in 1 .. Len(s) : s[i] \notin Words) =>
                                        WordsOf(s) = <<>>}
<1>1. <<>> \in T
  BY WordsOfEmpty
<1>2. ASSUME NEW s \in Seq(Tokens), NEW c \in Tokens, s \in T
      PROVE  Append(s, c) \in T
  <2>1. Append(s, c) \in Seq(Tokens)
    OBVIOUS
  <2> SUFFICES ASSUME \A i \in 1 .. Len(Append(s, c)) : Append(s, c)[i] \notin Words
               PROVE  WordsOf(Append(s, c)) = <<>>
    BY <2>1
  <2>2. /\ Len(Append(s, c)) = Len(s) + 1 /\ Len(s) \in Nat
        /\ Append(s, c)[Len(s) + 1] = c
        /\ \A i \in 1 .. Len(s) : Append(s, c)[i] = s[i]
    OBVIOUS
  <2>3. c \notin Words /\ \A i \in 1 .. Len(s) : s[i] \notin Words
    BY <2>2
  <2>4. WordsOf(s) = <<>>
    BY <1>2, <2>3
  <2> QED
    BY <2>3, <2>4, WordsOfAppend
<1>3. Seq(Tokens) \subseteq T
  <2> HIDE DEF T
  <2> QED
    BY <1>1, <1>2, SeqInd, Zenon
<1> QED
  BY <1>3

\* str_replace() of one token by one token, position by position.
LEMMA ReplaceAllParts ==
  ASSUME NEW S, NEW s \in Seq(S), NEW a, NEW b \in S
  PROVE  /\ ReplaceAll(s, a, b) \in Seq(S)
         /\ Len(ReplaceAll(s, a, b)) = Len(s)
         /\ \A i \in 1 .. Len(s) :
               ReplaceAll(s, a, b)[i] = IF s[i] = a THEN b ELSE s[i]
BY DEF ReplaceAll

\* The same with one token more.
LEMMA ReplaceAllAppend ==
  ASSUME NEW S, NEW s \in Seq(S), NEW c \in S, NEW a, NEW b \in S
  PROVE  ReplaceAll(Append(s, c), a, b) =
            Append(ReplaceAll(s, a, b), IF c = a THEN b ELSE c)
<1> DEFINE d == IF c = a THEN b ELSE c
           l == ReplaceAll(Append(s, c), a, b)
           r == Append(ReplaceAll(s, a, b), d)
<1>1. d \in S /\ Append(s, c) \in Seq(S) /\ Len(s) \in Nat
      /\ Len(Append(s, c)) = Len(s) + 1 /\ Append(s, c)[Len(s) + 1] = c
      /\ \A i \in 1 .. Len(s) : Append(s, c)[i] = s[i]
  OBVIOUS
<1>2. /\ l \in Seq(S) /\ Len(l) = Len(s) + 1
      /\ \A i \in 1 .. Len(s) + 1 :
            l[i] = IF Append(s, c)[i] = a THEN b ELSE Append(s, c)[i]
  <2>1. ASSUME NEW q \in Seq(S)
        PROVE  /\ ReplaceAll(q, a, b) \in Seq(S)
               /\ Len(ReplaceAll(q, a, b)) = Len(q)
               /\ \A i \in 1 .. Len(q) :
                     ReplaceAll(q, a, b)[i] = IF q[i] = a THEN b ELSE q[i]
    BY ReplaceAllParts
  <2> HIDE DEF l, r
  <2> QED
    BY <1>1, <2>1 DEF l
<1>3. /\ ReplaceAll(s, a, b) \in Seq(S) /\ Len(ReplaceAll(s, a, b)) = Len(s)
      /\ \A i \in 1 .. Len(s) : ReplaceAll(s, a, b)[i] = IF s[i] = a THEN b ELSE s[i]
  BY ReplaceAllParts
<1>4. /\ r \in Seq(S) /\ Len(r) = Len(s) + 1 /\ r[Len(s) + 1] = d
      /\ \A i \in 1 .. Len(s) : r[i] = ReplaceAll(s, a, b)[i]
  BY <1>1, <1>3
<1> HIDE DEF l, r
<1>5. \A i \in 1 .. Len(s) + 1 : l[i] = r[i]
  BY <1>1, <1>2, <1>3, <1>4
<1>6. l = r
  BY <1>2, <1>4, <1>5, SeqEqual
<1> QED
  BY <1>6 DEF l, r

\* Replacing what is no word by what is no word keeps the words.
LEMMA WordsOfReplaced ==
  ASSUME NEW a, a \notin Words, NEW b \in Tokens, b \notin Words
  PROVE  \A s \in Seq(Tokens) : WordsOf(ReplaceAll(s, a, b)) = WordsOf(s)
<1> DEFINE T == {s \in Seq(Tokens) : WordsOf(ReplaceAll(s, a, b)) = WordsOf(s)}
<1>1. <<>> \in T
  BY DEF ReplaceAll
<1>2. ASSUME NEW s \in Seq(Tokens), NEW c \in Tokens, s \in T
      PROVE  Append(s, c) \in T
  <2>1. PICK d \in Tokens : d = IF c = a THEN b ELSE c
    OBVIOUS
  <2>2. d \in Words <=> c \in Words
    BY <2>1
  <2>3. d \in Words => d = c
    BY <2>1
  <2>4. ReplaceAll(Append(s, c), a, b) = Append(ReplaceAll(s, a, b), d)
    BY <2>1, ReplaceAllAppend
  <2>5. ReplaceAll(s, a, b) \in Seq(Tokens) /\ Append(s, c) \in Seq(Tokens)
    BY ReplaceAllParts
  <2>6. WordsOf(Append(ReplaceAll(s, a, b), d)) =
           IF d \in Words THEN Append(WordsOf(ReplaceAll(s, a, b)), d)
           ELSE WordsOf(ReplaceAll(s, a, b))
    BY <2>5, WordsOfAppend
  <2>7. WordsOf(Append(s, c)) = IF c \in Words THEN Append(WordsOf(s), c) ELSE WordsOf(s)
    BY WordsOfAppend
  <2>8. WordsOf(ReplaceAll(s, a, b)) = WordsOf(s)
    BY <1>2
  <2> QED
    BY <2>2, <2>3, <2>4, <2>5, <2>6, <2>7, <2>8
<1>3. Seq(Tokens) \subseteq T
  <2> HIDE DEF T
  <2> QED
    BY <1>1, <1>2, SeqInd, Zenon
<1> QED
  BY <1>3
-----------------------------------------------------------------------------
(* The line ends.                                                          *)

\* ReplaceWindows keeps position i of s.
Kept(s, i) == ~ (s[i] = CR /\ i < Len(s) /\ s[i + 1] = LF)

\* One step of UnixEnds.
UnixStep(s) ==
  [p \in Seq(Characters) \X (1 .. Len(s)) |->
     IF Kept(s, p[2]) THEN Append(p[1], s[p[2]]) ELSE p[1]]

\* It is a step of a fold.
LEMMA UnixStepType ==
  ASSUME NEW s \in Seq(Characters)
  PROVE  UnixStep(s) \in Steps(Seq(Characters), 1 .. Len(s))
<1>1. \A i \in 1 .. Len(s) : s[i] \in Characters
  OBVIOUS
<1> QED
  BY <1>1 DEF UnixStep, Steps

\* The positions up to k, in order.
UpTo(k) == [i \in 1 .. k |-> i]

\* UnixEnds is a fold over the positions of the text.
LEMMA UnixEndsFolded ==
  ASSUME NEW s \in Seq(Characters)
  PROVE  UnixEnds(s) = Folded(UnixStep(s), <<>>, UpTo(Len(s)))
<1> DEFINE u == [i \in DOMAIN s |-> i]
           V == Seq(Characters)
           Grown(g, t) == IF ~ (s[u[Max(t)]] = CR /\ u[Max(t)] < Len(s)
                                   /\ s[u[Max(t)] + 1] = LF)
                          THEN Append(g[t \ {Max(t)}], s[u[Max(t)]])
                          ELSE g[t \ {Max(t)}]
           f[t \in SUBSET DOMAIN u] == IF t = {} THEN <<>> ELSE Grown(f, t)
<1>1. UnixEnds(s) = f[DOMAIN u]
  BY Zenon DEF UnixEnds, FoldLeftDomain, FoldLeft, MapThenFoldSet
<1>2. /\ u = UpTo(Len(s)) /\ u \in Seq(1 .. Len(s)) /\ Len(u) = Len(s)
      /\ DOMAIN u = 1 .. Len(u) /\ <<>> \in V
  BY DEF UpTo
<1> HIDE DEF u, V
<1>3. \A t \in SUBSET (1 .. Len(u)) : t # {} => u[Max(t)] \in 1 .. Len(s)
  BY <1>2, LastOfPart
<1>4. UnixStep(s) \in Steps(V, 1 .. Len(s))
  BY UnixStepType DEF V
<1>5. \A g : \A t \in SUBSET (1 .. Len(u)) : t # {} /\ g[t \ {Max(t)}] \in V =>
         Grown(g, t) = UnixStep(s)[<<g[t \ {Max(t)}], u[Max(t)]>>]
  BY <1>3 DEF UnixStep, Kept, V
<1> HIDE DEF Grown
<1>6. PICK F : Unfolds(F, UnixStep(s), <<>>, u)
  BY <1>2, <1>4, FoldExists, Zenon
<1>7. F = [t \in SUBSET DOMAIN u |-> IF t = {} THEN <<>> ELSE Grown(F, t)]
  <2>1. \A t \in SUBSET (1 .. Len(u)) : t # {} => F[t \ {Max(t)}] \in V
    BY <1>2, <1>4, <1>6, UnfoldsTyped
  <2>2. \A t \in SUBSET (1 .. Len(u)) : t # {} =>
           Grown(F, t) = UnixStep(s)[<<F[t \ {Max(t)}], u[Max(t)]>>]
    BY <1>5, <2>1, Zenon
  <2> QED
    BY <1>2, <1>6, <2>2 DEF Unfolds
<1>8. f = [t \in SUBSET DOMAIN u |-> IF t = {} THEN <<>> ELSE Grown(f, t)]
  BY <1>7, Zenon
<1> HIDE DEF f
<1>9. Parts(f, V, UnixStep(s), <<>>, u)
  <2>1. f[{}] = <<>>
    BY <1>8
  <2>2. ASSUME NEW t \in SUBSET (1 .. Len(u)), t # {}, f[t \ {Max(t)}] \in V
        PROVE  f[t] = UnixStep(s)[<<f[t \ {Max(t)}], u[Max(t)]>>]
    <3>1. f[t] = Grown(f, t)
      BY <1>2, <1>8, <2>2
    <3> QED
      BY <1>5, <2>2, <3>1, Zenon
  <2> QED
    BY <2>1, <2>2, Zenon DEF Parts
<1>10. f[1 .. Len(u)] = Folded(UnixStep(s), <<>>, u)
  <2>1. ASSUME NEW b \in V, Parts(f, V, UnixStep(s), b, u)
        PROVE  f[1 .. Len(u)] = Folded(UnixStep(s), b, u)
    BY <1>2, <1>4, <2>1, FoldedByParts
  <2> QED
    BY <1>2, <1>9, <2>1
<1> QED
  BY <1>1, <1>2, <1>10, Zenon

\* A line of s ends at i.
LineEnd(s, i) == s[i] = LF \/ (s[i] = CR /\ (i = Len(s) \/ s[i + 1] # LF))

\* The positions of a text that hold a line end character.
Breaks(u) == {j \in 1 .. Len(u) : u[j] \in {CR, LF}}

\* One character more is one line end more, or none.
LEMMA BreaksAppend ==
  ASSUME NEW u \in Seq(Characters), NEW c \in Characters
  PROVE  /\ IsFiniteSet(Breaks(u))
         /\ Cardinality(Breaks(u)) \in Nat
         /\ Cardinality(Breaks(Append(u, c))) =
               IF c \in {CR, LF} THEN Cardinality(Breaks(u)) + 1
               ELSE Cardinality(Breaks(u))
<1>1. IsFiniteSet(Breaks(u))
  <2>1. IsFiniteSet(1 .. Len(u)) /\ Breaks(u) \in SUBSET (1 .. Len(u))
    BY FS_Interval DEF Breaks
  <2> QED
    BY <2>1, FS_Subset, Zenon
<1>2. /\ Len(Append(u, c)) = Len(u) + 1 /\ Len(u) \in Nat
      /\ Append(u, c)[Len(u) + 1] = c
      /\ \A i \in 1 .. Len(u) : Append(u, c)[i] = u[i]
  OBVIOUS
<1>3. CASE c \in {CR, LF}
  <2>1. Breaks(Append(u, c)) = Breaks(u) \cup {Len(u) + 1}
    BY <1>2, <1>3 DEF Breaks
  <2>2. Len(u) + 1 \notin Breaks(u)
    BY <1>2 DEF Breaks
  <2> QED
    BY <1>1, <1>3, <2>1, <2>2, FS_AddElement, FS_CardinalityType
<1>4. CASE c \notin {CR, LF}
  <2>1. Breaks(Append(u, c)) = Breaks(u)
    BY <1>2, <1>4 DEF Breaks
  <2> QED
    BY <1>1, <1>4, <2>1, FS_CardinalityType
<1> QED
  BY <1>3, <1>4

\* One position more is one line end more, or none.
LEMMA LineEndsUpTo ==
  ASSUME NEW s, NEW k \in Nat
  PROVE  LET E(n) == {i \in 1 .. n : LineEnd(s, i)}
         IN  /\ Cardinality(E(0)) = 0
             /\ Cardinality(E(k)) \in Nat
             /\ Cardinality(E(k + 1)) =
                   IF LineEnd(s, k + 1) THEN Cardinality(E(k)) + 1 ELSE Cardinality(E(k))
<1> DEFINE E(n) == {i \in 1 .. n : LineEnd(s, i)}
<1>1. IsFiniteSet(E(k))
  <2>1. IsFiniteSet(1 .. k) /\ E(k) \in SUBSET (1 .. k)
    BY FS_Interval
  <2> QED
    BY <2>1, FS_Subset, Zenon
<1>2. E(0) = {}
  OBVIOUS
<1>3. CASE LineEnd(s, k + 1)
  <2>1. E(k + 1) = E(k) \cup {k + 1} /\ k + 1 \notin E(k)
    BY <1>3
  <2> HIDE DEF E
  <2>2. Cardinality(E(k + 1)) = Cardinality(E(k)) + 1
    BY <1>1, <2>1, FS_AddElement
  <2> QED
    BY <1>1, <1>2, <1>3, <2>2, FS_CardinalityType, FS_EmptySet DEF E
<1>4. CASE ~ LineEnd(s, k + 1)
  <2>1. E(k + 1) = E(k)
    BY <1>4
  <2> QED
    BY <1>1, <1>2, <1>4, <2>1, FS_CardinalityType, FS_EmptySet
<1> QED
  BY <1>3, <1>4

\* The first k + 1 elements are the first k and one more.
LEMMA SubSeqAppend ==
  ASSUME NEW S, NEW s \in Seq(S), NEW k \in Nat, k + 1 <= Len(s)
  PROVE  /\ SubSeq(s, 1, k) \in Seq(S) /\ s[k + 1] \in S
         /\ SubSeq(s, 1, k + 1) = Append(SubSeq(s, 1, k), s[k + 1])
<1>1. k + 1 \in 1 .. Len(s) /\ 1 \in 1 .. Len(s) /\ k + 1 - 1 = k /\ k + 1 \in 1 .. Len(s)
  OBVIOUS
<1>2. SubSeq(s, 1, k + 1) = SubSeq(s, 1, k) \o <<s[k + 1]>>
  <2>1. \A n \in 1 .. Len(s) : SubSeq(s, 1, n) = SubSeq(s, 1, n - 1) \o <<s[n]>>
    BY SubSeqRecursiveSecond
  <2> QED
    BY <1>1, <2>1
<1>3. SubSeq(s, 1, k) \in Seq(S) /\ s[k + 1] \in S
  <2>1. \A i \in 1 .. k : s[i] \in S
    OBVIOUS
  <2> QED
    BY <1>1, <2>1, SubSeqProperties
<1> QED
  BY <1>2, <1>3, AppendIsConcat

\* After k positions UnixEnds has kept the words of the first k, and a CR or LF for
\* each line that ended there.
LEMMA UnixRun ==
  ASSUME NEW s \in Seq(Characters)
  PROVE  \A k \in 0 .. Len(s) :
           LET r == Folded(UnixStep(s), <<>>, UpTo(k))
           IN  /\ r \in Seq(Characters)
               /\ WordsOf(r) = WordsOf(SubSeq(s, 1, k))
               /\ Cardinality(Breaks(r)) = Cardinality({i \in 1 .. k : LineEnd(s, i)})
<1> DEFINE r(k) == Folded(UnixStep(s), <<>>, UpTo(k))
           P(k) == /\ r(k) \in Seq(Characters)
                   /\ WordsOf(r(k)) = WordsOf(SubSeq(s, 1, k))
                   /\ Cardinality(Breaks(r(k))) = Cardinality({i \in 1 .. k : LineEnd(s, i)})
           N == {k \in Nat : k <= Len(s) => P(k)}
<1>1. Len(s) \in Nat /\ <<>> \in Seq(Characters)
  OBVIOUS
<1>2. UnixStep(s) \in Steps(Seq(Characters), 1 .. Len(s))
  BY UnixStepType
<1>3. 0 \in N
  <2>1. UpTo(0) = <<>> /\ SubSeq(s, 1, 0) = <<>>
    BY DEF UpTo
  <2>2. r(0) = <<>>
    <3>1. ASSUME NEW V, NEW C, NEW G \in Steps(V, C), NEW b \in V
          PROVE  Folded(G, b, <<>>) = b
      BY FoldedEmpty
    <3>2. Folded(UnixStep(s), <<>>, <<>>) = <<>>
      BY <1>1, <1>2, <3>1, Zenon
    <3> QED
      BY <2>1, <3>2
  <2>3. Breaks(<<>>) = {} /\ {i \in 1 .. 0 : LineEnd(s, i)} = {}
    BY DEF Breaks
  <2> QED
    BY <1>1, <2>1, <2>2, <2>3
<1>4. ASSUME NEW k \in Nat, k \in N PROVE k + 1 \in N
  <2> SUFFICES ASSUME k + 1 <= Len(s) PROVE P(k + 1)
    OBVIOUS
  <2>1. P(k)
    BY <1>1, <1>4
  <2>2. r(k + 1) = UnixStep(s)[<<r(k), k + 1>>]
    <3>1. UpTo(k) \in Seq(1 .. Len(s)) /\ k + 1 \in 1 .. Len(s)
      BY <1>1 DEF UpTo
    <3>2. UpTo(k + 1) = Append(UpTo(k), k + 1)
      BY DEF UpTo
    <3>3. ASSUME NEW b \in Seq(Characters), NEW q \in Seq(1 .. Len(s)), NEW c \in 1 .. Len(s)
          PROVE  Folded(UnixStep(s), b, Append(q, c)) = UnixStep(s)[<<Folded(UnixStep(s), b, q), c>>]
      BY <1>2, FoldedAppend
    <3> QED
      BY <1>1, <3>1, <3>2, <3>3
  <2> DEFINE c == s[k + 1]
  <2>3. /\ SubSeq(s, 1, k) \in Seq(Characters) /\ c \in Characters
        /\ SubSeq(s, 1, k + 1) = Append(SubSeq(s, 1, k), c)
    BY SubSeqAppend
  <2>4. /\ Kept(s, k + 1) => r(k + 1) = Append(r(k), c)
        /\ ~ Kept(s, k + 1) => r(k + 1) = r(k)
    <3>1. k + 1 \in 1 .. Len(s)
      OBVIOUS
    <3> QED
      BY <2>1, <2>2, <3>1 DEF UnixStep
  <2>5. WordsOf(r(k + 1)) = WordsOf(SubSeq(s, 1, k + 1))
    <3>1. r(k) \in Seq(Tokens) /\ SubSeq(s, 1, k) \in Seq(Tokens) /\ c \in Tokens
      BY <2>1, <2>3, CharactersAreTokens DEF Tokens
    <3>2. /\ WordsOf(Append(r(k), c)) = IF c \in Words THEN Append(WordsOf(r(k)), c) ELSE WordsOf(r(k))
          /\ WordsOf(Append(SubSeq(s, 1, k), c)) =
                IF c \in Words THEN Append(WordsOf(SubSeq(s, 1, k)), c)
                ELSE WordsOf(SubSeq(s, 1, k))
      BY <3>1, WordsOfAppend
    <3>3. ~ Kept(s, k + 1) => c \notin Words
      BY CharactersAreTokens DEF Kept
    <3> HIDE DEF c, r
    <3> QED
      BY <2>1, <2>3, <2>4, <3>2, <3>3
  <2>6. Cardinality(Breaks(r(k + 1))) = Cardinality({i \in 1 .. k + 1 : LineEnd(s, i)})
    <3>1. LineEnd(s, k + 1) <=> Kept(s, k + 1) /\ c \in {CR, LF}
      BY <1>1 DEF Kept, LineEnd, CR, LF
    <3>2. Cardinality(Breaks(Append(r(k), c))) =
             IF c \in {CR, LF} THEN Cardinality(Breaks(r(k))) + 1
             ELSE Cardinality(Breaks(r(k)))
      BY <2>1, <2>3, BreaksAppend
    <3>3. Cardinality({i \in 1 .. k + 1 : LineEnd(s, i)}) =
             IF LineEnd(s, k + 1) THEN Cardinality({i \in 1 .. k : LineEnd(s, i)}) + 1
             ELSE Cardinality({i \in 1 .. k : LineEnd(s, i)})
      BY LineEndsUpTo
    <3> HIDE DEF c, r
    <3> QED
      BY <2>1, <2>4, <3>1, <3>2, <3>3
  <2>7. r(k + 1) \in Seq(Characters)
    <3>1. ASSUME NEW q \in Seq(Characters) PROVE Append(q, c) \in Seq(Characters)
      BY <2>3
    <3> HIDE DEF c, r
    <3> QED
      BY <2>1, <2>4, <3>1
  <2> QED
    BY <2>5, <2>6, <2>7
<1> HIDE DEF N
<1>5. Nat \subseteq N
  BY <1>3, <1>4, NatInd, Zenon
<1> QED
  BY <1>1, <1>5 DEF N

\* ReplaceWindows keeps the words, and every CR and LF it leaves ends a line.
LEMMA UnixEndsKeep ==
  ASSUME NEW s \in Seq(Characters)
  PROVE  /\ UnixEnds(s) \in Seq(Characters)
         /\ WordsOf(UnixEnds(s)) = WordsOf(s)
         /\ Cardinality(Breaks(UnixEnds(s))) = LineEnds(s)
<1>1. Len(s) \in 0 .. Len(s) /\ SubSeq(s, 1, Len(s)) = s
  BY SubSeqFull
<1>2. UnixEnds(s) = Folded(UnixStep(s), <<>>, UpTo(Len(s)))
  BY UnixEndsFolded
<1>3. LineEnds(s) = Cardinality({i \in 1 .. Len(s) : LineEnd(s, i)})
  BY DEF LineEnds, LineEnd
<1> QED
  BY <1>1, <1>2, <1>3, UnixRun

\* ReplaceMac keeps the words, leaves no CR, and an LF for each CR and LF.
LEMMA MacEndsKeep ==
  ASSUME NEW s \in Seq(Characters)
  PROVE  /\ ReplaceAll(s, CR, LF) \in Seq(Characters)
         /\ WordsOf(ReplaceAll(s, CR, LF)) = WordsOf(s)
         /\ CR \notin Range(ReplaceAll(s, CR, LF))
         /\ LineEnds(ReplaceAll(s, CR, LF)) = Cardinality(Breaks(s))
<1> DEFINE r == ReplaceAll(s, CR, LF)
<1>1. LF \in Characters /\ CR # LF
  BY DEF Characters, CR, LF
<1>2. /\ r \in Seq(Characters) /\ Len(r) = Len(s)
      /\ \A i \in 1 .. Len(s) : r[i] = IF s[i] = CR THEN LF ELSE s[i]
  BY <1>1, ReplaceAllParts
<1>3. WordsOf(r) = WordsOf(s)
  <2>1. s \in Seq(Tokens) /\ CR \notin Words /\ LF \in Tokens /\ LF \notin Words
    BY <1>1, CharactersAreTokens DEF Tokens
  <2> QED
    BY <2>1, WordsOfReplaced
<1> HIDE DEF r
<1>4. \A i \in 1 .. Len(r) : r[i] # CR
  BY <1>1, <1>2
<1>5. CR \notin Range(r)
  BY <1>2, <1>4, RangeEquality
<1>6. LineEnds(r) = Cardinality(Breaks(s))
  <2>1. {i \in 1 .. Len(r) : r[i] = LF \/ (r[i] = CR /\ (i = Len(r) \/ r[i + 1] # LF))}
           = {i \in 1 .. Len(s) : s[i] \in {CR, LF}}
    BY <1>2, <1>4
  <2> QED
    BY <2>1 DEF LineEnds, Breaks
<1> QED
  BY <1>2, <1>3, <1>5, <1>6 DEF r
-----------------------------------------------------------------------------
(* The paragraphs.                                                         *)

\* The words of one paragraph after those of the paragraphs before it.
JoinStep == [p \in Seq(Words) \X Seq(Characters) |-> p[1] \o WordsOf(p[2])]

\* The words of a sequence of paragraphs.
Joined(ps) == Folded(JoinStep, <<>>, ps)

\* It is a step of a fold.
LEMMA JoinStepType == JoinStep \in Steps(Seq(Words), Seq(Characters))
<1>1. ASSUME NEW w \in Seq(Words), NEW p \in Seq(Characters)
      PROVE  w \o WordsOf(p) \in Seq(Words)
  BY WordsOfType, CharactersAreTokens
<1> QED
  BY <1>1 DEF JoinStep, Steps

\* The words of a sequence of paragraphs with one more.
LEMMA JoinedAppend ==
  ASSUME NEW w \in Seq(Words), NEW ps \in Seq(Seq(Characters)), NEW p \in Seq(Characters)
  PROVE  /\ Folded(JoinStep, w, <<>>) = w
         /\ Folded(JoinStep, w, ps) \in Seq(Words)
         /\ Folded(JoinStep, w, Append(ps, p)) = Folded(JoinStep, w, ps) \o WordsOf(p)
<1>1. Folded(JoinStep, w, <<>>) = w
  BY JoinStepType, FoldedEmpty
<1>2. /\ Folded(JoinStep, w, ps) \in Seq(Words)
      /\ Folded(JoinStep, w, Append(ps, p)) = JoinStep[<<Folded(JoinStep, w, ps), p>>]
  BY JoinStepType, FoldedAppend
<1> QED
  BY <1>1, <1>2 DEF JoinStep

\* No paragraphs have no words.
LEMMA JoinedEmpty == Joined(<<>>) = <<>>
<1>1. ASSUME NEW V, NEW C, NEW G \in Steps(V, C), NEW b \in V
      PROVE  Folded(G, b, <<>>) = b
  BY FoldedEmpty
<1>2. <<>> \in Seq(Words)
  OBVIOUS
<1>3. Folded(JoinStep, <<>>, <<>>) = <<>>
  BY <1>1, <1>2, JoinStepType, Zenon
<1> QED
  BY <1>3 DEF Joined

\* The words found before stay in front.
LEMMA JoinedFrom ==
  ASSUME NEW w \in Seq(Words)
  PROVE  \A ps \in Seq(Seq(Characters)) : Folded(JoinStep, w, ps) = w \o Joined(ps)
<1> DEFINE T == {ps \in Seq(Seq(Characters)) : Folded(JoinStep, w, ps) = w \o Joined(ps)}
<1>0. /\ <<>> \in Seq(Words) /\ <<>> \in Seq(Characters) /\ w \o <<>> = w
      /\ <<>> \in Seq(Seq(Characters))
  BY ConcatEmptySeq
<1>1. <<>> \in T
  <2>1. ASSUME NEW v \in Seq(Words) PROVE Folded(JoinStep, v, <<>>) = v
    BY JoinStepType, FoldedEmpty
  <2> QED
    BY <1>0, <2>1 DEF Joined
<1>2. ASSUME NEW ps \in Seq(Seq(Characters)), NEW p \in Seq(Characters), ps \in T
      PROVE  Append(ps, p) \in T
  <2>1. ASSUME NEW v \in Seq(Words)
        PROVE  /\ Folded(JoinStep, v, ps) \in Seq(Words)
               /\ Folded(JoinStep, v, Append(ps, p)) = Folded(JoinStep, v, ps) \o WordsOf(p)
    BY JoinedAppend
  <2>2. /\ Joined(ps) \in Seq(Words)
        /\ Joined(Append(ps, p)) = Joined(ps) \o WordsOf(p)
    BY <1>0, <2>1 DEF Joined
  <2>3. WordsOf(p) \in Seq(Words)
    BY WordsOfType, CharactersAreTokens
  <2>4. (w \o Joined(ps)) \o WordsOf(p) = w \o (Joined(ps) \o WordsOf(p))
    BY <2>2, <2>3, ConcatAssociative
  <2>5. Folded(JoinStep, w, ps) = w \o Joined(ps) /\ Append(ps, p) \in Seq(Seq(Characters))
    BY <1>2
  <2> QED
    BY <2>1, <2>2, <2>4, <2>5
<1>3. Seq(Seq(Characters)) \subseteq T
  <2> HIDE DEF T
  <2> QED
    BY <1>1, <1>2, SeqInd, Zenon
<1> QED
  BY <1>3

\* Split, one character at a time.
LEMMA SplitParts ==
  ASSUME NEW s \in Seq(Characters), NEW c \in Characters
  PROVE  /\ Split(<<>>) = <<<<>>>>
         /\ Split(s) \in Splits
         /\ Split(Append(s, c)) = SplitOnce(Split(s), c)
<1>1. <<<<>>>> \in Splits /\ <<>> \in Seq(Characters) /\ Append(s, c) \in Seq(Characters)
  BY DEF Splits
<1>2. ASSUME NEW q \in Seq(Characters)
      PROVE  Split(q) = Folded(SplitStep, <<<<>>>>, q)
  BY SplitFolded
<1>3. ASSUME NEW b \in Splits
      PROVE  /\ Folded(SplitStep, b, <<>>) = b
             /\ Folded(SplitStep, b, s) \in Splits
             /\ Folded(SplitStep, b, Append(s, c)) = SplitStep[<<Folded(SplitStep, b, s), c>>]
  BY SplitStepType, FoldedEmpty, FoldedAppend
<1>4. Folded(SplitStep, <<<<>>>>, Append(s, c))
         = SplitOnce(Folded(SplitStep, <<<<>>>>, s), c)
  BY <1>1, <1>3 DEF SplitStep
<1> QED
  BY <1>1, <1>2, <1>3, <1>4

\* explode() keeps the words: the separators it drops are none.
LEMMA SplitKeepsWords ==
  \A s \in Seq(Characters) : Joined(Split(s)) = WordsOf(s)
<1> DEFINE T == {s \in Seq(Characters) : Joined(Split(s)) = WordsOf(s)}
<1>0. /\ <<>> \in Seq(Words) /\ <<>> \in Seq(Characters) /\ LF \in Characters
      /\ <<>> \in Seq(Seq(Characters)) /\ LF \notin Words
      /\ Seq(Characters) \subseteq Seq(Tokens) /\ Characters \subseteq Tokens
  BY CharactersAreTokens DEF Characters, Tokens
<1>1. ASSUME NEW ps \in Seq(Seq(Characters)), NEW p \in Seq(Characters)
      PROVE  /\ Joined(ps) \in Seq(Words) /\ WordsOf(p) \in Seq(Words)
             /\ Joined(Append(ps, p)) = Joined(ps) \o WordsOf(p)
  <2>1. ASSUME NEW w \in Seq(Words)
        PROVE  /\ Folded(JoinStep, w, ps) \in Seq(Words)
               /\ Folded(JoinStep, w, Append(ps, p)) = Folded(JoinStep, w, ps) \o WordsOf(p)
    BY JoinedAppend
  <2> QED
    BY <1>0, <2>1, WordsOfType DEF Joined
<1>2. <<>> \in T
  <2>1. Split(<<>>) = Append(<<>>, <<>>)
    <3>1. Split(<<>>) = <<<<>>>>
      BY <1>0, SplitParts
    <3>2. <<<<>>>> = Append(<<>>, <<>>)
      OBVIOUS
    <3> QED
      BY <3>1, <3>2
  <2>2. Joined(<<>>) = <<>>
    BY JoinedEmpty
  <2>3. <<>> \o <<>> = <<>>
    OBVIOUS
  <2> QED
    BY <1>0, <1>1, <2>1, <2>2, <2>3, WordsOfEmpty
<1>3. ASSUME NEW s \in Seq(Characters), NEW c \in Characters, s \in T
      PROVE  Append(s, c) \in T
  <2> SUFFICES Joined(Split(Append(s, c))) = WordsOf(Append(s, c))
    OBVIOUS
  <2> DEFINE ps == Split(s)
             f == Front(ps)
             l == Last(ps)
  <2>1. ps \in Splits /\ Split(Append(s, c)) = SplitOnce(ps, c)
    BY SplitParts
  <2>2. f \in Seq(Seq(Characters)) /\ l \in Seq(Characters) /\ ps = Append(f, l)
    BY <2>1, FrontLast DEF Splits
  <2>3. Joined(ps) = WordsOf(s) /\ Joined(ps) = Joined(f) \o WordsOf(l)
    BY <1>1, <1>3, <2>2
  <2>4. CASE c = LF /\ l # <<>> /\ Last(l) = LF
    <3> DEFINE a == Front(l)
    <3>1. a \in Seq(Characters) /\ l = Append(a, LF)
      BY <2>2, <2>4, FrontLast
    <3>2. SplitOnce(ps, c) = Append(Append(f, a), <<>>)
      <4>1. f \o <<a, <<>>>> = Append(Append(f, a), <<>>)
        BY <1>0, <2>2, <3>1
      <4> QED
        BY <2>4, <4>1 DEF SplitOnce
    <3>3. WordsOf(l) = WordsOf(a) /\ WordsOf(Append(s, c)) = WordsOf(s)
      BY <1>0, <2>4, <3>1, WordsOfAppend
    <3> HIDE DEF a, f, l, ps
    <3>4. Append(f, a) \in Seq(Seq(Characters))
      BY <2>2, <3>1
    <3>5. Joined(Append(Append(f, a), <<>>)) = (Joined(f) \o WordsOf(a)) \o <<>>
      BY <1>0, <1>1, <2>2, <3>1, <3>4, WordsOfEmpty
    <3>6. Joined(f) \o WordsOf(a) \in Seq(Words)
      BY <1>1, <2>2, <3>1
    <3>7. (Joined(f) \o WordsOf(a)) \o <<>> = Joined(f) \o WordsOf(a)
      BY <3>6, ConcatEmptySeq
    <3> QED
      BY <2>1, <2>3, <3>2, <3>3, <3>5, <3>7
  <2>5. CASE ~ (c = LF /\ l # <<>> /\ Last(l) = LF)
    <3>1. SplitOnce(ps, c) = Append(f, Append(l, c))
      BY <2>5 DEF SplitOnce
    <3> HIDE DEF f, l, ps
    <3>2. Append(l, c) \in Seq(Characters)
      BY <2>2
    <3>3. Joined(Append(f, Append(l, c))) = Joined(f) \o WordsOf(Append(l, c))
      BY <1>1, <2>2, <3>2
    <3>4. /\ WordsOf(Append(l, c)) = IF c \in Words THEN Append(WordsOf(l), c) ELSE WordsOf(l)
          /\ WordsOf(Append(s, c)) = IF c \in Words THEN Append(WordsOf(s), c) ELSE WordsOf(s)
      BY <1>0, <2>2, WordsOfAppend
    <3>5. c \in Words => Joined(f) \o Append(WordsOf(l), c) = Append(Joined(f) \o WordsOf(l), c)
      BY <1>1, <2>2, ConcatAppend
    <3> QED
      BY <2>1, <2>3, <3>1, <3>3, <3>4, <3>5
  <2> QED
    BY <2>4, <2>5
<1>4. Seq(Characters) \subseteq T
  <2> HIDE DEF T
  <2> QED
    BY <1>2, <1>3, SeqInd, Zenon
<1> QED
  BY <1>4
-----------------------------------------------------------------------------
(* Trimming and tagging keep the words.                                    *)

\* A set of naturals that is not empty has a least element.
LEMMA LeastOf ==
  ASSUME NEW T, T \subseteq Nat, T # {}
  PROVE  Min(T) \in T /\ \A y \in T : Min(T) <= y
<1>1. PICK x \in T : \A y \in T : ~ (<<y, x>> \in OpToRel(<, Nat))
  BY NatLessThanWellFounded, WFMin, Zenon
<1>2. \A y \in T : x <= y
  <2> SUFFICES ASSUME NEW y \in T, ~ (x <= y) PROVE FALSE
    OBVIOUS
  <2>1. y < x /\ x \in Nat /\ y \in Nat
    OBVIOUS
  <2>2. <<y, x>> \in OpToRel(<, Nat)
    BY <2>1 DEF OpToRel
  <2> QED
    BY <1>1, <2>2
<1> QED
  BY <1>2, Zenon DEF Min

\* ltrim() keeps the words and, if it leaves anything, the last character.
LEMMA LTrimParts ==
  ASSUME NEW s \in Seq(Characters)
  PROVE  /\ LTrim(s) \in Seq(Characters)
         /\ WordsOf(LTrim(s)) = WordsOf(s)
         /\ LTrim(s) # <<>> => Last(LTrim(s)) = Last(s)
<1> DEFINE I == {i \in 1 .. Len(s) : s[i] \notin {Space, LF}}
<1>1. LTrim(s) = IF I # {} THEN SubSeq(s, Min(I), Len(s)) ELSE <<>>
  <2>1. LTrim(s) = LET i == IF I # {} THEN Min(I) ELSE 0
                   IN  IF i = 0 THEN <<>> ELSE SubSeq(s, i, Len(s))
    BY Zenon DEF LTrim, SelectInSeq
  <2>2. I # {} => Min(I) # 0
    <3>1. I # {} => Min(I) \in I
      <4>1. I \subseteq Nat
        OBVIOUS
      <4> HIDE DEF I
      <4> QED
        BY <4>1, LeastOf
    <3> QED
      BY <3>1
  <2> QED
    BY <2>1, <2>2
<1>2. /\ s \in Seq(Tokens) /\ Len(s) \in Nat
      /\ \A i \in 1 .. Len(s) : s[i] \in Characters
      /\ Space \notin Words /\ LF \notin Words
  BY CharactersAreTokens
<1>3. CASE I = {}
  <2>1. \A i \in 1 .. Len(s) : s[i] \notin Words
    BY <1>2, <1>3
  <2>2. WordsOf(s) = <<>>
    BY <1>2, <2>1, NoWords
  <2> QED
    BY <1>1, <1>3, <2>2, WordsOfEmpty
<1>4. CASE I # {}
  <2> DEFINE m == Min(I)
             a == SubSeq(s, 1, m - 1)
             b == SubSeq(s, m, Len(s))
  <2>1. m \in 1 .. Len(s) /\ \A i \in 1 .. m - 1 : s[i] \in {Space, LF}
    <3>1. m \in I /\ \A y \in I : m <= y
      <4>1. I \subseteq Nat
        OBVIOUS
      <4> QED
        BY <1>4, <4>1, LeastOf
    <3> HIDE DEF m
    <3> QED
      BY <3>1
  <2> HIDE DEF m, I
  <2>2. /\ a \in Seq(Characters) /\ Len(a) = m - 1
        /\ \A i \in 1 .. m - 1 : a[i] = s[i]
        /\ b \in Seq(Characters)
        /\ Last(b) = Last(s)
    <3>1. Len(b) = Len(s) - m + 1 /\ \A i \in 1 .. Len(b) : b[i] = s[m + i - 1]
      BY <1>2, <2>1
    <3>2. Len(b) \in 1 .. Len(b) /\ m + Len(b) - 1 = Len(s)
      BY <1>2, <2>1, <3>1
    <3>3. Last(b) = Last(s)
      BY <3>1, <3>2 DEF Last
    <3> QED
      BY <1>2, <2>1, <3>3
  <2>3. a \o b = s
    <3>1. ASSUME NEW k \in 0 .. Len(s)
          PROVE  SubSeq(s, 1, k) \o SubSeq(s, k + 1, Len(s)) = SubSeq(s, 1, Len(s))
      <4>1. 1 \in 1 .. Len(s) + 1 /\ k \in 1 - 1 .. Len(s) /\ Len(s) \in k .. Len(s)
        BY <1>2
      <4> QED
        BY <4>1, ConcatAdjacentSubSeq
    <3>2. m - 1 \in 0 .. Len(s) /\ m - 1 + 1 = m
      BY <2>1
    <3>3. a \o b = SubSeq(s, 1, Len(s))
      BY <3>1, <3>2
    <3> QED
      BY <3>3, SubSeqFull
  <2> HIDE DEF a, b
  <2>4. a \in Seq(Tokens) /\ b \in Seq(Tokens)
    BY <2>2, CharactersAreTokens
  <2>5. WordsOf(a) = <<>>
    BY <1>2, <2>1, <2>2, <2>4, NoWords
  <2>6. WordsOf(s) = WordsOf(b)
    <3>1. WordsOf(a \o b) = WordsOf(a) \o WordsOf(b)
      BY <2>4, WordsOfConcat
    <3>2. <<>> \o WordsOf(b) = WordsOf(b)
      BY <2>4, WordsOfType, ConcatEmptySeq
    <3> QED
      BY <2>3, <2>5, <3>1, <3>2
  <2> QED
    BY <1>1, <1>4, <2>2, <2>6 DEF b, m
<1> QED
  BY <1>3, <1>4

\* Tags around a text keep its words.
LEMMA AroundKeeps ==
  ASSUME NEW p \in Seq(Tokens), NEW open \in Seq(Tokens), NEW close \in Seq(Tokens),
         WordsOf(open) = <<>>, WordsOf(close) = <<>>
  PROVE  /\ open \o p \o close \in Seq(Tokens)
         /\ WordsOf(open \o p \o close) = WordsOf(p)
<1>1. open \o p \in Seq(Tokens) /\ open \o p \o close \in Seq(Tokens)
  OBVIOUS
<1>2. /\ WordsOf(open \o p) = WordsOf(open) \o WordsOf(p)
      /\ WordsOf((open \o p) \o close) = WordsOf(open \o p) \o WordsOf(close)
  BY <1>1, WordsOfConcat
<1>3. <<>> \o WordsOf(p) = WordsOf(p) /\ WordsOf(p) \o <<>> = WordsOf(p)
  BY WordsOfType, ConcatEmptySeq
<1> QED
  BY <1>1, <1>2, <1>3

\* The tags have no words.
LEMMA TagsAreNoWords ==
  /\ <<"<p>">> \in Seq(Tokens) /\ <<"</p>">> \in Seq(Tokens)
  /\ <<"<ul>">> \in Seq(Tokens) /\ <<"</li>", "</ul>">> \in Seq(Tokens)
  /\ WordsOf(<<"<p>">>) = <<>> /\ WordsOf(<<"</p>">>) = <<>>
  /\ WordsOf(<<"<ul>">>) = <<>> /\ WordsOf(<<"</li>", "</ul>">>) = <<>>
<1>1. Tags \subseteq Tokens /\ Tags \cap Words = {}
  BY CharactersAreTokens DEF Tokens
<1>2. \A t \in Tags : <<t>> \in Seq(Tokens) /\ WordsOf(<<t>>) = <<>>
  <2> SUFFICES ASSUME NEW t \in Tags
               PROVE  <<t>> \in Seq(Tokens) /\ WordsOf(<<t>>) = <<>>
    OBVIOUS
  <2>1. <<t>> \in Seq(Tokens) /\ \A i \in 1 .. Len(<<t>>) : <<t>>[i] \notin Words
    BY <1>1
  <2> QED
    BY <2>1, NoWords
<1>3. <<"</li>", "</ul>">> \in Seq(Tokens) /\ WordsOf(<<"</li>", "</ul>">>) = <<>>
  <2>1. "</li>" \in Tags /\ "</ul>" \in Tags
    BY DEF Tags
  <2>2. <<"</li>", "</ul>">> \in Seq(Tokens)
    BY <1>1, <2>1
  <2>3. \A i \in 1 .. Len(<<"</li>", "</ul>">>) : <<"</li>", "</ul>">>[i] \notin Words
    BY <1>1, <2>1
  <2> QED
    BY <2>2, <2>3, NoWords
<1> QED
  BY <1>2, <1>3 DEF Tags

\* Tagging a list keeps its words.
LEMMA ListTagsType ==
  ASSUME NEW p \in Seq(Characters)
  PROVE  /\ ListTags(p) \in Seq(Tokens)
         /\ WordsOf(ListTags(p)) = WordsOf(p)
<1> DEFINE u == <<"<ul>">> \o p \o <<"</li>", "</ul>">>
<1>1. /\ p \in Seq(Tokens) /\ "<li>" \in Tokens /\ "</li>" \in Tokens
      /\ "<li>" \notin Words /\ "</li>" \notin Words
      /\ Star \notin Words /\ LF \notin Words
  BY CharactersAreTokens DEF Tokens, Tags
<1>2. u \in Seq(Tokens) /\ WordsOf(u) = WordsOf(p)
  BY <1>1, AroundKeeps, TagsAreNoWords
<1> HIDE DEF u
<1>3. /\ ReplaceAll(u, Star, "<li>") \in Seq(Tokens)
      /\ WordsOf(ReplaceAll(u, Star, "<li>")) = WordsOf(p)
  BY <1>1, <1>2, ReplaceAllParts, WordsOfReplaced
<1> DEFINE v == ReplaceAll(u, Star, "<li>")
<1> HIDE DEF v
<1>4. ReplaceAll(v, LF, "</li>") \in Seq(Tokens) /\ WordsOf(ReplaceAll(v, LF, "</li>")) = WordsOf(p)
  BY <1>1, <1>3, ReplaceAllParts, WordsOfReplaced DEF v
<1> QED
  BY <1>4 DEF ListTags, u, v

\* Once round the loop keeps the words of the paragraph.
LEMMA TaggedKeeps ==
  ASSUME NEW p \in Seq(Characters)
  PROVE  /\ Tagged(LTrim(p)) \in Seq(Tokens)
         /\ WordsOf(Tagged(LTrim(p))) = WordsOf(p)
<1> DEFINE q == LTrim(p)
<1>1. q \in Seq(Characters) /\ WordsOf(q) = WordsOf(p)
  BY LTrimParts
<1> HIDE DEF q
<1>2. /\ ListTags(q) \in Seq(Tokens)
      /\ WordsOf(ListTags(q)) = WordsOf(q)
  BY <1>1, ListTagsType
<1>3. /\ <<"<p>">> \o q \o <<"</p>">> \in Seq(Tokens)
      /\ WordsOf(<<"<p>">> \o q \o <<"</p>">>) = WordsOf(q)
  <2>1. q \in Seq(Tokens)
    BY <1>1, CharactersAreTokens
  <2> QED
    BY <2>1, AroundKeeps, TagsAreNoWords
<1> QED
  BY <1>1, <1>2, <1>3 DEF Tagged, q
-----------------------------------------------------------------------------
(* The nesting of the tags.                                                *)

\* Where a text leaves the nesting that starts at w.
Deep(w, s) == Folded(NestStep, w, s)

\* The nesting of nothing, of one token more and of two texts.
LEMMA DeepParts ==
  ASSUME NEW w \in Depths, NEW s \in Seq(Tokens)
  PROVE  /\ Deep(w, <<>>) = w
         /\ Deep(w, s) \in Depths
         /\ \A c \in Tokens : Deep(w, Append(s, c)) = Nest(Deep(w, s), c)
         /\ \A t \in Seq(Tokens) : Deep(w, s \o t) = Deep(Deep(w, s), t)
<1>1. Deep(w, <<>>) = w /\ Deep(w, s) \in Depths
  BY NestStepType, FoldedEmpty, FoldedType DEF Deep
<1>2. ASSUME NEW c \in Tokens PROVE Deep(w, Append(s, c)) = Nest(Deep(w, s), c)
  <2>1. Folded(NestStep, w, Append(s, c)) = NestStep[<<Folded(NestStep, w, s), c>>]
    BY NestStepType, FoldedAppend
  <2> QED
    BY <1>1, <2>1 DEF Deep, NestStep
<1>3. \A t \in Seq(Tokens) : Folded(NestStep, w, s \o t) = Folded(NestStep, Folded(NestStep, w, s), t)
  BY NestStepType, FoldedConcat
<1> QED
  BY <1>1, <1>2, <1>3, Zenon DEF Deep

\* The nesting of one token.
LEMMA DeepOne ==
  ASSUME NEW w \in Depths, NEW c \in Tokens
  PROVE  Deep(w, <<c>>) = Nest(w, c)
<1>1. <<>> \in Seq(Tokens) /\ <<c>> = Append(<<>>, c)
  OBVIOUS
<1>2. Deep(w, Append(<<>>, c)) = Nest(Deep(w, <<>>), c) /\ Deep(w, <<>>) = w
  BY <1>1, DeepParts
<1> QED
  BY <1>1, <1>2

\* A text without tags stays in its paragraph.
LEMMA CharactersStay ==
  \A s \in Seq(Characters) : Deep("p", s) = "p"
<1> DEFINE T == {s \in Seq(Characters) : Deep("p", s) = "p"}
<1>0. "p" \in Depths /\ <<>> \in Seq(Tokens)
  BY DEF Depths
<1>1. <<>> \in T
  <2>1. ASSUME NEW w \in Depths PROVE Deep(w, <<>>) = w
    BY <1>0, DeepParts
  <2> QED
    BY <1>0, <2>1
<1>2. ASSUME NEW s \in Seq(Characters), NEW c \in Characters, s \in T
      PROVE  Append(s, c) \in T
  <2>1. s \in Seq(Tokens) /\ c \in Tokens /\ c \notin Tags
    BY CharactersAreTokens DEF Tokens
  <2>2. Deep("p", Append(s, c)) = Nest("p", c)
    BY <1>0, <1>2, <2>1, DeepParts
  <2>3. Nest("p", c) = "p"
    BY <2>1 DEF Nest, Tags
  <2> QED
    BY <2>2, <2>3
<1>3. Seq(Characters) \subseteq T
  <2> HIDE DEF T
  <2> QED
    BY <1>1, <1>2, SeqInd, Zenon
<1> QED
  BY <1>3

\* A tagged paragraph is well nested, whatever is in it.
LEMMA ParagraphNests ==
  ASSUME NEW q \in Seq(Characters)
  PROVE  Deep("top", <<"<p>">> \o q \o <<"</p>">>) = "top"
<1>1. /\ "top" \in Depths /\ "p" \in Depths /\ "<p>" \in Tokens /\ "</p>" \in Tokens
      /\ <<"<p>">> \in Seq(Tokens) /\ <<"</p>">> \in Seq(Tokens)
  BY DEF Depths, Tokens, Tags
<1>2. q \in Seq(Tokens) /\ <<"<p>">> \o q \in Seq(Tokens)
  BY <1>1, CharactersAreTokens
<1>3. Nest("top", "<p>") = "p" /\ Nest("p", "</p>") = "top"
  BY DEF Nest, Tags
<1>4. ASSUME NEW w \in Depths, NEW s \in Seq(Tokens), NEW t \in Seq(Tokens)
      PROVE  Deep(w, s \o t) = Deep(Deep(w, s), t)
  BY DeepParts
<1>5. ASSUME NEW w \in Depths, NEW c \in Tokens PROVE Deep(w, <<c>>) = Nest(w, c)
  BY DeepOne
<1>6. Deep("top", <<"<p>">>) = "p" /\ Deep("p", <<"</p>">>) = "top" /\ Deep("p", q) = "p"
  BY <1>1, <1>3, <1>5, CharactersStay
<1>7. Deep("top", <<"<p>">> \o q) = "p"
  <2>1. Deep("top", <<"<p>">> \o q) = Deep(Deep("top", <<"<p>">>), q)
    BY <1>1, <1>2, <1>4, Zenon
  <2> QED
    BY <1>6, <2>1
<1>8. Deep("top", (<<"<p>">> \o q) \o <<"</p>">>) = Deep(Deep("top", <<"<p>">> \o q), <<"</p>">>)
  BY <1>1, <1>2, <1>4, Zenon
<1> QED
  BY <1>6, <1>7, <1>8

\* str_replace() of two texts, one after the other.
LEMMA ReplaceAllConcat ==
  ASSUME NEW S, NEW s \in Seq(S), NEW t \in Seq(S), NEW a, NEW b \in S
  PROVE  ReplaceAll(s \o t, a, b) = ReplaceAll(s, a, b) \o ReplaceAll(t, a, b)
<1> DEFINE l == ReplaceAll(s \o t, a, b)
           x == ReplaceAll(s, a, b)
           y == ReplaceAll(t, a, b)
<1>0. ASSUME NEW q \in Seq(S)
      PROVE  /\ ReplaceAll(q, a, b) \in Seq(S)
             /\ Len(ReplaceAll(q, a, b)) = Len(q)
             /\ \A i \in 1 .. Len(q) :
                   ReplaceAll(q, a, b)[i] = IF q[i] = a THEN b ELSE q[i]
  BY ReplaceAllParts
<1>1. /\ s \o t \in Seq(S) /\ Len(s \o t) = Len(s) + Len(t)
      /\ \A i \in 1 .. Len(s) + Len(t) :
            (s \o t)[i] = IF i <= Len(s) THEN s[i] ELSE t[i - Len(s)]
      /\ Len(s) \in Nat /\ Len(t) \in Nat
  BY ConcatProperties
<1>2. /\ x \in Seq(S) /\ Len(x) = Len(s)
      /\ \A i \in 1 .. Len(s) : x[i] = IF s[i] = a THEN b ELSE s[i]
      /\ y \in Seq(S) /\ Len(y) = Len(t)
      /\ \A i \in 1 .. Len(t) : y[i] = IF t[i] = a THEN b ELSE t[i]
  BY <1>0
<1>3. /\ l \in Seq(S) /\ Len(l) = Len(s) + Len(t)
      /\ \A i \in 1 .. Len(s) + Len(t) :
            l[i] = IF (s \o t)[i] = a THEN b ELSE (s \o t)[i]
  BY <1>0, <1>1
<1> HIDE DEF l, x, y
<1>4. /\ x \o y \in Seq(S) /\ Len(x \o y) = Len(s) + Len(t)
      /\ \A i \in 1 .. Len(s) + Len(t) :
            (x \o y)[i] = IF i <= Len(s) THEN x[i] ELSE y[i - Len(s)]
  <2>1. ASSUME NEW u \in Seq(S), NEW v \in Seq(S)
        PROVE  /\ u \o v \in Seq(S) /\ Len(u \o v) = Len(u) + Len(v)
               /\ \A i \in 1 .. Len(u) + Len(v) :
                     (u \o v)[i] = IF i <= Len(u) THEN u[i] ELSE v[i - Len(u)]
    BY ConcatProperties
  <2>2. x \in Seq(S) /\ y \in Seq(S) /\ Len(x) = Len(s) /\ Len(y) = Len(t)
    BY <1>2
  <2>3. /\ x \o y \in Seq(S) /\ Len(x \o y) = Len(x) + Len(y)
        /\ \A i \in 1 .. Len(x) + Len(y) :
              (x \o y)[i] = IF i <= Len(x) THEN x[i] ELSE y[i - Len(x)]
    BY <2>1, <2>2, Zenon
  <2> QED
    BY <2>2, <2>3
<1>5. ASSUME NEW i \in 1 .. Len(s) + Len(t) PROVE l[i] = (x \o y)[i]
  <2>1. CASE i <= Len(s)
    BY <1>1, <1>2, <1>3, <1>4, <2>1
  <2>2. CASE ~ (i <= Len(s))
    <3>1. i - Len(s) \in 1 .. Len(t)
      BY <1>1, <2>2
    <3> QED
      BY <1>1, <1>2, <1>3, <1>4, <2>2, <3>1
  <2> QED
    BY <2>1, <2>2
<1> QED
  BY <1>3, <1>4, <1>5, SeqEqual DEF l, x, y

\* A list without the tags around it.
ListItems(q) == ReplaceAll(ReplaceAll(q, Star, "<li>"), LF, "</li>")

\* ListTags puts tags around the items, and makes each Star and LF a tag.
LEMMA ListTagsAre ==
  ASSUME NEW q \in Seq(Characters)
  PROVE  /\ ListTags(q) = <<"<ul>">> \o ListItems(q) \o <<"</li>", "</ul>">>
         /\ ListItems(q) \in Seq(Tokens) /\ Len(ListItems(q)) = Len(q)
         /\ \A i \in 1 .. Len(q) :
               ListItems(q)[i] = IF q[i] = Star THEN "<li>"
                             ELSE IF q[i] = LF THEN "</li>" ELSE q[i]
<1> DEFINE open == <<"<ul>">>
           close == <<"</li>", "</ul>">>
<1>1. /\ q \in Seq(Tokens) /\ open \in Seq(Tokens) /\ close \in Seq(Tokens)
      /\ "<li>" \in Tokens /\ "</li>" \in Tokens
      /\ "<li>" # LF
  BY CharactersAreTokens DEF Tokens, Tags, LF
<1>2. ASSUME NEW a, NEW b \in Tokens, a \notin Tags
      PROVE  ReplaceAll(open, a, b) = open /\ ReplaceAll(close, a, b) = close
  <2>1. /\ Len(open) = 1 /\ open[1] # a
        /\ Len(close) = 2 /\ close[1] # a /\ close[2] # a
    BY <1>2 DEF Tags
  <2>2. /\ ReplaceAll(open, a, b) \in Seq(Tokens) /\ Len(ReplaceAll(open, a, b)) = 1
        /\ \A i \in 1 .. 1 : ReplaceAll(open, a, b)[i] = open[i]
    <3>1. \A i \in 1 .. 1 : open[i] # a
      BY <2>1
    <3> HIDE DEF open
    <3> QED
      BY <1>1, <2>1, <3>1, ReplaceAllParts
  <2>3. /\ ReplaceAll(close, a, b) \in Seq(Tokens) /\ Len(ReplaceAll(close, a, b)) = 2
        /\ \A i \in 1 .. 2 : ReplaceAll(close, a, b)[i] = close[i]
    <3>1. \A i \in 1 .. 2 : close[i] # a
      BY <2>1
    <3> HIDE DEF close
    <3> QED
      BY <1>1, <2>1, <3>1, ReplaceAllParts
  <2> HIDE DEF open, close
  <2> QED
    BY <1>1, <2>1, <2>2, <2>3, SeqEqual
<1>3. Star \notin Tags /\ LF \notin Tags
  BY DEF Star, LF, Tags
<1> HIDE DEF open, close
<1>4. ASSUME NEW a, NEW b \in Tokens, a \notin Tags, NEW s \in Seq(Tokens)
      PROVE  ReplaceAll(open \o s \o close, a, b) = open \o ReplaceAll(s, a, b) \o close
  <2>1. open \o s \in Seq(Tokens)
    BY <1>1
  <2>2. ReplaceAll((open \o s) \o close, a, b)
           = ReplaceAll(open \o s, a, b) \o ReplaceAll(close, a, b)
    <3>1. ASSUME NEW u \in Seq(Tokens)
          PROVE  ReplaceAll(u \o close, a, b) = ReplaceAll(u, a, b) \o ReplaceAll(close, a, b)
      <4>1. close \in Seq(Tokens)
        BY <1>1
      <4> QED
        BY <1>4, <4>1, ReplaceAllConcat
    <3> QED
      BY <2>1, <3>1
  <2>3. ReplaceAll(open \o s, a, b) = ReplaceAll(open, a, b) \o ReplaceAll(s, a, b)
    BY <1>1, ReplaceAllConcat
  <2> QED
    BY <1>2, <1>4, <2>2, <2>3
<1>5. /\ ReplaceAll(q, Star, "<li>") \in Seq(Tokens) /\ Len(ReplaceAll(q, Star, "<li>")) = Len(q)
      /\ \A i \in 1 .. Len(q) :
            ReplaceAll(q, Star, "<li>")[i] = IF q[i] = Star THEN "<li>" ELSE q[i]
  BY <1>1, ReplaceAllParts
<1> DEFINE r == ReplaceAll(q, Star, "<li>")
<1>6. ListTags(q) = open \o ReplaceAll(r, LF, "</li>") \o close
  <2>1. ReplaceAll(open \o q \o close, Star, "<li>") = open \o r \o close
    BY <1>1, <1>3, <1>4
  <2>2. ReplaceAll(open \o r \o close, LF, "</li>")
           = open \o ReplaceAll(r, LF, "</li>") \o close
    BY <1>1, <1>3, <1>4, <1>5
  <2> QED
    BY <2>1, <2>2 DEF ListTags, open, close
<1> HIDE DEF r
<1>7. /\ ReplaceAll(r, LF, "</li>") \in Seq(Tokens) /\ Len(ReplaceAll(r, LF, "</li>")) = Len(q)
      /\ \A i \in 1 .. Len(q) :
            ReplaceAll(r, LF, "</li>")[i] = IF r[i] = LF THEN "</li>" ELSE r[i]
  BY <1>1, <1>5, ReplaceAllParts DEF r
<1>8. \A i \in 1 .. Len(q) : r[i] = IF q[i] = Star THEN "<li>" ELSE q[i]
  BY <1>5 DEF r
<1> QED
  BY <1>1, <1>6, <1>7, <1>8 DEF ListItems, r, open, close

\* If every line is an item, each prefix of the items ends between two items after
\* an LF and in an item anywhere else.
LEMMA ItemsNest ==
  ASSUME NEW q \in Seq(Characters), Itemised(q)
  PROVE  \A k \in 0 .. Len(q) :
            Deep("ul", SubSeq(ListItems(q), 1, k)) = IF k = 0 \/ q[k] = LF THEN "ul" ELSE "li"
<1> DEFINE r == ListItems(q)
           State(k) == IF k = 0 \/ q[k] = LF THEN "ul" ELSE "li"
           N == {k \in Nat : k <= Len(q) => Deep("ul", SubSeq(r, 1, k)) = State(k)}
<1>1. /\ r \in Seq(Tokens) /\ Len(r) = Len(q) /\ Len(q) \in Nat
      /\ \A i \in 1 .. Len(q) :
            r[i] = IF q[i] = Star THEN "<li>" ELSE IF q[i] = LF THEN "</li>" ELSE q[i]
      /\ \A i \in 1 .. Len(q) : q[i] \in Characters
      /\ \A i \in 1 .. Len(q) : q[i] = Star <=> (i = 1 \/ q[i - 1] = LF)
      /\ "ul" \in Depths /\ <<>> \in Seq(Tokens)
  BY ListTagsAre DEF Itemised, Depths
<1> HIDE DEF r
<1>2. 0 \in N
  <2>1. SubSeq(r, 1, 0) = <<>>
    BY <1>1, SubSeqEmpty
  <2>2. Deep("ul", <<>>) = "ul"
    BY <1>1, DeepParts
  <2> QED
    BY <2>1, <2>2
<1>3. ASSUME NEW k \in Nat, k \in N PROVE k + 1 \in N
  <2> SUFFICES ASSUME k + 1 <= Len(q)
               PROVE  Deep("ul", SubSeq(r, 1, k + 1)) = State(k + 1)
    OBVIOUS
  <2>1. Deep("ul", SubSeq(r, 1, k)) = State(k)
    BY <1>1, <1>3
  <2>2. /\ SubSeq(r, 1, k) \in Seq(Tokens) /\ r[k + 1] \in Tokens
        /\ SubSeq(r, 1, k + 1) = Append(SubSeq(r, 1, k), r[k + 1])
    BY <1>1, SubSeqAppend
  <2>3. Deep("ul", SubSeq(r, 1, k + 1)) = Nest(State(k), r[k + 1])
    <3>1. ASSUME NEW s \in Seq(Tokens), NEW c \in Tokens
          PROVE  Deep("ul", Append(s, c)) = Nest(Deep("ul", s), c)
      BY <1>1, DeepParts
    <3>2. Deep("ul", Append(SubSeq(r, 1, k), r[k + 1])) = Nest(Deep("ul", SubSeq(r, 1, k)), r[k + 1])
      BY <2>2, <3>1, Zenon
    <3> QED
      BY <2>1, <2>2, <3>2
  <2>4. /\ k + 1 \in 1 .. Len(q) /\ k + 1 # 0 /\ k + 1 - 1 = k /\ (k + 1 = 1 <=> k = 0)
        /\ q[k + 1] \in Characters
        /\ r[k + 1] = IF q[k + 1] = Star THEN "<li>"
                      ELSE IF q[k + 1] = LF THEN "</li>" ELSE q[k + 1]
        /\ q[k + 1] = Star <=> (k = 0 \/ q[k] = LF)
    BY <1>1
  <2>5. CASE k = 0 \/ q[k] = LF
    <3>1. State(k) = "ul" /\ r[k + 1] = "<li>" /\ State(k + 1) = "li"
      BY <2>4, <2>5 DEF Star, LF
    <3>2. Nest("ul", "<li>") = "li"
      BY DEF Nest, Tags
    <3> HIDE DEF State
    <3> QED
      BY <2>3, <3>1, <3>2
  <2>6. CASE ~ (k = 0 \/ q[k] = LF) /\ q[k + 1] = LF
    <3>1. State(k) = "li" /\ r[k + 1] = "</li>" /\ State(k + 1) = "ul"
      BY <2>4, <2>6
    <3>2. Nest("li", "</li>") = "ul"
      BY DEF Nest, Tags
    <3> HIDE DEF State
    <3> QED
      BY <2>3, <3>1, <3>2
  <2>7. CASE ~ (k = 0 \/ q[k] = LF) /\ q[k + 1] # LF
    <3>1. State(k) = "li" /\ r[k + 1] = q[k + 1] /\ State(k + 1) = "li"
      BY <2>4, <2>7
    <3>2. q[k + 1] \notin Tags
      BY <2>4, CharactersAreTokens
    <3>3. Nest("li", q[k + 1]) = "li"
      BY <3>2 DEF Nest, Tags
    <3> HIDE DEF State
    <3> QED
      BY <2>3, <3>1, <3>3
  <2> QED
    BY <2>5, <2>6, <2>7
<1> HIDE DEF N
<1>4. Nat \subseteq N
  BY <1>2, <1>3, NatInd, Zenon
<1> QED
  BY <1>1, <1>4 DEF N, r

\* A tagged list is well nested if every line is an item and the last is not empty.
LEMMA ListNests ==
  ASSUME NEW q \in Seq(Characters), q # <<>>, Itemised(q), Last(q) # LF
  PROVE  Deep("top", ListTags(q)) = "top"
<1> DEFINE open == <<"<ul>">>
           close == <<"</li>", "</ul>">>
           r == ListItems(q)
<1>1. /\ ListTags(q) = (open \o r) \o close /\ r \in Seq(Tokens) /\ Len(r) = Len(q)
  BY ListTagsAre
<1>2. /\ open \in Seq(Tokens) /\ close \in Seq(Tokens) /\ <<"</li>">> \in Seq(Tokens)
      /\ {"<ul>", "</li>", "</ul>"} \subseteq Tokens
      /\ {"top", "ul", "li"} \subseteq Depths
      /\ close = Append(<<"</li>">>, "</ul>")
  BY DEF Tokens, Tags, Depths
<1> HIDE DEF open, close, r
<1>3. ASSUME NEW w \in Depths, NEW s \in Seq(Tokens), NEW t \in Seq(Tokens)
      PROVE  Deep(w, s \o t) = Deep(Deep(w, s), t)
  BY DeepParts
<1>4. ASSUME NEW w \in Depths, NEW c \in Tokens PROVE Deep(w, <<c>>) = Nest(w, c)
  BY DeepOne
<1>5. Deep("top", open) = "ul"
  <2>1. Nest("top", "<ul>") = "ul"
    BY DEF Nest, Tags
  <2> QED
    BY <1>2, <1>4, <2>1 DEF open
<1>6. Deep("ul", r) = "li"
  <2>1. Len(q) \in 0 .. Len(q) /\ Len(q) # 0 /\ q[Len(q)] # LF
    BY EmptySeq DEF Last
  <2>2. Deep("ul", SubSeq(r, 1, Len(q))) = "li"
    BY <2>1, ItemsNest DEF r
  <2>3. SubSeq(r, 1, Len(q)) = r
    BY <1>1, SubSeqFull
  <2> QED
    BY <2>2, <2>3
<1>7. Deep("li", close) = "top"
  <2>1. Nest("li", "</li>") = "ul" /\ Nest("ul", "</ul>") = "top"
    BY DEF Nest, Tags
  <2>2. Deep("li", <<"</li>">>) = "ul"
    BY <1>2, <1>4, <2>1
  <2>3. ASSUME NEW w \in Depths, NEW s \in Seq(Tokens), NEW c \in Tokens
        PROVE  Deep(w, Append(s, c)) = Nest(Deep(w, s), c)
    BY DeepParts
  <2>4. Deep("li", Append(<<"</li>">>, "</ul>")) = Nest(Deep("li", <<"</li>">>), "</ul>")
    BY <1>2, <2>3
  <2> QED
    BY <1>2, <2>1, <2>2, <2>4
<1>8. open \o r \in Seq(Tokens) /\ Deep("top", open \o r) = Deep(Deep("top", open), r)
  BY <1>1, <1>2, <1>3
<1>9. Deep("top", (open \o r) \o close) = Deep(Deep("top", open \o r), close)
  BY <1>2, <1>3, <1>8
<1> QED
  BY <1>1, <1>5, <1>6, <1>7, <1>8, <1>9

\* Under Regular, what AddTags appends for any paragraph is well nested.
LEMMA TagNests ==
  ASSUME text \in Seq(Characters), CR \notin Range(text), Regular,
         NEW p \in Range(Split(text)), p \in Seq(Characters)
  PROVE  Deep("top", Tagged(LTrim(p))) = "top"
<1> DEFINE q == LTrim(p)
<1>1. q \in Seq(Characters)
  BY LTrimParts
<1>2. CASE IsList(q)
  <2>1. ReplaceAll(text, CR, LF) = text
    <3>1. LF \in Characters /\ \A i \in 1 .. Len(text) : text[i] # CR
      BY RangeEquality DEF Characters
    <3>2. /\ ReplaceAll(text, CR, LF) \in Seq(Characters)
          /\ Len(ReplaceAll(text, CR, LF)) = Len(text)
          /\ \A i \in 1 .. Len(text) : ReplaceAll(text, CR, LF)[i] = text[i]
      BY <3>1, ReplaceAllParts
    <3> QED
      BY <3>2, SeqEqual
  <2>2. q # <<>>
    BY <1>2 DEF IsList
  <2>3. p \in Blocks
    BY <2>1, <2>2 DEF Blocks
  <2>4. Itemised(q) /\ Last(q) # LF
    <3>1. Itemised(q) /\ Last(p) # LF
      BY <1>2, <2>3, Zenon DEF Regular
    <3> QED
      BY <2>2, <3>1, LTrimParts
  <2> HIDE DEF q
  <2> QED
    BY <1>1, <1>2, <2>2, <2>4, ListNests DEF Tagged, q
<1>3. CASE ~ IsList(q)
  <2> HIDE DEF q
  <2>1. Deep("top", <<"<p>">> \o q \o <<"</p>">>) = "top"
    BY <1>1, ParagraphNests
  <2> QED
    BY <1>3, <2>1 DEF Tagged, q
<1> QED
  BY <1>2, <1>3
-----------------------------------------------------------------------------
(* The first paragraph.                                                    *)

\* getFirstParagraph() of a text that starts with a tagged paragraph.
LEMMA FirstParagraphOf ==
  ASSUME NEW q \in Seq(Characters), NEW rest \in Seq(Tokens)
  PROVE  FirstParagraph(<<"<p>">> \o q \o <<"</p>">> \o rest) = q
<1> DEFINE a == <<"<p>">> \o q
           b == <<"</p>">> \o rest
           s == a \o b
           n == Len(q) + 1
<1>1. /\ "<p>" \in Tokens /\ "</p>" \in Tokens
      /\ <<"<p>">> \in Seq(Tokens) /\ <<"</p>">> \in Seq(Tokens)
      /\ q \in Seq(Tokens) /\ Len(q) \in Nat
      /\ \A i \in 1 .. Len(q) : q[i] # "</p>"
  <2>1. "</p>" \in Tags /\ "<p>" \in Tags
    BY DEF Tags
  <2>2. \A i \in 1 .. Len(q) : q[i] \in Characters
    OBVIOUS
  <2> QED
    BY <2>1, <2>2, CharactersAreTokens DEF Tokens
<1>2. /\ a \in Seq(Tokens) /\ Len(a) = n /\ n \in Nat
      /\ a[1] = "<p>" /\ \A i \in 2 .. n : a[i] = q[i - 1]
      /\ b \in Seq(Tokens) /\ Len(b) \in Nat \ {0} /\ b[1] = "</p>"
  BY <1>1
<1> HIDE DEF a, b
<1>3. <<"<p>">> \o q \o <<"</p>">> \o rest = s
  BY <1>1, <1>2, ConcatAssociative DEF a, b
<1>4. /\ s \in Seq(Tokens) /\ Len(s) \in Nat /\ n + 1 \in 1 .. Len(s)
      /\ s[n + 1] = "</p>" /\ \A i \in 1 .. n : s[i] = a[i]
  BY <1>2
<1> HIDE DEF s
<1>5. \A i \in 1 .. n : s[i] # "</p>"
  <2>1. \A i \in 2 .. n : i - 1 \in 1 .. Len(q)
    BY <1>1
  <2>2. \A i \in 1 .. n : i = 1 \/ i \in 2 .. n
    BY <1>1
  <2>3. s[1] # "</p>"
    BY <1>2, <1>4
  <2>4. ASSUME NEW i \in 2 .. n PROVE s[i] # "</p>"
    <3>1. s[i] = q[i - 1]
      BY <1>2, <1>4
    <3> QED
      BY <1>1, <2>1, <3>1
  <2> QED
    BY <2>2, <2>3, <2>4
<1> DEFINE I == {i \in 1 .. Len(s) : s[i] = "</p>"}
<1>6. I # {} /\ Min(I) = n + 1
  <2>1. n + 1 \in I /\ I \subseteq Nat /\ \A i \in I : n + 1 <= i
    BY <1>2, <1>4, <1>5
  <2>2. ASSUME NEW k \in Nat, NEW T, T \subseteq Nat, k \in T, \A i \in T : k <= i
        PROVE  Min(T) = k
    <3>1. Min(T) \in T /\ \A i \in T : Min(T) <= i
      BY <2>2, LeastOf
    <3>2. ASSUME NEW m \in T, \A i \in T : m <= i PROVE m = k
      BY <2>2, <3>2
    <3> QED
      BY <3>1, <3>2, Zenon
  <2>3. n + 1 \in Nat
    BY <1>1
  <2> HIDE DEF I, n
  <2> QED
    BY <2>1, <2>2, <2>3
<1>7. FirstParagraph(s) = FromFourth(SubSeq(s, 1, n))
  <2> DEFINE Cut(i) == IF i = 0 THEN FromFourth(Front(s)) \o <<"</">>
                       ELSE FromFourth(SubSeq(s, 1, i - 1))
             found == IF I # {} THEN Min(I) ELSE 0
  <2>1. FirstParagraph(s) = Cut(found)
    BY Zenon DEF FirstParagraph, SelectInSeq
  <2>2. Cut(n + 1) = FromFourth(SubSeq(s, 1, n))
    <3>1. ASSUME NEW k \in Nat PROVE Cut(k + 1) = FromFourth(SubSeq(s, 1, k))
      <4>1. k + 1 # 0 /\ (k + 1) - 1 = k
        OBVIOUS
      <4>2. PICK l : l = k + 1
        OBVIOUS
      <4>3. Cut(l) = FromFourth(SubSeq(s, 1, k))
        BY <4>1, <4>2
      <4> QED
        BY <4>2, <4>3
    <3>2. n \in Nat
      BY <1>2
    <3> HIDE DEF Cut, n
    <3> QED
      BY <3>1, <3>2
  <2>3. found = n + 1
    BY <1>6
  <2> HIDE DEF Cut, found
  <2> QED
    BY <2>1, <2>2, <2>3
<1>8. SubSeq(s, 1, n) = a
  <2>1. /\ SubSeq(s, 1, n) \in Seq(Tokens) /\ Len(SubSeq(s, 1, n)) = n
        /\ \A i \in 1 .. n : SubSeq(s, 1, n)[i] = s[i]
    BY <1>1, <1>4
  <2> QED
    BY <1>2, <1>4, <2>1, SeqEqual
<1>9. FromFourth(a) = q
  <2>1. FromFourth(a) = Tail(a)
    BY <1>2 DEF FromFourth
  <2>2. Tail(a) = q
    BY <1>1 DEF a
  <2> QED
    BY <2>1, <2>2
<1> QED
  BY <1>3, <1>7, <1>8, <1>9
-----------------------------------------------------------------------------
(* WebText: the invariant and what follows from it.                        *)

\* The types of the variables.
TextTypes ==
  /\ stage \in {"windows", "mac", "explode", "loop", "cut", "done"}
  /\ given \in Seq(Characters) /\ text \in Seq(Characters)
  /\ paragraphs \in Seq(Seq(Characters)) /\ tagged \in Seq(Tokens)

\* If the text does not start with a list, its first paragraph is in the loop, or
\* tagged and in front of everything else.
FirstIsTagged ==
  LET p == LTrim(Split(text)[1]) IN
  ~ IsList(p) =>
     \/ stage = "loop" /\ tagged = <<>> /\ paragraphs = Split(text)
     \/ \E rest \in Seq(Tokens) : tagged = <<"<p>">> \o p \o <<"</p>">> \o rest

\* In the loop and after it: the words tagged and the words to come are the words of
\* the description, and only paragraphs of the text are still to come.
TaggedSoFar ==
  /\ WordsOf(tagged) \o Joined(paragraphs) = WordsOf(given)
  /\ Range(paragraphs) \subseteq Range(Split(text))
  /\ stage # "loop" => paragraphs = <<>>
  /\ FirstIsTagged

\* The inductive invariant.
TextInv ==
  /\ TextTypes
  /\ WordsOf(text) = WordsOf(given)
  /\ stage = "windows" => text = given
  /\ stage = "mac" => Cardinality(Breaks(text)) = LineEnds(given)
  /\ stage \in {"windows", "mac", "explode"} => tagged = <<>>
  /\ LinesKept
  /\ WellNested
  /\ stage \in {"loop", "cut", "done"} => TaggedSoFar
  /\ stage = "done" => first = FirstParagraph(tagged)

\* It holds of every description.
LEMMA TextInitInv == TextInit => TextInv
<1> SUFFICES ASSUME TextInit PROVE TextInv
  OBVIOUS
<1>1. given \in Seq(Characters)
  <2>1. PICK m \in Nat : given \in [1 .. m -> Characters]
    BY DEF TextInit, BoundedSeq, SeqOf
  <2> QED
    BY <2>1
<1> QED
  BY <1>1 DEF TextInit, TextInv, TextTypes, LinesKept, WellNested

\* The two replacements of line ends preserve it.
LEMMA LinesPreserve ==
  ASSUME TextInv, ReplaceWindows \/ ReplaceMac
  PROVE  TextInv'
<1> USE DEF TextInv, TextTypes
<1>1. CASE ReplaceWindows
  <2>1. /\ text' = UnixEnds(text) /\ stage' = "mac" /\ text = given
        /\ UNCHANGED <<given, paragraphs, tagged, first>> /\ tagged = <<>>
    BY <1>1 DEF ReplaceWindows
  <2>2. /\ text' \in Seq(Characters)
        /\ WordsOf(text') = WordsOf(given')
        /\ Cardinality(Breaks(text')) = LineEnds(given')
    BY <2>1, UnixEndsKeep
  <2>3. LinesKept' /\ WellNested'
    BY <2>1 DEF LinesKept, WellNested
  <2> QED
    BY <2>1, <2>2, <2>3
<1>2. CASE ReplaceMac
  <2>1. /\ text' = ReplaceAll(text, CR, LF) /\ stage = "mac" /\ stage' = "explode"
        /\ UNCHANGED <<given, paragraphs, tagged, first>> /\ tagged = <<>>
    BY <1>2 DEF ReplaceMac
  <2>2. /\ text' \in Seq(Characters)
        /\ WordsOf(text') = WordsOf(given')
        /\ CR \notin Range(text')
        /\ LineEnds(text') = LineEnds(given')
    BY <2>1, MacEndsKeep
  <2>3. LinesKept' /\ WellNested'
    BY <2>1, <2>2 DEF LinesKept, WellNested
  <2> QED
    BY <2>1, <2>2, <2>3
<1> QED
  BY <1>1, <1>2

\* explode() preserves it: all the words are still to be tagged.
LEMMA ExplodePreserves ==
  ASSUME TextInv, Explode
  PROVE  TextInv'
<1>1. /\ paragraphs' = Split(text) /\ stage = "explode" /\ stage' = "loop"
      /\ UNCHANGED <<given, text, tagged, first>> /\ tagged = <<>>
  BY DEF TextInv, Explode
<1>2. /\ text \in Seq(Characters) /\ given \in Seq(Characters)
      /\ WordsOf(text) = WordsOf(given)
  BY DEF TextInv, TextTypes
<1>3. Split(text) \in Seq(Seq(Characters))
  BY <1>2, SplitParts DEF Splits, Characters
<1>4. <<>> \in Seq(Tokens) /\ FoldLeft(Nest, "top", <<>>) = "top"
  <2>1. <<>> \in Seq(Tokens) /\ "top" \in Depths
    BY DEF Depths
  <2>2. FoldLeft(Nest, "top", <<>>) = Deep("top", <<>>)
    BY <2>1, NestFolded DEF Deep
  <2>3. Deep("top", <<>>) = "top"
    BY <2>1, DeepParts
  <2> QED
    BY <2>1, <2>2, <2>3
<1>5. TextTypes'
  BY <1>1, <1>2, <1>3, <1>4 DEF TextTypes
<1>6. LinesKept' /\ WellNested'
  BY <1>1, <1>4 DEF TextInv, LinesKept, WellNested
<1>7. WordsOf(tagged') \o Joined(paragraphs') = WordsOf(given')
  <2>1. WordsOf(text) \in Seq(Words)
    BY <1>2, CharactersAreTokens, WordsOfType
  <2>2. <<>> \o WordsOf(text) = WordsOf(text)
    BY <2>1, ConcatEmptySeq
  <2>3. Joined(Split(text)) = WordsOf(text)
    BY <1>2, SplitKeepsWords
  <2> QED
    BY <1>1, <1>2, <2>2, <2>3, WordsOfEmpty
<1>8. Range(paragraphs') \subseteq Range(Split(text'))
  BY <1>1
<1>9. FirstIsTagged'
  BY <1>1 DEF FirstIsTagged
<1> QED
  BY <1>1, <1>2, <1>5, <1>6, <1>7, <1>8, <1>9 DEF TextInv, TaggedSoFar

\* Taking the first paragraph takes its words from the front.
LEMMA JoinedHead ==
  ASSUME NEW ps \in Seq(Seq(Characters)), ps # <<>>
  PROVE  /\ Head(ps) \in Seq(Characters) /\ Tail(ps) \in Seq(Seq(Characters))
         /\ Joined(Tail(ps)) \in Seq(Words)
         /\ Joined(ps) = WordsOf(Head(ps)) \o Joined(Tail(ps))
         /\ Head(ps) = ps[1]
         /\ Head(ps) \in Range(ps) /\ Range(Tail(ps)) \subseteq Range(ps)
<1> DEFINE h == Head(ps)
           t == Tail(ps)
           S == Seq(Characters)
<1>1. h \in S /\ t \in Seq(S) /\ <<h>> \in Seq(S) /\ h = ps[1]
  OBVIOUS
<1>2. ps = <<h>> \o t
  <2> DEFINE r == <<h>> \o t
  <2>1. /\ Len(ps) \in Nat \ {0} /\ Len(t) = Len(ps) - 1
        /\ \A i \in 1 .. Len(t) : t[i] = ps[i + 1]
    OBVIOUS
  <2> HIDE DEF h, t
  <2>2. /\ r \in Seq(S) /\ Len(r) = Len(t) + 1 /\ r[1] = h
        /\ \A i \in 1 .. Len(t) : r[i + 1] = t[i]
    BY <1>1
  <2> HIDE DEF r
  <2>3. ASSUME NEW i \in 1 .. Len(ps) PROVE ps[i] = r[i]
    <3>1. CASE i = 1
      BY <1>1, <2>2, <3>1
    <3>2. CASE i # 1
      <4>1. i - 1 \in 1 .. Len(t) /\ (i - 1) + 1 = i
        BY <2>1, <3>2
      <4> QED
        BY <2>1, <2>2, <4>1
    <3> QED
      BY <3>1, <3>2
  <2>4. Len(ps) = Len(r)
    BY <2>1, <2>2
  <2>5. ps = r
    BY <2>2, <2>3, <2>4, SeqEqual, Zenon
  <2> QED
    BY <2>5 DEF r
<1>3. h \in Range(ps) /\ Range(t) \subseteq Range(ps)
  <2>1. /\ 1 \in 1 .. Len(ps) /\ Len(t) = Len(ps) - 1 /\ Len(ps) \in Nat
        /\ \A i \in 1 .. Len(t) : t[i] = ps[i + 1] /\ i + 1 \in 1 .. Len(ps)
    OBVIOUS
  <2>2. Range(ps) = {ps[i] : i \in 1 .. Len(ps)} /\ Range(t) = {t[i] : i \in 1 .. Len(t)}
    BY <1>1, RangeEquality
  <2> HIDE DEF h, t
  <2> QED
    BY <1>1, <2>1, <2>2
<1> HIDE DEF h, t
<1>4. ASSUME NEW w \in Seq(Words), NEW q \in Seq(S)
      PROVE  Folded(JoinStep, w, q) = w \o Joined(q)
  BY JoinedFrom
<1>5. <<>> \in Seq(Words) /\ WordsOf(h) \in Seq(Words)
  BY <1>1, CharactersAreTokens, WordsOfType
<1>6. Folded(JoinStep, <<>>, <<h>>) = WordsOf(h)
  <2>1. <<>> \in Seq(S) /\ <<h>> = Append(<<>>, h)
    BY <1>1
  <2>2. /\ Folded(JoinStep, <<>>, <<>>) = <<>>
        /\ Folded(JoinStep, <<>>, Append(<<>>, h)) = Folded(JoinStep, <<>>, <<>>) \o WordsOf(h)
    <3>1. ASSUME NEW w \in Seq(Words), NEW q \in Seq(S)
          PROVE  /\ Folded(JoinStep, w, <<>>) = w
                 /\ Folded(JoinStep, w, Append(q, h)) = Folded(JoinStep, w, q) \o WordsOf(h)
      BY <1>1, JoinedAppend
    <3> QED
      BY <1>5, <2>1, <3>1, Zenon
  <2> QED
    BY <1>5, <2>1, <2>2, ConcatEmptySeq
<1>7. Folded(JoinStep, <<>>, <<h>> \o t) =
         Folded(JoinStep, Folded(JoinStep, <<>>, <<h>>), t)
  <2>1. ASSUME NEW w \in Seq(Words), NEW q \in Seq(S), NEW r \in Seq(S)
        PROVE  Folded(JoinStep, w, q \o r) = Folded(JoinStep, Folded(JoinStep, w, q), r)
    BY JoinStepType, FoldedConcat
  <2> QED
    BY <1>1, <1>5, <2>1
<1>8. Joined(ps) = WordsOf(h) \o Joined(t)
  BY <1>1, <1>2, <1>4, <1>5, <1>6, <1>7 DEF Joined
<1>9. Joined(t) \in Seq(Words)
  <2>1. ASSUME NEW w \in Seq(Words), NEW q \in Seq(S)
        PROVE  Folded(JoinStep, w, q) \in Seq(Words)
    BY JoinStepType, FoldedType
  <2> QED
    BY <1>1, <1>5, <2>1 DEF Joined
<1> QED
  BY <1>1, <1>3, <1>8, <1>9 DEF h, t

\* Once round the loop preserves it.
LEMMA AddTagsPreserves ==
  ASSUME TextInv, AddTags
  PROVE  TextInv'
<1> DEFINE h == Head(paragraphs)
           t == Tail(paragraphs)
           x == Tagged(LTrim(h))
<1>1. /\ stage = "loop" /\ paragraphs # <<>> /\ tagged' = tagged \o x /\ paragraphs' = t
      /\ UNCHANGED <<stage, given, text, first>>
  BY DEF AddTags
<1>2. TextTypes /\ LinesKept /\ WellNested /\ TaggedSoFar /\ WordsOf(text) = WordsOf(given)
  BY <1>1 DEF TextInv
<1>3. /\ text \in Seq(Characters) /\ given \in Seq(Characters) /\ tagged \in Seq(Tokens)
      /\ paragraphs \in Seq(Seq(Characters))
  BY <1>2 DEF TextTypes
<1>4. /\ h \in Seq(Characters) /\ t \in Seq(Seq(Characters))
      /\ Joined(t) \in Seq(Words)
      /\ Joined(paragraphs) = WordsOf(h) \o Joined(t)
      /\ h = paragraphs[1] /\ h \in Range(paragraphs)
      /\ Range(t) \subseteq Range(paragraphs)
  BY <1>1, <1>3, JoinedHead
<1>5. /\ x \in Seq(Tokens) /\ WordsOf(x) = WordsOf(h)
      /\ tagged \o x \in Seq(Tokens)
  BY <1>3, <1>4, TaggedKeeps
<1> HIDE DEF h, t, x
<1>6. TextTypes'
  BY <1>1, <1>2, <1>4, <1>5 DEF TextTypes
<1>7. LinesKept'
  BY <1>1, <1>2 DEF LinesKept
<1>8. WordsOf(tagged') \o Joined(paragraphs') = WordsOf(given')
  <2>1. WordsOf(tagged \o x) = WordsOf(tagged) \o WordsOf(h)
    BY <1>3, <1>5, WordsOfConcat
  <2>2. WordsOf(tagged) \in Seq(Words) /\ WordsOf(h) \in Seq(Words)
    BY <1>3, <1>4, CharactersAreTokens, WordsOfType
  <2>3. (WordsOf(tagged) \o WordsOf(h)) \o Joined(t) = WordsOf(tagged) \o Joined(paragraphs)
    BY <1>4, <2>2, ConcatAssociative
  <2> QED
    BY <1>1, <1>2, <2>1, <2>3 DEF TaggedSoFar
<1>9. Range(paragraphs') \subseteq Range(Split(text'))
  BY <1>1, <1>2, <1>4 DEF TaggedSoFar
<1>10. WellNested'
  <2>1. ASSUME Regular PROVE FoldLeft(Nest, "top", tagged') = "top"
    <3>1. Deep("top", tagged) = "top"
      BY <1>1, <1>2, <1>3, <2>1, NestFolded DEF WellNested, Deep
    <3>2. CR \notin Range(text)
      BY <1>1, <1>2 DEF LinesKept
    <3>3. Deep("top", x) = "top"
      BY <1>2, <1>3, <1>4, <2>1, <3>2, TagNests DEF TaggedSoFar, x
    <3>4. ASSUME NEW r \in Seq(Tokens), NEW u \in Seq(Tokens)
          PROVE  Deep("top", r \o u) = Deep(Deep("top", r), u)
      BY DeepParts DEF Depths
    <3>5. Deep("top", tagged \o x) = "top"
      BY <1>3, <1>5, <3>1, <3>3, <3>4
    <3> QED
      BY <1>1, <1>5, <3>5, NestFolded DEF Deep
  <2>2. Regular' => Regular
    BY <1>1 DEF Regular, Blocks
  <2> QED
    BY <2>1, <2>2 DEF WellNested
<1>11. FirstIsTagged'
  <2> DEFINE p == LTrim(Split(text)[1])
             y == <<"<p>">> \o p \o <<"</p>">>
  <2>1. SUFFICES ASSUME ~ IsList(p)
                 PROVE  \E rest \in Seq(Tokens) : tagged' = y \o rest
    BY <1>1 DEF FirstIsTagged
  <2>2. CASE stage = "loop" /\ tagged = <<>> /\ paragraphs = Split(text)
    <3>1. x = y
      BY <1>4, <2>1, <2>2 DEF x, Tagged
    <3> HIDE DEF y, p
    <3>2. tagged' = x /\ x = x \o <<>>
      BY <1>1, <1>5, <2>2, ConcatEmptySeq
    <3>3. <<>> \in Seq(Tokens)
      OBVIOUS
    <3> QED
      BY <3>1, <3>2, <3>3
  <2>3. ASSUME NEW rest \in Seq(Tokens), tagged = y \o rest
        PROVE  \E r \in Seq(Tokens) : tagged' = y \o r
    <3>1. y \in Seq(Tokens)
      <4>1. p \in Seq(Characters)
        <5>1. Split(text) \in Splits
          BY <1>3, SplitParts DEF Characters
        <5>2. Split(text)[1] \in Seq(Characters)
          BY <5>1, EmptySeq DEF Splits
        <5> QED
          BY <5>2, LTrimParts
      <4> HIDE DEF p
      <4> QED
        BY <4>1, CharactersAreTokens, TagsAreNoWords
    <3> HIDE DEF y, p
    <3>2. ASSUME NEW u \in Seq(Tokens), NEW v \in Seq(Tokens), NEW z \in Seq(Tokens)
          PROVE  (u \o v) \o z = u \o (v \o z) /\ v \o z \in Seq(Tokens)
      BY ConcatAssociative
    <3>3. tagged' = (y \o rest) \o x
      BY <1>1, <2>3
    <3>4. /\ (y \o rest) \o x = y \o (rest \o x)
          /\ rest \o x \in Seq(Tokens)
      BY <1>5, <3>1, <3>2
    <3> QED
      BY <3>3, <3>4, Zenon
  <2> HIDE DEF y
  <2> QED
    BY <1>2, <2>1, <2>2, <2>3 DEF TaggedSoFar, FirstIsTagged, y
<1> QED
  BY <1>1, <1>2, <1>6, <1>7, <1>8, <1>9, <1>10, <1>11 DEF TextInv, TaggedSoFar

\* The end of the loop and getFirstParagraph() preserve it.
LEMMA CutPreserves ==
  ASSUME TextInv, EndOfLoop \/ GetFirstParagraph \/ UNCHANGED textVars
  PROVE  TextInv'
<1>1. CASE EndOfLoop
  <2>1. /\ stage = "loop" /\ paragraphs = <<>> /\ stage' = "cut"
        /\ UNCHANGED <<given, text, paragraphs, tagged, first>>
    BY <1>1 DEF EndOfLoop
  <2>2. /\ TextTypes /\ LinesKept /\ WellNested /\ TaggedSoFar
        /\ WordsOf(text) = WordsOf(given)
    BY <2>1 DEF TextInv
  <2>3. TextTypes' /\ LinesKept'
    BY <2>1, <2>2 DEF TextTypes, LinesKept
  <2>4. WellNested'
    BY <2>1, <2>2 DEF WellNested, Regular, Blocks
  <2>5. FirstIsTagged'
    <3>1. Split(text) # <<>>
      BY <2>2, SplitParts DEF TextTypes, Splits, Characters
    <3> QED
      BY <2>1, <2>2, <3>1 DEF TaggedSoFar, FirstIsTagged
  <2> QED
    BY <2>1, <2>2, <2>3, <2>4, <2>5 DEF TextInv, TaggedSoFar
<1>2. CASE GetFirstParagraph
  <2>1. /\ stage = "cut" /\ first' = FirstParagraph(tagged) /\ stage' = "done"
        /\ UNCHANGED <<given, text, paragraphs, tagged>>
    BY <1>2 DEF GetFirstParagraph
  <2>2. /\ TextTypes /\ LinesKept /\ WellNested /\ TaggedSoFar
        /\ WordsOf(text) = WordsOf(given)
    BY <2>1 DEF TextInv
  <2>3. TextTypes' /\ LinesKept'
    BY <2>1, <2>2 DEF TextTypes, LinesKept
  <2>4. WellNested'
    BY <2>1, <2>2 DEF WellNested, Regular, Blocks
  <2>5. FirstIsTagged'
    BY <2>1, <2>2 DEF TaggedSoFar, FirstIsTagged
  <2> QED
    BY <2>1, <2>2, <2>3, <2>4, <2>5 DEF TextInv, TaggedSoFar
<1>3. CASE UNCHANGED textVars
  BY <1>3 DEF textVars, TextInv, TextTypes, LinesKept, WellNested, Regular, Blocks,
              TaggedSoFar, FirstIsTagged
<1> QED
  BY <1>1, <1>2, <1>3

\* The invariant holds of every text, of any length over any words.
THEOREM TextInvariant == TextSpec => []TextInv
<1>1. TextInv /\ [TextNext]_textVars => TextInv'
  BY LinesPreserve, ExplodePreserves, AddTagsPreserves, CutPreserves DEF TextNext, Done
<1> QED
  BY TextInitInv, <1>1, PTL DEF TextSpec

\* No word of a description is lost, doubled or moved on the way from addTags() to
\* the page: addTags() replaces, splits, trims and tags around the words.
THEOREM TextWordsKept == TextSpec => []WordsKept
<1>1. TextInv => WordsKept
  <2> SUFFICES ASSUME TextInv PROVE WordsKept
    OBVIOUS
  <2>1. ASSUME stage \in {"cut", "done"} PROVE WordsOf(tagged) = WordsOf(given)
    <3>1. /\ WordsOf(tagged) \o Joined(<<>>) = WordsOf(given)
          /\ tagged \in Seq(Tokens)
      BY <2>1 DEF TextInv, TextTypes, TaggedSoFar
    <3> QED
      BY <3>1, JoinedEmpty, WordsOfType, ConcatEmptySeq
  <2> QED
    BY <2>1 DEF TextInv, WordsKept
<1> QED
  BY TextInvariant, <1>1, PTL

\* The two str_replace() of addTags() together leave one LF for each line end, in
\* whatever mixture of systems the description was typed.
THEOREM TextLinesKept == TextSpec => []LinesKept
<1>1. TextInv => LinesKept
  BY DEF TextInv
<1> QED
  BY TextInvariant, <1>1, PTL

\* After every paragraph the tags that addTags() has written are well nested, if each
\* line of each list is one item and no list ends in an empty line.
THEOREM TextWellNested == TextSpec => []WellNested
<1>1. TextInv => WellNested
  BY DEF TextInv
<1> QED
  BY TextInvariant, <1>1, PTL

\* The text of a description that does not start with a list: what
\* getFirstParagraph() returns is the first paragraph without its tags.
FirstParagraphTaken ==
    stage = "done" /\ ~ IsList(LTrim(Split(text)[1])) =>
        first = LTrim(Split(text)[1])

\* Only a list in front of a description can break FirstParagraphReturned, as the
\* run about it does: of any other text, of any length, getFirstParagraph() returns
\* the first paragraph, because strpos() finds the </p> that addTags() wrote after it.
THEOREM TextFirstParagraph == TextSpec => []FirstParagraphTaken
<1>1. TextInv => FirstParagraphTaken
  <2> DEFINE p == LTrim(Split(text)[1])
  <2>1. SUFFICES ASSUME TextInv, stage = "done", ~ IsList(p)
                 PROVE  first = p
    BY DEF FirstParagraphTaken
  <2>2. p \in Seq(Characters)
    <3>1. Split(text) \in Splits
      BY <2>1, SplitParts DEF TextInv, TextTypes, Characters
    <3>2. Split(text)[1] \in Seq(Characters)
      BY <3>1, EmptySeq DEF Splits
    <3> QED
      BY <3>2, LTrimParts
  <2>3. PICK rest \in Seq(Tokens) : tagged = <<"<p>">> \o p \o <<"</p>">> \o rest
    BY <2>1 DEF TextInv, TaggedSoFar, FirstIsTagged
  <2>4. first = FirstParagraph(tagged)
    BY <2>1 DEF TextInv
  <2> HIDE DEF p
  <2> QED
    BY <2>2, <2>3, <2>4, FirstParagraphOf
<1> QED
  BY TextInvariant, <1>1, PTL
=============================================================================
