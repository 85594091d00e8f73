------------------------------- MODULE MCPages -------------------------------
(***************************************************************************)
(* What the public pages do by themselves: the broker with one request,    *)
(* the tags of one description, the size of one picture, and the two menu  *)
(* scripts of views/index-be-store.php, SideSlide with the page's list of  *)
(* languages and its icon for a search form that is not there, MuffinMenu  *)
(* with two submenus.  They share no state, so a behaviour uses one of     *)
(* them and leaves the others in one initial state.                        *)
(***************************************************************************)
EXTENDS Broker, WebText, ImageScale, SideSlide, MuffinMenu

VARIABLE used       \* the part that runs

MCMethods == {"GET", "POST", "HEAD"}
MCCtlrs   == {"none", "admin", "home", "cart", "other"}
MCActions == {"none", "other"} \cup AllowList
             \cup UNION {ControllerMethods[c] : c \in DOMAIN ControllerMethods}

MCPanels == {"lang"}
MCItems  == {"features", "pages"}

allVars == <<used, brokerVars, textVars, imageVars, vars, muffinVars>>

NoRequest == [method |-> "GET", ctlr |-> "none", action |-> "none"]

MCInit ==
    /\ used \in {"index", "WebText", "Image", "sideSlide", "MuffinMenu"}
    /\ IF used = "index" THEN BrokerInit ELSE request = NoRequest /\ BrokerInit
    /\ IF used = "WebText" THEN TextInit ELSE given = <<>> /\ TextInit
    /\ IF used = "Image" THEN ImageInit ELSE file = Missing /\ ImageInit
    /\ IF used = "sideSlide" THEN Init ELSE window = "wide" /\ Init
    /\ IF used = "MuffinMenu" THEN MuffinInit ELSE desktop = TRUE /\ MuffinInit

MCNext ==
    /\ UNCHANGED used
    /\ \/ /\ used = "index" /\ BrokerNext
          /\ UNCHANGED <<textVars, imageVars, vars, muffinVars>>
       \/ /\ used = "WebText" /\ TextNext
          /\ UNCHANGED <<brokerVars, imageVars, vars, muffinVars>>
       \/ /\ used = "Image" /\ ImageNext
          /\ UNCHANGED <<brokerVars, textVars, vars, muffinVars>>
       \/ /\ used = "sideSlide" /\ Next
          /\ UNCHANGED <<brokerVars, textVars, imageVars, muffinVars>>
       \/ /\ used = "MuffinMenu" /\ MuffinNext
          /\ UNCHANGED <<brokerVars, textVars, imageVars, vars>>

\* The fairness of the two menus' specifications.
MCSpec ==
    /\ MCInit /\ [][MCNext]_allVars
    /\ WF_vars(Reload)
    /\ \A e \in Elements : WF_vars(Finish(e))
    /\ \A i \in Items : WF_muffinVars(EndFade(i))
=============================================================================
