---------------------------- MODULE BrokerProofs ----------------------------
(***************************************************************************)
(* What Broker promises for any sets of methods, controller names and      *)
(* action names: each statement of index.php leaves the part of the route  *)
(* that it decides as Routes defines it, and a GET runs one form handler,  *)
(* by its listed name.                                                     *)
(***************************************************************************)
EXTENDS Broker, TLAPS

\* Each statement's part of the route, and that only other methods set $post
\* and a message.
BrokerInv ==
    /\ BrokerTypeOK
    /\ phase = "received" => post /\ vm = "null"
    /\ phase # "received" /\ request.method = "GET" => ~ post /\ vm = "null"
    /\ request.method # "GET" => post
    /\ phase = "read" =>
         /\ action = AcceptedAction(request)
         /\ ctlr = request.ctlr \/ (request.ctlr = "none" /\ ctlr = "index")
    /\ phase = "selected" =>
         /\ ctlr = Controller(request.ctlr)
         /\ action = RenamedAction(request)
    /\ phase = "run" =>
         /\ ctlr = Controller(request.ctlr)
         /\ action = Method(request)

\* The switch knows every controller it chooses, and each has an index method.
LEMMA ControllersKnown ==
  ASSUME NEW c
  PROVE  /\ Controller(c) \in DOMAIN ControllerMethods
         /\ "index" \in ControllerMethods[Controller(c)]
BY DEF Controller, ControllerMethods, InheritedMethods

\* A missing controller name and the default one select the same class.
LEMMA DefaultController == Controller("none") = Controller("index")
BY DEF Controller

\* The keys of the split actions.
LEMMA SplitNames == DOMAIN SplitActions = {"login", "register", "addProduct"}
BY DEF SplitActions

\* The statements in order.
LEMMA ReadStep ==
  ASSUME BrokerInv, ReadGet \/ ReadPost
  PROVE  BrokerInv'
BY DEF BrokerInv, ReadGet, ReadPost, BrokerTypeOK, Requests

\* The choice of a controller preserves the invariant.
LEMMA SelectStep ==
  ASSUME BrokerInv, SelectController
  PROVE  BrokerInv'
<1> USE DEF BrokerInv, SelectController
<1>1. ctlr' = Controller(request.ctlr)
  BY DefaultController
<1>2. action' = RenamedAction(request)
  BY SplitNames DEF RenamedAction
<1>3. ctlr' \in DOMAIN ControllerMethods
  BY <1>1, ControllersKnown
<1> QED
  BY <1>1, <1>2, <1>3 DEF BrokerTypeOK

\* The call of a method preserves it too.
LEMMA RunStep ==
  ASSUME BrokerInv, Run
  PROVE  BrokerInv'
<1> USE DEF BrokerInv, Run
<1>1. action' = Method(request)
  BY DEF Method
<1>2. action' \in ControllerMethods[ctlr]
  BY ControllersKnown
<1> QED
  BY <1>1, <1>2 DEF BrokerTypeOK

\* The broker's statements decide the route as Routes defines it.
THEOREM BrokerInvariant == BrokerSpec => []BrokerInv
<1>1. BrokerInit => BrokerInv
  BY DEF BrokerInit, BrokerInv, BrokerTypeOK
<1>2. BrokerInv /\ [BrokerNext]_brokerVars => BrokerInv'
  <2>1. BrokerInv /\ UNCHANGED brokerVars => BrokerInv'
    BY DEF BrokerInv, BrokerTypeOK, brokerVars
  <2> QED
    BY <2>1, ReadStep, SelectStep, RunStep DEF BrokerNext, Answered
<1> QED
  BY <1>1, <1>2, PTL DEF BrokerSpec

\* The method that runs is always one of the class that was chosen.
THEOREM TypeCorrect == BrokerSpec => []BrokerTypeOK
<1>1. BrokerInv => BrokerTypeOK
  BY DEF BrokerInv
<1> QED
  BY <1>1, BrokerInvariant, PTL

\* The statements of index.php and DefaultController::run together are Route.
THEOREM RoutesAsDefined == BrokerSpec => []RoutedAsDefined
<1>1. BrokerInv => RoutedAsDefined
  BY DEF BrokerInv, RoutedAsDefined, Route
<1> QED
  BY <1>1, BrokerInvariant, PTL

\* The one method for the data of a form that a GET runs is deleteProduct, by the
\* name the allow list has of it; and a GET has no message.
THEOREM GetsRunListedFormHandler == BrokerSpec => []GetRunsListedFormHandler
<1>1. ASSUME NEW q, q.method = "GET"
      PROVE  Method(q) \in FormHandlers <=> q.ctlr = "admin" /\ q.action = "deleteProduct"
  <2>1. AcceptedAction(q) \in AllowList \cup {"none"}
    BY <1>1 DEF AcceptedAction
  <2>2. CASE q.ctlr = "admin" /\ q.action = "deleteProduct"
    <3>1. RenamedAction(q) = "deleteProduct"
      BY <1>1, <2>2 DEF AcceptedAction, RenamedAction, AllowList, SplitActions
    <3>2. "deleteProduct" \in ControllerMethods["admin"]
      BY DEF ControllerMethods
    <3> QED
      BY <2>2, <3>1, <3>2 DEF Method, FormHandlers, Controller
  <2>3. CASE q.ctlr = "admin" /\ q.action # "deleteProduct"
    <3>1. RenamedAction(q) \in {"listProducts", "viewProduct", "logout", "editProduct",
                                "none", "loginGET", "registerGET", "showAddProduct"}
      BY <1>1, <2>3 DEF AcceptedAction, RenamedAction, SplitActions, AllowList
    <3> QED
      BY <2>3, <3>1 DEF Method, FormHandlers
  <2>4. CASE q.ctlr # "admin"
    <3>1. Controller(q.ctlr) \in {"home", "cart", "default"}
      BY <2>4 DEF Controller
    <3>2. ControllerMethods[Controller(q.ctlr)] \cap FormHandlers = {}
      BY <3>1 DEF ControllerMethods, InheritedMethods, FormHandlers
    <3> QED
      BY <2>4, <3>2 DEF Method, FormHandlers
  <2> QED
    BY <2>2, <2>3, <2>4
<1>2. BrokerInv => GetRunsListedFormHandler
  BY <1>1 DEF BrokerInv, GetRunsListedFormHandler
<1> QED
  BY <1>2, BrokerInvariant, PTL
=============================================================================
