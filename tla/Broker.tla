------------------------------- MODULE Broker -------------------------------
(***************************************************************************)
(* The front controller, public index.php: one request goes through the    *)
(* reading of its routing parameters, the choice of a controller and the   *)
(* dispatch by DefaultController::run.  Every step is one statement group  *)
(* of the script; what the chosen method then does is in AdminSession and  *)
(* Catalog.                                                                *)
(***************************************************************************)
EXTENDS Routes

CONSTANTS
    Methods,    \* HTTP methods a client sends
    Ctlrs,      \* values of the ctlr parameter
    Actions     \* values of the action parameter

ASSUME MethodsAssumption == "GET" \in Methods

VARIABLES
    request,    \* the request being served
    phase,      \* "received", "read", "selected" or "run"
    post,       \* $post of index.php
    ctlr,       \* $ctlr, then the class of $controller
    action,     \* $action
    vm          \* $vm handed to the method: "null" or "message"

brokerVars == <<request, phase, post, ctlr, action, vm>>

Requests == [method : Methods, ctlr : Ctlrs, action : Actions]

\* The method that runs is one of the class that was chosen.
BrokerTypeOK ==
    /\ request \in Requests
    /\ phase \in {"received", "read", "selected", "run"}
    /\ post \in BOOLEAN
    /\ vm \in {"null", "message"}
    /\ phase \in {"selected", "run"} => ctlr \in DOMAIN ControllerMethods
    /\ phase = "run" => action \in ControllerMethods[ctlr]

\* session_start() has returned; $post = true is the first assignment.
BrokerInit ==
    /\ request \in Requests
    /\ phase = "received"
    /\ post = TRUE
    /\ ctlr = "none"
    /\ action = "none"
    /\ vm = "null"

\* Mutant of ReadGet: $post keeps its initial value.
ReadGetKeepsPost ==
    /\ phase = "received"
    /\ request.method = "GET"
    /\ phase' = "read"
    /\ ctlr' = request.ctlr
    /\ action' = AcceptedAction(request)
    /\ UNCHANGED <<request, post, vm>>

\* The GET branch.  The condition `!$action !== ''` compares a boolean with
\* a string, so it always holds and $post is always cleared.
ReadGet == /\ phase = "received"
           /\ request.method = "GET"
           /\ phase' = "read"
           /\ post' = FALSE
           /\ ctlr' = request.ctlr
           /\ action' = AcceptedAction(request)
           /\ UNCHANGED <<request, vm>>

\* The other branch: every method that is not GET.  getErrorInstance()
\* leaves errorMsg empty, so the reset of action and ctlr never happens.
ReadPost == /\ phase = "received"
            /\ request.method # "GET"
            /\ phase' = "read"
            /\ ctlr' = IF request.ctlr = "none" THEN "index" ELSE request.ctlr
            /\ action' = AcceptedAction(request)
            /\ vm' = "message"
            /\ UNCHANGED <<request, post>>

\* The switch on $ctlr.
SelectController ==
    /\ phase = "read"
    /\ phase' = "selected"
    /\ ctlr' = Controller(ctlr)
    /\ action' = IF ctlr = "admin" /\ action \in DOMAIN SplitActions
                 THEN IF post THEN SplitActions[action].form
                              ELSE SplitActions[action].page
                 ELSE action
    /\ UNCHANGED <<request, post, vm>>

\* Mutant of Run: the inherited methods are not looked up.
RunNoFallback == /\ phase = "selected"
                 /\ phase' = "run"
                 /\ UNCHANGED <<request, post, ctlr, action, vm>>

\* DefaultController::run.
Run == /\ phase = "selected"
       /\ phase' = "run"
       /\ action' = IF action \in ControllerMethods[ctlr] THEN action ELSE "index"
       /\ UNCHANGED <<request, post, ctlr, vm>>

\* The method returned and the script ended.
Answered == phase = "run" /\ UNCHANGED brokerVars

BrokerNext == ReadGet \/ ReadPost \/ SelectController \/ Run \/ Answered

BrokerSpec == BrokerInit /\ [][BrokerNext]_brokerVars
-----------------------------------------------------------------------------
\* The statements of the script, taken in their order, select exactly the
\* controller and method that Routes!Route gives: the other modules may route
\* in one step.
RoutedAsDefined ==
    phase = "run" => Route(request) = [controller |-> ctlr, method |-> action]

\* The methods whose view models work on the body of the request, and on nothing
\* else that it carries.
FormHandlers == {"loginPOST", "registerPOST", "addEditProduct",
                 "showEditProduct", "deleteProduct"}

\* Of these a GET request, whatever names it carries, runs the one that the allow
\* list has a name of: the administration's deleteProduct.  The list keeps the
\* other names out and the cleared $post sends the shared names to their pages.
\* A GET also never replaces the view model of the default page by a message.
\* (That such a deleteProduct deletes nothing is Shop's GetChangesNothing.)
GetRunsListedFormHandler ==
    phase = "run" /\ request.method = "GET" =>
        /\ action \in FormHandlers <=>
              request.ctlr = "admin" /\ request.action = "deleteProduct"
        /\ vm = "null"
=============================================================================
