----------------------------- MODULE MCRequests -----------------------------
(* Requests for every operation of StoreOperations and PageActions.        *)
EXTENDS Requests, PageActions, ServerHandlers, HttpRoutes

EveryOperation == AllOperations @@ PageActionOperations
=============================================================================
