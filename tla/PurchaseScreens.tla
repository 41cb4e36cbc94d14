-------------------------- MODULE PurchaseScreens ---------------------------
(***************************************************************************)
(* The pages about purchase requests: two for administrators, which show   *)
(* the same rows under keys of their own, two for finance and a tab for    *)
(* managers.                                                               *)
(***************************************************************************)
EXTENDS Screens

PurchasesEvery30(key, want) == Part({Query(key, "purchases", want, 30)}, {}, {})

-----------------------------------------------------------------------------
(* The pipeline page.                                                      *)

NewPrModal == Part({}, {Form(<<"purchase">>, {"procurement-prs"}, Stay)}, {})

\* The form starts from the shown copy of the request.  If the second call is
\* refused the first has been made, and nothing is refreshed.
ReviewModal ==
    Part({}, {Button(<<<<"edit">>, <<"submit">>>>, "procurement-prs", {"RAISED"}, {"procurement-prs"})}, {})

PoModal ==
    Part({}, {Button(<<<<"order">>>>, "procurement-prs", {"FINANCE_APPROVED"}, {"procurement-prs"})}, {})

ReceiveModal ==
    Part({}, {Button(<<<<"receive">>>>, "procurement-prs", {"PO_RAISED"}, {"procurement-prs"})}, {})

ProcurementPipelinePage ==
    Page(<<PurchasesEvery30("procurement-prs", OrderStatus), NewPrModal, ReviewModal, PoModal, ReceiveModal>>)

-----------------------------------------------------------------------------
(* The page of purchase requests, with a drawer for one of them.           *)

NewRequestModal == Part({}, {Form(<<"purchase">>, {"purchase-requests"}, Stay)}, {})

\* Both dialogs open from a row of the table and from the drawer.
FromRowOrDrawer(call, status, refreshes) ==
    Part({}, {Button(<<call>>, key, {status}, refreshes \cup {"purchase-requests", "pr-detail"})
                  : key \in {"purchase-requests", "pr-detail"}}, {})

RecordOrder == FromRowOrDrawer(<<"order">>, "FINANCE_APPROVED", {})
RecordReceipt == FromRowOrDrawer(<<"receive">>, "PO_RAISED", {"devices"})

PrDetailDrawer == Part({Query("pr-detail", "purchase", OrderStatus, Never)}, {}, {})

PurchaseRequestsPage ==
    Page(<<PurchasesEvery30("purchase-requests", OrderStatus), NewRequestModal, RecordOrder, RecordReceipt,
           PrDetailDrawer>>)

-----------------------------------------------------------------------------
(* Approval.                                                               *)

Decision(decision, key, from) == Button(<<<<"approve", decision>>>>, key, from, {key})

\* On every row the server lists, whatever its status.
FinanceApprovalsPage ==
    Page(<<PurchasesEvery30("finance-approvals", OrderStatus),
           Part({}, {Decision(d, "finance-approvals", OrderStatus) : d \in {"APPROVED", "ON_HOLD", "REJECTED"}}, {})>>)

RejectPanel == Part({}, {Decision("REJECTED", "finance-prs", OrderStatus)}, {})

FinancePurchaseRequestsPage ==
    Page(<<PurchasesEvery30("finance-prs", OrderStatus), RejectPanel,
           Part({}, {Decision(d, "finance-prs", OrderStatus) : d \in {"APPROVED", "ON_HOLD"}}, {})>>)

\* Seeded fault: what is on hold is filtered away.
ActionableUnlessHeld == {"PENDING_MANAGER_APPROVAL", "PENDING_FINANCE_APPROVAL"}

\* The statuses the page takes to have "a decision actually available to the
\* caller".
ActionableStatuses == {"PENDING_MANAGER_APPROVAL", "PENDING_FINANCE_APPROVAL", "ON_HOLD"}

ManagerDeviceRequestsTab ==
    Part({AskedQuery("pending-device-approvals", "requests", {"PENDING_MANAGER_APPROVAL"}, 30)},
         {Button(<<<<"decide", d>>>>, "pending-device-approvals", RequestStatus, {"pending-device-approvals"})
              : d \in {"APPROVED", "REJECTED"}}, {})

ManagerPurchaseRequestsTab ==
    Page(<<PurchasesEvery30("pending-pr-approvals", ActionableStatuses),
           Part({}, {Decision(d, "pending-pr-approvals", ActionableStatuses)
                         : d \in {"APPROVED", "ON_HOLD", "REJECTED"}}, {})>>)

\* The page keeps both queries alive for the counts on its tabs.
ManagerApprovalsPage == Page(<<ManagerDeviceRequestsTab, ManagerPurchaseRequestsTab>>)
=============================================================================
