---------------------------- MODULE MCServices ----------------------------
(* One service at a time: each behaviour is of the one chosen at the start. *)
EXTENDS AccessControl, ContractRecord, ExternalApi, ExportBundles,
    Deployment, Documents, Membership, Workspace, AnchorProofs

CONSTANTS
    t1, t2,
    FewRequests     \* requests where inputs are many or requests overlap (a bound)

MCSeededGrants == { <<"ann", "administrator">> }
MCSeededLogins == << "ann" >>
MCTermSets == {t1, t2}
MCSeededContracts == << t1 >>
MCPartiesOf == [o \in DealOrders |-> [ buyer |-> "acme", supplier |-> "bolt",
                                        financier |-> "credit" ]]
MCWorkspaceActors ==
    { [ org |-> "acme", role |-> "buyer" ], [ org |-> "acme", role |-> "member" ],
      [ org |-> "credit", role |-> "financier" ] }
MCTasksAsked == {[ kind |-> "invoice-needed", of |-> "d1" ]}

MCEnvironments ==
    { [ adapter |-> "in-memory", complete |-> FALSE, valid |-> FALSE ],
      [ adapter |-> "misspelled", complete |-> TRUE, valid |-> TRUE ],
      [ adapter |-> "fabric-local", complete |-> FALSE, valid |-> TRUE ],
      [ adapter |-> "fabric", complete |-> TRUE, valid |-> FALSE ],
      [ adapter |-> "fabric", complete |-> TRUE, valid |-> TRUE ] }

VARIABLE service

Init ==
    /\ service \in {"access", "contracts", "external", "exports",
                    "deployment", "documents", "membership", "workspace", "anchors"}
    /\ HandlingInit
    /\ AccessInit
    /\ ContractInit
    /\ ExternalInit
    /\ ExportInit
    /\ DeploymentInit
    /\ DocumentInit
    /\ MembershipInit
    /\ WorkspaceInit
    /\ AnchorInit
    /\ service # "anchors" =>
           started.adapter = "in-memory" /\ \A e \in Requests : proofRows[e] = None
    /\ service \in {"deployment", "workspace"} => limit = 1

\* The services that are not the chosen one keep their state.
OthersStay ==
    /\ service # "access" => UNCHANGED accessVars
    /\ service # "contracts" => UNCHANGED agreement
    /\ service # "external" => UNCHANGED externalVars
    /\ service # "exports" => UNCHANGED exportVars
    /\ service # "deployment" => UNCHANGED deploymentVars
    /\ service # "documents" => UNCHANGED documentVars
    /\ service # "membership" => UNCHANGED memberVars
    /\ service # "workspace" => UNCHANGED workspaceVars
    /\ service # "anchors" => UNCHANGED anchorVars

services == <<accessVars, agreement, externalVars, exportVars, deploymentVars, documentVars,
              memberVars, workspaceVars, anchorVars>>

\* Where requests overlap, few of them do.
Few(r) == limit = 1 \/ r <= FewRequests

\* Of the financier's requests, a summary that is asked for last.
FinancierLast(r) ==
    job'[r] # None /\ job'[r].actor.role = "financier" =>
        r = FewRequests /\ job'[r].what = "summary"

Step(r) ==
    \/ service = "access" /\ Few(r) /\ AccessStep(r)
    \/ service = "contracts" /\ ContractStep(r)
    \/ service = "external" /\ Few(r) /\ ExternalStep(r)
    \/ service = "exports" /\ ExportStep(r)
    \/ service = "documents" /\ r <= FewRequests /\ DocumentStep(r)
    \/ service = "membership" /\ Few(r) /\ MembershipStep(r)
    \/ service = "workspace" /\ r <= FewRequests /\ WorkspaceStep(r) /\ FinancierLast(r)
    \/ service = "anchors" /\ r <= FewRequests /\ AnchorStep(r)

Next ==
    /\ UNCHANGED service
    /\ OthersStay
    /\ \/ \E r \in Requests :
           \/ Step(r)
           \/ pc[r] \notin Caught /\ QueryFails(r) /\ UNCHANGED services
       \/ /\ Crash
          /\ CASE service = "exports" -> Restart
               [] service = "workspace" -> RestartWorkspace
               [] service = "anchors" -> NewProcess
               [] OTHER -> UNCHANGED services
       \/ service = "deployment" /\ DeploymentStep /\ UNCHANGED handling
       \/ service = "workspace" /\ OthersWrite
       \/ service = "anchors" /\ UNCHANGED handling /\ \E e \in Requests : CommitsLate(e)
       \/ /\ service = "anchors" /\ UNCHANGED handling
          /\ ~\E r \in Requests : InFlight(r)
          /\ NewProcess

vars == <<service, handling, services>>

Spec == Init /\ [][Next]_vars
=============================================================================
