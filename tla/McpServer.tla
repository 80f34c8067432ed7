------------------------------ MODULE McpServer ------------------------------
(***************************************************************************)
(* The tool agentfirewall_execute of the MCP server, on top of the guarded *)
(* signer: what an agent that proposes a transaction is told about it.     *)
(* A proposal passes the guards of the adapter, gets the controller        *)
(* approval that the server, not the agent, holds, and becomes a call of   *)
(* guardAndSendVerified; the end of the call becomes the answer.           *)
(***************************************************************************)
EXTENDS GuardedSigner

CONSTANTS
    Proposals,        \* what an agent may propose
    SendEnabled,      \* AGENTFIREWALL_MCP_ENABLE_SEND
    SepoliaAccounts,  \* the accounts on the one chain the adapter serves
    ApprovalFor       \* AuthIds -> the configured controller approval, or None

ProposalType ==
    [authId: AuthIds, declared: CommitmentType, effect: Effects, from: Accounts, nonce: Nat]

RequestOf(p) ==
    [authId |-> p.authId, declared |-> p.declared, effect |-> p.effect,
     approval |-> ApprovalFor[p.authId]]

ASSUME McpAssumption ==
    /\ Proposals \subseteq ProposalType
    /\ SendEnabled \in BOOLEAN
    /\ SepoliaAccounts \subseteq Accounts
    /\ ApprovalFor \in [AuthIds -> ApprovalType \cup {None}]
    /\ \A p \in Proposals : ApprovalFor[p.authId] # None => RequestOf(p) \in Requests

VARIABLE answer  \* what the agent has been told about each call

mcpVars == <<vars, answer>>

\* The guards of the adapter: sending is enabled, both chains are Sepolia, the sender is the
\* server's wallet, the candidate's nonce is the declared one.
Adapted(c, p) ==
    /\ SendEnabled
    /\ {p.from, p.declared.account} \subseteq SepoliaAccounts
    /\ p.from = AccountOf[c]
    /\ p.nonce = p.declared.nonce

\* Fault: a broadcast that fails is thrown as it is, not as a GuardedSignerRejectedError.
ReportedUnwrapped(c) ==
    IF outcome'[c] = "sent" THEN "ALLOW" ELSE IF pc[c] = "broadcast" THEN "ERROR" ELSE "BLOCK"

\* Fault: an error of the signer is neither returned nor thrown.
ReportedOnlySuccess(c) == IF outcome'[c] = "sent" THEN "ALLOW" ELSE "none"

\* guardAndSendVerified throws nothing but GuardedSignerRejectedErrors.
Reported(c) == IF outcome'[c] = "sent" THEN "ALLOW" ELSE "BLOCK"

Tell(c, decision) == answer' = [answer EXCEPT ![c] = decision]

Unproposed(c) == pc[c] = "idle" /\ answer[c] = "none"

Refuse(c) ==
    /\ Unproposed(c)
    /\ \E p \in Proposals : ~ Adapted(c, p)
    /\ Tell(c, "BLOCK")
    /\ UNCHANGED vars

\* controllerApprovalFor throws.
NotApproved(c) ==
    /\ Unproposed(c)
    /\ \E p \in Proposals : Adapted(c, p) /\ ApprovalFor[p.authId] = None
    /\ Tell(c, "ERROR")
    /\ UNCHANGED vars

Propose(c) ==
    /\ Unproposed(c)
    /\ Step(c)
    /\ \E p \in Proposals :
          /\ Adapted(c, p)
          /\ ApprovalFor[p.authId] # None
          /\ local'[c].request = RequestOf(p)
    /\ UNCHANGED answer

Continue(c) ==
    /\ pc[c] # "idle"
    /\ Step(c)
    /\ IF pc'[c] = "done" THEN Tell(c, Reported(c)) ELSE UNCHANGED answer

McpInit == Init /\ answer = [c \in Calls |-> "none"]

McpNext ==
    \/ \E c \in Calls : Refuse(c) \/ NotApproved(c) \/ Propose(c) \/ Continue(c)
    \/ World /\ UNCHANGED answer

McpSpec == McpInit /\ [][McpNext]_mcpVars

\* Every awaited promise of a call settles.  Whether an agent ever proposes is its own affair.
McpFairSpec == McpSpec /\ \A c \in Calls : WF_mcpVars(Continue(c))

-----------------------------------------------------------------------------
(* Properties                                                               *)

\* ERROR, which the tool always reports with signerCalled: false, is never said of a call
\* that has asked the signer; and ALLOW is said of no call that has not asked it once.
AnswersCountSigner ==
    \A c \in Calls :
        /\ answer[c] = "ERROR" => signerCalls[c] = 0
        /\ answer[c] = "ALLOW" => signerCalls[c] = 1 /\ dispatched[c] # None

\* An agent that proposes the same authorization twice, at the same time or again, is told
\* ALLOW a second time only when the node no longer holds the first transaction.
AllowedAgainOnlyIfLost ==
    [][\A c, d \in Calls :
          (/\ c # d /\ ProcessOf[c] = ProcessOf[d] /\ AccountOf[c] = AccountOf[d]
           /\ answer[d] = "ALLOW"
           /\ answer[c] # "ALLOW" /\ answer'[c] = "ALLOW"
           /\ dispatched[c].request.authId = dispatched[d].request.authId)
          => ~ Landed(d)]_mcpVars

\* What an agent has been told is the last word on its proposal: nothing is signed, handed over
\* or settled for it afterwards, and the answer does not change.
AnswerIsTheEnd ==
    [][\A c \in Calls : answer[c] # "none" =>
          UNCHANGED <<answer[c], pc[c], signerCalls[c], dispatched[c], outcome[c]>>]_mcpVars

\* The end of a call is what its agent has been told, ALLOW if it returned and BLOCK if it
\* threw, and only a call whose process died ends without an answer.
EndsAsAnswered ==
    \A c \in Calls :
        /\ outcome[c] = "sent" <=> answer[c] = "ALLOW"
        /\ outcome[c] = "rejected" <=> answer[c] = "BLOCK" /\ pc[c] = "done"
        /\ outcome[c] = "crashed" <=> answer[c] = "none" /\ pc[c] = "done"

\* Every call of the signer made for an agent is answered, unless the server itself dies: no
\* failure on the way leaves an agent waiting.
EveryProposalAnswered ==
    \A c \in Calls : pc[c] # "idle" ~> (answer[c] # "none" \/ outcome[c] = "crashed")

\* The tool's description: "BLOCK never reaches signTransaction()."
BlockNeverReachesSigner ==
    \A c \in Calls : answer[c] = "BLOCK" => signerCalls[c] = 0

=============================================================================
