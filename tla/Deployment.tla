----------------------------- MODULE Deployment -----------------------------
(***************************************************************************)
(* Deploying USDY.  Three parties act on one set of contracts:             *)
(*                                                                         *)
(*  - the hardhat-deploy scripts Prod-USDY-1 .. Prod-USDY-5, whose         *)
(*    transactions are signed by signers[0];                               *)
(*  - the Defender tasks 1-usdy-prod .. 5-usdyManager-prod, which send no  *)
(*    transaction but propose calls to a Safe, or save an address that a   *)
(*    factory reports under a name of the deployment records;              *)
(*  - the Safe, which executes proposals whenever its signers get to it,   *)
(*    in any order, or never.                                              *)
(*                                                                         *)
(* A script is a sequence of steps, one for each transaction, saved record *)
(* or proposal; the records it reads in between are its own and change     *)
(* under nobody else.  A deployment by hardhat-deploy is one step with the *)
(* record it saves: the pending transaction is kept in a file, so that a   *)
(* run stopped in between is resumed with the same contract.  A script may *)
(* be run again at any time and may stop between two steps, and a step     *)
(* whose record is missing or whose transaction reverts throws, which ends *)
(* the script there.                                                       *)
(***************************************************************************)
EXTENDS Naturals, Sequences, FiniteSets

CONSTANTS
  Deployer,       \* signers[0], namedAccounts.deployer
  Guardian,       \* PROD_GUARDIAN_OMMF and PROD_GUARDIAN_USDY, the Safe
  ManagerAdmin,   \* PROD_MANAGER_ADMIN_USDY
  Pauser,         \* PROD_PAUSER_USDY
  FollowedRoles,  \* bound: the roles whose proposals a run follows
  MaxTokens,      \* bound on the tokens the factory deploys
  MaxAllowlists,  \* bound on the allowlist proxies its factory deploys
  MaxAborts       \* bound on the scripts that are stopped half-way

ASSUME DeploymentAssumption ==
  /\ FollowedRoles \subseteq STRING
  /\ MaxTokens \in Nat
  /\ MaxAllowlists \in Nat
  /\ MaxAborts \in Nat

Accounts == {Deployer, Guardian, ManagerAdmin, Pauser}

\* An address is the kind of its contract and a number; a contract whose
\* constructor arguments never change has one instance.
Kinds == {"Allowlist", "AllowlistFactory", "AllowlistProxy", "Blocklist",
          "AggregatorBlocklist", "USDYFactory", "USDY", "Pricer", "USDYManager"}
Contracts == Kinds \X Nat
ZeroAddress == <<"zero", 0>>
Addresses == Contracts \cup {ZeroAddress}
The(kind) == <<kind, 1>>
USDY(n) == <<"USDY", n>>
USDYManager(n) == <<"USDYManager", n>>

\* The accounts of mainnet_constants.ts are no contracts of this deployment.
ASSUME AccountsAssumption == \A account \in Accounts : account \notin Contracts

Names == {"Allowlist", "AllowlistFactory", "Blocklist", "AggregatorBlocklist",
          "USDYFactory", "USDY", "USDY_Pricer", "USDYManager"}
Missing == <<"missing", 0>>

Roles == {"DEFAULT_ADMIN_ROLE", "MINTER_ROLE", "PAUSER_ROLE", "MANAGER_ADMIN",
          "PAUSER_ADMIN", "PRICE_ID_SETTER_ROLE", "TIMESTAMP_SETTER_ROLE",
          "LIST_CONFIGURER_ROLE", "RELAYER_ROLE"}

Scripts == {"Prod-USDY-1", "Prod-USDY-2", "Prod-USDY-3", "Prod-USDY-4",
            "Prod-USDY-5", "1-usdy-prod", "2-save-usdy-prod", "3-usdy-prod",
            "4-save-usdy-prod", "5-usdyManager-prod"}

VARIABLES
  (* On chain. *)
  lists,       \* AggregatorBlocklist.blocklists
  allowlists,  \* how many proxies AllowlistFactory deployed
  tokens,      \* the USDY proxies of USDYFactory, the last is usdyProxy
  managers,    \* the USDYManager contracts
  grants,      \* <<contract, role, member>> of the tokens and the managers
  (* Off chain. *)
  records,     \* deployments/<network>/<name>.json
  proposals,   \* calls proposed to the Safe; a task run again proposes again
  job,         \* the script under way, its next step, an address it has read
  aborts,      \* how many scripts were stopped half-way
  announced    \* History: what "All has done." was printed for: <<manager, token>>

chain == <<lists, allowlists, tokens, managers, grants>>
offChain == <<records, proposals, announced>>
depVars == <<chain, offChain, job, aborts>>

Token == [blocklist: Addresses, allowlist: Addresses]
Manager == [rwa: Addresses, blocklist: Addresses, pricer: Addresses]
Members == Accounts \cup Addresses
Calls == [fn: {"grantRole"}, to: Addresses, role: Roles, arg: Members]
           \cup [fn: {"setPricer", "deployAllowlist", "deployUSDY"},
                 to: Addresses, role: {""}, arg: Addresses]
Idle == [script |-> "none", step |-> 0, proxy |-> ZeroAddress]

DepTypeOK ==
  /\ lists \subseteq Contracts
  /\ allowlists \in Nat
  /\ tokens \in Seq(Token)
  /\ managers \in Seq(Manager)
  /\ grants \subseteq Contracts \X Roles \X Members
  /\ records \in [Names -> Addresses \cup {Missing}]
  /\ proposals \subseteq Calls
  /\ job \in [script: Scripts \cup {"none"}, step: Nat, proxy: Addresses]
  /\ aborts \in Nat
  /\ announced \subseteq Contracts \X Contracts

\* A network may hold an AllowlistFactory of this guardian; no enabled script
\* deploys one, and the tasks 1-usdy-prod and 2-save-usdy-prod need it.
DepInit ==
  /\ lists = {}
  /\ allowlists = 0
  /\ tokens = <<>>
  /\ managers = <<>>
  /\ grants = {}
  /\ \E found \in {Missing, The("AllowlistFactory")} :
       records = [name \in Names |->
                    IF name = "AllowlistFactory" THEN found ELSE Missing]
  /\ proposals = {}
  /\ job = Idle
  /\ aborts = 0
  /\ announced = {}

-----------------------------------------------------------------------------
(* Contracts. *)

usdyProxy == IF tokens = <<>> THEN ZeroAddress ELSE USDY(Len(tokens))
allowlistProxy ==
  IF allowlists = 0 THEN ZeroAddress ELSE <<"AllowlistProxy", allowlists>>

\* grantRole and revokeRole of a token in the transaction that deploys it,
\* on its set of <<role, member>>.  The set is empty once a call reverted,
\* and stays empty: nobody is an admin of it.
Granted(roles, sender, role, member) ==
  IF <<"DEFAULT_ADMIN_ROLE", sender>> \in roles THEN roles \cup {<<role, member>>}
                                                ELSE {}
Revoked(roles, sender, role, member) ==
  IF <<"DEFAULT_ADMIN_ROLE", sender>> \in roles THEN roles \ {<<role, member>>}
                                                ELSE {}

\* What USDY.initialize grants to its caller.
InitialRoles(factory) ==
  {"DEFAULT_ADMIN_ROLE", "MINTER_ROLE", "PAUSER_ROLE"} \X {factory}

\* Mutant: the factory keeps MINTER_ROLE.
HandOverKeepsMinter(factory) ==
  LET admin == Granted(InitialRoles(factory), factory, "DEFAULT_ADMIN_ROLE", Guardian)
      pauser == Granted(admin, factory, "PAUSER_ROLE", Guardian)
      noPauser == Revoked(pauser, factory, "PAUSER_ROLE", factory)
  IN  Revoked(noPauser, factory, "DEFAULT_ADMIN_ROLE", factory)

\* Mutant: the factory gives up DEFAULT_ADMIN_ROLE before the other two.
HandOverAdminFirst(factory) ==
  LET admin == Granted(InitialRoles(factory), factory, "DEFAULT_ADMIN_ROLE", Guardian)
      pauser == Granted(admin, factory, "PAUSER_ROLE", Guardian)
      noAdmin == Revoked(pauser, factory, "DEFAULT_ADMIN_ROLE", factory)
      noMinter == Revoked(noAdmin, factory, "MINTER_ROLE", factory)
  IN  Revoked(noMinter, factory, "PAUSER_ROLE", factory)

HandOver(factory) ==
  LET admin == Granted(InitialRoles(factory), factory, "DEFAULT_ADMIN_ROLE", Guardian)
      pauser == Granted(admin, factory, "PAUSER_ROLE", Guardian)
      noMinter == Revoked(pauser, factory, "MINTER_ROLE", factory)
      noPauser == Revoked(noMinter, factory, "PAUSER_ROLE", factory)
  IN  Revoked(noPauser, factory, "DEFAULT_ADMIN_ROLE", factory)

\* Mutant: a zero list is accepted.
UsdyDeployableUnlisted(sender, blocklist, allowlist) ==
  sender = Guardian /\ HandOver(The("USDYFactory")) # {}

\* deployUSDY is not guarded against a second call: it replaces usdyProxy.
\* The token refuses address(0) as a list.
UsdyDeployable(sender, blocklist, allowlist) ==
  /\ sender = Guardian
  /\ ZeroAddress \notin {blocklist, allowlist}
  /\ HandOver(The("USDYFactory")) # {}

DeployUSDY(blocklist, allowlist) ==
  /\ tokens' = Append(tokens, [blocklist |-> blocklist, allowlist |-> allowlist])
  /\ grants' = grants \cup {<<USDY(Len(tokens) + 1), entry[1], entry[2]>> :
                              entry \in HandOver(The("USDYFactory"))}
  /\ UNCHANGED <<lists, allowlists, managers>>

DeployAllowlist ==
  /\ allowlists < MaxAllowlists
  /\ allowlists' = allowlists + 1
  /\ UNCHANGED <<lists, tokens, managers, grants>>

RoleAdmin(contract, role) ==
  IF /\ contract[1] = "USDYManager"
     /\ role \in {"PAUSER_ADMIN", "PRICE_ID_SETTER_ROLE", "RELAYER_ROLE"}
    THEN "MANAGER_ADMIN" ELSE "DEFAULT_ADMIN_ROLE"

MayGrant(sender, contract, role) ==
  <<contract, RoleAdmin(contract, role), sender>> \in grants

\* A call to address(0) succeeds and does nothing.
GrantRole(sender, contract, role, member) ==
  /\ \/ contract = ZeroAddress /\ UNCHANGED grants
     \/ /\ MayGrant(sender, contract, role)
        /\ grants' = grants \cup {<<contract, role, member>>}
  /\ UNCHANGED <<lists, allowlists, tokens, managers>>

MaySetPricer(sender, manager) == <<manager, "MANAGER_ADMIN", sender>> \in grants

SetPricer(sender, manager, pricer) ==
  /\ MaySetPricer(sender, manager)
  /\ managers' = [managers EXCEPT ![manager[2]].pricer = pricer]
  /\ UNCHANGED <<lists, allowlists, tokens, grants>>

-----------------------------------------------------------------------------
(* Records and steps of a script. *)

Recorded(name) == records[name] # Missing
Save(name, address) ==
  /\ records' = [records EXCEPT ![name] = address]
  /\ UNCHANGED <<proposals, announced>>

At(script, step) == job.script = script /\ job.step = step
Proceed == job' = [job EXCEPT !.step = @ + 1]
Finish == job' = Idle
Throw == job' = Idle /\ UNCHANGED <<chain, offChain>>

\* hardhat-deploy: the contract on record is used again when nothing about it
\* changed; a record that was saved by hand makes deploy throw.  Transaction
\* and saved record are one step (external: its file of pending transactions
\* makes an interrupted deployment resume).
Deployable(name, kind) == ~Recorded(name) \/ records[name][1] = kind
DeployOnce(name, kind) ==
  /\ Deployable(name, kind)
  /\ Save(name, IF Recorded(name) THEN records[name] ELSE The(kind))
  /\ UNCHANGED chain

Call(fn, to, role, arg) == [fn |-> fn, to |-> to, role |-> role, arg |-> arg]
Propose(call) ==
  /\ proposals' = proposals \cup {call}
  /\ UNCHANGED <<chain, records, announced>>

\* 1_deploy_allowlist.ts
AllowlistScript ==
  /\ At("Prod-USDY-1", 1)
  /\ \/ DeployOnce("Allowlist", "Allowlist") /\ Finish
     \/ ~Deployable("Allowlist", "Allowlist") /\ Throw

\* 2_deploy_blocklist.ts
BlocklistScript ==
  \/ /\ At("Prod-USDY-2", 1)
     /\ DeployOnce("Blocklist", "Blocklist")
     /\ Proceed
  \/ /\ At("Prod-USDY-2", 2)
     /\ DeployOnce("AggregatorBlocklist", "AggregatorBlocklist")
     /\ Proceed
  \/ /\ At("Prod-USDY-2", 3)
     /\ lists' = lists \cup {records["Blocklist"]}
     /\ UNCHANGED <<allowlists, tokens, managers, grants, offChain>>
     /\ Finish

\* Mutant: a missing record is passed on.
AggregatorRecorded == Recorded("AggregatorBlocklist")

\* deployments.get throws when there is no record of the name.
ListsRecorded == Recorded("Allowlist") /\ Recorded("AggregatorBlocklist")

\* 3_deploy_usdyFactory.ts: the second step runs whether or not the factory
\* has deployed a token before.
UsdyFactoryScript ==
  \/ /\ At("Prod-USDY-3", 1)
     /\ DeployOnce("USDYFactory", "USDYFactory")
     /\ Proceed
  \/ /\ At("Prod-USDY-3", 2)
     /\ LET blocklist == records["AggregatorBlocklist"]
            allowlist == records["Allowlist"]
            ready == ListsRecorded /\ UsdyDeployable(Deployer, blocklist, allowlist)
        IN  \/ ready /\ DeployUSDY(blocklist, allowlist) /\ UNCHANGED offChain /\ Finish
            \/ ~ready /\ Throw

\* 4_deploy_usdy_pricer.ts
PricerScript ==
  /\ At("Prod-USDY-4", 1)
  /\ DeployOnce("USDY_Pricer", "Pricer")
  /\ Finish

\* Mutant: every run deploys a manager.
ReusableNever(rwa, blocklist) == FALSE

\* Mutant: the manager on record is used whatever its token.
ReusableAlways(rwa, blocklist) == Recorded("USDYManager")

\* The constructor arguments of the manager on record are the same.
Reusable(rwa, blocklist) ==
  /\ Recorded("USDYManager")
  /\ managers[records["USDYManager"][2]].rwa = rwa
  /\ managers[records["USDYManager"][2]].blocklist = blocklist

\* Mutant: the administrator is passed as the pauser too.
ManagerRolesTwice(manager) ==
  {<<manager, "DEFAULT_ADMIN_ROLE", ManagerAdmin>>,
   <<manager, "MANAGER_ADMIN", ManagerAdmin>>,
   <<manager, "PAUSER_ADMIN", ManagerAdmin>>}

ManagerRoles(manager) ==
  {<<manager, "DEFAULT_ADMIN_ROLE", ManagerAdmin>>,
   <<manager, "MANAGER_ADMIN", ManagerAdmin>>,
   <<manager, "PAUSER_ADMIN", Pauser>>}

DeployManager(rwa, blocklist) ==
  \/ Reusable(rwa, blocklist) /\ UNCHANGED <<chain, offChain>>
  \/ /\ ~Reusable(rwa, blocklist)
     /\ managers' = Append(managers, [rwa |-> rwa, blocklist |-> blocklist,
                                      pricer |-> ZeroAddress])
     /\ grants' = grants \cup ManagerRoles(USDYManager(Len(managers) + 1))
     /\ Save("USDYManager", USDYManager(Len(managers) + 1))
     /\ UNCHANGED <<lists, allowlists, tokens>>

\* 5_deploy_usdyManager.ts
UsdyManagerScript ==
  LET usdy == job.proxy
      manager == records["USDYManager"]
      pricer == records["USDY_Pricer"]
  IN
  \/ /\ At("Prod-USDY-5", 1)
     /\ \/ /\ Recorded("USDYFactory") /\ usdyProxy # ZeroAddress
           /\ job' = [job EXCEPT !.step = 2, !.proxy = usdyProxy]
           /\ UNCHANGED <<chain, offChain>>
        \/ (~Recorded("USDYFactory") \/ usdyProxy = ZeroAddress) /\ Throw
  \/ /\ At("Prod-USDY-5", 2)
     /\ \/ Recorded("AggregatorBlocklist")
             /\ DeployManager(usdy, records["AggregatorBlocklist"]) /\ Proceed
        \/ ~Recorded("AggregatorBlocklist") /\ Throw
  \/ /\ At("Prod-USDY-5", 3)
     /\ LET hasRole == <<usdy, "MINTER_ROLE", manager>> \in grants
        IN  \/ hasRole /\ UNCHANGED <<chain, offChain>> /\ Proceed
            \/ ~hasRole /\ GrantRole(Deployer, usdy, "MINTER_ROLE", manager)
                        /\ UNCHANGED offChain /\ Proceed
            \/ ~hasRole /\ ~MayGrant(Deployer, usdy, "MINTER_ROLE") /\ Throw
  \/ /\ At("Prod-USDY-5", 4)
     /\ LET isSet == managers[manager[2]].pricer = pricer
        IN  \/ Recorded("USDY_Pricer") /\ isSet /\ UNCHANGED <<chain, offChain>> /\ Proceed
            \/ Recorded("USDY_Pricer") /\ ~isSet /\ SetPricer(Deployer, manager, pricer)
                 /\ UNCHANGED offChain /\ Proceed
            \/ ~Recorded("USDY_Pricer") /\ Throw
            \/ ~isSet /\ ~MaySetPricer(Deployer, manager) /\ Throw
  \/ /\ At("Prod-USDY-5", 5)
     /\ \/ /\ Recorded("Allowlist")
           /\ announced' = announced \cup {<<manager, usdy>>}
           /\ UNCHANGED <<chain, records, proposals>>
           /\ Finish
        \/ ~Recorded("Allowlist") /\ Throw

-----------------------------------------------------------------------------
(* The Defender tasks. *)

\* 1-allowlist-prod.ts
ProposeAllowlistTask ==
  /\ At("1-usdy-prod", 1)
  /\ \/ /\ Recorded("AllowlistFactory")
        /\ Propose(Call("deployAllowlist", records["AllowlistFactory"], "", ZeroAddress))
        /\ Finish
     \/ ~Recorded("AllowlistFactory") /\ Throw

\* 2-save-allowlist-prod.ts: the proxy is read, and saved some awaits later,
\* whether or not the factory has deployed one.
SaveAllowlistTask ==
  \/ /\ At("2-save-usdy-prod", 1)
     /\ \/ /\ Recorded("AllowlistFactory")
           /\ job' = [job EXCEPT !.step = 2, !.proxy = allowlistProxy]
           /\ UNCHANGED <<chain, offChain>>
        \/ ~Recorded("AllowlistFactory") /\ Throw
  \/ /\ At("2-save-usdy-prod", 2)
     /\ Save("Allowlist", job.proxy)
     /\ UNCHANGED chain
     /\ Finish

\* 3-usdy-prod.ts: the call has a tuple of three lists where the factory's
\* function has two, so it is another function and always reverts.
ProposeUsdyTask ==
  /\ At("3-usdy-prod", 1)
  /\ LET ready == Recorded("USDYFactory") /\ Recorded("Blocklist") /\ Recorded("Allowlist")
     IN  \/ /\ ready
            /\ Propose(Call("deployUSDY", records["USDYFactory"], "", ZeroAddress))
            /\ Finish
         \/ ~ready /\ Throw

\* 4-save-usdy-prod.ts
SaveUsdyTask ==
  \/ /\ At("4-save-usdy-prod", 1)
     /\ \/ /\ Recorded("USDYFactory")
           /\ job' = [job EXCEPT !.step = 2, !.proxy = usdyProxy]
           /\ UNCHANGED <<chain, offChain>>
        \/ ~Recorded("USDYFactory") /\ Throw
  \/ /\ At("4-save-usdy-prod", 2)
     /\ Save("USDY", job.proxy)
     /\ UNCHANGED chain
     /\ Finish

\* The calls 5-usdyManager-prod proposes, in its order.
ManagerCalls ==
  LET usdy == records["USDY"]
      manager == records["USDYManager"]
  IN  << Call("grantRole", usdy, "MINTER_ROLE", manager),
         Call("grantRole", usdy, "PAUSER_ROLE", Pauser),
         Call("setPricer", manager, "", records["USDY_Pricer"]),
         Call("grantRole", manager, "PRICE_ID_SETTER_ROLE", ManagerAdmin),
         Call("grantRole", manager, "TIMESTAMP_SETTER_ROLE", ManagerAdmin),
         Call("grantRole", manager, "PAUSER_ROLE", Pauser),
         Call("grantRole", manager, "LIST_CONFIGURER_ROLE", ManagerAdmin),
         Call("grantRole", manager, "RELAYER_ROLE", ManagerAdmin) >>

Followed(call) == call.fn = "grantRole" => call.role \in FollowedRoles
FollowedSteps == {step \in 1..8 : Followed(ManagerCalls[step])}

\* The task goes on with the next call that is followed, or ends.
NextCall(step) ==
  \E next \in FollowedSteps \cup {9} :
    /\ next > step
    /\ \A other \in FollowedSteps : other > step => next <= other
    /\ job' = IF next = 9 THEN Idle ELSE [job EXCEPT !.step = next]

\* 5-usdyManager-prod.ts
ProposeManagerTask ==
  \E step \in FollowedSteps \cup {1} :
    /\ At("5-usdyManager-prod", step)
    /\ LET ready == Recorded("USDYManager") /\ Recorded("USDY_Pricer") /\ Recorded("USDY")
       IN  \/ /\ ready
              /\ \/ step \in FollowedSteps /\ Propose(ManagerCalls[step])
                 \/ step \notin FollowedSteps /\ UNCHANGED <<chain, offChain>>
              /\ NextCall(step)
           \/ ~ready /\ Throw

\* The Safe executes a proposal; one that reverts changes nothing.
Execute(call) ==
  /\ call \in proposals
  /\ \/ call.fn = "grantRole" /\ GrantRole(Guardian, call.to, call.role, call.arg)
     \/ call.fn = "setPricer" /\ SetPricer(Guardian, call.to, call.arg)
     \/ call.fn = "deployAllowlist" /\ DeployAllowlist
  /\ UNCHANGED <<offChain, job, aborts>>

-----------------------------------------------------------------------------
\* The bound keeps a third token from being deployed, not from being wanted.
Start(script) ==
  /\ job = Idle
  /\ script = "Prod-USDY-3" => Len(tokens) < MaxTokens
  /\ job' = [script |-> script, step |-> 1, proxy |-> ZeroAddress]
  /\ UNCHANGED <<chain, offChain, aborts>>

\* The machine, the node or the operator stops a script between two steps.
Abort ==
  /\ job # Idle
  /\ aborts < MaxAborts
  /\ aborts' = aborts + 1
  /\ Finish
  /\ UNCHANGED <<chain, offChain>>

StepOfScript ==
  \/ AllowlistScript
  \/ BlocklistScript
  \/ UsdyFactoryScript
  \/ PricerScript
  \/ UsdyManagerScript
StepOfTask ==
  \/ ProposeAllowlistTask
  \/ SaveAllowlistTask
  \/ ProposeUsdyTask
  \/ SaveUsdyTask
  \/ ProposeManagerTask
Step == (StepOfScript \/ StepOfTask) /\ UNCHANGED aborts

DepNext ==
  \/ \E script \in Scripts : Start(script)
  \/ Step
  \/ Abort
  \/ \E call \in proposals : Execute(call)

DepSpec == DepInit /\ [][DepNext]_depVars

(***************************************************************************)
(* The operators follow the procedure to its end: a script under way takes *)
(* its next step unless it is stopped, each script and task of the USDY    *)
(* procedure is run again and again (the one that deploys a token only     *)
(* until there is one), and the Safe's signers execute what is proposed.   *)
(***************************************************************************)
Rerun == {"Prod-USDY-1", "Prod-USDY-2", "Prod-USDY-4", "Prod-USDY-5",
          "4-save-usdy-prod", "5-usdyManager-prod"}
AllowlistTasks == {"1-usdy-prod", "2-save-usdy-prod"}

Procedure ==
  /\ WF_depVars(Step)
  /\ \A script \in Rerun \cup AllowlistTasks : SF_depVars(Start(script))
  /\ SF_depVars(tokens = <<>> /\ Start("Prod-USDY-3"))
  /\ WF_depVars(\E call \in proposals : Execute(call))

FairDepSpec == DepSpec /\ Procedure

-----------------------------------------------------------------------------
(* Properties. *)

MembersOf(contract, role) ==
  {grant[3] : grant \in {entry \in grants : entry[1] = contract /\ entry[2] = role}}

(* "Congratulations! All has done." is true when it is printed and stays   *)
(* true: the manager it names serves the token it names, mints it, has the *)
(* pricer on record and asks the list the token asks, whichever of its     *)
(* steps an earlier run had done, and whatever the Safe executes later.    *)
DoneMeansWired ==
  \A pair \in announced :
    LET manager == managers[pair[1][2]]
        token == tokens[pair[2][2]]
    IN  /\ manager.rwa = pair[2]
        /\ manager.blocklist = token.blocklist
        /\ manager.pricer = records["USDY_Pricer"]
        /\ <<pair[2], "MINTER_ROLE", pair[1]>> \in grants

(* However often the scripts are run again, interrupted or overtaken by    *)
(* the Safe, no token has two managers: an account's requests and epoch    *)
(* limits never split between two contracts that mint the same token.      *)
OneManagerPerToken ==
  \A m, n \in DOMAIN managers : managers[m].rwa = managers[n].rwa => m = n

(* "Will automatically revoke all deployer roles", "Will grant             *)
(* DEFAULT_ADMIN & PAUSER_ROLE(S) to guardian": over the whole deployment, *)
(* stale records and tasks run in any order included, the guardian stays   *)
(* the one admin of every token and only managers ever mint: neither the   *)
(* factory nor an account of a script keeps a role it had on the way.  A   *)
(* manager need not be that of the token it is minter of: the task that    *)
(* proposes it reads two records, which may belong to two tokens.          *)
OnlyManagersMint ==
  \A t \in DOMAIN tokens :
    /\ MembersOf(USDY(t), "DEFAULT_ADMIN_ROLE") = {Guardian}
    /\ Guardian \in MembersOf(USDY(t), "PAUSER_ROLE")
    /\ MembersOf(USDY(t), "MINTER_ROLE") \subseteq
         {USDYManager(m) : m \in DOMAIN managers}

(* Every token was given lists that exist: a record saved before its       *)
(* factory deployed anything never reaches a token.                        *)
TokensHaveLists ==
  \A t \in DOMAIN tokens :
    /\ tokens[t].blocklist = The("AggregatorBlocklist")
    /\ \/ tokens[t].allowlist = The("Allowlist")
       \/ \E n \in 1..allowlists : tokens[t].allowlist = <<"AllowlistProxy", n>>

(* What a finished deployment looks like, for the last token deployed.     *)
Complete ==
  LET usdy == usdyProxy
      manager == records["USDYManager"]
  IN  /\ tokens # <<>>
      /\ lists = {records["Blocklist"]}
      /\ records["USDY"] = usdy
      /\ <<manager, usdy>> \in announced
      /\ \A step \in 1..8 :
           LET call == ManagerCalls[step]
           IN  call.fn = "grantRole" /\ Followed(call)
                 => <<call.to, call.role, call.arg>> \in grants

(* Wherever a script was interrupted, and whatever order the Safe executes *)
(* proposals in, running the procedure again completes the deployment: no  *)
(* half-done state locks it.                                               *)
DeploymentCompletes == <>[]Complete

(***************************************************************************)
(* The facts the proofs of these properties rest on (DeploymentProofs).    *)
(***************************************************************************)

\* What a record can hold; the manager on record is the last one deployed.
RecordsOK ==
  /\ records["Blocklist"] \in {Missing, The("Blocklist")}
  /\ records["AggregatorBlocklist"] \in {Missing, The("AggregatorBlocklist")}
  /\ records["USDY_Pricer"] \in {Missing, The("Pricer")}
  /\ records["Allowlist"] \in {Missing, ZeroAddress, The("Allowlist")}
                                \cup {<<"AllowlistProxy", n>> : n \in 1..allowlists}
  /\ records["USDYManager"] =
       IF managers = <<>> THEN Missing ELSE USDYManager(Len(managers))

ProposalsOK ==
  \A call \in proposals :
    /\ call.role # "DEFAULT_ADMIN_ROLE"
    /\ call.role = "MINTER_ROLE" =>
         call.arg \in {USDYManager(m) : m \in DOMAIN managers}
    /\ call.fn = "setPricer" => call.arg = The("Pricer")

\* Roles are held on contracts that exist, and on a token by the right ones.
GrantsOK ==
  /\ \A grant \in grants :
       \/ grant[1] \in {USDYManager(m) : m \in DOMAIN managers}
       \/ /\ grant[1] \in {USDY(t) : t \in DOMAIN tokens}
          /\ grant[2] = "DEFAULT_ADMIN_ROLE" => grant[3] = Guardian
          /\ grant[2] = "MINTER_ROLE" =>
               grant[3] \in {USDYManager(m) : m \in DOMAIN managers}
  /\ \A t \in DOMAIN tokens :
       /\ <<USDY(t), "DEFAULT_ADMIN_ROLE", Guardian>> \in grants
       /\ <<USDY(t), "PAUSER_ROLE", Guardian>> \in grants

\* Managers were deployed for tokens in the order of the tokens.
ManagersOK ==
  /\ \A m \in DOMAIN managers :
       /\ managers[m].rwa \in {USDY(t) : t \in DOMAIN tokens}
       /\ managers[m].blocklist = The("AggregatorBlocklist")
  /\ \A m, n \in DOMAIN managers : m < n => managers[m].rwa[2] < managers[n].rwa[2]

\* What the steps of 5_deploy_usdyManager.ts have done so far, and what
\* 2_deploy_blocklist.ts and 2-save-allowlist-prod.ts have read.
JobOK ==
  LET manager == managers[Len(managers)]
  IN  /\ job.script = "Prod-USDY-2" /\ job.step >= 2 => Recorded("Blocklist")
      /\ job.script = "2-save-usdy-prod" /\ job.step = 2 =>
           job.proxy \in {ZeroAddress} \cup {<<"AllowlistProxy", n>> : n \in 1..allowlists}
      /\ job.script = "Prod-USDY-5" /\ job.step >= 2 =>
           tokens # <<>> /\ job.proxy = USDY(Len(tokens))
      /\ job.script = "Prod-USDY-5" /\ job.step >= 3 =>
           managers # <<>> /\ manager.rwa = job.proxy
      /\ job.script = "Prod-USDY-5" /\ job.step >= 4 =>
           <<job.proxy, "MINTER_ROLE", USDYManager(Len(managers))>> \in grants
      /\ job.script = "Prod-USDY-5" /\ job.step >= 5 =>
           Recorded("USDY_Pricer") /\ manager.pricer = The("Pricer")

AnnouncedOK ==
  \A pair \in announced :
    \E m \in DOMAIN managers :
      /\ pair = <<USDYManager(m), managers[m].rwa>>
      /\ Recorded("USDY_Pricer") /\ managers[m].pricer = The("Pricer")
      /\ <<pair[2], "MINTER_ROLE", pair[1]>> \in grants

DepInv ==
  /\ DepTypeOK
  /\ RecordsOK
  /\ ProposalsOK
  /\ GrantsOK
  /\ TokensHaveLists
  /\ ManagersOK
  /\ JobOK
  /\ AnnouncedOK
=============================================================================
