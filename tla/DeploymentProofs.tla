-------------------------- MODULE DeploymentProofs --------------------------
(***************************************************************************)
(* DepInv is an inductive invariant of Deployment, for any accounts, any   *)
(* roles followed and any bounds; the safety properties follow from it.    *)
(* With RolesInv it also says what the verification tasks find.            *)
(***************************************************************************)
EXTENDS Verification, FiniteSetTheorems, TLAPS

USE DEF Missing, ZeroAddress, The, USDY, USDYManager

\* What an action that only moves the job leaves alone.
StateOK ==
  /\ lists \subseteq Contracts
  /\ allowlists \in Nat
  /\ tokens \in Seq(Token)
  /\ managers \in Seq(Manager)
  /\ grants \subseteq Contracts \X Roles \X Members
  /\ records \in [Names -> Addresses \cup {Missing}]
  /\ proposals \subseteq Calls
  /\ announced \subseteq Contracts \X Contracts
  /\ RecordsOK
  /\ ProposalsOK
  /\ GrantsOK
  /\ TokensHaveLists
  /\ ManagersOK
  /\ AnnouncedOK

JobTypeOK ==
  /\ job \in [script: Scripts \cup {"none"}, step: Nat, proxy: Addresses]
  /\ aborts \in Nat

LEMMA DepInvParts == DepInv <=> StateOK /\ JobTypeOK /\ JobOK
BY DEF DepInv, DepTypeOK, StateOK, JobTypeOK

LEMMA StateStutters == ASSUME StateOK, UNCHANGED <<chain, offChain>> PROVE StateOK'
BY DEF StateOK, chain, offChain, RecordsOK, ProposalsOK, GrantsOK, MembersOf,
       TokensHaveLists, ManagersOK, AnnouncedOK, Recorded

LEMMA HandOverResult ==
  HandOver(The("USDYFactory")) =
    {<<"DEFAULT_ADMIN_ROLE", Guardian>>, <<"PAUSER_ROLE", Guardian>>}
<1> DEFINE factory == The("USDYFactory")
           admin == Granted(InitialRoles(factory), factory, "DEFAULT_ADMIN_ROLE", Guardian)
           pauser == Granted(admin, factory, "PAUSER_ROLE", Guardian)
           noMinter == Revoked(pauser, factory, "MINTER_ROLE", factory)
           noPauser == Revoked(noMinter, factory, "PAUSER_ROLE", factory)
<1>1. Guardian # factory
  BY AccountsAssumption DEF Accounts, Contracts, Kinds
<1>2. admin = InitialRoles(factory) \cup {<<"DEFAULT_ADMIN_ROLE", Guardian>>}
  BY DEF Granted, InitialRoles
<1>3. pauser = admin \cup {<<"PAUSER_ROLE", Guardian>>}
  BY <1>2 DEF Granted, InitialRoles
<1>4. noMinter = pauser \ {<<"MINTER_ROLE", factory>>}
  BY <1>2, <1>3 DEF Revoked, InitialRoles
<1>5. noPauser = noMinter \ {<<"PAUSER_ROLE", factory>>}
  BY <1>2, <1>3, <1>4 DEF Revoked, InitialRoles
<1>6. HandOver(factory) = noPauser \ {<<"DEFAULT_ADMIN_ROLE", factory>>}
  BY <1>2, <1>3, <1>4, <1>5 DEF Revoked, InitialRoles, HandOver
<1> QED
  BY <1>1, <1>2, <1>3, <1>4, <1>5, <1>6 DEF InitialRoles

LEMMA HandOverOf ==
  ASSUME NEW token
  PROVE  {<<token, entry[1], entry[2]>> : entry \in HandOver(The("USDYFactory"))} =
           {<<token, "DEFAULT_ADMIN_ROLE", Guardian>>, <<token, "PAUSER_ROLE", Guardian>>}
<1> DEFINE entries == HandOver(The("USDYFactory"))
           Of(entry) == <<token, entry[1], entry[2]>>
           admin == <<"DEFAULT_ADMIN_ROLE", Guardian>>
           pauser == <<"PAUSER_ROLE", Guardian>>
<1>1. entries = {admin, pauser}
  BY HandOverResult
<1>2. /\ Of(admin) = <<token, "DEFAULT_ADMIN_ROLE", Guardian>>
      /\ Of(pauser) = <<token, "PAUSER_ROLE", Guardian>>
  OBVIOUS
<1> HIDE DEF entries, Of, admin, pauser
<1>3. {Of(entry) : entry \in entries} = {Of(admin), Of(pauser)}
  BY <1>1
<1> QED
  BY <1>2, <1>3 DEF Of, entries

LEMMA Appended ==
  ASSUME NEW S, NEW s \in Seq(S), NEW e \in S
  PROVE  /\ Append(s, e) \in Seq(S) /\ Append(s, e) # <<>>
         /\ Len(Append(s, e)) = Len(s) + 1
         /\ DOMAIN Append(s, e) = 1..(Len(s) + 1)
         /\ DOMAIN s = 1..Len(s)
         /\ \A i \in DOMAIN s : Append(s, e)[i] = s[i]
         /\ Append(s, e)[Len(s) + 1] = e
OBVIOUS

LEMMA DepInitOK == DepInit => DepInv
BY DEF DepInit, DepInv, DepTypeOK, RecordsOK, ProposalsOK, GrantsOK, TokensHaveLists,
       ManagersOK, JobOK, AnnouncedOK, Idle, Names, Addresses, Contracts, Kinds

-----------------------------------------------------------------------------
(* What each effect on the state preserves. *)

\* A record of anything but the manager, with the values that name may hold.
LEMMA SaveOK ==
  ASSUME StateOK, UNCHANGED chain, NEW name \in Names \ {"USDYManager"},
         NEW address \in Addresses, Save(name, address),
         name \in {"Blocklist", "AggregatorBlocklist"} => address = The(name),
         name = "USDY_Pricer" => address = The("Pricer"),
         name = "Allowlist" => address \in {ZeroAddress, The("Allowlist")} \cup
                                 {<<"AllowlistProxy", n>> : n \in 1..allowlists}
  PROVE  StateOK'
<1> USE DEF StateOK, Save, chain
<1>1. RecordsOK'
  BY DEF RecordsOK, Names
<1>2. ProposalsOK' /\ GrantsOK' /\ TokensHaveLists' /\ ManagersOK'
  BY DEF ProposalsOK, GrantsOK, TokensHaveLists, ManagersOK
<1>3. AnnouncedOK'
  BY DEF AnnouncedOK, Recorded, Names, RecordsOK
<1> QED
  BY <1>1, <1>2, <1>3

LEMMA ProposeOK ==
  ASSUME StateOK, UNCHANGED chain, NEW call \in Calls, Propose(call),
         call.role # "DEFAULT_ADMIN_ROLE",
         call.role = "MINTER_ROLE" =>
           call.arg \in {USDYManager(m) : m \in DOMAIN managers},
         call.fn = "setPricer" => call.arg = The("Pricer")
  PROVE  StateOK'
<1> USE DEF StateOK, Propose, chain
<1>1. ProposalsOK'
  BY DEF ProposalsOK
<1>2. RecordsOK' /\ GrantsOK' /\ TokensHaveLists' /\ ManagersOK' /\ AnnouncedOK'
  BY DEF RecordsOK, GrantsOK, TokensHaveLists, ManagersOK, AnnouncedOK, Recorded
<1> QED
  BY <1>1, <1>2

LEMMA ListsOK ==
  ASSUME StateOK, lists' \subseteq Contracts,
         UNCHANGED <<allowlists, tokens, managers, grants, offChain>>
  PROVE  StateOK'
BY DEF StateOK, offChain, RecordsOK, ProposalsOK, GrantsOK, TokensHaveLists, ManagersOK,
       AnnouncedOK, Recorded

LEMMA DeployAllowlistOK ==
  ASSUME StateOK, DeployAllowlist, UNCHANGED offChain
  PROVE  StateOK'
<1> USE DEF StateOK, DeployAllowlist, offChain
<1>1. 1..allowlists \subseteq 1..allowlists'
  OBVIOUS
<1>2. RecordsOK'
  BY <1>1 DEF RecordsOK
<1>3. TokensHaveLists'
  BY <1>1 DEF TokensHaveLists
<1>4. ProposalsOK' /\ GrantsOK' /\ ManagersOK' /\ AnnouncedOK'
  BY DEF ProposalsOK, GrantsOK, ManagersOK, AnnouncedOK, Recorded
<1> QED
  BY <1>2, <1>3, <1>4

\* A grant of anything but an administrator, and of MINTER_ROLE to a manager.
LEMMA GrantRoleOK ==
  ASSUME StateOK, UNCHANGED offChain, NEW sender, NEW contract \in Addresses,
         NEW role \in Roles \ {"DEFAULT_ADMIN_ROLE"}, NEW member \in Members,
         role = "MINTER_ROLE" => member \in {USDYManager(m) : m \in DOMAIN managers},
         GrantRole(sender, contract, role, member)
  PROVE  StateOK' /\ grants \subseteq grants'
<1> USE DEF StateOK, GrantRole, offChain
<1>1. CASE UNCHANGED grants
  BY <1>1, StateStutters DEF chain
<1>2. CASE MayGrant(sender, contract, role) /\ grants' = grants \cup {<<contract, role, member>>}
  <2>1. PICK grant \in grants : grant[1] = contract
    BY <1>2 DEF MayGrant
  <2>2. contract \in Contracts
    BY <2>1
  <2>3. GrantsOK'
    BY <1>2, <2>1 DEF GrantsOK
  <2>4. RecordsOK' /\ ProposalsOK' /\ TokensHaveLists' /\ ManagersOK' /\ AnnouncedOK'
    BY <1>2 DEF RecordsOK, ProposalsOK, TokensHaveLists, ManagersOK, AnnouncedOK, Recorded
  <2> QED BY <1>2, <2>2, <2>3, <2>4
<1> QED
  BY <1>1, <1>2

LEMMA SetPricerOK ==
  ASSUME StateOK, UNCHANGED offChain, NEW sender, NEW manager \in Addresses,
         SetPricer(sender, manager, The("Pricer"))
  PROVE  /\ StateOK'
         /\ DOMAIN managers' = DOMAIN managers /\ Len(managers') = Len(managers)
         /\ \A m \in DOMAIN managers :
              /\ managers'[m].rwa = managers[m].rwa
              /\ managers'[m].pricer = IF m = manager[2] THEN The("Pricer")
                                                        ELSE managers[m].pricer
<1> USE DEF StateOK, SetPricer, offChain
<1>1. DOMAIN managers' = DOMAIN managers /\ Len(managers') = Len(managers)
  OBVIOUS
<1>2. \A m \in DOMAIN managers :
        /\ managers'[m].rwa = managers[m].rwa
        /\ managers'[m].blocklist = managers[m].blocklist
        /\ managers'[m].pricer = IF m = manager[2] THEN The("Pricer")
                                                  ELSE managers[m].pricer
  BY DEF Manager
<1>3. managers' \in Seq(Manager)
  <2>1. CASE manager[2] \in DOMAIN managers
    <3>1. managers[manager[2]] \in Manager
      BY <2>1
    <3>2. [managers[manager[2]] EXCEPT !.pricer = The("Pricer")] \in Manager
      BY <3>1 DEF Manager, Addresses, Contracts, Kinds
    <3> QED BY <2>1, <3>2
  <2>2. CASE manager[2] \notin DOMAIN managers
    <3>1. managers' = managers
      BY <2>2
    <3> QED BY <3>1
  <2> QED BY <2>1, <2>2
<1>4. ManagersOK'
  BY <1>1, <1>2 DEF ManagersOK
<1>5. AnnouncedOK'
  BY <1>1, <1>2 DEF AnnouncedOK, Recorded
<1>6. RecordsOK' /\ ProposalsOK' /\ GrantsOK'
  BY <1>1, <1>3 DEF RecordsOK, ProposalsOK, GrantsOK
<1>7. TokensHaveLists'
  BY DEF TokensHaveLists
<1> QED
  BY <1>1, <1>2, <1>3, <1>4, <1>5, <1>6, <1>7

LEMMA DeployUsdyOK ==
  ASSUME StateOK, UNCHANGED offChain, ListsRecorded,
         UsdyDeployable(Deployer, records["AggregatorBlocklist"], records["Allowlist"]),
         DeployUSDY(records["AggregatorBlocklist"], records["Allowlist"])
  PROVE  StateOK' /\ Len(tokens') = Len(tokens) + 1
<1> USE DEF StateOK, DeployUSDY, offChain
<1>1. records["AggregatorBlocklist"] = The("AggregatorBlocklist")
  BY DEF ListsRecorded, Recorded, RecordsOK
<1>2. records["Allowlist"] \in {The("Allowlist")} \cup
                               {<<"AllowlistProxy", n>> : n \in 1..allowlists}
  BY DEF ListsRecorded, Recorded, RecordsOK, UsdyDeployable
<1> DEFINE token == [blocklist |-> records["AggregatorBlocklist"],
                     allowlist |-> records["Allowlist"]]
<1>3. token \in Token
  BY <1>1, <1>2 DEF Token, Addresses, Contracts, Kinds
<1>4. /\ tokens' \in Seq(Token)
      /\ Len(tokens') = Len(tokens) + 1
      /\ DOMAIN tokens' = 1..(Len(tokens) + 1)
      /\ \A t \in DOMAIN tokens : t \in DOMAIN tokens' /\ tokens'[t] = tokens[t]
      /\ tokens'[Len(tokens) + 1] = token
  BY <1>3
<1>5. grants' = grants \cup {<<USDY(Len(tokens) + 1), "DEFAULT_ADMIN_ROLE", Guardian>>,
                            <<USDY(Len(tokens) + 1), "PAUSER_ROLE", Guardian>>}
  BY HandOverOf
<1>6. grants' \subseteq Contracts \X Roles \X Members
  BY <1>5 DEF Contracts, Kinds, Roles, Members, Accounts
<1>7. TokensHaveLists'
  BY <1>1, <1>2, <1>4 DEF TokensHaveLists
<1>8. GrantsOK'
  <2>1. \A grant \in grants' :
          \/ grant[1] \in {USDYManager(m) : m \in DOMAIN managers}
          \/ /\ grant[1] \in {USDY(t) : t \in DOMAIN tokens'}
             /\ grant[2] = "DEFAULT_ADMIN_ROLE" => grant[3] = Guardian
             /\ grant[2] = "MINTER_ROLE" =>
                  grant[3] \in {USDYManager(m) : m \in DOMAIN managers}
    BY <1>4, <1>5 DEF GrantsOK
  <2>2. \A t \in DOMAIN tokens' :
          /\ <<USDY(t), "DEFAULT_ADMIN_ROLE", Guardian>> \in grants'
          /\ <<USDY(t), "PAUSER_ROLE", Guardian>> \in grants'
    <3> SUFFICES ASSUME NEW t \in DOMAIN tokens'
                 PROVE  /\ <<USDY(t), "DEFAULT_ADMIN_ROLE", Guardian>> \in grants'
                        /\ <<USDY(t), "PAUSER_ROLE", Guardian>> \in grants'
      OBVIOUS
    <3>1. CASE t = Len(tokens) + 1
      BY <1>5, <3>1
    <3>2. CASE t # Len(tokens) + 1
      <4>1. t \in DOMAIN tokens
        BY <1>4, <3>2
      <4> QED BY <1>5, <4>1 DEF GrantsOK
    <3> QED BY <3>1, <3>2
  <2> QED BY <2>1, <2>2 DEF GrantsOK
<1>9. ManagersOK'
  BY <1>4 DEF ManagersOK
<1>10. RecordsOK' /\ ProposalsOK'
  BY DEF RecordsOK, ProposalsOK
<1>11. AnnouncedOK'
  BY <1>5 DEF AnnouncedOK, Recorded
<1> QED
  BY <1>4, <1>6, <1>7, <1>8, <1>9, <1>10, <1>11

LEMMA DeployManagerOK ==
  ASSUME StateOK, NEW rwa, tokens # <<>>, rwa = USDY(Len(tokens)),
         Recorded("AggregatorBlocklist"),
         DeployManager(rwa, records["AggregatorBlocklist"])
  PROVE  StateOK' /\ managers' # <<>> /\ managers'[Len(managers')].rwa = rwa
<1> USE DEF StateOK
<1>1. records["AggregatorBlocklist"] = The("AggregatorBlocklist")
  BY DEF Recorded, RecordsOK
<1>2. Len(tokens) \in DOMAIN tokens
  OBVIOUS
<1>3. CASE Reusable(rwa, records["AggregatorBlocklist"]) /\ UNCHANGED <<chain, offChain>>
  <2>1. managers # <<>> /\ records["USDYManager"] = USDYManager(Len(managers))
    BY <1>3 DEF Reusable, Recorded, RecordsOK
  <2> QED BY <1>3, <2>1, StateStutters DEF Reusable, chain
<1>4. CASE ~Reusable(rwa, records["AggregatorBlocklist"])
  <2> DEFINE n == Len(managers) + 1
             manager == [rwa |-> rwa, blocklist |-> The("AggregatorBlocklist"),
                         pricer |-> ZeroAddress]
  <2>1. /\ managers' = Append(managers, manager)
        /\ grants' = grants \cup ManagerRoles(USDYManager(n))
        /\ records' = [records EXCEPT !["USDYManager"] = USDYManager(n)]
        /\ UNCHANGED <<lists, allowlists, tokens, proposals, announced>>
    BY <1>1, <1>4 DEF DeployManager, Save
  <2>2. manager \in Manager
    BY DEF Manager, Addresses, Contracts, Kinds
  <2>3. /\ managers' \in Seq(Manager) /\ managers' # <<>>
        /\ Len(managers') = n
        /\ DOMAIN managers' = 1..n
        /\ DOMAIN managers = 1..(n - 1)
        /\ \A m \in DOMAIN managers : m \in DOMAIN managers' /\ managers'[m] = managers[m]
        /\ managers'[n] = manager
    <3>1. managers \in Seq(Manager)
      OBVIOUS
    <3> HIDE DEF StateOK, manager
    <3>2. Len(managers) \in Nat
      BY <3>1
    <3>3. /\ managers' \in Seq(Manager) /\ managers' # <<>>
          /\ Len(managers') = n
          /\ DOMAIN managers' = 1..n
          /\ DOMAIN managers = 1..Len(managers)
          /\ \A m \in DOMAIN managers : managers'[m] = managers[m]
          /\ managers'[n] = manager
      BY <2>1, <2>2, <3>1, Appended
    <3> QED BY <3>2, <3>3
  <2>4. \A m \in DOMAIN managers : managers[m].rwa[2] < Len(tokens)
    <3>1. CASE managers = <<>>
      BY <3>1
    <3>2. CASE managers # <<>>
      <4> DEFINE last == Len(managers)
      <4>1. last \in DOMAIN managers /\ records["USDYManager"] = USDYManager(last)
        BY <3>2 DEF RecordsOK
      <4>2. managers[last].rwa # rwa
        BY <1>1, <1>4, <4>1 DEF Reusable, Recorded, ManagersOK
      <4>3. managers[last].rwa[2] < Len(tokens)
        BY <4>1, <4>2 DEF ManagersOK
      <4>4. \A m \in DOMAIN managers : m = last \/ m < last
        OBVIOUS
      <4>5. \A m \in DOMAIN managers : managers[m].rwa[2] \in Nat
        BY DEF ManagersOK
      <4> QED BY <4>1, <4>3, <4>4, <4>5 DEF ManagersOK
    <3> QED BY <3>1, <3>2
  <2>5. ManagersOK'
    <3>1. \A m \in DOMAIN managers' :
            /\ managers'[m].rwa \in {USDY(t) : t \in DOMAIN tokens'}
            /\ managers'[m].blocklist = The("AggregatorBlocklist")
      BY <1>2, <2>1, <2>3 DEF ManagersOK
    <3>2. \A k, m \in DOMAIN managers' : k < m => managers'[k].rwa[2] < managers'[m].rwa[2]
      <4> SUFFICES ASSUME NEW k \in DOMAIN managers', NEW m \in DOMAIN managers', k < m
                   PROVE  managers'[k].rwa[2] < managers'[m].rwa[2]
        OBVIOUS
      <4>1. k \in DOMAIN managers /\ managers'[k] = managers[k]
        BY <2>3
      <4>2. CASE m = n
        <5>1. managers'[m].rwa[2] = Len(tokens)
          BY <2>3, <4>2
        <5> QED BY <2>4, <4>1, <5>1
      <4>3. CASE m # n
        <5>1. m \in DOMAIN managers /\ managers'[m] = managers[m]
          BY <2>3, <4>3
        <5> QED BY <4>1, <5>1 DEF ManagersOK
      <4> QED BY <4>2, <4>3
    <3> QED BY <3>1, <3>2 DEF ManagersOK
  <2>6. records' \in [Names -> Addresses \cup {Missing}]
    BY <2>1, <2>3 DEF Names, Addresses, Contracts, Kinds
  <2>7. RecordsOK'
    BY <2>1, <2>3 DEF RecordsOK, Names
  <2>8. grants' \subseteq Contracts \X Roles \X Members
    BY <2>1, <2>3 DEF ManagerRoles, Contracts, Kinds, Roles, Members, Accounts
  <2>9. GrantsOK'
    BY <2>1, <2>3 DEF GrantsOK, ManagerRoles
  <2>10. ProposalsOK' /\ TokensHaveLists'
    BY <2>1, <2>3 DEF ProposalsOK, TokensHaveLists
  <2>11. AnnouncedOK'
    BY <2>1, <2>3 DEF AnnouncedOK, Recorded, Names
  <2>12. StateOK'
    <3> HIDE DEF manager, n
    <3> QED BY <2>1, <2>3, <2>5, <2>6, <2>7, <2>8, <2>9, <2>10, <2>11
  <2>13. managers' # <<>> /\ managers'[Len(managers')].rwa = rwa
    BY <2>3
  <2> QED
    BY <2>12, <2>13
<1> QED
  BY <1>3, <1>4 DEF DeployManager

-----------------------------------------------------------------------------
(* What each step of a script preserves. *)

LEMMA Finished ==
  ASSUME DepInv, StateOK', Finish, aborts' \in Nat
  PROVE  DepInv'
<1>1. JobTypeOK'
  BY DEF Finish, Idle, JobTypeOK, Addresses
<1>2. JobOK'
  BY DEF Finish, Idle, JobOK
<1> QED
  BY <1>1, <1>2 DEF DepInv, DepTypeOK, StateOK, JobTypeOK

LEMMA Thrown == ASSUME DepInv, Throw, UNCHANGED aborts PROVE DepInv'
<1>1. StateOK'
  BY DepInvParts, StateStutters DEF Throw
<1> QED
  BY <1>1, DepInvParts, Finished DEF Throw, Finish, JobTypeOK

LEMMA DeployOnceOK ==
  ASSUME StateOK, NEW name \in Names \ {"USDYManager", "USDY"}, NEW kind \in Kinds,
         DeployOnce(name, kind),
         <<name, kind>> \in {<<"Allowlist", "Allowlist">>, <<"Blocklist", "Blocklist">>,
                             <<"AggregatorBlocklist", "AggregatorBlocklist">>,
                             <<"USDYFactory", "USDYFactory">>, <<"USDY_Pricer", "Pricer">>}
  PROVE  StateOK' /\ records'[name] # Missing
<1> DEFINE address == IF Recorded(name) THEN records[name] ELSE The(kind)
<1>1. Save(name, address) /\ UNCHANGED chain
  BY DEF DeployOnce
<1>2. address \in Addresses
  BY DEF StateOK, Recorded, Addresses, Contracts, Names
<1>3. /\ name \in {"Blocklist", "AggregatorBlocklist"} => address = The(name)
      /\ name = "USDY_Pricer" => address = The("Pricer")
      /\ name = "Allowlist" => address \in {ZeroAddress, The("Allowlist")} \cup
                                {<<"AllowlistProxy", n>> : n \in 1..allowlists}
  BY DEF StateOK, RecordsOK, Recorded
<1>4. StateOK'
  BY <1>1, <1>2, <1>3, SaveOK
<1>5. records'[name] = address /\ address # Missing
  BY <1>1 DEF Save, StateOK, Recorded, Names, Kinds
<1> QED
  BY <1>4, <1>5

LEMMA AllowlistScriptOK ==
  ASSUME DepInv, AllowlistScript, UNCHANGED aborts PROVE DepInv'
<1>1. CASE DeployOnce("Allowlist", "Allowlist") /\ Finish
  <2>1. StateOK'
    BY <1>1, DepInvParts, DeployOnceOK DEF Names, Kinds
  <2> QED BY <1>1, <2>1, Finished DEF DepInv, DepTypeOK
<1> QED
  BY <1>1, Thrown DEF AllowlistScript

LEMMA BlocklistScriptOK ==
  ASSUME DepInv, BlocklistScript, UNCHANGED aborts PROVE DepInv'
<1> USE DEF JobTypeOK
<1>1. CASE At("Prod-USDY-2", 1) /\ DeployOnce("Blocklist", "Blocklist") /\ Proceed
  <2>1. StateOK' /\ records'["Blocklist"] # Missing
    BY <1>1, DepInvParts, DeployOnceOK DEF Names, Kinds
  <2>2. JobTypeOK' /\ job'.script = "Prod-USDY-2"
    BY <1>1, DepInvParts DEF Proceed, At
  <2>3. JobOK'
    BY <2>1, <2>2 DEF JobOK, Recorded
  <2> QED BY <2>1, <2>2, <2>3, DepInvParts DEF DepInv, DepTypeOK, StateOK
<1>2. CASE /\ At("Prod-USDY-2", 2) /\ Proceed
           /\ DeployOnce("AggregatorBlocklist", "AggregatorBlocklist")
  <2>1. StateOK'
    BY <1>2, DepInvParts, DeployOnceOK DEF Names, Kinds
  <2>2. JobTypeOK' /\ job'.script = "Prod-USDY-2"
    BY <1>2, DepInvParts DEF Proceed, At
  <2>3. records'["Blocklist"] # Missing
    BY <1>2, DepInvParts DEF DeployOnce, Save, JobOK, At, Recorded, StateOK, Names
  <2>4. JobOK'
    BY <2>2, <2>3 DEF JobOK, Recorded
  <2> QED BY <2>1, <2>2, <2>4 DEF DepInv, DepTypeOK, StateOK
<1>3. CASE /\ At("Prod-USDY-2", 3)
           /\ lists' = lists \cup {records["Blocklist"]}
           /\ UNCHANGED <<allowlists, tokens, managers, grants, offChain>>
           /\ Finish
  <2>1. records["Blocklist"] = The("Blocklist")
    BY <1>3, DepInvParts DEF JobOK, At, Recorded, StateOK, RecordsOK
  <2>2. lists' \subseteq Contracts
    BY <1>3, <2>1, DepInvParts DEF StateOK, Contracts, Kinds
  <2>3. StateOK'
    BY <1>3, <2>2, ListsOK, DepInvParts
  <2> QED BY <1>3, <2>3, Finished DEF DepInv, DepTypeOK
<1> QED
  BY <1>1, <1>2, <1>3 DEF BlocklistScript

LEMMA UsdyFactoryScriptOK ==
  ASSUME DepInv, UsdyFactoryScript, UNCHANGED aborts PROVE DepInv'
<1>1. CASE At("Prod-USDY-3", 1) /\ DeployOnce("USDYFactory", "USDYFactory") /\ Proceed
  <2>1. StateOK'
    BY <1>1, DepInvParts, DeployOnceOK DEF Names, Kinds
  <2>2. JobTypeOK' /\ job'.script = "Prod-USDY-3"
    BY <1>1, DepInvParts DEF Proceed, At, JobTypeOK
  <2>3. JobOK'
    BY <2>2 DEF JobOK
  <2> QED BY <2>1, <2>2, <2>3 DEF DepInv, DepTypeOK, StateOK, JobTypeOK
<1>2. CASE /\ ListsRecorded
           /\ UsdyDeployable(Deployer, records["AggregatorBlocklist"], records["Allowlist"])
           /\ DeployUSDY(records["AggregatorBlocklist"], records["Allowlist"])
           /\ UNCHANGED offChain
           /\ Finish
  <2>1. StateOK'
    BY <1>2, DepInvParts, DeployUsdyOK
  <2> QED BY <1>2, <2>1, Finished DEF DepInv, DepTypeOK
<1> QED
  BY <1>1, <1>2, Thrown DEF UsdyFactoryScript

LEMMA PricerScriptOK ==
  ASSUME DepInv, PricerScript, UNCHANGED aborts PROVE DepInv'
<1>1. StateOK'
  BY DepInvParts, DeployOnceOK DEF PricerScript, Names, Kinds
<1> QED
  BY <1>1, Finished DEF PricerScript, DepInv, DepTypeOK

LEMMA UsdyManagerScriptOK ==
  ASSUME DepInv, UsdyManagerScript, UNCHANGED aborts PROVE DepInv'
<1> DEFINE usdy == job.proxy
           manager == records["USDYManager"]
<1>0. StateOK /\ JobTypeOK /\ JobOK
  BY DepInvParts
<1>a. ASSUME Proceed, job.script = "Prod-USDY-5"
      PROVE  /\ JobTypeOK' /\ job'.script = "Prod-USDY-5"
             /\ job'.step = job.step + 1 /\ job'.proxy = job.proxy
  BY <1>0, <1>a DEF Proceed, JobTypeOK
<1>1. CASE /\ At("Prod-USDY-5", 1) /\ usdyProxy # ZeroAddress
           /\ job' = [job EXCEPT !.step = 2, !.proxy = usdyProxy]
           /\ UNCHANGED <<chain, offChain>>
  <2>1. StateOK' /\ tokens # <<>> /\ usdyProxy = USDY(Len(tokens))
    BY <1>0, <1>1, StateStutters DEF usdyProxy
  <2>2. /\ JobTypeOK' /\ job'.script = "Prod-USDY-5" /\ job'.step = 2
        /\ job'.proxy = USDY(Len(tokens))
    <3>1. USDY(Len(tokens)) \in Addresses
      BY <1>0 DEF StateOK, Addresses, Contracts, Kinds
    <3> QED BY <1>0, <1>1, <2>1, <3>1 DEF At, JobTypeOK
  <2>3. JobOK'
    BY <1>1, <2>1, <2>2 DEF JobOK, chain
  <2> QED BY <2>1, <2>2, <2>3 DEF DepInv, DepTypeOK, StateOK, JobTypeOK
<1>2. CASE /\ At("Prod-USDY-5", 2) /\ Recorded("AggregatorBlocklist")
           /\ DeployManager(usdy, records["AggregatorBlocklist"]) /\ Proceed
  <2>1. tokens # <<>> /\ usdy = USDY(Len(tokens))
    BY <1>0, <1>2 DEF At, JobOK
  <2>2. /\ StateOK' /\ managers' # <<>> /\ managers'[Len(managers')].rwa = usdy
        /\ UNCHANGED tokens
    BY <1>0, <1>2, <2>1, DeployManagerOK DEF DeployManager, chain
  <2>3. JobTypeOK' /\ job'.script = "Prod-USDY-5" /\ job'.step = 3 /\ job'.proxy = usdy
    BY <1>2, <1>a DEF At
  <2>4. JobOK'
    BY <2>1, <2>2, <2>3 DEF JobOK
  <2> QED BY <2>2, <2>3, <2>4 DEF DepInv, DepTypeOK, StateOK, JobTypeOK
<1>3. CASE /\ At("Prod-USDY-5", 3) /\ Proceed /\ UNCHANGED offChain
           /\ \/ <<usdy, "MINTER_ROLE", manager>> \in grants /\ UNCHANGED chain
              \/ GrantRole(Deployer, usdy, "MINTER_ROLE", manager)
  <2>1. /\ tokens # <<>> /\ usdy = USDY(Len(tokens))
        /\ managers # <<>> /\ managers[Len(managers)].rwa = usdy
    BY <1>0, <1>3 DEF At, JobOK
  <2>2. manager = USDYManager(Len(managers)) /\ Len(managers) \in DOMAIN managers
    BY <1>0, <2>1 DEF StateOK, RecordsOK
  <2>3. usdy \in Contracts /\ manager \in Members
    BY <1>0, <2>1, <2>2 DEF StateOK, Contracts, Kinds, Members, Addresses
  <2>4. /\ StateOK' /\ UNCHANGED <<tokens, managers>>
        /\ <<usdy, "MINTER_ROLE", manager>> \in grants'
    <3>1. CASE UNCHANGED chain /\ <<usdy, "MINTER_ROLE", manager>> \in grants
      BY <1>0, <1>3, <3>1, StateStutters DEF chain
    <3>2. CASE GrantRole(Deployer, usdy, "MINTER_ROLE", manager)
      <4>1. StateOK'
        BY <1>0, <1>3, <2>2, <2>3, <3>2, GrantRoleOK DEF Roles, Addresses
      <4>2. usdy # ZeroAddress
        BY <2>1
      <4> QED BY <3>2, <4>1, <4>2 DEF GrantRole
    <3> QED BY <1>3, <3>1, <3>2
  <2>5. JobTypeOK' /\ job'.script = "Prod-USDY-5" /\ job'.step = 4 /\ job'.proxy = usdy
    BY <1>3, <1>a DEF At
  <2>6. JobOK'
    BY <2>1, <2>2, <2>4, <2>5 DEF JobOK
  <2> QED BY <2>4, <2>5, <2>6 DEF DepInv, DepTypeOK, StateOK, JobTypeOK
<1>4. CASE /\ At("Prod-USDY-5", 4) /\ Proceed /\ UNCHANGED offChain
           /\ Recorded("USDY_Pricer")
           /\ \/ /\ managers[manager[2]].pricer = records["USDY_Pricer"]
                 /\ UNCHANGED chain
              \/ SetPricer(Deployer, manager, records["USDY_Pricer"])
  <2>1. /\ tokens # <<>> /\ usdy = USDY(Len(tokens))
        /\ managers # <<>> /\ managers[Len(managers)].rwa = usdy
        /\ <<usdy, "MINTER_ROLE", USDYManager(Len(managers))>> \in grants
    BY <1>0, <1>4 DEF At, JobOK
  <2>2. /\ manager = USDYManager(Len(managers)) /\ Len(managers) \in DOMAIN managers
        /\ records["USDY_Pricer"] = The("Pricer") /\ manager \in Addresses
    BY <1>0, <1>4, <2>1 DEF StateOK, RecordsOK, Recorded, Addresses, Contracts, Kinds
  <2>3. /\ StateOK' /\ UNCHANGED <<tokens, grants, records>>
        /\ Len(managers') = Len(managers) /\ managers' # <<>>
        /\ managers'[Len(managers)].rwa = usdy
        /\ managers'[Len(managers)].pricer = The("Pricer")
    <3>1. CASE UNCHANGED chain /\ managers[manager[2]].pricer = records["USDY_Pricer"]
      BY <1>0, <1>4, <2>1, <2>2, <3>1, StateStutters DEF chain, offChain
    <3>2. CASE SetPricer(Deployer, manager, records["USDY_Pricer"])
      <4>1. UNCHANGED <<tokens, grants, records>>
        BY <1>4, <3>2 DEF SetPricer, offChain
      <4>2. SetPricer(Deployer, manager, The("Pricer"))
        BY <2>2, <3>2
      <4>3. /\ StateOK' /\ DOMAIN managers' = DOMAIN managers
            /\ Len(managers') = Len(managers)
            /\ \A m \in DOMAIN managers :
                 /\ managers'[m].rwa = managers[m].rwa
                 /\ managers'[m].pricer = IF m = manager[2] THEN The("Pricer")
                                                           ELSE managers[m].pricer
        BY <1>0, <1>4, <2>2, <4>2, SetPricerOK
      <4>4. managers' # <<>>
        BY <2>2, <4>3
      <4> QED BY <2>1, <2>2, <4>1, <4>3, <4>4
    <3> QED BY <1>4, <3>1, <3>2
  <2>4. JobTypeOK' /\ job'.script = "Prod-USDY-5" /\ job'.step = 5 /\ job'.proxy = usdy
    BY <1>4, <1>a DEF At
  <2>5. JobOK'
    BY <1>4, <2>1, <2>2, <2>3, <2>4 DEF JobOK, Recorded
  <2> QED BY <2>3, <2>4, <2>5 DEF DepInv, DepTypeOK, StateOK, JobTypeOK
<1>5. CASE /\ At("Prod-USDY-5", 5)
           /\ announced' = announced \cup {<<manager, usdy>>}
           /\ UNCHANGED <<chain, records, proposals>>
           /\ Finish
  <2>1. /\ managers # <<>> /\ managers[Len(managers)].rwa = usdy
        /\ usdy = USDY(Len(tokens)) /\ tokens # <<>>
        /\ <<usdy, "MINTER_ROLE", USDYManager(Len(managers))>> \in grants
        /\ Recorded("USDY_Pricer") /\ managers[Len(managers)].pricer = The("Pricer")
    BY <1>0, <1>5 DEF At, JobOK
  <2>2. /\ manager = USDYManager(Len(managers)) /\ Len(managers) \in DOMAIN managers
        /\ manager \in Contracts /\ usdy \in Contracts
    BY <1>0, <2>1 DEF StateOK, RecordsOK, Contracts, Kinds
  <2>3. AnnouncedOK'
    <3> SUFFICES ASSUME NEW pair \in announced'
                 PROVE  \E m \in DOMAIN managers :
                          /\ pair = <<USDYManager(m), managers[m].rwa>>
                          /\ Recorded("USDY_Pricer") /\ managers[m].pricer = The("Pricer")
                          /\ <<pair[2], "MINTER_ROLE", pair[1]>> \in grants
      BY <1>5 DEF AnnouncedOK, chain, Recorded
    <3>1. CASE pair \in announced
      BY <1>0, <3>1 DEF StateOK, AnnouncedOK
    <3>2. CASE pair = <<manager, usdy>>
      BY <2>1, <2>2, <3>2
    <3> QED BY <1>5, <3>1, <3>2
  <2>4. StateOK'
    <3>1. announced' \subseteq Contracts \X Contracts
      <4>1. announced \subseteq Contracts \X Contracts
        BY <1>0 DEF StateOK
      <4> HIDE DEF manager, usdy
      <4> QED BY <1>5, <2>2, <4>1
    <3>2. RecordsOK' /\ ProposalsOK' /\ GrantsOK' /\ TokensHaveLists' /\ ManagersOK'
      BY <1>0, <1>5 DEF StateOK, chain, RecordsOK, ProposalsOK, GrantsOK,
         TokensHaveLists, ManagersOK
    <3> QED BY <1>0, <1>5, <2>3, <3>1, <3>2 DEF StateOK, chain
  <2> QED BY <1>5, <2>4, Finished DEF DepInv, DepTypeOK
<1>6. CASE Throw
  BY <1>6, Thrown
<1> QED
  BY <1>1, <1>2, <1>3, <1>4, <1>5, <1>6 DEF UsdyManagerScript, chain, offChain

LEMMA ProposeAllowlistTaskOK ==
  ASSUME DepInv, ProposeAllowlistTask, UNCHANGED aborts PROVE DepInv'
<1> DEFINE call == Call("deployAllowlist", records["AllowlistFactory"], "", ZeroAddress)
<1>1. CASE Recorded("AllowlistFactory") /\ Propose(call) /\ Finish
  <2>1. call \in Calls
    BY <1>1, DepInvParts DEF StateOK, Recorded, Names, Call, Calls, Addresses
  <2>2. call.role = "" /\ call.fn = "deployAllowlist"
    BY DEF Call
  <2>3. UNCHANGED chain
    BY <1>1 DEF Propose
  <2> HIDE DEF call
  <2>4. StateOK'
    BY <1>1, <2>1, <2>2, <2>3, DepInvParts, ProposeOK
  <2> QED BY <1>1, <2>4, Finished DEF DepInv, DepTypeOK
<1> QED
  BY <1>1, Thrown DEF ProposeAllowlistTask

LEMMA ProposeUsdyTaskOK ==
  ASSUME DepInv, ProposeUsdyTask, UNCHANGED aborts PROVE DepInv'
<1> DEFINE call == Call("deployUSDY", records["USDYFactory"], "", ZeroAddress)
<1>1. CASE Recorded("USDYFactory") /\ Propose(call) /\ Finish
  <2>1. call \in Calls
    BY <1>1, DepInvParts DEF StateOK, Recorded, Names, Call, Calls, Addresses
  <2>2. call.role = "" /\ call.fn = "deployUSDY"
    BY DEF Call
  <2>3. UNCHANGED chain
    BY <1>1 DEF Propose
  <2> HIDE DEF call
  <2>4. StateOK'
    BY <1>1, <2>1, <2>2, <2>3, DepInvParts, ProposeOK
  <2> QED BY <1>1, <2>4, Finished DEF DepInv, DepTypeOK
<1> QED
  BY <1>1, Thrown DEF ProposeUsdyTask

LEMMA SaveAllowlistTaskOK ==
  ASSUME DepInv, SaveAllowlistTask, UNCHANGED aborts PROVE DepInv'
<1>1. CASE /\ At("2-save-usdy-prod", 1)
           /\ job' = [job EXCEPT !.step = 2, !.proxy = allowlistProxy]
           /\ UNCHANGED <<chain, offChain>>
  <2>1. StateOK'
    BY <1>1, DepInvParts, StateStutters
  <2>2. /\ allowlistProxy \in {ZeroAddress} \cup {<<"AllowlistProxy", n>> : n \in 1..allowlists}
        /\ allowlistProxy \in Addresses
    BY DepInvParts DEF StateOK, allowlistProxy, Addresses, Contracts, Kinds
  <2>3. /\ JobTypeOK' /\ job'.script = "2-save-usdy-prod"
        /\ job'.proxy = allowlistProxy
    BY <1>1, <2>2, DepInvParts DEF At, JobTypeOK
  <2>4. JobOK'
    BY <1>1, <2>2, <2>3 DEF JobOK, chain
  <2> QED BY <2>1, <2>3, <2>4 DEF DepInv, DepTypeOK, StateOK, JobTypeOK
<1>2. CASE /\ At("2-save-usdy-prod", 2) /\ Save("Allowlist", job.proxy)
           /\ UNCHANGED chain /\ Finish
  <2>1. /\ job.proxy \in {ZeroAddress} \cup {<<"AllowlistProxy", n>> : n \in 1..allowlists}
        /\ job.proxy \in Addresses
    BY <1>2, DepInvParts DEF JobOK, At, JobTypeOK
  <2>2. StateOK'
    BY <1>2, <2>1, DepInvParts, SaveOK DEF Names
  <2> QED BY <1>2, <2>2, Finished DEF DepInv, DepTypeOK
<1> QED
  BY <1>1, <1>2, Thrown DEF SaveAllowlistTask

LEMMA SaveUsdyTaskOK ==
  ASSUME DepInv, SaveUsdyTask, UNCHANGED aborts PROVE DepInv'
<1>1. CASE /\ At("4-save-usdy-prod", 1)
           /\ job' = [job EXCEPT !.step = 2, !.proxy = usdyProxy]
           /\ UNCHANGED <<chain, offChain>>
  <2>1. StateOK'
    BY <1>1, DepInvParts, StateStutters
  <2>2. usdyProxy \in Addresses
    BY DepInvParts DEF StateOK, usdyProxy, Addresses, Contracts, Kinds
  <2>3. JobTypeOK' /\ job'.script = "4-save-usdy-prod"
    BY <1>1, <2>2, DepInvParts DEF At, JobTypeOK
  <2>4. JobOK'
    BY <2>3 DEF JobOK
  <2> QED BY <2>1, <2>3, <2>4 DEF DepInv, DepTypeOK, StateOK, JobTypeOK
<1>2. CASE Save("USDY", job.proxy) /\ UNCHANGED chain /\ Finish
  <2>1. StateOK'
    BY <1>2, DepInvParts, SaveOK DEF Names, JobTypeOK
  <2> QED BY <1>2, <2>1, Finished DEF DepInv, DepTypeOK
<1> QED
  BY <1>1, <1>2, Thrown DEF SaveUsdyTask

LEMMA EightEntries ==
  ASSUME NEW s, NEW a, NEW b, NEW c, NEW d, NEW e, NEW f, NEW g, NEW h,
         s = <<a, b, c, d, e, f, g, h>>
  PROVE  /\ s[1] = a /\ s[2] = b /\ s[3] = c /\ s[4] = d
         /\ s[5] = e /\ s[6] = f /\ s[7] = g /\ s[8] = h
OBVIOUS

LEMMA ProposeManagerTaskOK ==
  ASSUME DepInv, ProposeManagerTask, UNCHANGED aborts PROVE DepInv'
<1> USE DepInvParts
<1>1. PICK step \in FollowedSteps \cup {1} :
        /\ At("5-usdyManager-prod", step)
        /\ \/ /\ Recorded("USDYManager") /\ Recorded("USDY_Pricer") /\ Recorded("USDY")
              /\ \/ step \in FollowedSteps /\ Propose(ManagerCalls[step])
                 \/ step \notin FollowedSteps /\ UNCHANGED <<chain, offChain>>
              /\ NextCall(step)
           \/ Throw
  BY DEF ProposeManagerTask
<1>2. CASE Throw
  BY <1>2, Thrown
<1>3. CASE /\ Recorded("USDYManager") /\ Recorded("USDY_Pricer") /\ Recorded("USDY")
           /\ \/ step \in FollowedSteps /\ Propose(ManagerCalls[step])
              \/ step \notin FollowedSteps /\ UNCHANGED <<chain, offChain>>
           /\ NextCall(step)
  <2>1. StateOK'
    <3>1. CASE UNCHANGED <<chain, offChain>>
      BY <3>1, StateStutters
    <3>2. CASE step \in FollowedSteps /\ Propose(ManagerCalls[step])
      <4> DEFINE call == ManagerCalls[step]
                 usdy == records["USDY"]
                 manager == records["USDYManager"]
                 pricer == records["USDY_Pricer"]
      <4>1. step \in 1..8
        BY <3>2 DEF FollowedSteps
      <4>2. /\ manager \in {USDYManager(m) : m \in DOMAIN managers}
            /\ pricer = The("Pricer") /\ usdy \in Addresses
            /\ manager \in Addresses
        BY <1>3 DEF Recorded, StateOK, RecordsOK, Names
      <4>3. \/ \E to \in Addresses, role \in Roles, arg \in Members :
                  /\ call = Call("grantRole", to, role, arg)
                  /\ role # "DEFAULT_ADMIN_ROLE"
                  /\ role = "MINTER_ROLE" => arg = manager
            \/ call = Call("setPricer", manager, "", pricer)
        <5>1. Pauser \in Members /\ ManagerAdmin \in Members /\ manager \in Members
          BY <4>2 DEF Members, Accounts
        <5> HIDE DEF usdy, manager, pricer
        <5>2. ManagerCalls =
               << Call("grantRole", usdy, "MINTER_ROLE", manager),
                  Call("grantRole", usdy, "PAUSER_ROLE", Pauser),
                  Call("setPricer", manager, "", pricer),
                  Call("grantRole", manager, "PRICE_ID_SETTER_ROLE", ManagerAdmin),
                  Call("grantRole", manager, "TIMESTAMP_SETTER_ROLE", ManagerAdmin),
                  Call("grantRole", manager, "PAUSER_ROLE", Pauser),
                  Call("grantRole", manager, "LIST_CONFIGURER_ROLE", ManagerAdmin),
                  Call("grantRole", manager, "RELAYER_ROLE", ManagerAdmin) >>
          BY DEF ManagerCalls, usdy, manager, pricer
        <5>3. step = 1 \/ step = 2 \/ step = 3 \/ step = 4 \/ step = 5 \/ step = 6
                \/ step = 7 \/ step = 8
          BY <4>1
        <5>4. /\ ManagerCalls[1] = Call("grantRole", usdy, "MINTER_ROLE", manager)
              /\ ManagerCalls[2] = Call("grantRole", usdy, "PAUSER_ROLE", Pauser)
              /\ ManagerCalls[3] = Call("setPricer", manager, "", pricer)
              /\ ManagerCalls[4] = Call("grantRole", manager, "PRICE_ID_SETTER_ROLE", ManagerAdmin)
              /\ ManagerCalls[5] = Call("grantRole", manager, "TIMESTAMP_SETTER_ROLE", ManagerAdmin)
              /\ ManagerCalls[6] = Call("grantRole", manager, "PAUSER_ROLE", Pauser)
              /\ ManagerCalls[7] = Call("grantRole", manager, "LIST_CONFIGURER_ROLE", ManagerAdmin)
              /\ ManagerCalls[8] = Call("grantRole", manager, "RELAYER_ROLE", ManagerAdmin)
          BY <5>2, EightEntries
        <5>8. \A role \in {"MINTER_ROLE", "PAUSER_ROLE", "PRICE_ID_SETTER_ROLE",
                            "TIMESTAMP_SETTER_ROLE", "LIST_CONFIGURER_ROLE", "RELAYER_ROLE"} :
                role \in Roles /\ role # "DEFAULT_ADMIN_ROLE"
          BY DEF Roles
        <5>5. CASE step = 3
          BY <5>4, <5>5
        <5>6. CASE step # 3
          BY <4>2, <5>1, <5>3, <5>4, <5>6, <5>8
        <5> QED BY <5>5, <5>6
      <4>4. /\ call \in Calls /\ call.role # "DEFAULT_ADMIN_ROLE"
            /\ call.role = "MINTER_ROLE" =>
                 call.arg \in {USDYManager(m) : m \in DOMAIN managers}
            /\ call.fn = "setPricer" => call.arg = The("Pricer")
        <5> HIDE DEF call, manager, pricer
        <5>1. CASE call = Call("setPricer", manager, "", pricer)
          BY <4>2, <5>1 DEF Call, Calls, Addresses, Contracts, Kinds
        <5>2. CASE \E to \in Addresses, role \in Roles, arg \in Members :
                     /\ call = Call("grantRole", to, role, arg)
                     /\ role # "DEFAULT_ADMIN_ROLE"
                     /\ role = "MINTER_ROLE" => arg = manager
          BY <4>2, <5>2 DEF Call, Calls
        <5> QED BY <4>3, <5>1, <5>2
      <4>5. Propose(call) /\ UNCHANGED chain
        BY <3>2 DEF Propose
      <4> HIDE DEF call
      <4> QED BY <4>4, <4>5, ProposeOK
    <3> QED BY <1>3, <3>1, <3>2
  <2>2. JobTypeOK' /\ job'.script \in {"none", "5-usdyManager-prod"}
    BY <1>1, <1>3 DEF NextCall, FollowedSteps, At, Idle, JobTypeOK, Addresses
  <2>3. JobOK'
    BY <2>2 DEF JobOK
  <2> QED BY <2>1, <2>2, <2>3 DEF DepInv, DepTypeOK, StateOK, JobTypeOK
<1> QED
  BY <1>1, <1>2, <1>3

LEMMA ExecuteOK ==
  ASSUME DepInv, NEW call \in proposals, Execute(call) PROVE DepInv'
<1> USE DepInvParts
<1>1. /\ call \in Calls /\ call.role # "DEFAULT_ADMIN_ROLE"
      /\ call.role = "MINTER_ROLE" =>
           call.arg \in {USDYManager(m) : m \in DOMAIN managers}
      /\ call.fn = "setPricer" => call.arg = The("Pricer")
  BY DEF StateOK, ProposalsOK
<1>2. UNCHANGED <<offChain, job, aborts>>
  BY DEF Execute
<1>3. /\ StateOK' /\ UNCHANGED tokens
      /\ grants \subseteq grants' /\ allowlists' >= allowlists
      /\ Len(managers') = Len(managers) /\ (managers = <<>> => managers' = <<>>)
      /\ \A m \in DOMAIN managers :
           /\ managers'[m].rwa = managers[m].rwa
           /\ managers[m].pricer = The("Pricer") => managers'[m].pricer = The("Pricer")
  <2>1. CASE call.fn = "grantRole" /\ GrantRole(Guardian, call.to, call.role, call.arg)
    <3>1. call.to \in Addresses /\ call.role \in Roles /\ call.arg \in Members
      BY <1>1, <2>1 DEF Calls
    <3>2. StateOK' /\ grants \subseteq grants'
      BY <1>1, <1>2, <2>1, <3>1, GrantRoleOK
    <3> QED BY <2>1, <3>2 DEF GrantRole, StateOK
  <2>2. CASE call.fn = "setPricer" /\ SetPricer(Guardian, call.to, call.arg)
    <3>1. call.to \in Addresses /\ SetPricer(Guardian, call.to, The("Pricer"))
      BY <1>1, <2>2 DEF Calls
    <3>2. UNCHANGED <<tokens, grants, allowlists>>
      BY <2>2 DEF SetPricer
    <3>3. /\ StateOK' /\ DOMAIN managers' = DOMAIN managers
          /\ Len(managers') = Len(managers)
          /\ \A m \in DOMAIN managers :
               /\ managers'[m].rwa = managers[m].rwa
               /\ managers'[m].pricer = IF m = call.to[2] THEN The("Pricer")
                                                        ELSE managers[m].pricer
      BY <1>2, <3>1, SetPricerOK
    <3>4. managers = <<>> => managers' = <<>>
      BY <3>3 DEF StateOK
    <3>5. allowlists \in Nat
      BY DEF StateOK
    <3> QED BY <3>2, <3>3, <3>4, <3>5
  <2>3. CASE DeployAllowlist
    BY <1>2, <2>3, DeployAllowlistOK DEF DeployAllowlist, StateOK
  <2> QED BY <2>1, <2>2, <2>3 DEF Execute
<1>4. JobTypeOK'
  BY <1>2 DEF JobTypeOK
<1>5. JobOK'
  <2>1. UNCHANGED records /\ 1..allowlists \subseteq 1..allowlists'
    BY <1>2, <1>3 DEF offChain, StateOK
  <2>2. managers # <<>> => Len(managers) \in DOMAIN managers /\ managers' # <<>>
    BY <1>3 DEF StateOK
  <2> QED BY <1>2, <1>3, <2>1, <2>2 DEF JobOK, Recorded
<1> QED
  BY <1>3, <1>4, <1>5 DEF DepInv, DepTypeOK, StateOK, JobTypeOK

LEMMA DepNextOK == ASSUME DepInv, [DepNext]_depVars PROVE DepInv'
<1>1. CASE \E script \in Scripts : Start(script)
  <2>1. PICK script \in Scripts : Start(script)
    BY <1>1
  <2>2. StateOK'
    BY <2>1, DepInvParts, StateStutters DEF Start
  <2>3. JobTypeOK' /\ job'.step = 1 /\ job'.script = script
    BY <2>1, DepInvParts DEF Start, JobTypeOK, Addresses
  <2>4. JobOK'
    BY <2>3 DEF JobOK
  <2> QED BY <2>2, <2>3, <2>4 DEF DepInv, DepTypeOK, StateOK, JobTypeOK
<1>2. CASE Step
  BY <1>2, AllowlistScriptOK, BlocklistScriptOK, UsdyFactoryScriptOK, PricerScriptOK,
     UsdyManagerScriptOK, ProposeAllowlistTaskOK, ProposeUsdyTaskOK, SaveAllowlistTaskOK,
     SaveUsdyTaskOK, ProposeManagerTaskOK DEF Step, StepOfScript, StepOfTask
<1>3. CASE Abort
  <2>1. StateOK'
    BY <1>3, DepInvParts, StateStutters DEF Abort
  <2> QED BY <1>3, <2>1, Finished DEF Abort, DepInv, DepTypeOK
<1>4. CASE \E call \in proposals : Execute(call)
  BY <1>4, ExecuteOK
<1>5. CASE UNCHANGED depVars
  BY <1>5 DEF depVars, chain, offChain, DepInv, DepTypeOK, RecordsOK, ProposalsOK, GrantsOK,
     TokensHaveLists, ManagersOK, JobOK, AnnouncedOK, Recorded
<1> QED
  BY <1>1, <1>2, <1>3, <1>4, <1>5 DEF DepNext

-----------------------------------------------------------------------------
(* Every reachable state satisfies the inductive invariant, whatever order *)
(* scripts, tasks, proposals and interruptions come in.                    *)
THEOREM DepInvariant == DepSpec => []DepInv
<1>1. DepInit => DepInv
  BY DepInitOK
<1>2. DepInv /\ [DepNext]_depVars => DepInv'
  BY DepNextOK
<1> QED
  BY <1>1, <1>2, PTL DEF DepSpec

(* Contracts, records, proposals and the script under way keep their types.*)
THEOREM DepTypeCorrect == DepSpec => []DepTypeOK
<1>1. DepInv => DepTypeOK
  BY DEF DepInv
<1> QED
  BY <1>1, DepInvariant, PTL

(* A record saved before its factory deployed anything never reaches a     *)
(* token: every token asks lists that exist.                               *)
THEOREM TokensHaveListsHolds == DepSpec => []TokensHaveLists
<1>1. DepInv => TokensHaveLists
  BY DEF DepInv
<1> QED
  BY <1>1, DepInvariant, PTL

(* However often 5_deploy_usdyManager.ts is run again, no token has two    *)
(* managers.                                                               *)
THEOREM OneManagerPerTokenHolds == DepSpec => []OneManagerPerToken
<1>1. ASSUME DepInv PROVE OneManagerPerToken
  <2>1. SUFFICES ASSUME NEW m \in DOMAIN managers, NEW n \in DOMAIN managers, m # n
                 PROVE  managers[m].rwa # managers[n].rwa
    BY DEF OneManagerPerToken
  <2>2. m \in Nat /\ n \in Nat
    BY <1>1 DEF DepInv, DepTypeOK
  <2>3. managers[m].rwa[2] \in Nat /\ managers[n].rwa[2] \in Nat
    BY <1>1 DEF DepInv, DepTypeOK, ManagersOK
  <2>4. m < n \/ n < m
    BY <2>1, <2>2
  <2> QED BY <1>1, <2>3, <2>4 DEF DepInv, ManagersOK
<1> QED
  BY <1>1, DepInvariant, PTL

(* USDYFactory hands every role over, and no script, task or proposal gives*)
(* a token another administrator or a minter that is no manager.           *)
THEOREM OnlyManagersMintHolds == DepSpec => []OnlyManagersMint
<1>1. ASSUME DepInv PROVE OnlyManagersMint
  <2> SUFFICES ASSUME NEW t \in DOMAIN tokens
               PROVE  /\ MembersOf(USDY(t), "DEFAULT_ADMIN_ROLE") = {Guardian}
                      /\ Guardian \in MembersOf(USDY(t), "PAUSER_ROLE")
                      /\ MembersOf(USDY(t), "MINTER_ROLE") \subseteq
                           {USDYManager(m) : m \in DOMAIN managers}
    BY DEF OnlyManagersMint
  <2>1. /\ <<USDY(t), "DEFAULT_ADMIN_ROLE", Guardian>> \in grants
        /\ <<USDY(t), "PAUSER_ROLE", Guardian>> \in grants
    BY <1>1 DEF DepInv, GrantsOK
  <2>2. \A grant \in grants : grant[1] = USDY(t) =>
          /\ grant[2] = "DEFAULT_ADMIN_ROLE" => grant[3] = Guardian
          /\ grant[2] = "MINTER_ROLE" =>
               grant[3] \in {USDYManager(m) : m \in DOMAIN managers}
    BY <1>1 DEF DepInv, GrantsOK
  <2>3. Guardian \in MembersOf(USDY(t), "DEFAULT_ADMIN_ROLE")
    BY <2>1 DEF MembersOf
  <2>4. Guardian \in MembersOf(USDY(t), "PAUSER_ROLE")
    BY <2>1 DEF MembersOf
  <2>5. MembersOf(USDY(t), "DEFAULT_ADMIN_ROLE") \subseteq {Guardian}
    BY <2>2 DEF MembersOf
  <2>6. MembersOf(USDY(t), "MINTER_ROLE") \subseteq
          {USDYManager(m) : m \in DOMAIN managers}
    BY <2>2 DEF MembersOf
  <2> QED BY <2>3, <2>4, <2>5, <2>6
<1> QED
  BY <1>1, DepInvariant, PTL

(* "All has done." stays true of the manager and the token it was printed  *)
(* for.                                                                    *)
THEOREM DoneMeansWiredHolds == DepSpec => []DoneMeansWired
<1>1. ASSUME DepInv PROVE DoneMeansWired
  <2> SUFFICES ASSUME NEW pair \in announced
               PROVE  /\ managers[pair[1][2]].rwa = pair[2]
                      /\ managers[pair[1][2]].blocklist = tokens[pair[2][2]].blocklist
                      /\ managers[pair[1][2]].pricer = records["USDY_Pricer"]
                      /\ <<pair[2], "MINTER_ROLE", pair[1]>> \in grants
    BY DEF DoneMeansWired
  <2>1. PICK m \in DOMAIN managers :
          /\ pair = <<USDYManager(m), managers[m].rwa>>
          /\ Recorded("USDY_Pricer") /\ managers[m].pricer = The("Pricer")
          /\ <<pair[2], "MINTER_ROLE", pair[1]>> \in grants
    BY <1>1 DEF DepInv, AnnouncedOK
  <2>2. PICK t \in DOMAIN tokens : managers[m].rwa = USDY(t)
    BY <1>1 DEF DepInv, ManagersOK
  <2>3. managers[m].blocklist = tokens[t].blocklist
    BY <1>1 DEF DepInv, ManagersOK, TokensHaveLists
  <2>4. records["USDY_Pricer"] = The("Pricer")
    BY <1>1, <2>1 DEF DepInv, RecordsOK, Recorded
  <2> QED BY <2>1, <2>2, <2>3, <2>4
<1> QED
  BY <1>1, DepInvariant, PTL

-----------------------------------------------------------------------------
(* Who holds the roles of a manager. *)

(* The roles that 5-usdyManager-prod proposes for a manager. *)
AdminGiven == {"PRICE_ID_SETTER_ROLE", "TIMESTAMP_SETTER_ROLE", "LIST_CONFIGURER_ROLE",
               "RELAYER_ROLE"}

(* Who holds the roles of a manager, and which roles no token has: beyond  *)
(* DepInv, what the verification tasks compare.                            *)
ProposedOK(call) ==
  call.fn = "grantRole" =>
    /\ call.role \in {"MINTER_ROLE", "PAUSER_ROLE"} \cup AdminGiven
    /\ call.role \in AdminGiven => call.to[1] = "USDYManager" /\ call.arg = ManagerAdmin

GrantOK(grant) ==
  /\ grant[2] \in AdminGiven \cup {"MANAGER_ADMIN"} =>
       grant[1][1] = "USDYManager" /\ grant[3] = ManagerAdmin
  /\ grant[2] = "PAUSER_ADMIN" => grant[3] = Pauser
  /\ grant[1][1] = "USDYManager" /\ grant[2] = "DEFAULT_ADMIN_ROLE" =>
       grant[3] = ManagerAdmin

RolesInv ==
  /\ \A call \in proposals : ProposedOK(call)
  /\ \A grant \in grants : GrantOK(grant)
  /\ \A m \in DOMAIN managers : ManagerRoles(USDYManager(m)) \subseteq grants

LEMMA Entries ==
  ASSUME NEW a, NEW b, NEW c
  PROVE  /\ <<a, b>>[1] = a /\ <<a, b>>[2] = b
         /\ <<a, b, c>>[1] = a /\ <<a, b, c>>[2] = b /\ <<a, b, c>>[3] = c
  OBVIOUS

LEMMA ManagerCallsOK ==
  ASSUME StateOK, Recorded("USDYManager"), NEW step \in 1..8
  PROVE  ProposedOK(ManagerCalls[step])
<1> DEFINE usdy == records["USDY"]
           manager == records["USDYManager"]
           pricer == records["USDY_Pricer"]
<1>1. manager[1] = "USDYManager"
  <2>1. manager = USDYManager(Len(managers))
    BY DEF StateOK, RecordsOK, Recorded
  <2> QED BY <2>1, Entries
<1> HIDE DEF usdy, manager, pricer
<1>2. ManagerCalls =
       << Call("grantRole", usdy, "MINTER_ROLE", manager),
          Call("grantRole", usdy, "PAUSER_ROLE", Pauser),
          Call("setPricer", manager, "", pricer),
          Call("grantRole", manager, "PRICE_ID_SETTER_ROLE", ManagerAdmin),
          Call("grantRole", manager, "TIMESTAMP_SETTER_ROLE", ManagerAdmin),
          Call("grantRole", manager, "PAUSER_ROLE", Pauser),
          Call("grantRole", manager, "LIST_CONFIGURER_ROLE", ManagerAdmin),
          Call("grantRole", manager, "RELAYER_ROLE", ManagerAdmin) >>
  BY DEF ManagerCalls, usdy, manager, pricer
<1>3. /\ ManagerCalls[1] = Call("grantRole", usdy, "MINTER_ROLE", manager)
      /\ ManagerCalls[2] = Call("grantRole", usdy, "PAUSER_ROLE", Pauser)
      /\ ManagerCalls[3] = Call("setPricer", manager, "", pricer)
      /\ ManagerCalls[4] = Call("grantRole", manager, "PRICE_ID_SETTER_ROLE", ManagerAdmin)
      /\ ManagerCalls[5] = Call("grantRole", manager, "TIMESTAMP_SETTER_ROLE", ManagerAdmin)
      /\ ManagerCalls[6] = Call("grantRole", manager, "PAUSER_ROLE", Pauser)
      /\ ManagerCalls[7] = Call("grantRole", manager, "LIST_CONFIGURER_ROLE", ManagerAdmin)
      /\ ManagerCalls[8] = Call("grantRole", manager, "RELAYER_ROLE", ManagerAdmin)
  BY <1>2, EightEntries
<1>4. step = 1 \/ step = 2 \/ step = 3 \/ step = 4 \/ step = 5 \/ step = 6 \/ step = 7
        \/ step = 8
  OBVIOUS
<1>5. \A to, role, arg, fn :
        LET call == Call(fn, to, role, arg)
        IN  call.fn = fn /\ call.to = to /\ call.role = role /\ call.arg = arg
  BY DEF Call
<1>6. ProposedOK(Call("setPricer", manager, "", pricer))
  <2>1. Call("setPricer", manager, "", pricer).fn = "setPricer"
    BY DEF Call
  <2> QED BY <2>1 DEF ProposedOK
<1>7. ProposedOK(Call("grantRole", usdy, "MINTER_ROLE", manager))
  BY <1>5 DEF ProposedOK, AdminGiven
<1>8. \A to : ProposedOK(Call("grantRole", to, "PAUSER_ROLE", Pauser))
  BY <1>5 DEF ProposedOK, AdminGiven
<1>9. \A role \in AdminGiven : ProposedOK(Call("grantRole", manager, role, ManagerAdmin))
  BY <1>1, <1>5 DEF ProposedOK
<1> QED
  BY <1>3, <1>4, <1>6, <1>7, <1>8, <1>9 DEF AdminGiven

LEMMA RolesStep == ASSUME DepInv, RolesInv, [DepNext]_depVars PROVE RolesInv'
<1> USE DepInvParts
<1>1. CASE UNCHANGED <<proposals, grants, DOMAIN managers>>
  BY <1>1 DEF RolesInv
<1>2. ASSUME NEW call, call.fn # "grantRole", Propose(call) PROVE RolesInv'
  BY <1>2 DEF RolesInv, Propose, ProposedOK, chain
<1>3. CASE ProposeManagerTask
  <2>1. PICK step \in FollowedSteps \cup {1} :
          \/ /\ Recorded("USDYManager")
             /\ \/ step \in FollowedSteps /\ Propose(ManagerCalls[step])
                \/ UNCHANGED <<chain, offChain>>
          \/ Throw
    BY <1>3 DEF ProposeManagerTask
  <2>2. CASE Recorded("USDYManager") /\ step \in FollowedSteps /\ Propose(ManagerCalls[step])
    <3>1. ProposedOK(ManagerCalls[step])
      BY <2>2, ManagerCallsOK DEF FollowedSteps
    <3> QED BY <2>2, <3>1 DEF Propose, RolesInv, chain
  <2>3. CASE UNCHANGED <<chain, offChain>>
    BY <1>1, <2>3 DEF chain, offChain
  <2> QED BY <2>1, <2>2, <2>3 DEF Throw
<1>4. ASSUME NEW blocklist, NEW allowlist, DeployUSDY(blocklist, allowlist), UNCHANGED offChain
      PROVE  RolesInv'
  <2>1. grants' = grants \cup {<<USDY(Len(tokens) + 1), "DEFAULT_ADMIN_ROLE", Guardian>>,
                               <<USDY(Len(tokens) + 1), "PAUSER_ROLE", Guardian>>}
    BY <1>4, HandOverOf DEF DeployUSDY
  <2>2. /\ GrantOK(<<USDY(Len(tokens) + 1), "DEFAULT_ADMIN_ROLE", Guardian>>)
        /\ GrantOK(<<USDY(Len(tokens) + 1), "PAUSER_ROLE", Guardian>>)
    <3>1. USDY(Len(tokens) + 1)[1] = "USDY"
      BY Entries
    <3> HIDE DEF USDY
    <3> QED BY <3>1, Entries DEF GrantOK, AdminGiven
  <2>3. UNCHANGED <<proposals, managers>>
    BY <1>4 DEF DeployUSDY, offChain
  <2> QED BY <2>1, <2>2, <2>3 DEF RolesInv
<1>5. ASSUME NEW rwa, NEW blocklist, DeployManager(rwa, blocklist) PROVE RolesInv'
  <2>1. CASE UNCHANGED <<chain, offChain>>
    BY <1>1, <2>1 DEF chain, offChain
  <2>2. CASE ~UNCHANGED <<chain, offChain>>
    <3> DEFINE n == Len(managers) + 1
    <3>1. /\ grants' = grants \cup ManagerRoles(USDYManager(n))
          /\ UNCHANGED proposals
          /\ managers' = Append(managers, [rwa |-> rwa, blocklist |-> blocklist,
                                           pricer |-> ZeroAddress])
      BY <1>5, <2>2 DEF DeployManager, Save
    <3>2. DOMAIN managers' = DOMAIN managers \cup {n}
      <4>1. managers \in Seq(Manager)
        BY DEF StateOK
      <4> HIDE DepInvParts
      <4> QED BY <3>1, <4>1
    <3>3. \A grant \in ManagerRoles(USDYManager(n)) : GrantOK(grant)
      <4>1. /\ GrantOK(<<USDYManager(n), "DEFAULT_ADMIN_ROLE", ManagerAdmin>>)
            /\ GrantOK(<<USDYManager(n), "MANAGER_ADMIN", ManagerAdmin>>)
            /\ GrantOK(<<USDYManager(n), "PAUSER_ADMIN", Pauser>>)
        <5>1. USDYManager(n)[1] = "USDYManager"
          BY Entries
        <5> HIDE DEF USDYManager
        <5> QED BY <5>1, Entries DEF GrantOK, AdminGiven
      <4> QED BY <4>1 DEF ManagerRoles
    <3> HIDE DEF n
    <3> QED BY <3>1, <3>2, <3>3 DEF RolesInv
  <2> QED BY <2>1, <2>2
<1>6. ASSUME NEW sender, NEW to, NEW role, NEW member, GrantRole(sender, to, role, member),
             UNCHANGED proposals, GrantOK(<<to, role, member>>)
      PROVE  RolesInv'
  BY <1>6 DEF GrantRole, RolesInv
<1>7. ASSUME NEW manager, NEW member, GrantRole(Deployer, manager, "MINTER_ROLE", member),
             UNCHANGED offChain
      PROVE  RolesInv'
  <2>1. GrantOK(<<manager, "MINTER_ROLE", member>>)
    BY DEF GrantOK, AdminGiven
  <2> QED BY <1>6, <1>7, <2>1 DEF offChain
<1>8. ASSUME NEW sender, NEW manager, NEW pricer, SetPricer(sender, manager, pricer),
             UNCHANGED offChain
      PROVE  RolesInv'
  <2>1. DOMAIN managers' = DOMAIN managers
    BY <1>8 DEF SetPricer
  <2> QED BY <1>1, <1>8, <2>1 DEF SetPricer, offChain
<1>9. ASSUME NEW call \in proposals, Execute(call) PROVE RolesInv'
  <2>1. UNCHANGED offChain /\ ProposedOK(call) /\ call.role # "DEFAULT_ADMIN_ROLE"
    BY <1>9 DEF Execute, RolesInv, StateOK, ProposalsOK
  <2>2. CASE call.fn = "grantRole" /\ GrantRole(Guardian, call.to, call.role, call.arg)
    <3>1. GrantOK(<<call.to, call.role, call.arg>>)
      BY <2>1, <2>2 DEF ProposedOK, GrantOK, AdminGiven
    <3> QED BY <1>6, <2>1, <2>2, <3>1 DEF offChain
  <2>3. CASE SetPricer(Guardian, call.to, call.arg)
    BY <1>8, <2>1, <2>3
  <2>4. CASE DeployAllowlist
    BY <1>1, <2>1, <2>4 DEF DeployAllowlist, offChain
  <2> QED BY <1>9, <2>2, <2>3, <2>4 DEF Execute
<1>10. CASE UsdyManagerScript
  <2>1. CASE Throw
    BY <1>1, <2>1 DEF Throw, chain, offChain
  <2>2. CASE UNCHANGED <<chain, proposals>>
    BY <1>1, <2>2 DEF chain
  <2>3. CASE \/ \E rwa, blocklist : DeployManager(rwa, blocklist)
             \/ \E usdy, manager : /\ GrantRole(Deployer, usdy, "MINTER_ROLE", manager)
                                   /\ UNCHANGED offChain
             \/ \E manager, pricer : SetPricer(Deployer, manager, pricer) /\ UNCHANGED offChain
    BY <1>5, <1>7, <1>8, <2>3
  <2> QED BY <1>10, <2>1, <2>2, <2>3 DEF UsdyManagerScript, offChain
<1>11. CASE AllowlistScript \/ BlocklistScript \/ PricerScript \/ SaveAllowlistTask \/ SaveUsdyTask
  BY <1>1, <1>11 DEF AllowlistScript, BlocklistScript, PricerScript, SaveAllowlistTask,
     SaveUsdyTask, DeployOnce, Save, Throw, chain, offChain
<1>12. CASE UsdyFactoryScript
  BY <1>1, <1>4, <1>12 DEF UsdyFactoryScript, DeployOnce, Save, Throw, chain, offChain
<1>13. CASE ProposeAllowlistTask \/ ProposeUsdyTask
  <2>1. \A fn, to, role, arg : Call(fn, to, role, arg).fn = fn
    BY DEF Call
  <2>2. \/ Throw
        \/ \E to, role, arg : \E fn \in {"deployAllowlist", "deployUSDY"} :
             Propose(Call(fn, to, role, arg))
    BY <1>13 DEF ProposeAllowlistTask, ProposeUsdyTask
  <2>3. CASE Throw
    BY <1>1, <2>3 DEF Throw, chain, offChain
  <2> QED BY <1>2, <2>1, <2>2, <2>3
<1>14. CASE (\E script \in Scripts : Start(script)) \/ Abort \/ UNCHANGED depVars
  BY <1>1, <1>14 DEF Start, Abort, depVars, chain, offChain
<1> QED
  BY <1>3, <1>9, <1>10, <1>11, <1>12, <1>13, <1>14 DEF DepNext, Step, StepOfScript, StepOfTask

-----------------------------------------------------------------------------
(* What the verification tasks print. *)

(* A task prints the checks that fail up to the first it cannot make. *)
FailingUpTo(task, last) == {task[i].name : i \in {n \in 1..last : ~task[n].agrees}}

EndsAt(task, last) ==
  /\ \E k \in Nat : DOMAIN task = 1..k /\ last \in 1..k
  /\ ~task[last].readable
  /\ \A i \in 1..(last - 1) : task[i].readable

LEMMA PrintedIs ==
  ASSUME NEW task, NEW last, EndsAt(task, last)
  PROVE  Printed(task) = FailingUpTo(task, last)
<1> USE DEF EndsAt
<1> PICK k \in Nat : DOMAIN task = 1..k /\ last \in 1..k
  OBVIOUS
<1>1. ASSUME NEW n \in 1..k
      PROVE  (\A earlier \in 1..(n - 1) : task[earlier].readable) <=> n \in 1..last
  <2>1. CASE n \in 1..last
    BY <2>1
  <2>2. CASE n \notin 1..last
    <3>1. last \in 1..(n - 1)
      BY <2>2
    <3> QED BY <2>2, <3>1
  <2> QED BY <2>1, <2>2
<1>2. {n \in DOMAIN task : ~task[n].agrees /\ \A earlier \in 1..(n - 1) : task[earlier].readable}
        = {n \in 1..last : ~task[n].agrees}
  BY <1>1
<1> QED
  BY <1>2 DEF Printed, FailingUpTo

(* A task all of whose checks are made. *)
LEMMA PrintedAll ==
  ASSUME NEW task, NEW k \in Nat, DOMAIN task = 1..k, \A i \in 1..k : task[i].agrees
  PROVE  Printed(task) = {}
BY DEF Printed

(* What a sequence made of two holds. *)
IsJoin(s, t, w) ==
  /\ Len(w) = Len(s) + Len(t)
  /\ DOMAIN w = 1..(Len(s) + Len(t))
  /\ \A i \in 1..Len(s) : w[i] = s[i]
  /\ \A i \in 1..Len(t) : w[Len(s) + i] = t[i]

LEMMA Joined ==
  ASSUME NEW S, NEW T, NEW s \in Seq(S), NEW t \in Seq(T)
  PROVE  s \o t \in Seq(S \cup T) /\ IsJoin(s, t, s \o t)
<1> DEFINE U == S \cup T
<1>1. s \in Seq(U) /\ t \in Seq(U)
  OBVIOUS
<1> HIDE DEF U
<1>2. s \o t \in Seq(U) /\ Len(s \o t) = Len(s) + Len(t)
  BY <1>1
<1>3. DOMAIN (s \o t) = 1..(Len(s) + Len(t))
  BY <1>1, <1>2
<1>4. \A i \in 1..Len(s) : (s \o t)[i] = s[i]
  BY <1>1
<1>5. \A i \in 1..Len(t) : (s \o t)[Len(s) + i] = t[i]
  BY <1>1
<1> QED
  BY <1>2, <1>3, <1>4, <1>5 DEF U, IsJoin

LEMMA SevenEntries ==
  ASSUME NEW s, NEW a, NEW b, NEW c, NEW d, NEW e, NEW f, NEW g,
         s = <<a, b, c, d, e, f, g>>
  PROVE  /\ s \in Seq({a, b, c, d, e, f, g})
         /\ Len(s) = 7
         /\ s[1] = a /\ s[2] = b /\ s[3] = c /\ s[4] = d
         /\ s[5] = e /\ s[6] = f /\ s[7] = g
OBVIOUS

LEMMA FourEntries ==
  ASSUME NEW s, NEW a, NEW b, NEW c, NEW d, s = <<a, b, c, d>>
  PROVE  /\ s \in Seq({a, b, c, d})
         /\ Len(s) = 4
         /\ s[1] = a /\ s[2] = b /\ s[3] = c /\ s[4] = d
OBVIOUS

LEMMA ThreeEntries ==
  ASSUME NEW s, NEW a, NEW b, NEW c, s = <<a, b, c>>
  PROVE  s \in Seq({a, b, c}) /\ Len(s) = 3
OBVIOUS

LEMMA ProxyChecksAre ==
  ASSUME NEW isProxy \in BOOLEAN
  PROVE  /\ \E S : ProxyChecks(isProxy) \in Seq(S)
         /\ Len(ProxyChecks(isProxy)) = 7
         /\ ProxyChecks(isProxy)[1] = Check("proxy admin", isProxy, TRUE)
         /\ ProxyChecks(isProxy)[2] = Check("rollback", TRUE, TRUE)
         /\ ProxyChecks(isProxy)[3] = Check("beacon", TRUE, TRUE)
         /\ ProxyChecks(isProxy)[4] = Check("impl", isProxy, TRUE)
         /\ ProxyChecks(isProxy)[5] = Check("getProxyAdmin", isProxy, isProxy)
         /\ ProxyChecks(isProxy)[6] = Check("getProxyImplementation", isProxy, isProxy)
         /\ ProxyChecks(isProxy)[7] = Check("owner", TRUE, TRUE)
<1> DEFINE s == ProxyChecks(isProxy)
           a == Check("proxy admin", isProxy, TRUE)
           b == Check("rollback", TRUE, TRUE)
           c == Check("beacon", TRUE, TRUE)
           d == Check("impl", isProxy, TRUE)
           e == Check("getProxyAdmin", isProxy, isProxy)
           f == Check("getProxyImplementation", isProxy, isProxy)
           g == Check("owner", TRUE, TRUE)
<1>1. s = <<a, b, c, d, e, f, g>>
  BY DEF ProxyChecks
<1> HIDE DEF s, a, b, c, d, e, f, g
<1>2. /\ s \in Seq({a, b, c, d, e, f, g})
      /\ Len(s) = 7
      /\ s[1] = a /\ s[2] = b /\ s[3] = c /\ s[4] = d /\ s[5] = e /\ s[6] = f /\ s[7] = g
  BY <1>1, SevenEntries
<1> QED
  BY <1>2 DEF s, a, b, c, d, e, f, g

(* The checks of check-usdy up to the role that nobody holds. *)
LEMMA UsdyTaskIs ==
  /\ DOMAIN CheckUsdy = 1..15
  /\ \A i \in 1..7 : CheckUsdy[i] = ProxyChecks(usdyProxy[1] = "USDY")[i]
  /\ CheckUsdy[8] = RoleCheck(usdyProxy, "DEFAULT_ADMIN_ROLE", {Guardian})
  /\ CheckUsdy[9] = RoleCheck(usdyProxy, "BURNER_ROLE", {})
  /\ CheckUsdy[10] = RoleCheck(usdyProxy, "LIST_CONFIGURER_ROLE", {Guardian})
<1> DEFINE usdy == usdy_config.usdyProxyAddress
           roles == <<"DEFAULT_ADMIN_ROLE", "BURNER_ROLE", "LIST_CONFIGURER_ROLE",
                      "MINTER_ROLE", "PAUSER_ROLE">>
           p == ProxyChecks(usdy[1] = "USDY")
           r == RoleChecks(usdy, roles, usdyProxyRoleMembers)
           a == ValueCheck("allowlist", tokens[usdy[2]].allowlist,
                           usdy_config.allowlistProxyAddress)
           b == ValueCheck("blocklist", tokens[usdy[2]].blocklist,
                           usdy_config.blocklistAddress)
           v == <<a, b, MissingGetter("sanctionsList")>>
           q == p \o r
           w == q \o v
<1>1. CheckUsdy = w
  BY DEF CheckUsdy
<1>2. usdy = usdyProxy
  BY DEF usdy_config
<1>3. PICK P : p \in Seq(P)
  BY ProxyChecksAre
<1>4. Len(p) = 7
  BY ProxyChecksAre
<1>5. /\ r = [i \in 1..5 |-> RoleCheck(usdy, roles[i], usdyProxyRoleMembers[roles[i]])]
      /\ r[1] = RoleCheck(usdyProxy, "DEFAULT_ADMIN_ROLE", {Guardian})
      /\ r[2] = RoleCheck(usdyProxy, "BURNER_ROLE", {})
      /\ r[3] = RoleCheck(usdyProxy, "LIST_CONFIGURER_ROLE", {Guardian})
  <2>1. /\ DOMAIN roles = 1..5
        /\ roles[1] = "DEFAULT_ADMIN_ROLE" /\ roles[2] = "BURNER_ROLE"
        /\ roles[3] = "LIST_CONFIGURER_ROLE"
    OBVIOUS
  <2>2. /\ usdyProxyRoleMembers["DEFAULT_ADMIN_ROLE"] = {Guardian}
        /\ usdyProxyRoleMembers["BURNER_ROLE"] = {}
        /\ usdyProxyRoleMembers["LIST_CONFIGURER_ROLE"] = {Guardian}
    BY DEF usdyProxyRoleMembers
  <2> HIDE DEF roles, usdy
  <2>3. r = [i \in 1..5 |-> RoleCheck(usdy, roles[i], usdyProxyRoleMembers[roles[i]])]
    BY <2>1 DEF RoleChecks
  <2> HIDE DEF r
  <2> QED BY <1>2, <2>1, <2>2, <2>3
<1> HIDE DEF r, roles, usdy
<1> DEFINE R == {r[i] : i \in 1..5}
           V == {a, b, MissingGetter("sanctionsList")}
<1>6. r \in Seq(R) /\ Len(r) = 5
  BY <1>5
<1>7. v \in Seq(V) /\ Len(v) = 3
  <2> HIDE DEF a, b
  <2> QED BY ThreeEntries
<1> HIDE DEF p, v, R, V
<1>8. q \in Seq(P \cup R) /\ IsJoin(p, r, q)
  BY <1>3, <1>6, Joined
<1> HIDE DEF q
<1>9. Len(q) = 12 /\ (\A i \in 1..7 : q[i] = p[i]) /\ \A i \in 1..5 : q[7 + i] = r[i]
  BY <1>4, <1>6, <1>8 DEF IsJoin
<1>10. q[7 + 1] = r[1] /\ q[7 + 2] = r[2] /\ q[7 + 3] = r[3]
  BY <1>9
<1> DEFINE Q == P \cup R
<1>11. q \in Seq(Q)
  BY <1>8
<1> HIDE DEF Q
<1>12. IsJoin(q, v, w)
  BY <1>7, <1>11, Joined
<1> HIDE DEF w
<1>13. DOMAIN w = 1..15 /\ \A i \in 1..12 : w[i] = q[i]
  BY <1>7, <1>9, <1>12 DEF IsJoin
<1>14. /\ \A i \in 1..7 : w[i] = p[i]
       /\ w[8] = r[1] /\ w[9] = r[2] /\ w[10] = r[3]
  BY <1>9, <1>10, <1>13
<1> QED
  BY <1>1, <1>2, <1>5, <1>13, <1>14 DEF p

(* check-usdy-manager *)
ManagerTaskRoles == <<"DEFAULT_ADMIN_ROLE", "MANAGER_ADMIN", "PAUSER_ADMIN",
                      "PRICE_ID_SETTER_ROLE", "RELAYER_ROLE", "TIMESTAMP_SETTER_ROLE">>

ExpectedMembers(role) ==
  IF role \in {"DEFAULT_ADMIN_ROLE", "MANAGER_ADMIN", "PAUSER_ADMIN"} \cup FollowedRoles
    THEN IF role = "PAUSER_ADMIN" THEN {Pauser} ELSE {Guardian}
    ELSE MembersOf(records["USDYManager"], role)

LEMMA ManagerTaskIs ==
  LET address == records["USDYManager"]
      manager == managers[address[2]]
  IN  /\ DOMAIN CheckUsdyManager = 1..10
      /\ \A i \in 1..6 : CheckUsdyManager[i] =
           RoleCheck(address, ManagerTaskRoles[i], ExpectedMembers(ManagerTaskRoles[i]))
      /\ CheckUsdyManager[7] = ValueCheck("blocklist", manager.blocklist,
                                          tokens[Len(tokens)].blocklist)
      /\ CheckUsdyManager[8] = ValueCheck("rwa", manager.rwa, usdyProxy)
      /\ CheckUsdyManager[9] = ValueCheck("pricer", manager.pricer, records["USDY_Pricer"])
      /\ CheckUsdyManager[10] = MissingGetter("sanctionsList")
<1> DEFINE address == records["USDYManager"]
           manager == managers[address[2]]
           roles == <<"DEFAULT_ADMIN_ROLE", "MANAGER_ADMIN", "PAUSER_ADMIN",
                      "PRICE_ID_SETTER_ROLE", "RELAYER_ROLE", "TIMESTAMP_SETTER_ROLE">>
           constructed == {"DEFAULT_ADMIN_ROLE", "MANAGER_ADMIN", "PAUSER_ADMIN"}
           expected == [role \in DOMAIN usdyManagerRoleMembers |->
                          IF role \in constructed \cup FollowedRoles
                            THEN usdyManagerRoleMembers[role] ELSE MembersOf(address, role)]
           r == RoleChecks(address, roles, expected)
           a == ValueCheck("blocklist", manager.blocklist, tokens[Len(tokens)].blocklist)
           b == ValueCheck("rwa", manager.rwa, usdyProxy)
           c == ValueCheck("pricer", manager.pricer, records["USDY_Pricer"])
           d == MissingGetter("sanctionsList")
           v == <<a, b, c, d>>
           w == r \o v
<1>1. CheckUsdyManager = w
  BY DEF CheckUsdyManager, usdy_config
<1>2. DOMAIN roles = 1..6
  OBVIOUS
<1>3. \A i \in 1..6 : expected[roles[i]] = ExpectedMembers(roles[i])
  <2>1. \A i \in 1..6 : roles[i] \in {"DEFAULT_ADMIN_ROLE", "MANAGER_ADMIN", "PAUSER_ADMIN",
                                      "PRICE_ID_SETTER_ROLE", "RELAYER_ROLE",
                                      "TIMESTAMP_SETTER_ROLE"}
    OBVIOUS
  <2> HIDE DEF roles
  <2> SUFFICES ASSUME NEW role \in {"DEFAULT_ADMIN_ROLE", "MANAGER_ADMIN", "PAUSER_ADMIN",
                                    "PRICE_ID_SETTER_ROLE", "RELAYER_ROLE",
                                    "TIMESTAMP_SETTER_ROLE"}
               PROVE  expected[role] = ExpectedMembers(role)
    BY <2>1
  <2>2. role \in DOMAIN usdyManagerRoleMembers
    BY DEF usdyManagerRoleMembers
  <2>3. usdyManagerRoleMembers[role] = IF role = "PAUSER_ADMIN" THEN {Pauser} ELSE {Guardian}
    BY DEF usdyManagerRoleMembers
  <2> QED BY <2>2, <2>3 DEF ExpectedMembers
<1> HIDE DEF expected, address, manager
<1>4. r = [i \in 1..6 |-> RoleCheck(address, roles[i], expected[roles[i]])]
  <2> HIDE DEF roles
  <2> QED BY <1>2 DEF RoleChecks
<1> HIDE DEF r
<1> DEFINE R == {r[i] : i \in 1..6}
           V == {a, b, c, d}
<1>5. r \in Seq(R) /\ Len(r) = 6
  <2> HIDE DEF roles
  <2> QED BY <1>4
<1>6. v \in Seq(V) /\ Len(v) = 4 /\ v[1] = a /\ v[2] = b /\ v[3] = c /\ v[4] = d
  <2> HIDE DEF a, b, c, d
  <2> QED BY FourEntries
<1> HIDE DEF v, a, b, c, d, R, V
<1>7. IsJoin(r, v, w)
  BY <1>5, <1>6, Joined
<1> HIDE DEF w
<1>8. /\ DOMAIN w = 1..10
      /\ \A i \in 1..6 : w[i] = r[i]
      /\ w[7] = a /\ w[8] = b /\ w[9] = c /\ w[10] = d
  <2>1. DOMAIN w = 1..10 /\ (\A i \in 1..6 : w[i] = r[i]) /\ \A i \in 1..4 : w[6 + i] = v[i]
    BY <1>5, <1>6, <1>7 DEF IsJoin
  <2>2. w[6 + 1] = v[1] /\ w[6 + 2] = v[2] /\ w[6 + 3] = v[3] /\ w[6 + 4] = v[4]
    BY <2>1
  <2> QED BY <1>6, <2>1, <2>2
<1>9. \A i \in 1..6 : w[i] = RoleCheck(address, roles[i], ExpectedMembers(roles[i]))
  <2> HIDE DEF roles
  <2> QED BY <1>3, <1>4, <1>8
<1>10. roles = ManagerTaskRoles
  BY DEF ManagerTaskRoles
<1> QED
  BY <1>1, <1>8, <1>9, <1>10 DEF a, b, c, d, address, manager

(* check-allowlist *)
LEMMA AllowlistTaskIs ==
  LET isProxy == usdy_config.allowlistProxyAddress[1] = "AllowlistProxy"
  IN  /\ DOMAIN CheckAllowlist = 1..11
      /\ \A i \in 1..7 : CheckAllowlist[i] = ProxyChecks(isProxy)[i]
      /\ \A i \in 8..11 : CheckAllowlist[i].agrees
<1> DEFINE isProxy == usdy_config.allowlistProxyAddress[1] = "AllowlistProxy"
           RoleAgrees(role) ==
             Check(role, AllowlistMembers(role) = allowlistRoleMembers[role], TRUE)
           p == ProxyChecks(isProxy)
           a == RoleAgrees("DEFAULT_ADMIN_ROLE")
           b == RoleAgrees("ALLOWLIST_SETTER")
           c == RoleAgrees("ALLOWLIST_ADMIN")
           d == ValueCheck("currentTermIndex", 0, 0)
           v == <<a, b, c, d>>
           w == p \o v
<1>1. CheckAllowlist = w
  BY DEF CheckAllowlist
<1>2. PICK P : p \in Seq(P)
  BY ProxyChecksAre
<1>3. a.agrees /\ b.agrees /\ c.agrees /\ d.agrees
  <2>1. \A role \in {"DEFAULT_ADMIN_ROLE", "ALLOWLIST_SETTER", "ALLOWLIST_ADMIN"} :
          AllowlistMembers(role) = allowlistRoleMembers[role]
    BY DEF AllowlistMembers, allowlistRoleMembers
  <2> QED BY <2>1 DEF Check, ValueCheck
<1>4. Len(p) = 7
  BY ProxyChecksAre
<1> DEFINE V == {a, b, c, d}
<1>5. v \in Seq(V) /\ Len(v) = 4 /\ v[1] = a /\ v[2] = b /\ v[3] = c /\ v[4] = d
  <2> HIDE DEF a, b, c, d
  <2> QED BY FourEntries
<1> HIDE DEF p, v, a, b, c, d, V
<1>6. IsJoin(p, v, w)
  BY <1>2, <1>5, Joined
<1> HIDE DEF w
<1>7. DOMAIN w = 1..11 /\ (\A i \in 1..7 : w[i] = p[i]) /\ \A i \in 1..4 : w[7 + i] = v[i]
  BY <1>4, <1>5, <1>6 DEF IsJoin
<1>8. \A i \in 8..11 : w[i].agrees
  <2>1. w[7 + 1] = v[1] /\ w[7 + 2] = v[2] /\ w[7 + 3] = v[3] /\ w[7 + 4] = v[4]
    BY <1>7
  <2>2. w[8] = a /\ w[9] = b /\ w[10] = c /\ w[11] = d
    BY <1>5, <2>1
  <2>3. \A i \in 8..11 : i = 8 \/ i = 9 \/ i = 10 \/ i = 11
    OBVIOUS
  <2> QED BY <1>3, <2>2, <2>3
<1> QED
  BY <1>1, <1>7, <1>8 DEF p

(* What a check of role members finds. *)
LEMMA RoleAsExpected ==
  ASSUME NEW contract, NEW role, NEW members, MembersOf(contract, role) = members,
         members = {} \/ \E account : members = {account}
  PROVE  RoleCheck(contract, role, members).agrees /\ RoleCheck(contract, role, members).readable
<1>1. Cardinality(members) \in {0, 1}
  BY FS_EmptySet, FS_Singleton
<1>2. Cardinality(members) <= Cardinality(members)
  BY <1>1
<1> QED
  BY <1>2 DEF RoleCheck, Check

LEMMA RoleOfNobody ==
  ASSUME NEW contract, NEW role, NEW account, MembersOf(contract, role) = {}
  PROVE  LET check == RoleCheck(contract, role, {account})
         IN  check.name = role /\ ~check.agrees /\ ~check.readable
<1>1. Cardinality({account}) = 1 /\ Cardinality({}) = 0
  BY FS_EmptySet, FS_Singleton
<1>2. ~(Cardinality({account}) <= Cardinality({})) /\ {account} # {}
  BY <1>1
<1> QED
  BY <1>2 DEF RoleCheck, Check

LEMMA ValueAsExpected ==
  ASSUME NEW name, NEW value
  PROVE  ValueCheck(name, value, value).agrees /\ ValueCheck(name, value, value).readable
BY DEF ValueCheck, Check

LEMMA NoGetter ==
  ASSUME NEW name
  PROVE  LET check == MissingGetter(name)
         IN  check.name = name /\ ~check.agrees /\ ~check.readable
BY DEF MissingGetter, Check

LEMMA ProxyAsExpected ==
  ASSUME NEW i \in 1..7
  PROVE  ProxyChecks(TRUE)[i].agrees /\ ProxyChecks(TRUE)[i].readable
<1>1. i = 1 \/ i = 2 \/ i = 3 \/ i = 4 \/ i = 5 \/ i = 6 \/ i = 7
  OBVIOUS
<1>2. \A name : Check(name, TRUE, TRUE).agrees /\ Check(name, TRUE, TRUE).readable
  BY DEF Check
<1>3. /\ ProxyChecks(TRUE)[1] = Check("proxy admin", TRUE, TRUE)
      /\ ProxyChecks(TRUE)[2] = Check("rollback", TRUE, TRUE)
      /\ ProxyChecks(TRUE)[3] = Check("beacon", TRUE, TRUE)
      /\ ProxyChecks(TRUE)[4] = Check("impl", TRUE, TRUE)
      /\ ProxyChecks(TRUE)[5] = Check("getProxyAdmin", TRUE, TRUE)
      /\ ProxyChecks(TRUE)[6] = Check("getProxyImplementation", TRUE, TRUE)
      /\ ProxyChecks(TRUE)[7] = Check("owner", TRUE, TRUE)
  BY ProxyChecksAre
<1> QED
  BY <1>1, <1>2, <1>3

(* What the tasks compare when the deployment is complete. *)
LEMMA CompleteState ==
  ASSUME DepInv, Complete
  PROVE  /\ Len(tokens) \in DOMAIN tokens
         /\ usdyProxy = USDY(Len(tokens))
         /\ tokens[Len(tokens)].blocklist = The("AggregatorBlocklist")
         /\ \E m \in DOMAIN managers :
              /\ records["USDYManager"] = USDYManager(m)
              /\ managers[m].rwa = usdyProxy
              /\ managers[m].blocklist = The("AggregatorBlocklist")
              /\ managers[m].pricer = records["USDY_Pricer"]
<1>1. tokens \in Seq(Token) /\ tokens # <<>>
  BY DEF DepInv, DepTypeOK, Complete
<1>2. Len(tokens) \in DOMAIN tokens
  BY <1>1
<1>3. usdyProxy = USDY(Len(tokens))
  BY <1>1 DEF usdyProxy
<1>4. tokens[Len(tokens)].blocklist = The("AggregatorBlocklist")
  BY <1>2 DEF DepInv, TokensHaveLists
<1>5. <<records["USDYManager"], usdyProxy>> \in announced
  BY DEF Complete
<1>6. PICK m \in DOMAIN managers :
        /\ <<records["USDYManager"], usdyProxy>> = <<USDYManager(m), managers[m].rwa>>
        /\ Recorded("USDY_Pricer") /\ managers[m].pricer = The("Pricer")
  BY <1>5 DEF DepInv, AnnouncedOK
<1>7. records["USDYManager"] = USDYManager(m) /\ managers[m].rwa = usdyProxy
  BY <1>6
<1>8. managers[m].pricer = records["USDY_Pricer"]
  BY <1>6 DEF Recorded, DepInv, RecordsOK
<1>9. managers[m].blocklist = The("AggregatorBlocklist")
  BY DEF DepInv, ManagersOK
<1> QED
  BY <1>2, <1>3, <1>4, <1>7, <1>8, <1>9

LEMMA UsdyReport ==
  ASSUME DepInv, RolesInv, Complete
  PROVE  Printed(CheckUsdy) = {"LIST_CONFIGURER_ROLE"}
<1> DEFINE t == Len(tokens)
<1>1. t \in DOMAIN tokens /\ usdyProxy = USDY(t)
  BY CompleteState
<1>2. usdyProxy[1] = "USDY"
  BY <1>1, Entries
<1> HIDE DEF t
<1>3. MembersOf(usdyProxy, "DEFAULT_ADMIN_ROLE") = {Guardian}
  <2>1. <<usdyProxy, "DEFAULT_ADMIN_ROLE", Guardian>> \in grants
    BY <1>1 DEF DepInv, GrantsOK
  <2>2. \A grant \in grants :
          grant[1] = usdyProxy /\ grant[2] = "DEFAULT_ADMIN_ROLE" => grant[3] = Guardian
    BY <1>2 DEF DepInv, GrantsOK
  <2> QED BY <2>1, <2>2, Entries DEF MembersOf
<1>4. MembersOf(usdyProxy, "BURNER_ROLE") = {}
  <2>1. \A grant \in grants : grant[2] # "BURNER_ROLE"
    BY DEF DepInv, DepTypeOK, Roles
  <2> QED BY <2>1 DEF MembersOf
<1>5. MembersOf(usdyProxy, "LIST_CONFIGURER_ROLE") = {}
  <2>1. \A grant \in grants : grant[2] = "LIST_CONFIGURER_ROLE" => grant[1][1] = "USDYManager"
    BY DEF RolesInv, GrantOK, AdminGiven
  <2> QED BY <1>2, <2>1 DEF MembersOf
<1>6. \A i \in 1..7 : CheckUsdy[i].agrees /\ CheckUsdy[i].readable
  BY <1>2, UsdyTaskIs, ProxyAsExpected
<1>7. CheckUsdy[8].agrees /\ CheckUsdy[8].readable
  <2>1. {Guardian} = {} \/ \E account : {Guardian} = {account}
    OBVIOUS
  <2>2. CheckUsdy[8] = RoleCheck(usdyProxy, "DEFAULT_ADMIN_ROLE", {Guardian})
    BY UsdyTaskIs
  <2> QED BY <1>3, <2>1, <2>2, RoleAsExpected
<1>8. CheckUsdy[9].agrees /\ CheckUsdy[9].readable
  BY <1>4, UsdyTaskIs, RoleAsExpected
<1>9. /\ CheckUsdy[10].name = "LIST_CONFIGURER_ROLE"
      /\ ~CheckUsdy[10].agrees
      /\ ~CheckUsdy[10].readable
  BY <1>5, UsdyTaskIs, RoleOfNobody
<1>10. \A i \in 1..(10 - 1) : CheckUsdy[i].agrees /\ CheckUsdy[i].readable
  <2>1. \A i \in 1..(10 - 1) : i \in 1..7 \/ i = 8 \/ i = 9
    OBVIOUS
  <2> QED BY <1>6, <1>7, <1>8, <2>1
<1>11. Printed(CheckUsdy) = FailingUpTo(CheckUsdy, 10)
  <2>1. DOMAIN CheckUsdy = 1..15
    BY UsdyTaskIs
  <2>2. EndsAt(CheckUsdy, 10)
    BY <1>9, <1>10, <2>1 DEF EndsAt
  <2> QED BY <2>2, PrintedIs
<1>12. {n \in 1..10 : ~CheckUsdy[n].agrees} = {10}
  <2>1. \A i \in 1..10 : i \in 1..(10 - 1) \/ i = 10
    OBVIOUS
  <2> QED BY <1>9, <1>10, <2>1
<1> QED
  BY <1>9, <1>11, <1>12 DEF FailingUpTo

LEMMA ManagerReport ==
  ASSUME DepInv, RolesInv, Complete, ManagerAdmin = Guardian
  PROVE  Printed(CheckUsdyManager) = {"sanctionsList"}
<1> DEFINE address == records["USDYManager"]
<1>1. PICK m \in DOMAIN managers :
        /\ address = USDYManager(m)
        /\ managers[m].rwa = usdyProxy
        /\ managers[m].blocklist = The("AggregatorBlocklist")
        /\ managers[m].pricer = records["USDY_Pricer"]
  BY CompleteState
<1>2. address[1] = "USDYManager" /\ address[2] = m
  BY <1>1, Entries
<1> HIDE DEF address
<1>3. ManagerRoles(address) \subseteq grants
  BY <1>1 DEF RolesInv
<1>4. MembersOf(address, "DEFAULT_ADMIN_ROLE") = {Guardian}
  <2>1. <<address, "DEFAULT_ADMIN_ROLE", Guardian>> \in grants
    BY <1>3 DEF ManagerRoles
  <2>2. \A grant \in grants :
          grant[1] = address /\ grant[2] = "DEFAULT_ADMIN_ROLE" => grant[3] = Guardian
    BY <1>2 DEF RolesInv, GrantOK
  <2> QED BY <2>1, <2>2, Entries DEF MembersOf
<1>5. MembersOf(address, "MANAGER_ADMIN") = {Guardian}
  <2>1. <<address, "MANAGER_ADMIN", Guardian>> \in grants
    BY <1>3 DEF ManagerRoles
  <2>2. \A grant \in grants : grant[2] = "MANAGER_ADMIN" => grant[3] = Guardian
    BY DEF RolesInv, GrantOK
  <2> QED BY <2>1, <2>2, Entries DEF MembersOf
<1>6. MembersOf(address, "PAUSER_ADMIN") = {Pauser}
  <2>1. <<address, "PAUSER_ADMIN", Pauser>> \in grants
    BY <1>3 DEF ManagerRoles
  <2>2. \A grant \in grants : grant[2] = "PAUSER_ADMIN" => grant[3] = Pauser
    BY DEF RolesInv, GrantOK
  <2> QED BY <2>1, <2>2, Entries DEF MembersOf
<1>7. ASSUME NEW role \in {"PRICE_ID_SETTER_ROLE", "RELAYER_ROLE", "TIMESTAMP_SETTER_ROLE"}
      PROVE  /\ MembersOf(address, role) \subseteq {Guardian}
             /\ role \in FollowedRoles => MembersOf(address, role) = {Guardian}
  <2>1. \A grant \in grants : grant[2] = role => grant[3] = Guardian
    BY DEF RolesInv, GrantOK, AdminGiven
  <2>2. MembersOf(address, role) \subseteq {Guardian}
    BY <2>1 DEF MembersOf
  <2>3. ASSUME role \in FollowedRoles
        PROVE  <<address, role, Guardian>> \in grants
    <3> DEFINE calls == ManagerCalls
    <3>1. \A step \in 1..8 : calls[step].fn = "grantRole" /\ calls[step].role \in FollowedRoles
            => <<calls[step].to, calls[step].role, calls[step].arg>> \in grants
      BY DEF Complete, Followed
    <3>2. /\ calls[4] = Call("grantRole", address, "PRICE_ID_SETTER_ROLE", ManagerAdmin)
          /\ calls[5] = Call("grantRole", address, "TIMESTAMP_SETTER_ROLE", ManagerAdmin)
          /\ calls[8] = Call("grantRole", address, "RELAYER_ROLE", ManagerAdmin)
      BY EightEntries DEF ManagerCalls, address
    <3> HIDE DEF calls
    <3>3. \E step \in 1..8 : calls[step] = Call("grantRole", address, role, Guardian)
      BY <3>2
    <3> QED BY <2>3, <3>1, <3>3 DEF Call
  <2>4. role \in FollowedRoles => Guardian \in MembersOf(address, role)
    BY <2>3, Entries DEF MembersOf
  <2> QED BY <2>2, <2>4
<1>8. ASSUME NEW i \in 1..6
      PROVE  CheckUsdyManager[i].agrees /\ CheckUsdyManager[i].readable
  <2> DEFINE role == ManagerTaskRoles[i]
  <2>1. role \in {"DEFAULT_ADMIN_ROLE", "MANAGER_ADMIN", "PAUSER_ADMIN", "PRICE_ID_SETTER_ROLE",
                  "RELAYER_ROLE", "TIMESTAMP_SETTER_ROLE"}
    BY DEF ManagerTaskRoles
  <2>2. CheckUsdyManager[i] = RoleCheck(address, role, ExpectedMembers(role))
    BY ManagerTaskIs DEF address
  <2> HIDE DEF role
  <2>3. MembersOf(address, role) = ExpectedMembers(role)
    BY <1>4, <1>5, <1>6, <1>7, <2>1 DEF ExpectedMembers, address
  <2>4. ExpectedMembers(role) = {} \/ \E account : ExpectedMembers(role) = {account}
    <3>1. MembersOf(address, role) \subseteq {Guardian} \/ MembersOf(address, role) = {Pauser}
      BY <1>4, <1>5, <1>6, <1>7, <2>1
    <3> QED BY <2>3, <3>1
  <2> QED BY <2>2, <2>3, <2>4, RoleAsExpected
<1>9. /\ CheckUsdyManager[7].agrees /\ CheckUsdyManager[7].readable
       /\ CheckUsdyManager[8].agrees /\ CheckUsdyManager[8].readable
       /\ CheckUsdyManager[9].agrees /\ CheckUsdyManager[9].readable
  <2>1. tokens[Len(tokens)].blocklist = The("AggregatorBlocklist")
    BY CompleteState
  <2>2. /\ CheckUsdyManager[7] = ValueCheck("blocklist", managers[m].blocklist,
                                            tokens[Len(tokens)].blocklist)
        /\ CheckUsdyManager[8] = ValueCheck("rwa", managers[m].rwa, usdyProxy)
        /\ CheckUsdyManager[9] = ValueCheck("pricer", managers[m].pricer,
                                            records["USDY_Pricer"])
    BY <1>2, ManagerTaskIs DEF address
  <2> QED BY <1>1, <2>1, <2>2, ValueAsExpected
<1>10. /\ CheckUsdyManager[10].name = "sanctionsList"
       /\ ~CheckUsdyManager[10].agrees
       /\ ~CheckUsdyManager[10].readable
  BY ManagerTaskIs, NoGetter
<1>11. \A i \in 1..(10 - 1) : CheckUsdyManager[i].agrees /\ CheckUsdyManager[i].readable
  <2>1. \A i \in 1..(10 - 1) : i \in 1..6 \/ i = 7 \/ i = 8 \/ i = 9
    OBVIOUS
  <2> QED BY <1>8, <1>9, <2>1
<1>12. Printed(CheckUsdyManager) = FailingUpTo(CheckUsdyManager, 10)
  <2>1. DOMAIN CheckUsdyManager = 1..10
    BY ManagerTaskIs
  <2>2. EndsAt(CheckUsdyManager, 10)
    BY <1>10, <1>11, <2>1 DEF EndsAt
  <2> QED BY <2>2, PrintedIs
<1>13. {n \in 1..10 : ~CheckUsdyManager[n].agrees} = {10}
  <2>1. \A i \in 1..10 : i \in 1..(10 - 1) \/ i = 10
    OBVIOUS
  <2> QED BY <1>10, <1>11, <2>1
<1> QED
  BY <1>10, <1>12, <1>13 DEF FailingUpTo

LEMMA BlocklistReport ==
  ASSUME DepInv, Complete
  PROVE  Printed(CheckBlocklist) = {"name"}
<1> DEFINE check == MissingGetter("name")
<1>1. tokens[Len(tokens)].blocklist[1] = "AggregatorBlocklist"
  BY CompleteState, Entries
<1>2. CheckBlocklist = <<check>>
  BY <1>1 DEF CheckBlocklist, usdy_config
<1>3. check.name = "name" /\ ~check.agrees /\ ~check.readable
  BY NoGetter
<1> HIDE DEF check
<1>4. DOMAIN CheckBlocklist = 1..1 /\ CheckBlocklist[1] = check
  BY <1>2
<1>5. Printed(CheckBlocklist) = FailingUpTo(CheckBlocklist, 1)
  <2>1. EndsAt(CheckBlocklist, 1)
    BY <1>3, <1>4 DEF EndsAt
  <2> QED BY <2>1, PrintedIs
<1> QED
  BY <1>3, <1>4, <1>5 DEF FailingUpTo

LEMMA AllowlistReport ==
  Printed(CheckAllowlist) =
    IF tokens[Len(tokens)].allowlist[1] = "AllowlistProxy" THEN {}
    ELSE {"proxy admin", "impl", "getProxyAdmin"}
<1> DEFINE isProxy == tokens[Len(tokens)].allowlist[1] = "AllowlistProxy"
<1>1. /\ DOMAIN CheckAllowlist = 1..11
      /\ \A i \in 1..7 : CheckAllowlist[i] = ProxyChecks(isProxy)[i]
      /\ \A i \in 8..11 : CheckAllowlist[i].agrees
  BY AllowlistTaskIs DEF usdy_config
<1> HIDE DEF isProxy
<1>2. CASE isProxy = TRUE
  <2>1. \A i \in 1..11 : i \in 1..7 \/ i \in 8..11
    OBVIOUS
  <2>2. \A i \in 1..11 : CheckAllowlist[i].agrees
    BY <1>1, <1>2, <2>1, ProxyAsExpected
  <2>3. Printed(CheckAllowlist) = {}
    BY <1>1, <2>2, PrintedAll
  <2> QED BY <1>2, <2>3 DEF isProxy
<1>3. CASE isProxy = FALSE
  <2> DEFINE p == ProxyChecks(FALSE)
             noAdmin == Check("proxy admin", FALSE, TRUE)
             rollback == Check("rollback", TRUE, TRUE)
             beacon == Check("beacon", TRUE, TRUE)
             noImpl == Check("impl", FALSE, TRUE)
             noProxyAdmin == Check("getProxyAdmin", FALSE, FALSE)
  <2>1. p[1] = noAdmin /\ p[2] = rollback /\ p[3] = beacon /\ p[4] = noImpl /\ p[5] = noProxyAdmin
    BY ProxyChecksAre
  <2>2. /\ noAdmin.name = "proxy admin" /\ ~noAdmin.agrees /\ noAdmin.readable
        /\ rollback.agrees /\ rollback.readable
        /\ beacon.agrees /\ beacon.readable
        /\ noImpl.name = "impl" /\ ~noImpl.agrees /\ noImpl.readable
        /\ noProxyAdmin.name = "getProxyAdmin" /\ ~noProxyAdmin.agrees /\ ~noProxyAdmin.readable
    BY DEF Check
  <2>3. \A i \in 1..7 : CheckAllowlist[i] = p[i]
    BY <1>1, <1>3
  <2> HIDE DEF p, noAdmin, rollback, beacon, noImpl, noProxyAdmin
  <2>4. /\ CheckAllowlist[1] = noAdmin
        /\ CheckAllowlist[2] = rollback
        /\ CheckAllowlist[3] = beacon
        /\ CheckAllowlist[4] = noImpl
        /\ CheckAllowlist[5] = noProxyAdmin
    BY <2>1, <2>3
  <2>5. /\ CheckAllowlist[1].name = "proxy admin" /\ ~CheckAllowlist[1].agrees
        /\ CheckAllowlist[2].agrees
        /\ CheckAllowlist[3].agrees
        /\ CheckAllowlist[4].name = "impl" /\ ~CheckAllowlist[4].agrees
        /\ CheckAllowlist[5].name = "getProxyAdmin" /\ ~CheckAllowlist[5].agrees
        /\ ~CheckAllowlist[5].readable
    BY <2>2, <2>4
  <2>6. \A i \in 1..(5 - 1) : CheckAllowlist[i].readable
    <3>1. \A i \in 1..(5 - 1) : i = 1 \/ i = 2 \/ i = 3 \/ i = 4
      OBVIOUS
    <3> QED BY <2>2, <2>4, <3>1
  <2>7. Printed(CheckAllowlist) = FailingUpTo(CheckAllowlist, 5)
    <3>1. \E k \in Nat : DOMAIN CheckAllowlist = 1..k /\ 5 \in 1..k
      BY <1>1
    <3>2. ~CheckAllowlist[5].readable
      BY <2>5
    <3>3. EndsAt(CheckAllowlist, 5)
      BY <2>6, <3>1, <3>2 DEF EndsAt
    <3> QED BY <3>3, PrintedIs
  <2>8. {n \in 1..5 : ~CheckAllowlist[n].agrees} = {1, 4, 5}
    <3>1. \A i \in 1..5 : i = 1 \/ i = 2 \/ i = 3 \/ i = 4 \/ i = 5
      OBVIOUS
    <3>2. /\ ~CheckAllowlist[1].agrees
          /\ CheckAllowlist[2].agrees
          /\ CheckAllowlist[3].agrees
          /\ ~CheckAllowlist[4].agrees
          /\ ~CheckAllowlist[5].agrees
      BY <2>5
    <3>3. ASSUME NEW n \in 1..5
          PROVE  ~CheckAllowlist[n].agrees <=> n \in {1, 4, 5}
      BY <3>1, <3>2
    <3> QED BY <3>3
  <2>9. Printed(CheckAllowlist) = {"proxy admin", "impl", "getProxyAdmin"}
    BY <2>5, <2>7, <2>8 DEF FailingUpTo
  <2> QED BY <1>3, <2>9 DEF isProxy
<1> QED
  BY <1>2, <1>3 DEF isProxy

(* The proposals of 5-usdyManager-prod give a manager's roles to its        *)
(* administrator only, no role of a manager is ever held on a token, and    *)
(* what a script or the Safe left undone is what the tasks would print: on  *)
(* a complete deployment the verification tasks print what CompleteReports  *)
(* says, for any roles followed and any number of tokens.  The tasks expect *)
(* the guardian where the constructor has the manager's administrator; in   *)
(* mainnet_constants.ts they are one account.                               *)
THEOREM CompleteReportsHolds ==
  ASSUME ManagerAdmin = Guardian
  PROVE  DepSpec => []CompleteReports
<1>1. DepInit => RolesInv
  BY DEF DepInit, RolesInv
<1>2. DepInv /\ RolesInv /\ [DepNext]_depVars => RolesInv'
  BY RolesStep
<1>3. DepInv /\ RolesInv => CompleteReports
  BY UsdyReport, ManagerReport, BlocklistReport, AllowlistReport DEF CompleteReports
<1> QED
  BY <1>1, <1>2, <1>3, DepInvariant, PTL DEF DepSpec

=============================================================================
