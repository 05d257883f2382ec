---------------------------- MODULE Verification ----------------------------
(***************************************************************************)
(* The tasks check-usdy, check-usdy-manager, check-blocklist and           *)
(* check-allowlist, which compare the contracts with config.ts.  A check   *)
(* that fails is printed and the task goes on (console.assert throws       *)
(* nothing); reading a role member that is not there, or calling a getter  *)
(* that the contract does not have, throws and ends the task.              *)
(*                                                                         *)
(* The addresses of config.ts are constants of one deployment; here they   *)
(* are those of the last token deployed, so that only what the deployment  *)
(* did can make a check fail.                                              *)
(***************************************************************************)
EXTENDS Deployment

\* A task is a sequence of checks: what is read, whether it is what config.ts
\* says, and whether reading it is possible.
Check(name, agrees, readable) ==
  [name |-> name, agrees |-> agrees, readable |-> readable]

\* assertRoleMembers: the count, then every expected member by its index.
RoleCheck(contract, role, members) ==
  LET actual == MembersOf(contract, role)
  IN  Check(role, actual = members, Cardinality(members) <= Cardinality(actual))
RoleChecks(contract, roles, expected) ==
  [i \in DOMAIN roles |-> RoleCheck(contract, roles[i], expected[roles[i]])]

\* assertAgainstBlockchain
ValueCheck(name, actual, expected) == Check(name, actual = expected, TRUE)
MissingGetter(name) == Check(name, FALSE, FALSE)

\* The storage slots of a proxy, then what its ProxyAdmin says.  On a contract
\* that is no proxy the slots are empty and the calls of ProxyAdmin revert.
\* Both factories hand the ProxyAdmin to the guardian.
ProxyChecks(isProxy) ==
  << Check("proxy admin", isProxy, TRUE),
     Check("rollback", TRUE, TRUE),
     Check("beacon", TRUE, TRUE),
     Check("impl", isProxy, TRUE),
     Check("getProxyAdmin", isProxy, isProxy),
     Check("getProxyImplementation", isProxy, isProxy),
     Check("owner", TRUE, TRUE) >>

\* What a task prints before it ends: a check is made if every check before
\* it could be.
Printed(task) ==
  {task[i].name : i \in {n \in DOMAIN task :
     ~task[n].agrees /\ \A earlier \in 1..(n - 1) : task[earlier].readable}}

\* The addresses that config.ts has to name, and the role members it expects.
usdy_config ==
  [usdyProxyAddress |-> usdyProxy,
   usdyManagerAddress |-> records["USDYManager"],
   pricerAddress |-> records["USDY_Pricer"],
   blocklistAddress |-> tokens[Len(tokens)].blocklist,
   allowlistProxyAddress |-> tokens[Len(tokens)].allowlist]

usdyProxyRoleMembers ==
  [DEFAULT_ADMIN_ROLE |-> {Guardian}, BURNER_ROLE |-> {},
   LIST_CONFIGURER_ROLE |-> {Guardian},
   MINTER_ROLE |-> {usdy_config.usdyManagerAddress},
   PAUSER_ROLE |-> {Guardian, Pauser}]

allowlistRoleMembers ==
  [DEFAULT_ADMIN_ROLE |-> {Guardian}, ALLOWLIST_SETTER |-> {Guardian},
   ALLOWLIST_ADMIN |-> {Guardian}]

usdyManagerRoleMembers ==
  [DEFAULT_ADMIN_ROLE |-> {Guardian}, MANAGER_ADMIN |-> {Guardian},
   PAUSER_ADMIN |-> {Pauser}, PRICE_ID_SETTER_ROLE |-> {Guardian},
   RELAYER_ROLE |-> {Guardian}, TIMESTAMP_SETTER_ROLE |-> {Guardian}]

\* check-usdy
CheckUsdy ==
  LET usdy == usdy_config.usdyProxyAddress
      token == tokens[usdy[2]]
  IN  ProxyChecks(usdy[1] = "USDY") \o
      RoleChecks(usdy, <<"DEFAULT_ADMIN_ROLE", "BURNER_ROLE", "LIST_CONFIGURER_ROLE",
                         "MINTER_ROLE", "PAUSER_ROLE">>, usdyProxyRoleMembers) \o
      << ValueCheck("allowlist", token.allowlist, usdy_config.allowlistProxyAddress),
         ValueCheck("blocklist", token.blocklist, usdy_config.blocklistAddress),
         MissingGetter("sanctionsList") >>

\* check-usdy-manager.  Of a role whose proposals the run does not follow the
\* expected members are taken to be the actual ones.
CheckUsdyManager ==
  LET address == usdy_config.usdyManagerAddress
      manager == managers[address[2]]
      constructed == {"DEFAULT_ADMIN_ROLE", "MANAGER_ADMIN", "PAUSER_ADMIN"}
      expected == [role \in DOMAIN usdyManagerRoleMembers |->
                     IF role \in constructed \cup FollowedRoles
                       THEN usdyManagerRoleMembers[role] ELSE MembersOf(address, role)]
  IN  RoleChecks(address, <<"DEFAULT_ADMIN_ROLE", "MANAGER_ADMIN", "PAUSER_ADMIN",
                            "PRICE_ID_SETTER_ROLE", "RELAYER_ROLE",
                            "TIMESTAMP_SETTER_ROLE">>, expected) \o
      << ValueCheck("blocklist", manager.blocklist, usdy_config.blocklistAddress),
         ValueCheck("rwa", manager.rwa, usdy_config.usdyProxyAddress),
         ValueCheck("pricer", manager.pricer, usdy_config.pricerAddress),
         MissingGetter("sanctionsList") >>

\* check-blocklist: config.ts has one address for the list that the token
\* asks and for the contract that has a name; the aggregator has none.
CheckBlocklist ==
  << IF usdy_config.blocklistAddress[1] = "Blocklist"
       THEN Check("name", TRUE, TRUE) ELSE MissingGetter("name") >>

\* What AllowlistUpgradeable.initialize grants to the two arguments that
\* 1-allowlist-prod.ts passes; nobody grants a role of it later.
AllowlistMembers(role) == {Guardian}

\* check-allowlist; the list has no term yet.
CheckAllowlist ==
  LET isProxy == usdy_config.allowlistProxyAddress[1] = "AllowlistProxy"
      RoleAgrees(role) ==
        Check(role, AllowlistMembers(role) = allowlistRoleMembers[role], TRUE)
  IN  ProxyChecks(isProxy) \o
      << RoleAgrees("DEFAULT_ADMIN_ROLE"), RoleAgrees("ALLOWLIST_SETTER"),
         RoleAgrees("ALLOWLIST_ADMIN"), ValueCheck("currentTermIndex", 0, 0) >>

-----------------------------------------------------------------------------
(* Properties. *)

(* When the deployment of the last token is complete, check-usdy-manager   *)
(* prints nothing but the getter the manager does not have, and check-usdy *)
(* nothing but the role nobody granted, where it ends: the roles and the   *)
(* pointers that these tasks get to compare are the expected ones whatever *)
(* interruptions, repetitions and order of execution led there.  The other *)
(* two refuse what they do not understand: an aggregator of lists, and an  *)
(* allowlist deployed by Prod-USDY-1 in place of the factory's proxy.      *)
CompleteReports ==
  Complete =>
    /\ Printed(CheckUsdy) = {"LIST_CONFIGURER_ROLE"}
    /\ Printed(CheckUsdyManager) = {"sanctionsList"}
    /\ Printed(CheckBlocklist) = {"name"}
    /\ Printed(CheckAllowlist) =
         IF tokens[Len(tokens)].allowlist[1] = "AllowlistProxy" THEN {}
         ELSE {"proxy admin", "impl", "getProxyAdmin"}

=============================================================================
