---------------------------- MODULE TransferLists ----------------------------
(***************************************************************************)
(* The lists that decide whose tokens may move: Blocklists, the            *)
(* AggregatorBlocklist that asks several of them, the AllowlistUpgradeable *)
(* with its terms, the plain Allowlist of addresses that Prod-USDY-1       *)
(* deploys in its place, and the pointers and the pause switch of USDY,    *)
(* whose transfer hook asks them.                                          *)
(***************************************************************************)
EXTENDS Naturals, Sequences, SequencesExt

CONSTANTS
  Holders,             \* externally owned accounts
  Hub,                 \* the USDYManager, which mints and burns
  BlocklistContracts,  \* Blocklist contracts
  Aggregator,          \* the AggregatorBlocklist
  MaxTerms,            \* bound on the terms added
  MaxValidIndexes      \* bound on the length of validIndexes

ASSUME TransferListsAssumption ==
  /\ Hub \notin Holders
  /\ Aggregator \notin BlocklistContracts
  /\ MaxTerms \in Nat /\ MaxValidIndexes \in Nat

VARIABLES
  blockedAddresses,  \* blockedAddresses[b] of each Blocklist, as a set
  blocklists,        \* AggregatorBlocklist.blocklists
  blocklistExists,   \* AggregatorBlocklist.blocklistExists, as a set
  terms,             \* terms.length of the allowlist
  currentTermIndex,
  validIndexes,
  verifications,     \* pairs <<account, term index>>
  allowedAddresses,  \* Allowlist.allowedAddresses, as a set
  tokenBlocklist,    \* USDY.blocklist
  tokenAllowlist,    \* USDY.allowlist
  tokenPaused        \* USDY.paused

aggregatorVars == <<blocklists, blocklistExists>>
termVars == <<terms, currentTermIndex, validIndexes, verifications>>
allowlistVars == <<termVars, allowedAddresses>>
tokenVars == <<tokenBlocklist, tokenAllowlist, tokenPaused>>
listVars == <<blockedAddresses, aggregatorVars, allowlistVars, tokenVars>>

ListedAccounts == Holders \cup {Hub}
AllBlocklists == BlocklistContracts \cup {Aggregator}
AllAllowlists == {"AllowlistUpgradeable", "Allowlist"}
TermIndexes == 0..(terms - 1)

\* isAllowed never reads a term that was not added.
ListTypeOK ==
  /\ blockedAddresses \in [BlocklistContracts -> SUBSET ListedAccounts]
  /\ blocklists \in Seq(BlocklistContracts)
  /\ blocklistExists \subseteq BlocklistContracts
  /\ terms \in 0..MaxTerms
  /\ currentTermIndex \in {0} \cup TermIndexes
  /\ validIndexes \in Seq(TermIndexes)
  /\ verifications \subseteq Holders \X TermIndexes
  /\ allowedAddresses \subseteq ListedAccounts
  /\ tokenBlocklist \in AllBlocklists
  /\ tokenAllowlist \in AllAllowlists
  /\ tokenPaused \in BOOLEAN

\* Everything is empty; the token starts with the lists that Prod-USDY-3
\* deploys it with.
ListInit ==
  /\ blockedAddresses = [blocklist \in BlocklistContracts |-> {}]
  /\ blocklists = <<>>
  /\ blocklistExists = {}
  /\ terms = 0
  /\ currentTermIndex = 0
  /\ validIndexes = <<>>
  /\ verifications = {}
  /\ allowedAddresses = {}
  /\ tokenBlocklist = Aggregator
  /\ tokenAllowlist = "Allowlist"
  /\ tokenPaused = FALSE

-----------------------------------------------------------------------------
(* Blocklist and AggregatorBlocklist. *)

AddToBlocklist(blocklist, accounts) ==
  /\ blockedAddresses' = [blockedAddresses EXCEPT ![blocklist] = @ \cup accounts]
  /\ UNCHANGED <<aggregatorVars, allowlistVars, tokenVars>>

RemoveFromBlocklist(blocklist, accounts) ==
  /\ blockedAddresses' = [blockedAddresses EXCEPT ![blocklist] = @ \ accounts]
  /\ UNCHANGED <<aggregatorVars, allowlistVars, tokenVars>>

AddBlocklist(blocklist) ==
  /\ blocklist \notin blocklistExists
  /\ blocklists' = Append(blocklists, blocklist)
  /\ blocklistExists' = blocklistExists \cup {blocklist}
  /\ UNCHANGED <<blockedAddresses, allowlistVars, tokenVars>>

\* Mutant: the array is shortened without the swap.
PoppedOnly(blocklist) == Front(blocklists)

\* The last list takes the place of the first one equal to `blocklist`.
SwappedOut(blocklist) ==
  LET place == SelectInSeq(blocklists, LAMBDA listed : listed = blocklist)
  IN Front([blocklists EXCEPT ![place] = Last(blocklists)])

RemoveBlocklist(blocklist) ==
  /\ blocklist \in blocklistExists
  /\ blocklists' = SwappedOut(blocklist)
  /\ blocklistExists' = blocklistExists \ {blocklist}
  /\ UNCHANGED <<blockedAddresses, allowlistVars, tokenVars>>

IsBlocked(blocklist, account) ==
  IF blocklist = Aggregator
    THEN \E i \in DOMAIN blocklists : account \in blockedAddresses[blocklists[i]]
    ELSE account \in blockedAddresses[blocklist]

-----------------------------------------------------------------------------
(* AllowlistUpgradeable. *)

\* addTerm calls setCurrentTermIndex with the index of the new term.
AddTerm ==
  /\ terms < MaxTerms
  /\ terms' = terms + 1
  /\ currentTermIndex' = terms
  /\ UNCHANGED <<blockedAddresses, aggregatorVars, validIndexes, verifications,
                 allowedAddresses, tokenVars>>

SetCurrentTermIndex(termIndex) ==
  /\ termIndex \in TermIndexes
  /\ currentTermIndex' = termIndex
  /\ UNCHANGED <<blockedAddresses, aggregatorVars, terms, validIndexes, verifications,
                 allowedAddresses, tokenVars>>

\* Mutant: the indexes are not compared with terms.length.
SetValidTermIndexesUnchecked(indexes) ==
  /\ validIndexes' = indexes
  /\ UNCHANGED <<blockedAddresses, aggregatorVars, terms, currentTermIndex, verifications,
                 allowedAddresses, tokenVars>>

SetValidTermIndexes(indexes) ==
  /\ \A i \in DOMAIN indexes : indexes[i] \in TermIndexes
  /\ validIndexes' = indexes
  /\ UNCHANGED <<blockedAddresses, aggregatorVars, terms, currentTermIndex, verifications,
                 allowedAddresses, tokenVars>>

SetAccountStatus(account, termIndex, status) ==
  /\ termIndex \in TermIndexes
  /\ verifications' = IF status THEN verifications \cup {<<account, termIndex>>}
                                ELSE verifications \ {<<account, termIndex>>}
  /\ UNCHANGED <<blockedAddresses, aggregatorVars, terms, currentTermIndex, validIndexes,
                 allowedAddresses, tokenVars>>

\* The account calls addSelfToAllowlist, or anyone brings its signature of
\* the term to addAccountToAllowlist; only the first time.
AddToAllowlist(account, termIndex) ==
  /\ <<account, termIndex>> \notin verifications
  /\ SetAccountStatus(account, termIndex, TRUE)

\* Mutant: the current term counts as a valid one.
CurrentTermCounts(account) ==
  \/ account = Hub
  \/ <<account, currentTermIndex>> \in verifications
  \/ \E i \in DOMAIN validIndexes : <<account, validIndexes[i]>> \in verifications

\* Contracts are always allowed.
HasValidTerm(account) ==
  \/ account = Hub
  \/ \E i \in DOMAIN validIndexes : <<account, validIndexes[i]>> \in verifications

-----------------------------------------------------------------------------
(* Allowlist, of accounts and contracts alike. *)

AllowAddresses(accounts) ==
  /\ allowedAddresses' = allowedAddresses \cup accounts
  /\ UNCHANGED <<blockedAddresses, aggregatorVars, termVars, tokenVars>>

DisallowAddresses(accounts) ==
  /\ allowedAddresses' = allowedAddresses \ accounts
  /\ UNCHANGED <<blockedAddresses, aggregatorVars, termVars, tokenVars>>

\* isAllowed of the list at hand.
IsAllowed(allowlist, account) ==
  IF allowlist = "Allowlist" THEN account \in allowedAddresses
                             ELSE HasValidTerm(account)

-----------------------------------------------------------------------------
(* USDY. *)

SetTokenBlocklist(blocklist) ==
  /\ tokenBlocklist' = blocklist
  /\ UNCHANGED <<blockedAddresses, aggregatorVars, allowlistVars, tokenAllowlist,
                 tokenPaused>>

SetTokenAllowlist(allowlist) ==
  /\ tokenAllowlist' = allowlist
  /\ UNCHANGED <<blockedAddresses, aggregatorVars, allowlistVars, tokenBlocklist,
                 tokenPaused>>

PauseToken ==
  /\ tokenPaused' = TRUE
  /\ UNCHANGED <<blockedAddresses, aggregatorVars, allowlistVars, tokenBlocklist,
                 tokenAllowlist>>

UnpauseToken ==
  /\ tokenPaused' = FALSE
  /\ UNCHANGED <<blockedAddresses, aggregatorVars, allowlistVars, tokenBlocklist,
                 tokenAllowlist>>

MayMove(account) ==
  ~IsBlocked(tokenBlocklist, account) /\ IsAllowed(tokenAllowlist, account)

\* _beforeTokenTransfer when the hub mints to or burns from `account`: the
\* hub is neither side of the transfer, so it is asked about as well.
Accepts(account) == ~tokenPaused /\ MayMove(Hub) /\ MayMove(account)

ListNext ==
  \/ \E blocklist \in BlocklistContracts :
       \/ \E accounts \in SUBSET ListedAccounts :
            \/ AddToBlocklist(blocklist, accounts)
            \/ RemoveFromBlocklist(blocklist, accounts)
       \/ AddBlocklist(blocklist)
       \/ RemoveBlocklist(blocklist)
  \/ AddTerm
  \/ \E termIndex \in 0..MaxTerms :
       \/ SetCurrentTermIndex(termIndex)
       \/ \E account \in Holders :
            \/ AddToAllowlist(account, termIndex)
            \/ \E status \in BOOLEAN : SetAccountStatus(account, termIndex, status)
  \/ \E indexes \in SeqOf(0..MaxTerms, MaxValidIndexes) : SetValidTermIndexes(indexes)
  \/ \E accounts \in SUBSET ListedAccounts :
       \/ AllowAddresses(accounts)
       \/ DisallowAddresses(accounts)
  \/ \E blocklist \in AllBlocklists : SetTokenBlocklist(blocklist)
  \/ \E allowlist \in AllAllowlists : SetTokenAllowlist(allowlist)
  \/ PauseToken
  \/ UnpauseToken

-----------------------------------------------------------------------------

\* After any additions and removals the aggregator blocks exactly the accounts
\* that some list it knows blocks, and no list stands in it twice, so that a
\* removal takes a list out for good.  Code: AggregatorBlocklist.sol:17-62.
AggregatorAgrees ==
  /\ IsInjective(blocklists)
  /\ \A account \in ListedAccounts :
       IsBlocked(Aggregator, account)
         <=> \E blocklist \in blocklistExists : account \in blockedAddresses[blocklist]

\* Adding a term, or making one current, admits and excludes nobody: whatever
\* accounts have signed, the term counts only once ALLOWLIST_ADMIN puts it among
\* the valid ones, which cannot be done before its text is there.  Code:
\* AllowlistUpgradeable.sol:84-132.
NewTermAdmitsNobody ==
  [][terms' # terms \/ currentTermIndex' # currentTermIndex =>
       /\ \A account \in ListedAccounts : HasValidTerm(account)' = HasValidTerm(account)
       /\ \A i \in DOMAIN validIndexes' : validIndexes'[i] < terms]_listVars

=============================================================================
