----------------------------- MODULE Deployment -----------------------------
(* The deployment scripts of src/bridge/deploy: hardhat-deploy runs those of   *)
(* a tag by file name; a script deploys a contract or sends the transactions   *)
(* that hand it over. A run may fail before any transaction and be started     *)
(* again; between two runs the sources may change and addresses be written     *)
(* into hardhat.config.js, whose named accounts make scripts return early.     *)
(* A contract is known by its address, <<name, number>>; what it holds is a    *)
(* record whose fields start with what it was created with.                    *)
EXTENDS Integers, FiniteSets, FiniteSetsExt, Functions

CONSTANTS Nets,        \* the kinds of network deployed to
          MaxFaults,   \* failures of a run
          MaxSource    \* changes of the contracts' sources

ASSUME DeploymentAssumption ==
    /\ Nets \subseteq {"local", "test", "main", "known"}
    /\ MaxFaults \in Nat /\ MaxSource \in Nat

VARIABLES net, named, saved, chain, source, run, complete, config, pending, faults, torn
vars == <<net, named, saved, chain, source, run, complete, config, pending, faults, torn>>

Deployer == <<"deployer", 0>>
NoOne    == <<"nobody", 0>>
Listed   == <<"tokens of tokens.js", 0>>
Empty    == <<>>

Logic == {"Bridge", "Federation", "AllowTokens"}
\* The contracts hardhat.config.js has an account for.
Accounts == {"MultiSigWallet", "ProxyAdmin", "SideTokenFactory",
             "BridgeProxy", "FederationProxy", "AllowTokensProxy"}
Tags == {"DeployFromScratch", "IntegrationTest", "Upgrade"}

Live  == net \in {"main", "known"}
Saves == net # "local"

Scripts(tag) == CASE tag = "DeployFromScratch" -> 1..13
                  [] tag = "IntegrationTest"   -> 1..15 \cup {17, 30}
                  [] tag = "Upgrade"           -> {4, 6, 101, 102}

Idle == [tag |-> "none", script |-> 0, step |-> 0]

(***************************************************************************)
(* Addresses: those in the configuration come first.                       *)
(***************************************************************************)
IsNamed(c) == c \in DOMAIN named
IsSaved(c) == c \in DOMAIN saved
Address(c) == IF IsNamed(c) THEN named[c] ELSE saved[c]
Known(c)   == IsNamed(c) \/ IsSaved(c)
Has(c)     == chain[Address(c)].now

Put(f, k, v) == [x \in DOMAIN f \cup {k} |-> IF x = k THEN v ELSE f[x]]

\* Members and required votes of a new federation, by the network's name.
FederationConf == IF net = "main" THEN [members |-> 5, required |-> 2]
                                  ELSE [members |-> 1, required |-> 1]

\* Only the chains of tokens.js have tokens to allow at once.
HasTokens == net # "local"

Wired(bridge, federation, allowTokens, factory) ==
    [code |-> <<"Bridge", 1>>, admin |-> <<"ProxyAdmin", 1>>, owner |-> <<"MultiSigWallet", 1>>,
     federation |-> federation, allowTokens |-> allowTokens, factory |-> factory,
     wrapped |-> NoOne, initiated |-> TRUE]

\* A network deployed to in earlier years.
Standing(c) ==
    LET A(k) == <<k, 1>>
        Made(r) == [born |-> r, now |-> r]
    IN  CASE c \in Logic            -> Made([src |-> 0])
          [] c = "MultiSigWallet"   -> Made([required |-> 2])
          [] c = "ProxyAdmin"       -> Made([owner |-> A("MultiSigWallet")])
          [] c = "SideTokenFactory" -> Made([primary |-> A("BridgeProxy")])
          [] c = "BridgeProxy"      -> Made(Wired(A(c), A("FederationProxy"), A("AllowTokensProxy"), A("SideTokenFactory")))
          [] c = "FederationProxy"  -> Made([code |-> A("Federation"), admin |-> A("ProxyAdmin"),
                                             bridge |-> A("BridgeProxy"), owner |-> A("MultiSigWallet"),
                                             conf |-> [members |-> 5, required |-> 2]])
          [] c = "AllowTokensProxy" -> Made([code |-> A("AllowTokens"), admin |-> A("ProxyAdmin"),
                                             primary |-> A("BridgeProxy"), owner |-> A("MultiSigWallet"),
                                             tokens |-> {Listed}])

OldSystem == [a \in {<<c, 1>> : c \in Accounts \cup Logic} |-> Standing(a[1])]

Init ==
    /\ net \in Nets
    /\ named = IF net = "known" THEN [c \in Accounts |-> <<c, 1>>] ELSE Empty
    /\ chain = IF net = "known" THEN OldSystem ELSE Empty
    /\ saved \in IF net = "known" THEN {Empty, [c \in Accounts \cup Logic |-> <<c, 1>>]} ELSE {Empty}
    /\ source = [c \in Logic |-> 0]
    /\ run = Idle
    /\ complete = FALSE /\ config = Empty /\ pending = {} /\ faults = 0 /\ torn = FALSE

(***************************************************************************)
(* Runs.                                                                   *)
(***************************************************************************)
\* A network that does not save its deployments starts over at each run.
Start(tag) ==
    /\ run = Idle
    /\ run' = [tag |-> tag, script |-> Min(Scripts(tag)), step |-> 0]
    /\ IF Saves THEN UNCHANGED <<saved, chain, complete, torn>>
                ELSE saved' = Empty /\ chain' = Empty /\ complete' = FALSE /\ torn' = FALSE
    /\ UNCHANGED <<net, named, source, config, pending, faults>>

At(script, step) == run.script = script /\ run.step = step

\* The script returns: the next one of the tag starts, or the run ends well.
Return ==
    LET rest == {s \in Scripts(run.tag) : s > run.script} IN
    /\ complete' = (complete \/ run.script = 13)
    /\ run' = IF rest # {} THEN [run EXCEPT !.script = Min(rest), !.step = 0] ELSE Idle

GoOn == run' = [run EXCEPT !.step = @ + 1] /\ UNCHANGED complete

\* The script throws, and the run with it.
Throw ==
    /\ run' = Idle
    /\ UNCHANGED <<net, named, saved, chain, source, complete, config, pending, faults, torn>>

\* The node, the network or the verification service fails.
Fail ==
    /\ run # Idle /\ faults < MaxFaults
    /\ faults' = faults + 1
    /\ torn' = (torn \/ At(2, 1))
    /\ run' = Idle
    /\ UNCHANGED <<net, named, saved, chain, source, complete, config, pending>>

OnlyChain == UNCHANGED <<net, named, saved, source, config, pending, faults, torn>>
NoChange  == chain' = chain /\ OnlyChain

\* Fault: what is recorded is deployed again.
IsDeployedNever(c, r) == FALSE

\* deploy() of hardhat-deploy: what is recorded stands if it was created alike.
IsDeployed(c, r) == IsSaved(c) /\ chain[saved[c]].born = r
Deploy(c, r) ==
    /\ IF IsDeployed(c, r) THEN UNCHANGED <<saved, chain>>
       ELSE LET a == <<c, 1 + Cardinality({b \in DOMAIN chain : b[1] = c})>>
            IN  /\ saved' = Put(saved, c, a)
                /\ chain' = Put(chain, a, [born |-> r, now |-> r])
    /\ UNCHANGED <<net, named, source, config, pending, faults, torn>>

DeployUnlessNamed(script, c, account, r) ==
    /\ At(script, 0)
    /\ IF IsNamed(account) THEN NoChange ELSE Deploy(c, r)
    /\ Return

Set(a, field, v) == chain' = [chain EXCEPT ![a].now[field] = v]

\* submitTransaction of the wallet by the deployer: the wallet of a new network
\* needs no other owner, that of an old one waits for a second.
Submit(a, field, v) ==
    /\ IF net = "known"
       THEN pending' = pending \cup {[to |-> a, field |-> field, value |-> v]} /\ UNCHANGED chain
       ELSE Set(a, field, v) /\ UNCHANGED pending
    /\ UNCHANGED <<net, named, saved, source, config, faults, torn>>

Confirm(call) ==
    /\ call \in pending
    /\ pending' = pending \ {call}
    /\ Set(call.to, call.field, call.value)
    /\ UNCHANGED <<net, named, saved, source, run, complete, config, faults, torn>>

(***************************************************************************)
(* The scripts.                                                            *)
(***************************************************************************)
DeployMultiSig  == DeployUnlessNamed(1, "MultiSigWallet", "MultiSigWallet", [required |-> 1])
DeployFactory   == DeployUnlessNamed(3, "SideTokenFactory", "BridgeProxy", [primary |-> Deployer])

\* 02: the ownership is handed over only by the run that deployed the contract.
DeployProxyAdmin ==
    /\ At(2, 0)
    /\ IF IsNamed("ProxyAdmin") \/ IsDeployed("ProxyAdmin", [owner |-> Deployer])
       THEN NoChange /\ Return
       ELSE Deploy("ProxyAdmin", [owner |-> Deployer]) /\ GoOn
HandOverProxyAdmin ==
    /\ At(2, 1)
    /\ Set(saved["ProxyAdmin"], "owner", Address("MultiSigWallet"))
    /\ OnlyChain /\ Return

\* 04, 06, 08: the version asked for is a promise, never equal to the last one.
DeployLogic(script, c) == At(script, 0) /\ Deploy(c, [src |-> source[c]]) /\ Return
DeployBridge      == DeployLogic(4, "Bridge")
DeployFederation  == DeployLogic(6, "Federation")
DeployAllowTokens == DeployLogic(8, "AllowTokens")

\* 05: until scripts 12 and 13 the deployer stands in for federation and tokens.
DeployBridgeProxy ==
    /\ At(5, 0)
    /\ IF IsNamed("BridgeProxy") THEN NoChange
       ELSE Deploy("BridgeProxy",
                [code |-> saved["Bridge"], admin |-> Address("ProxyAdmin"), owner |-> Address("MultiSigWallet"),
                 federation |-> Deployer, allowTokens |-> Deployer, factory |-> Address("SideTokenFactory"),
                 wrapped |-> NoOne, initiated |-> TRUE])
    /\ Return
DeployFederationProxy ==
    /\ At(7, 0)
    /\ IF IsNamed("FederationProxy") THEN NoChange
       ELSE Deploy("FederationProxy",
                [code |-> saved["Federation"], admin |-> Address("ProxyAdmin"), bridge |-> Address("BridgeProxy"),
                 owner |-> Address("MultiSigWallet"), conf |-> FederationConf])
    /\ Return
DeployAllowTokensProxy ==
    /\ At(9, 0)
    /\ IF IsNamed("AllowTokensProxy") THEN NoChange
       ELSE Deploy("AllowTokensProxy",
                [code |-> saved["AllowTokens"], admin |-> Address("ProxyAdmin"), primary |-> Address("BridgeProxy"),
                 owner |-> Deployer, tokens |-> {}])
    /\ Return

\* Fault: a contract that has its tokens is passed over, whoever owns it.
SetTokensOnce ==
    /\ At(10, 0)
    /\ IF IsNamed("AllowTokensProxy") \/ Has("AllowTokensProxy").tokens # {}
       THEN NoChange /\ Return
       ELSE /\ IF HasTokens THEN Set(saved["AllowTokensProxy"], "tokens", {Listed}) ELSE UNCHANGED chain
            /\ OnlyChain /\ GoOn

\* 10: the tokens are set by the deployer, who then hands the contract over.
SetTokens ==
    /\ At(10, 0)
    /\ IF IsNamed("AllowTokensProxy") \/ Has("AllowTokensProxy").owner = Address("MultiSigWallet")
       THEN NoChange /\ Return
       ELSE /\ IF HasTokens THEN Set(saved["AllowTokensProxy"], "tokens", {Listed}) ELSE UNCHANGED chain
            /\ OnlyChain /\ GoOn
HandOverAllowTokens ==
    /\ At(10, 1)
    /\ Set(saved["AllowTokensProxy"], "owner", Address("MultiSigWallet"))
    /\ OnlyChain /\ Return

\* Fault: whether the bridge is the primary already is not asked.
TransferFactoryAnew ==
    /\ At(11, 0)
    /\ IF IsNamed("SideTokenFactory") THEN NoChange /\ Return
       ELSE IF Has("SideTokenFactory").primary # Deployer THEN Throw
       ELSE Set(saved["SideTokenFactory"], "primary", saved["BridgeProxy"]) /\ OnlyChain /\ Return

\* 11: transferPrimary is refused to all but the primary.
TransferFactory ==
    /\ At(11, 0)
    /\ LET primary == Has("SideTokenFactory").primary IN
       \/ IsNamed("SideTokenFactory") /\ NoChange /\ Return
       \/ ~IsNamed("SideTokenFactory") /\ primary = saved["BridgeProxy"] /\ NoChange /\ Return
       \/ /\ ~IsNamed("SideTokenFactory") /\ primary = Deployer
          /\ Set(saved["SideTokenFactory"], "primary", saved["BridgeProxy"])
          /\ OnlyChain /\ Return
       \/ /\ ~IsNamed("SideTokenFactory") /\ primary \notin {Deployer, saved["BridgeProxy"]}
          /\ Throw

\* Fault: the name of script 11 is asked for.
ChangeBridgeUnlessFactory(script, c, field) ==
    /\ At(script, 0)
    /\ IF IsNamed("SideTokenFactory") THEN NoChange ELSE Submit(Address("BridgeProxy"), field, Address(c))
    /\ Return

\* 12, 13: through the wallet, which owns the bridge.
ChangeBridge(script, c, field) ==
    /\ At(script, 0)
    /\ IF IsNamed(c) THEN NoChange ELSE Submit(Address("BridgeProxy"), field, Address(c))
    /\ Return
ChangeFederation  == ChangeBridge(12, "FederationProxy", "federation")
ChangeAllowTokens == ChangeBridge(13, "AllowTokensProxy", "allowTokens")

\* 14, 15: only where the network is not live.
DeployUnlessLive(script, c) ==
    At(script, 0) /\ (IF Live THEN NoChange ELSE Deploy(c, [supply |-> script])) /\ Return
DeployMainToken == DeployUnlessLive(14, "MainToken")
DeployWRBTC     == DeployUnlessLive(15, "WRBTC")

AllowToken(token) ==
    Submit(Address("AllowTokensProxy"), "tokens", Has("AllowTokensProxy").tokens \cup {token})

\* 17: a live network has no wrapped currency in its configuration and throws at
\* once; the domain separator is that of initialize and cannot be set again.
SetWrappedCurrency ==
    /\ At(17, 0)
    /\ \/ IsNamed("BridgeProxy") /\ NoChange /\ Return
       \/ ~IsNamed("BridgeProxy") /\ Live /\ Throw
       \/ /\ ~IsNamed("BridgeProxy") /\ ~Live
          /\ Submit(saved["BridgeProxy"], "wrapped", saved["WRBTC"]) /\ GoOn
AllowWrapped        == At(17, 1) /\ AllowToken(saved["WRBTC"]) /\ GoOn
InitDomainSeparator == At(17, 2) /\ Has("BridgeProxy").initiated /\ Throw

\* 30: bridge and tokens are those recorded, federation and wallet those named.
\* (The type it adds with the token is left out.)
AllowMainToken ==
    /\ At(30, 0)
    /\ \/ ~IsSaved("BridgeProxy") /\ Throw
       \/ IsSaved("BridgeProxy") /\ Live /\ NoChange /\ GoOn
       \/ IsSaved("BridgeProxy") /\ ~Live /\ AllowToken(saved["MainToken"]) /\ GoOn
WriteConfig ==
    /\ At(30, 1)
    /\ config' = [bridge |-> saved["BridgeProxy"], federation |-> Address("FederationProxy"),
                  multiSig |-> Address("MultiSigWallet"), allowTokens |-> saved["AllowTokensProxy"]]
    /\ UNCHANGED <<net, named, saved, chain, source, pending, faults, torn>>
    /\ Return

\* upgrades/01, 02: for named proxies, and tried out in the wallet's name first.
UpgradeProxy(script, logic, proxy) ==
    /\ At(script, 0)
    /\ \/ ~IsNamed("ProxyAdmin") /\ Throw
       \/ IsNamed("ProxyAdmin") /\ Has("ProxyAdmin").owner # named["MultiSigWallet"] /\ Throw
       \/ /\ IsNamed("ProxyAdmin") /\ Has("ProxyAdmin").owner = named["MultiSigWallet"]
          /\ Submit(named[proxy], "code", saved[logic]) /\ Return
UpgradeBridge     == UpgradeProxy(101, "Bridge", "BridgeProxy")
UpgradeFederation == UpgradeProxy(102, "Federation", "FederationProxy")

(***************************************************************************)
(* The operator, between two runs.                                         *)
(***************************************************************************)
Recompile(c) ==
    /\ run = Idle /\ FoldFunction(+, 0, source) < MaxSource
    /\ source' = [source EXCEPT ![c] = @ + 1]
    /\ complete' = FALSE
    /\ UNCHANGED <<net, named, saved, chain, run, config, pending, faults, torn>>

\* The comment of script 11 has the factory's address written alone, those of
\* hardhat.config.js stand together.
NameAccounts(cs) ==
    /\ run = Idle /\ Saves
    /\ named' = [c \in cs |-> saved[c]]
    /\ UNCHANGED <<net, saved, chain, source, run, complete, config, pending, faults, torn>>
NameFactory == net # "known" /\ named = Empty /\ IsSaved("SideTokenFactory") /\ NameAccounts({"SideTokenFactory"})
NameAll     == net # "known" /\ complete /\ DOMAIN named # Accounts /\ NameAccounts(Accounts)

Script ==
    \/ DeployMultiSig \/ DeployProxyAdmin \/ HandOverProxyAdmin \/ DeployFactory
    \/ DeployBridge \/ DeployFederation \/ DeployAllowTokens \/ DeployBridgeProxy \/ DeployFederationProxy \/ DeployAllowTokensProxy
    \/ SetTokens \/ HandOverAllowTokens \/ TransferFactory \/ ChangeFederation \/ ChangeAllowTokens
    \/ DeployMainToken \/ DeployWRBTC \/ SetWrappedCurrency \/ AllowWrapped \/ InitDomainSeparator
    \/ AllowMainToken \/ WriteConfig \/ UpgradeBridge \/ UpgradeFederation
Operator ==
    \/ \E tag \in Tags : Start(tag)
    \/ \E c \in Logic : Recompile(c)
    \/ NameFactory \/ NameAll
Next == Script \/ Operator \/ Fail \/ \E call \in pending : Confirm(call)

Spec == Init /\ [][Next]_vars

\* A script that was started goes on, and the operator comes back to the tag.
FairSpec == Spec /\ WF_vars(Script) /\ SF_vars(Start("DeployFromScratch"))

(***************************************************************************)
(* Properties.                                                             *)
(***************************************************************************)
\* Once script 13 has returned for the sources as they are, the bridge in use
\* and its federation and its tokens name each other, whatever failed before
\* and whichever contracts were deployed again: nobody's stand-in is left.
WiredWhenComplete ==
    complete => LET bridge == Address("BridgeProxy") IN
        /\ Has("BridgeProxy").federation = Address("FederationProxy")
        /\ Has("FederationProxy").bridge = bridge
        /\ Has("BridgeProxy").allowTokens = Address("AllowTokensProxy")
        /\ Has("AllowTokensProxy").primary = bridge

\* Then the deployer owns nothing any more, but for a ProxyAdmin whose run
\* stopped before it was handed over: no later run makes up for it. A factory
\* serves the bridge in use unless its address was written in the configuration.
HandedOverWhenComplete ==
    complete =>
        /\ \A c \in {"BridgeProxy", "FederationProxy", "AllowTokensProxy"} :
               Has(c).owner = Address("MultiSigWallet")
        /\ Has("ProxyAdmin").owner = Address("MultiSigWallet") \/ torn
        /\ Has("SideTokenFactory").primary = Address("BridgeProxy") \/ IsNamed("SideTokenFactory")

\* Running the scripts again over unchanged sources changes nothing.
RerunChangesNothing ==
    [][complete /\ run.script \in 1..13 /\ pending' = pending
          => chain' = chain /\ saved' = saved]_vars

\* However often runs fail, the operator who comes back has everything deployed
\* in the end, unless the factory was given to a bridge that was replaced since.
Orphaned ==
    /\ IsSaved("SideTokenFactory") /\ IsSaved("BridgeProxy")
    /\ Has("SideTokenFactory").primary \notin {Deployer, saved["BridgeProxy"]}
EventuallyComplete == []<>complete \/ <>[]Orphaned
=============================================================================
