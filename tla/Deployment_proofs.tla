--------------------------- MODULE Deployment_proofs --------------------------
(***************************************************************************)
(* What the scripts have deployed and set so far: a run that goes on leaves *)
(* each contract as its later scripts expect it, so that after the last one *)
(* they all name each other and the wallet owns them; and running all the  *)
(* scripts again finds nothing to do. For any number of failures and of    *)
(* changes of the sources.                                                 *)
(***************************************************************************)
EXTENDS Deployment, WellFoundedInduction, TLAPS

AllNamed == DOMAIN named = Accounts

\* The fields the scripts ask for, and those nothing sets after the creation.
Fields(c) ==
  CASE c = "BridgeProxy"      -> {"owner", "federation", "allowTokens"}
    [] c = "FederationProxy"  -> {"owner", "bridge"}
    [] c = "AllowTokensProxy" -> {"owner", "primary"}
    [] c = "ProxyAdmin"       -> {"owner"}
    [] c = "SideTokenFactory" -> {"primary"}
    [] OTHER                  -> {}
Lasting(c) ==
  CASE c = "BridgeProxy"      -> {"owner"}
    [] c = "FederationProxy"  -> {"owner", "bridge"}
    [] c = "AllowTokensProxy" -> {"primary"}
    [] OTHER                  -> {}
AskedFor == {"owner", "federation", "allowTokens", "bridge", "primary"}

IsAFunction(r) == r = [f \in DOMAIN r |-> r[f]]
Formed(c, r) ==
  /\ r = [born |-> r.born, now |-> r.now]
  /\ IsAFunction(r.now)
  /\ Fields(c) \subseteq DOMAIN r.now
  /\ \A f \in Lasting(c) : r.now[f] = r.born[f]
ChainFormed ==
  /\ chain = [a \in DOMAIN chain |-> chain[a]]
  /\ \A a \in DOMAIN chain : Formed(a[1], chain[a])

AddressesFound ==
  /\ \A c \in DOMAIN saved : saved[c] \in DOMAIN chain /\ saved[c][1] = c
  /\ \A c \in DOMAIN named : named[c] \in DOMAIN chain /\ named[c][1] = c
NamesSound ==
  /\ DOMAIN named \in {{}, {"SideTokenFactory"}, Accounts}
  /\ IsNamed("SideTokenFactory") /\ ~AllNamed =>
       IsSaved("SideTokenFactory") /\ named["SideTokenFactory"] = saved["SideTokenFactory"]
  /\ net = "known" => AllNamed
  /\ net = "local" => DOMAIN named = {}

Born(c) == chain[saved[c]].born
Now(c)  == chain[saved[c]].now

RunSound ==
  run = Idle \/
    /\ run = [tag |-> run.tag, script |-> run.script, step |-> run.step]
    /\ run.tag \in Tags /\ run.script \in Scripts(run.tag) /\ run.step \in Nat
Deploying == run # Idle /\ run.tag # "Upgrade"

\* What no account in the configuration stands for was created in one way only.
FirstOnes ==
  ~AllNamed =>
    /\ IsSaved("MultiSigWallet") => Born("MultiSigWallet") = [required |-> 1]
    /\ IsSaved("SideTokenFactory") => Born("SideTokenFactory") = [primary |-> Deployer]
    /\ IsSaved("ProxyAdmin") =>
         /\ Born("ProxyAdmin") = [owner |-> Deployer]
         /\ IsSaved("MultiSigWallet")
         /\ Now("ProxyAdmin").owner = saved["MultiSigWallet"] \/ torn \/ At(2, 1)

BridgeRecord ==
  [code |-> saved["Bridge"], admin |-> saved["ProxyAdmin"], owner |-> saved["MultiSigWallet"],
   federation |-> Deployer, allowTokens |-> Deployer, factory |-> saved["SideTokenFactory"],
   wrapped |-> NoOne, initiated |-> TRUE]
FederationRecord ==
  [code |-> saved["Federation"], admin |-> saved["ProxyAdmin"], bridge |-> saved["BridgeProxy"],
   owner |-> saved["MultiSigWallet"], conf |-> FederationConf]
AllowTokensRecord ==
  [code |-> saved["AllowTokens"], admin |-> saved["ProxyAdmin"], primary |-> saved["BridgeProxy"],
   owner |-> Deployer, tokens |-> {}]

\* What the scripts before the k-th have made.
Done(k) ==
  /\ k > 4 => IsDeployed("Bridge", [src |-> source["Bridge"]])
  /\ k > 6 => IsDeployed("Federation", [src |-> source["Federation"]])
  /\ k > 8 => IsDeployed("AllowTokens", [src |-> source["AllowTokens"]])
  /\ ~AllNamed =>
       /\ k > 1 => IsSaved("MultiSigWallet")
       /\ k > 2 => IsSaved("ProxyAdmin")
       /\ k > 3 => IsSaved("SideTokenFactory")
       /\ k > 5 => IsDeployed("BridgeProxy", BridgeRecord)
       /\ k > 7 => IsDeployed("FederationProxy", FederationRecord)
       /\ k > 9 => IsDeployed("AllowTokensProxy", AllowTokensRecord)
       /\ k > 10 => Now("AllowTokensProxy").owner = saved["MultiSigWallet"]
       /\ k > 11 => IsNamed("SideTokenFactory") \/ Now("SideTokenFactory").primary = saved["BridgeProxy"]
       /\ k > 12 => Now("BridgeProxy").federation = saved["FederationProxy"]
       /\ k > 13 => Now("BridgeProxy").allowTokens = saved["AllowTokensProxy"]

\* A contract whose script is between its two steps is not handed over yet.
HalfDone ==
  /\ At(2, 1) => ~AllNamed /\ ~complete /\ IsSaved("ProxyAdmin")
  /\ At(10, 1) => ~AllNamed /\ ~complete

\* What the configuration names is wired and handed over for good.
NamedServe ==
  AllNamed =>
    LET Of(c) == chain[named[c]].now IN
    /\ Of("BridgeProxy").federation = named["FederationProxy"]
    /\ Of("FederationProxy").bridge = named["BridgeProxy"]
    /\ Of("BridgeProxy").allowTokens = named["AllowTokensProxy"]
    /\ Of("AllowTokensProxy").primary = named["BridgeProxy"]
    /\ \A c \in {"BridgeProxy", "FederationProxy", "AllowTokensProxy"} : Of(c).owner = named["MultiSigWallet"]
    /\ Of("ProxyAdmin").owner = named["MultiSigWallet"] \/ torn

Sound ==
  /\ net \in {"local", "test", "main", "known"} /\ torn \in BOOLEAN /\ complete \in BOOLEAN
  /\ ChainFormed /\ AddressesFound /\ NamesSound /\ FirstOnes
  /\ NamedServe
  /\ \A call \in pending : call.field \notin AskedFor

\* A run has made what its next script expects, and a complete system stays so.
IInv ==
  /\ Sound /\ RunSound /\ HalfDone
  /\ Deploying => Done(run.script)
  /\ complete => Done(14)

-----------------------------------------------------------------------------
(* What setting a field and deploying a contract change.                    *)

LEMMA SetEffect ==
  ASSUME ChainFormed, NEW a \in DOMAIN chain, NEW field, NEW v, Set(a, field, v)
  PROVE  /\ DOMAIN chain' = DOMAIN chain
         /\ chain' = [b \in DOMAIN chain' |-> chain'[b]]
         /\ \A b \in DOMAIN chain : b # a => chain'[b] = chain[b]
         /\ chain'[a] = [born |-> chain[a].born, now |-> chain'[a].now]
         /\ chain'[a].born = chain[a].born
         /\ chain'[a].now = [f \in DOMAIN chain[a].now |-> IF f = field THEN v ELSE chain[a].now[f]]
<1>1. chain[a] = [born |-> chain[a].born, now |-> chain[a].now]
  BY DEF ChainFormed, Formed
<1>2. chain' = [b \in DOMAIN chain |->
                  IF b = a THEN [born |-> chain[a].born, now |-> [chain[a].now EXCEPT ![field] = v]]
                  ELSE chain[b]]
  <2>1. [chain[a] EXCEPT !.now = [chain[a].now EXCEPT ![field] = v]]
          = [born |-> chain[a].born, now |-> [chain[a].now EXCEPT ![field] = v]]
    BY <1>1
  <2> QED BY <2>1 DEF Set
<1>3. [chain[a].now EXCEPT ![field] = v]
        = [f \in DOMAIN chain[a].now |-> IF f = field THEN v ELSE chain[a].now[f]]
  OBVIOUS
<1> QED BY <1>2, <1>3

\* A field of one contract has a new value; none that stays for good is set.
LEMMA SetForms ==
  ASSUME ChainFormed, NEW a \in DOMAIN chain, NEW field, NEW v, Set(a, field, v),
         field \notin Lasting(a[1])
  PROVE  /\ ChainFormed'
         /\ \A f \in Fields(a[1]) : chain'[a].now[f] = IF f = field THEN v ELSE chain[a].now[f]
<1>1. /\ DOMAIN chain' = DOMAIN chain
      /\ chain' = [b \in DOMAIN chain' |-> chain'[b]]
      /\ \A b \in DOMAIN chain : b # a => chain'[b] = chain[b]
  BY SetEffect
<1> DEFINE r == chain[a]
           s == chain'[a]
<1>2. /\ s = [born |-> r.born, now |-> s.now] /\ s.born = r.born
      /\ s.now = [f \in DOMAIN r.now |-> IF f = field THEN v ELSE r.now[f]]
  BY SetEffect
<1>3. Formed(a[1], r) BY DEF ChainFormed
<1> HIDE DEF r, s
<1>4. DOMAIN s.now = DOMAIN r.now /\ \A f \in DOMAIN r.now : s.now[f] = IF f = field THEN v ELSE r.now[f]
  BY <1>2
<1>5. Fields(a[1]) \subseteq DOMAIN r.now BY <1>3 DEF Formed
<1>6. Formed(a[1], s)
  <2>1. s.now = [f \in DOMAIN s.now |-> s.now[f]] BY <1>2
  <2>2. \A f \in Lasting(a[1]) : f \in DOMAIN r.now /\ s.now[f] = s.born[f]
    <3>1. Lasting(a[1]) \subseteq Fields(a[1]) BY DEF Lasting, Fields
    <3> QED BY <1>2, <1>3, <1>4, <1>5, <3>1 DEF Formed
  <2> QED BY <1>2, <1>4, <1>5, <2>1, <2>2 DEF Formed, IsAFunction
<1>7. ChainFormed'
  <2>1. \A b \in DOMAIN chain' : Formed(b[1], chain'[b])
    BY <1>1, <1>6 DEF ChainFormed, r, s
  <2> QED BY <1>1, <2>1 DEF ChainFormed, Formed
<1> QED BY <1>4, <1>5, <1>7 DEF r, s

\* Setting a field to what it is.
LEMMA SetSame ==
  ASSUME ChainFormed, NEW a \in DOMAIN chain, NEW field, NEW v, Set(a, field, v),
         chain[a].now[field] = v
  PROVE  chain' = chain
<1>1. /\ DOMAIN chain' = DOMAIN chain
      /\ chain' = [b \in DOMAIN chain' |-> chain'[b]]
      /\ \A b \in DOMAIN chain : b # a => chain'[b] = chain[b]
  BY SetEffect
<1> DEFINE r == chain[a]
           s == chain'[a]
<1>2. /\ s = [born |-> r.born, now |-> s.now]
      /\ s.now = [f \in DOMAIN r.now |-> IF f = field THEN v ELSE r.now[f]]
  BY SetEffect
<1>3. r = [born |-> r.born, now |-> r.now] /\ r.now = [f \in DOMAIN r.now |-> r.now[f]]
  BY DEF ChainFormed, Formed, IsAFunction
<1>4. r.now[field] = v OBVIOUS
<1> HIDE DEF r, s
<1>5. [f \in DOMAIN r.now |-> IF f = field THEN v ELSE r.now[f]] = [f \in DOMAIN r.now |-> r.now[f]]
  BY <1>4
<1>6. s = r BY <1>2, <1>3, <1>5
<1>7. chain = [b \in DOMAIN chain |-> chain[b]] BY DEF ChainFormed
<1>8. \A b \in DOMAIN chain : chain'[b] = chain[b] BY <1>1, <1>6 DEF r, s
<1> QED BY <1>1, <1>7, <1>8

\* A contract that is not deployed as asked is made anew; one that is stands.
LEMMA DeployEffect ==
  ASSUME ChainFormed, AddressesFound, NEW c, NEW r, Deploy(c, r),
         IsAFunction(r), Fields(c) \subseteq DOMAIN r
  PROVE  /\ ChainFormed'
         /\ DOMAIN saved' = DOMAIN saved \cup {c}
         /\ \A d \in DOMAIN saved' : saved'[d] \in DOMAIN chain' /\ saved'[d][1] = d
         /\ \A d \in DOMAIN saved : d # c => saved'[d] = saved[d]
         /\ \A b \in DOMAIN chain : b \in DOMAIN chain' /\ (b[1] # c => chain'[b] = chain[b])
         /\ chain'[saved'[c]].born = r
         /\ IsDeployed(c, r) => saved' = saved /\ chain' = chain
         /\ ~IsDeployed(c, r) => chain'[saved'[c]].now = r
<1>1. CASE IsDeployed(c, r)
  <2>1. saved' = saved /\ chain' = chain BY <1>1 DEF Deploy
  <2>2. ChainFormed' BY <2>1 DEF ChainFormed, Formed
  <2> QED BY <1>1, <2>1, <2>2 DEF IsDeployed, IsSaved, AddressesFound
<1>2. CASE ~IsDeployed(c, r)
  <2> DEFINE a == <<c, 1 + Cardinality({b \in DOMAIN chain : b[1] = c})>>
             new == [born |-> r, now |-> r]
  <2>1. /\ saved' = [x \in DOMAIN saved \cup {c} |-> IF x = c THEN a ELSE saved[x]]
        /\ chain' = [x \in DOMAIN chain \cup {a} |-> IF x = a THEN new ELSE chain[x]]
    BY <1>2 DEF Deploy, Put
  <2>2. a[1] = c OBVIOUS
  <2>3. Formed(c, new)
    <3>1. Lasting(c) \subseteq Fields(c) BY DEF Lasting, Fields
    <3> QED BY <3>1 DEF Formed
  <2>4. new.born = r /\ new.now = r OBVIOUS
  <2> HIDE DEF a, new
  <2>5. /\ DOMAIN chain' = DOMAIN chain \cup {a}
        /\ chain'[a] = new
        /\ \A b \in DOMAIN chain : b # a => chain'[b] = chain[b]
        /\ chain' = [x \in DOMAIN chain' |-> chain'[x]]
    BY <2>1
  <2>6. ChainFormed' BY <2>2, <2>3, <2>5 DEF ChainFormed, Formed
  <2>7. DOMAIN saved' = DOMAIN saved \cup {c} /\ saved'[c] = a
    BY <2>1
  <2>8. \A d \in DOMAIN saved : d # c => saved'[d] = saved[d] BY <2>1
  <2>9. \A d \in DOMAIN saved' : saved'[d] \in DOMAIN chain' /\ saved'[d][1] = d
    BY <2>2, <2>5, <2>7, <2>8 DEF AddressesFound
  <2> QED BY <1>2, <2>2, <2>4, <2>5, <2>6, <2>7, <2>8, <2>9
<1> QED BY <1>1, <1>2

-----------------------------------------------------------------------------
(* What a step leaves as it was.                                            *)

\* The contract in use stays in use, and then with the fields that are asked for.
Stays(c) ==
  IsSaved(c) => c \in DOMAIN saved' /\ saved'[c] = saved[c] /\ chain'[saved[c]].born = chain[saved[c]].born
Stands(c) ==
  Stays(c) /\ (IsSaved(c) => \A f \in Fields(c) : chain'[saved[c]].now[f] = chain[saved[c]].now[f])

\* The script that deploys a contract.
ScriptOf == [c \in Accounts \cup Logic |->
  CASE c = "MultiSigWallet"   -> 1 [] c = "ProxyAdmin"      -> 2 [] c = "SideTokenFactory" -> 3
    [] c = "Bridge"           -> 4 [] c = "BridgeProxy"     -> 5 [] c = "Federation"       -> 6
    [] c = "FederationProxy"  -> 7 [] c = "AllowTokens"     -> 8 [] c = "AllowTokensProxy" -> 9]

LEMMA DoneStays ==
  ASSUME NEW k \in Nat, Done(k), \A c \in Accounts \cup Logic : Stays(c),
         UNCHANGED <<net, named, source>>,
         ~AllNamed =>
           LET Same(c, f) == chain'[saved[c]].now[f] = chain[saved[c]].now[f] IN
           /\ k > 10 => Same("AllowTokensProxy", "owner")
           /\ k > 11 => Same("SideTokenFactory", "primary")
           /\ k > 12 => Same("BridgeProxy", "federation")
           /\ k > 13 => Same("BridgeProxy", "allowTokens")
  PROVE  Done(k)'
<1>1. \A c \in Accounts \cup Logic : IsSaved(c) =>
        /\ IsSaved(c)' /\ saved'[c] = saved[c]
        /\ chain'[saved'[c]].born = chain[saved[c]].born
  BY DEF Stays, IsSaved
<1>2. k > 4 => IsDeployed("Bridge", [src |-> source["Bridge"]])'
  BY <1>1 DEF Done, IsDeployed, Logic
<1>3. k > 6 => IsDeployed("Federation", [src |-> source["Federation"]])'
  BY <1>1 DEF Done, IsDeployed, Logic
<1>4. k > 8 => IsDeployed("AllowTokens", [src |-> source["AllowTokens"]])'
  BY <1>1 DEF Done, IsDeployed, Logic
<1>5. CASE AllNamed
  BY <1>2, <1>3, <1>4, <1>5 DEF Done, AllNamed
<1>6. CASE ~AllNamed
  <2>1. /\ k > 1 => IsSaved("MultiSigWallet")'
        /\ k > 2 => IsSaved("ProxyAdmin")'
        /\ k > 3 => IsSaved("SideTokenFactory")'
    BY <1>1, <1>6 DEF Done, Accounts
  <2>2. k > 5 => IsDeployed("BridgeProxy", BridgeRecord)'
    <3> SUFFICES ASSUME k > 5 PROVE IsDeployed("BridgeProxy", BridgeRecord)'
      OBVIOUS
    <3>1. IsDeployed("BridgeProxy", BridgeRecord) /\ \A d \in {"Bridge", "ProxyAdmin", "MultiSigWallet", "SideTokenFactory"} : IsSaved(d)
      BY <1>6 DEF Done, IsDeployed
    <3>2. BridgeRecord' = BridgeRecord
      BY <1>1, <3>1 DEF BridgeRecord, Accounts, Logic
    <3> QED BY <1>1, <3>1, <3>2 DEF IsDeployed, Accounts
  <2>3. k > 7 => IsDeployed("FederationProxy", FederationRecord)'
    BY <1>1, <1>6 DEF Done, IsDeployed, FederationRecord, FederationConf, Accounts, Logic
  <2>4. k > 9 => IsDeployed("AllowTokensProxy", AllowTokensRecord)'
    <3> SUFFICES ASSUME k > 9 PROVE IsDeployed("AllowTokensProxy", AllowTokensRecord)'
      OBVIOUS
    <3>1. IsDeployed("AllowTokensProxy", AllowTokensRecord) /\ \A d \in {"AllowTokens", "ProxyAdmin", "MultiSigWallet", "BridgeProxy"} : IsSaved(d)
      BY <1>6 DEF Done, IsDeployed
    <3>2. AllowTokensRecord' = AllowTokensRecord
      BY <1>1, <3>1 DEF AllowTokensRecord, Accounts, Logic
    <3> QED BY <1>1, <3>1, <3>2 DEF IsDeployed, Accounts
  <2>5. k > 10 => Now("AllowTokensProxy").owner' = saved'["MultiSigWallet"]
    BY <1>1, <1>6 DEF Done, IsDeployed, Now, Accounts
  <2>6. k > 11 => IsNamed("SideTokenFactory")' \/ Now("SideTokenFactory").primary' = saved'["BridgeProxy"]
    BY <1>1, <1>6 DEF Done, IsDeployed, Now, Accounts, IsNamed
  <2>7. k > 12 => Now("BridgeProxy").federation' = saved'["FederationProxy"]
    BY <1>1, <1>6 DEF Done, IsDeployed, Now, Accounts
  <2>8. k > 13 => Now("BridgeProxy").allowTokens' = saved'["AllowTokensProxy"]
    BY <1>1, <1>6 DEF Done, IsDeployed, Now, Accounts
  <2> QED BY <1>2, <1>3, <1>4, <2>1, <2>2, <2>3, <2>4, <2>5, <2>6, <2>7, <2>8 DEF Done
<1> QED BY <1>5, <1>6

LEMMA DoneStands ==
  ASSUME NEW k \in Nat, Done(k), \A c \in Accounts \cup Logic : Stands(c),
         UNCHANGED <<net, named, source>>
  PROVE  Done(k)'
<1>1. \A c \in Accounts \cup Logic : Stays(c) BY DEF Stands
<1>2. ASSUME ~AllNamed, NEW c \in Accounts, NEW f \in Fields(c), IsSaved(c)
      PROVE  chain'[saved[c]].now[f] = chain[saved[c]].now[f]
  BY <1>2 DEF Stands
<1>3. ~AllNamed => /\ k > 10 => IsSaved("AllowTokensProxy")
                   /\ k > 11 => IsSaved("SideTokenFactory")
                   /\ k > 12 => IsSaved("BridgeProxy")
  BY DEF Done, IsDeployed
<1> QED BY <1>1, <1>2, <1>3, DoneStays DEF Fields, Accounts

\* What a script deploys is not among what the scripts before it made.
LEMMA DoneBefore ==
  ASSUME NEW c \in Accounts \cup Logic, NEW k \in Nat, k <= ScriptOf[c], Done(k),
         \A d \in (Accounts \cup Logic) \ {c} : Stands(d),
         UNCHANGED <<net, named, source>>
  PROVE  Done(k)'
<1>1. \A d \in (Accounts \cup Logic) \ {c} : IsSaved(d) =>
        /\ IsSaved(d)' /\ saved'[d] = saved[d]
        /\ chain'[saved'[d]].born = chain[saved[d]].born
  BY DEF Stands, Stays, IsSaved
<1>2. /\ k <= 9
      /\ k > 1 => c # "MultiSigWallet"
      /\ k > 2 => c # "ProxyAdmin"
      /\ k > 3 => c # "SideTokenFactory"
      /\ k > 4 => c # "Bridge"
      /\ k > 5 => c # "BridgeProxy"
      /\ k > 6 => c # "Federation"
      /\ k > 7 => c # "FederationProxy"
      /\ k > 8 => c # "AllowTokens"
  BY DEF ScriptOf, Accounts, Logic
<1>3. k > 4 => IsDeployed("Bridge", [src |-> source["Bridge"]])'
  BY <1>1, <1>2 DEF Done, IsDeployed, Logic
<1>4. k > 6 => IsDeployed("Federation", [src |-> source["Federation"]])'
  BY <1>1, <1>2 DEF Done, IsDeployed, Logic
<1>5. k > 8 => IsDeployed("AllowTokens", [src |-> source["AllowTokens"]])'
  BY <1>1, <1>2 DEF Done, IsDeployed, Logic
<1>6. CASE AllNamed
  BY <1>3, <1>4, <1>5, <1>6 DEF Done, AllNamed
<1>7. CASE ~AllNamed
  <2>1. /\ k > 1 => IsSaved("MultiSigWallet")'
        /\ k > 2 => IsSaved("ProxyAdmin")'
        /\ k > 3 => IsSaved("SideTokenFactory")'
    BY <1>1, <1>2, <1>7 DEF Done, Accounts
  <2>2. k > 5 => IsDeployed("BridgeProxy", BridgeRecord)'
    <3> SUFFICES ASSUME k > 5 PROVE IsDeployed("BridgeProxy", BridgeRecord)'
      OBVIOUS
    <3>1. IsDeployed("BridgeProxy", BridgeRecord) /\ \A d \in {"Bridge", "ProxyAdmin", "MultiSigWallet", "SideTokenFactory"} : IsSaved(d)
      BY <1>7 DEF Done, IsDeployed
    <3>2. \A d \in {"Bridge", "ProxyAdmin", "MultiSigWallet", "SideTokenFactory"} : saved'[d] = saved[d]
      BY <1>1, <1>2, <3>1 DEF Accounts, Logic
    <3>3. BridgeRecord' = BridgeRecord
      BY <3>2 DEF BridgeRecord
    <3> QED BY <1>1, <1>2, <3>1, <3>3 DEF IsDeployed, Accounts
  <2>3. k > 7 => IsDeployed("FederationProxy", FederationRecord)'
    BY <1>1, <1>2, <1>7 DEF Done, IsDeployed, FederationRecord, FederationConf, Accounts, Logic
  <2> QED BY <1>2, <1>3, <1>4, <1>5, <2>1, <2>2, <2>3 DEF Done
<1> QED BY <1>6, <1>7

LEMMA DoneLess ==
  ASSUME NEW j \in Nat, NEW k \in Nat, j <= k \/ k > 13, Done(k)'
  PROVE  Done(j)'
BY DEF Done

\* The addresses the scripts use.
LEMMA InUse ==
  ASSUME Sound, ~AllNamed
  PROVE  /\ net # "known"
         /\ \A c : Address(c) = saved[c]
         /\ \A c \in Accounts \ {"SideTokenFactory"} : ~IsNamed(c)
         /\ IsNamed("SideTokenFactory") => IsSaved("SideTokenFactory")
BY DEF Sound, NamesSound, Address, IsNamed, AllNamed

LEMMA FirstOnesStand ==
  ASSUME Sound, At(2, 1) => At(2, 1)', UNCHANGED <<named, torn>>,
         \A c \in {"MultiSigWallet", "ProxyAdmin", "SideTokenFactory"} :
           Stands(c) /\ (c \in DOMAIN saved' => IsSaved(c))
  PROVE  FirstOnes'
<1>1. CASE AllNamed BY <1>1 DEF FirstOnes, AllNamed
<1>2. CASE ~AllNamed
  BY <1>2 DEF Sound, FirstOnes, Stands, Stays, IsSaved, Born, Now, Fields, AllNamed
<1> QED BY <1>1, <1>2

LEMMA SoundStays ==
  ASSUME Sound, UNCHANGED <<net, named, torn>>, complete' \in BOOLEAN,
         \A call \in pending' : call.field \notin AskedFor,
         ChainFormed', FirstOnes',
         \A c \in DOMAIN saved' : saved'[c] \in DOMAIN chain' /\ saved'[c][1] = c,
         \A b \in DOMAIN chain : b \in DOMAIN chain',
         IsNamed("SideTokenFactory") /\ ~AllNamed =>
           "SideTokenFactory" \in DOMAIN saved' /\ saved'["SideTokenFactory"] = saved["SideTokenFactory"],
         AllNamed => \A c \in Accounts : \A f \in Fields(c) :
                       chain'[named[c]].now[f] = chain[named[c]].now[f]
  PROVE  Sound'
<1>1. AddressesFound' BY DEF Sound, AddressesFound
<1>2. NamesSound' BY DEF Sound, NamesSound, IsNamed, IsSaved, AllNamed
<1>3. NamedServe' BY DEF Sound, NamedServe, AllNamed, Fields, Accounts
<1> QED BY <1>1, <1>2, <1>3 DEF Sound

-----------------------------------------------------------------------------
(* How a run goes on.                                                       *)

LEMMA MinIsLeast ==
  ASSUME NEW S \in SUBSET Nat, S # {}
  PROVE  Min(S) \in S /\ \A s \in S : Min(S) <= s
<1> DEFINE R == OpToRel(<, Nat)
<1>1. \A x, y \in Nat : x < y => <<x, y>> \in R BY DEF OpToRel
<1>2. IsWellFoundedOn(R, Nat) BY NatLessThanWellFounded
<1> HIDE DEF R
<1>3. PICK m \in S : \A s \in S : ~(<<s, m>> \in R) BY <1>2, WFMin
<1>4. ASSUME NEW s \in S PROVE m <= s
  <2>1. m \in Nat /\ s \in Nat OBVIOUS
  <2>2. ~(s < m) BY <1>1, <1>3, <2>1
  <2> QED BY <2>1, <2>2
<1> QED BY <1>4 DEF Min

LEMMA ScriptsNumbered ==
  ASSUME NEW tag \in Tags
  PROVE  Scripts(tag) \subseteq Nat /\ Scripts(tag) # {} /\ (tag # "Upgrade" => 1..13 \subseteq Scripts(tag))
BY DEF Scripts, Tags

LEMMA ReturnGoesOn ==
  ASSUME RunSound, run # Idle, Return
  PROVE  /\ RunSound'
         /\ run' = Idle \/ (run'.step = 0 /\ run'.tag = run.tag)
         /\ Deploying' => run'.script <= run.script + 1 \/ run.script + 1 > 13
         /\ run'.script \in Nat /\ run.script \in Nat
         /\ complete' => complete \/ (Deploying /\ run.script = 13)
<1> DEFINE rest == {s \in Scripts(run.tag) : s > run.script}
<1>1. /\ run = [tag |-> run.tag, script |-> run.script, step |-> run.step]
      /\ run.tag \in Tags /\ run.script \in Scripts(run.tag) /\ run.step \in Nat
  BY DEF RunSound
<1>2. /\ complete' = (complete \/ run.script = 13)
      /\ run' = IF rest # {} THEN [run EXCEPT !.script = Min(rest), !.step = 0] ELSE Idle
  BY DEF Return
<1>3. run.script \in Nat /\ rest \in SUBSET Nat BY <1>1, ScriptsNumbered
<1>4. run.script = 13 => Deploying BY <1>1 DEF Deploying, Scripts
<1>5. CASE rest = {}
  BY <1>2, <1>3, <1>4, <1>5 DEF RunSound, Deploying, Idle
<1>6. CASE rest # {}
  <2>1. Min(rest) \in rest /\ \A s \in rest : Min(rest) <= s
    <3> HIDE DEF rest
    <3> QED BY <1>3, <1>6, MinIsLeast
  <2>2. run' = [tag |-> run.tag, script |-> Min(rest), step |-> 0]
    BY <1>1, <1>2, <1>6
  <2>3. run'.tag = run.tag /\ run'.script = Min(rest) /\ run'.step = 0 BY <2>2
  <2>4. RunSound'
    <3>1. Min(rest) \in Scripts(run.tag) BY <2>1
    <3> HIDE DEF rest
    <3> QED BY <1>1, <2>2, <2>3, <3>1 DEF RunSound
  <2>5. run.tag # "Upgrade" /\ run.script < 13 => run.script + 1 \in rest
    BY <1>1, <1>3, ScriptsNumbered
  <2>6. Deploying' => run.tag # "Upgrade" BY <2>3 DEF Deploying
  <2>7. Min(rest) \in Nat BY <1>3, <2>1
  <2>8. Deploying' => Min(rest) <= run.script + 1 \/ run.script + 1 > 13
    BY <1>3, <2>1, <2>5, <2>6
  <2> HIDE DEF rest
  <2> QED BY <1>2, <1>3, <1>4, <2>3, <2>4, <2>7, <2>8
<1> QED BY <1>5, <1>6

\* A script that returns, and has made what those after it expect.
LEMMA Returns ==
  ASSUME IInv, run # Idle, Return, Sound', NEW k \in Nat, k = run.script,
         Deploying => Done(k + 1)', complete => Done(14)'
  PROVE  IInv'
<1>1. RunSound BY DEF IInv
<1>2. ~At(2, 1)' /\ ~At(10, 1)' BY <1>1, ReturnGoesOn DEF At, Idle
<1>3. Deploying' => Deploying BY <1>1, ReturnGoesOn DEF Deploying
<1>4. complete' => Done(14)' BY <1>1, ReturnGoesOn
<1>5. Deploying' => Done(run.script)'
  <2> SUFFICES ASSUME Deploying', NEW j \in Nat, j = run'.script PROVE Done(j)'
    BY <1>1, ReturnGoesOn
  <2>1. j <= k + 1 \/ k + 1 > 13 BY <1>1, ReturnGoesOn
  <2>2. Done(k + 1)' BY <1>3
  <2> QED BY <2>1, <2>2, DoneLess
<1> QED BY <1>1, <1>2, <1>4, <1>5, ReturnGoesOn DEF IInv, HalfDone

LEMMA NothingSet ==
  ASSUME Sound, ~At(2, 1), UNCHANGED <<net, named, saved, chain, torn, pending>>,
         complete' \in BOOLEAN
  PROVE  Sound' /\ \A c : Stands(c)
<1>1. \A c : Stands(c) BY DEF Stands, Stays, IsSaved
<1>2. ChainFormed' BY DEF Sound, ChainFormed, Formed
<1>3. FirstOnes' BY <1>1, FirstOnesStand DEF IsSaved
<1>4. \A call \in pending' : call.field \notin AskedFor BY DEF Sound
<1>5. /\ \A c \in DOMAIN saved' : saved'[c] \in DOMAIN chain' /\ saved'[c][1] = c
      /\ \A b \in DOMAIN chain : b \in DOMAIN chain'
  BY DEF Sound, AddressesFound
<1>6. IsNamed("SideTokenFactory") /\ ~AllNamed =>
        "SideTokenFactory" \in DOMAIN saved' /\ saved'["SideTokenFactory"] = saved["SideTokenFactory"]
  BY DEF Sound, NamesSound, IsSaved
<1> QED BY <1>1, <1>2, <1>3, <1>4, <1>5, <1>6, SoundStays

\* A script with nothing to do, whatever it stands for being done.
LEMMA NothingToDo ==
  ASSUME IInv, run # Idle, ~At(2, 1), NoChange, Return, NEW k \in Nat, k = run.script,
         Deploying => Done(k + 1)
  PROVE  IInv'
<1>1. UNCHANGED <<net, named, saved, chain, source, torn, pending>>
  BY DEF NoChange, OnlyChain
<1>2. complete' \in BOOLEAN BY DEF Return, IInv, Sound
<1>3. Sound' /\ \A c : Stands(c) BY <1>1, <1>2, NothingSet DEF IInv
<1>4. (Deploying => Done(k + 1)') /\ (complete => Done(14)')
  BY <1>1, <1>3, DoneStands DEF IInv
<1> QED BY <1>3, <1>4, Returns

-----------------------------------------------------------------------------
(* What a script does to what stands.                                       *)

LEMMA DeployKeeps ==
  ASSUME Sound, ~At(2, 1), complete' \in BOOLEAN,
         NEW c, NEW r, Deploy(c, r), c # "ProxyAdmin",
         IsAFunction(r), Fields(c) \subseteq DOMAIN r,
         c \in Accounts => ~AllNamed,
         c = "MultiSigWallet" => r = [required |-> 1],
         c = "SideTokenFactory" => r = [primary |-> Deployer]
  PROVE  /\ Sound'
         /\ \A d : d # c => Stands(d)
         /\ c \in DOMAIN saved' /\ chain'[saved'[c]].born = r
         /\ \A d \in DOMAIN saved : d # c => saved'[d] = saved[d]
         /\ IsDeployed(c, r) => \A d : Stands(d)
         /\ ~IsDeployed(c, r) => chain'[saved'[c]].now = r
         /\ UNCHANGED <<net, named, source>>
<1>1. UNCHANGED <<net, named, source, torn, pending>> BY DEF Deploy
<1>2. ChainFormed /\ AddressesFound BY DEF Sound
<1>3. /\ ChainFormed'
      /\ DOMAIN saved' = DOMAIN saved \cup {c}
      /\ \A d \in DOMAIN saved' : saved'[d] \in DOMAIN chain' /\ saved'[d][1] = d
      /\ \A d \in DOMAIN saved : d # c => saved'[d] = saved[d]
      /\ \A b \in DOMAIN chain : b \in DOMAIN chain' /\ (b[1] # c => chain'[b] = chain[b])
      /\ chain'[saved'[c]].born = r
      /\ IsDeployed(c, r) => saved' = saved /\ chain' = chain
      /\ ~IsDeployed(c, r) => chain'[saved'[c]].now = r
  BY <1>2, DeployEffect
<1>4. \A d : d # c => Stands(d)
  BY <1>2, <1>3 DEF Stands, Stays, IsSaved, AddressesFound
<1>5. IsDeployed(c, r) => \A d : Stands(d)
  BY <1>3 DEF Stands, Stays, IsSaved
<1>6. FirstOnes'
  <2>1. CASE IsDeployed(c, r)
    BY <1>1, <1>3, <1>5, <2>1, FirstOnesStand DEF IsSaved
  <2>2. CASE c \notin {"MultiSigWallet", "SideTokenFactory"}
    BY <1>1, <1>3, <1>4, <2>2, FirstOnesStand DEF IsSaved
  <2>3. CASE ~IsDeployed(c, r) /\ c = "MultiSigWallet"
    <3>1. ~AllNamed /\ ~IsSaved("MultiSigWallet") /\ ~IsSaved("ProxyAdmin")
      BY <2>3 DEF Sound, FirstOnes, IsDeployed, Born, Accounts
    <3>2. ~IsSaved("ProxyAdmin")' BY <1>3, <2>3, <3>1 DEF IsSaved
    <3>3. IsSaved("SideTokenFactory")' => Born("SideTokenFactory")' = [primary |-> Deployer]
      BY <1>3, <1>4, <2>3, <3>1 DEF Sound, FirstOnes, Stands, Stays, IsSaved, Born
    <3> QED BY <1>3, <2>3, <3>2, <3>3 DEF FirstOnes, Born
  <2>4. CASE ~IsDeployed(c, r) /\ c = "SideTokenFactory"
    <3>1. ~AllNamed BY <2>4 DEF Accounts
    <3>2. IsSaved("MultiSigWallet")' => Born("MultiSigWallet")' = [required |-> 1]
      BY <1>3, <1>4, <2>4, <3>1 DEF Sound, FirstOnes, Stands, Stays, IsSaved, Born
    <3>3. IsSaved("ProxyAdmin")' =>
             /\ Born("ProxyAdmin")' = [owner |-> Deployer]
             /\ IsSaved("MultiSigWallet")'
             /\ Now("ProxyAdmin").owner' = saved'["MultiSigWallet"] \/ torn'
      BY <1>1, <1>3, <1>4, <2>4, <3>1 DEF Sound, FirstOnes, Stands, Stays, IsSaved, Born, Now, Fields
    <3> QED BY <1>3, <2>4, <3>2, <3>3 DEF FirstOnes, Born
  <2> QED BY <2>1, <2>2, <2>3, <2>4
<1>7. IsNamed("SideTokenFactory") /\ ~AllNamed =>
        "SideTokenFactory" \in DOMAIN saved' /\ saved'["SideTokenFactory"] = saved["SideTokenFactory"]
  <2> SUFFICES ASSUME IsNamed("SideTokenFactory"), ~AllNamed
               PROVE  "SideTokenFactory" \in DOMAIN saved' /\ saved'["SideTokenFactory"] = saved["SideTokenFactory"]
    OBVIOUS
  <2>1. IsSaved("SideTokenFactory") BY DEF Sound, NamesSound
  <2>2. c = "SideTokenFactory" => IsDeployed(c, r)
    BY <2>1 DEF Sound, FirstOnes, IsDeployed, Born
  <2> QED BY <1>3, <2>1, <2>2 DEF IsSaved
<1>8. AllNamed => \A d \in Accounts : \A f \in Fields(d) : chain'[named[d]].now[f] = chain[named[d]].now[f]
  BY <1>2, <1>3 DEF AllNamed, AddressesFound
<1>9. \A call \in pending' : call.field \notin AskedFor BY <1>1 DEF Sound
<1>10. Sound' BY <1>1, <1>3, <1>6, <1>7, <1>8, <1>9, SoundStays
<1> QED BY <1>1, <1>3, <1>4, <1>5, <1>10

LEMMA ScriptNumbers ==
  ASSUME NEW c \in Accounts \cup Logic
  PROVE  ScriptOf[c] \in 1..9 /\ (c # "ProxyAdmin" => ScriptOf[c] # 2)
BY DEF ScriptOf, Accounts, Logic

LEMMA DeployReturns ==
  ASSUME IInv, Return, NEW c \in Accounts \cup Logic, NEW k \in Nat, k = run.script, k = ScriptOf[c],
         NEW r, Deploy(c, r), c # "ProxyAdmin", IsAFunction(r), Fields(c) \subseteq DOMAIN r,
         c \in Accounts => ~AllNamed,
         c = "MultiSigWallet" => r = [required |-> 1],
         c = "SideTokenFactory" => r = [primary |-> Deployer],
         complete => IsDeployed(c, r),
         /\ Done(k)' /\ c \in DOMAIN saved' /\ chain'[saved'[c]].born = r
         /\ Deploying /\ \A d \in DOMAIN saved : d # c => saved'[d] = saved[d]
         => Done(k + 1)'
  PROVE  IInv'
<1>1. RunSound /\ Sound BY DEF IInv
<1>2. k # 2 /\ k > 0 BY ScriptNumbers
<1>3. ~At(2, 1) /\ run # Idle
  <2>1. run.script # 2 /\ run.script # 0 BY <1>2
  <2>2. ~At(2, 1) BY <2>1 DEF At
  <2>3. Idle.script = 0 BY DEF Idle
  <2> QED BY <2>1, <2>2, <2>3
<1>4. complete' \in BOOLEAN BY <1>1 DEF Return, Sound
<1>5. /\ Sound'
      /\ \A d : d # c => Stands(d)
      /\ c \in DOMAIN saved' /\ chain'[saved'[c]].born = r
      /\ \A d \in DOMAIN saved : d # c => saved'[d] = saved[d]
      /\ IsDeployed(c, r) => \A d : Stands(d)
      /\ UNCHANGED <<net, named, source>>
  BY <1>1, <1>3, <1>4, DeployKeeps
<1>6. Deploying => Done(k)' BY <1>5, DoneBefore DEF IInv
<1>7. complete => Done(14)' BY <1>5, DoneStands DEF IInv
<1> QED BY <1>3, <1>5, <1>6, <1>7, Returns

-----------------------------------------------------------------------------
(* The scripts that deploy.                                                 *)

LEMMA RunOfScript ==
  ASSUME RunSound, run.script \in 1..13 \ {4, 6}
  PROVE  Deploying
<1>1. Idle.script = 0 BY DEF Idle
<1>2. Scripts("Upgrade") = {4, 6, 101, 102} BY DEF Scripts
<1> QED BY <1>1, <1>2 DEF RunSound, Deploying

\* With every account named, only the logic is deployed.
LEMMA NamedPass ==
  ASSUME NEW k \in 1..13 \ {4, 6, 8}, AllNamed, Done(k)
  PROVE  Done(k + 1)
BY DEF Done

LEMMA PassNamed ==
  ASSUME IInv, AllNamed, NEW k \in 1..13 \ {4, 6, 8}, At(k, 0), NoChange, Return
  PROVE  IInv'
<1>1. run # Idle
  <2>1. Idle.script = 0 BY DEF Idle
  <2> QED BY <2>1 DEF At
<1>2. ~At(2, 1) BY DEF At
<1>3. k \in Nat /\ k = run.script BY DEF At
<1>4. Deploying => Done(k + 1) BY <1>3, NamedPass DEF IInv
<1> QED BY <1>1, <1>2, <1>3, <1>4, NothingToDo

LEMMA MultiSigStays == IInv /\ DeployMultiSig => IInv'
<1> SUFFICES ASSUME IInv, DeployMultiSig PROVE IInv'
  OBVIOUS
<1> DEFINE c == "MultiSigWallet"
           r == [required |-> 1]
<1>1. At(1, 0) /\ Return BY DEF DeployMultiSig, DeployUnlessNamed
<1>2. CASE AllNamed
  BY <1>1, <1>2, PassNamed DEF DeployMultiSig, DeployUnlessNamed, AllNamed, IsNamed, Accounts
<1>3. CASE ~AllNamed
  <2>1. Deploy(c, r) BY <1>3, InUse DEF IInv, DeployMultiSig, DeployUnlessNamed, Accounts
  <2>2. run.script = 1 /\ ScriptOf[c] = 1 BY <1>1 DEF At, ScriptOf, Accounts
  <2>3. IsAFunction(r) /\ Fields(c) \subseteq DOMAIN r BY DEF IsAFunction, Fields
  <2>4. complete => IsDeployed(c, r) BY <1>3 DEF IInv, Sound, FirstOnes, Done, IsDeployed, Born
  <2>5. c \in DOMAIN saved' => Done(2)' BY DEF Done, IsSaved
  <2> QED BY <1>1, <1>3, <2>1, <2>2, <2>3, <2>4, <2>5, DeployReturns DEF Accounts
<1> QED BY <1>2, <1>3

LEMMA FactoryStays == IInv /\ DeployFactory => IInv'
<1> SUFFICES ASSUME IInv, DeployFactory PROVE IInv'
  OBVIOUS
<1> DEFINE c == "SideTokenFactory"
           r == [primary |-> Deployer]
<1>1. At(3, 0) /\ Return BY DEF DeployFactory, DeployUnlessNamed
<1>2. CASE AllNamed
  BY <1>1, <1>2, PassNamed DEF DeployFactory, DeployUnlessNamed, AllNamed, IsNamed, Accounts
<1>3. CASE ~AllNamed
  <2>1. Deploy(c, r) BY <1>3, InUse DEF IInv, DeployFactory, DeployUnlessNamed, Accounts
  <2>2. run.script = 3 /\ ScriptOf[c] = 3 BY <1>1 DEF At, ScriptOf, Accounts
  <2>3. IsAFunction(r) /\ Fields(c) \subseteq DOMAIN r BY DEF IsAFunction, Fields
  <2>4. complete => IsDeployed(c, r) BY <1>3 DEF IInv, Sound, FirstOnes, Done, IsDeployed, Born
  <2>5. c \in DOMAIN saved' /\ Done(3)' => Done(4)' BY DEF Done, IsSaved
  <2> QED BY <1>1, <1>3, <2>1, <2>2, <2>3, <2>4, <2>5, DeployReturns DEF Accounts
<1> QED BY <1>2, <1>3

LEMMA LogicStays == IInv /\ (DeployBridge \/ DeployFederation \/ DeployAllowTokens) => IInv'
<1> SUFFICES ASSUME IInv, NEW k \in {4, 6, 8}, NEW c \in Logic,
                    <<k, c>> \in {<<4, "Bridge">>, <<6, "Federation">>, <<8, "AllowTokens">>},
                    DeployLogic(k, c)
             PROVE  IInv'
  BY DEF DeployBridge, DeployFederation, DeployAllowTokens, Logic
<1> DEFINE r == [src |-> source[c]]
<1>1. At(k, 0) /\ Deploy(c, r) /\ Return BY DEF DeployLogic
<1>2. run.script = k /\ ScriptOf[c] = k BY <1>1 DEF At, ScriptOf, Logic
<1>3. IsAFunction(r) /\ Fields(c) \subseteq DOMAIN r BY DEF IsAFunction, Fields, Logic
<1>4. complete => IsDeployed(c, r) BY DEF IInv, Done
<1>5. c \notin Accounts BY DEF Accounts, Logic
<1>6. c \in DOMAIN saved' /\ chain'[saved'[c]].born = r /\ Done(k)' => Done(k + 1)'
  <2>1. source' = source BY <1>1 DEF Deploy
  <2>2. IsSaved(c)' <=> c \in DOMAIN saved' BY DEF IsSaved
  <2> QED BY <2>1, <2>2 DEF Done, IsDeployed
<1> HIDE DEF r
<1> QED BY <1>1, <1>2, <1>3, <1>4, <1>5, <1>6, DeployReturns DEF Accounts

LEMMA BridgeProxyStays == IInv /\ DeployBridgeProxy => IInv'
<1> SUFFICES ASSUME IInv, DeployBridgeProxy PROVE IInv'
  OBVIOUS
<1> DEFINE c == "BridgeProxy"
           r == BridgeRecord
<1>1. At(5, 0) /\ Return BY DEF DeployBridgeProxy
<1>2. CASE AllNamed
  BY <1>1, <1>2, PassNamed DEF DeployBridgeProxy, AllNamed, IsNamed, Accounts
<1>3. CASE ~AllNamed
  <2>1. Deploy(c, r)
    <3>1. Sound BY DEF IInv
    <3>2. /\ ~IsNamed("BridgeProxy") /\ Address("ProxyAdmin") = saved["ProxyAdmin"]
          /\ Address("MultiSigWallet") = saved["MultiSigWallet"]
          /\ Address("SideTokenFactory") = saved["SideTokenFactory"]
      BY <1>3, <3>1, InUse DEF Accounts
    <3> QED BY <3>2 DEF DeployBridgeProxy, BridgeRecord
  <2>2. run.script = 5 /\ ScriptOf[c] = 5 BY <1>1 DEF At, ScriptOf, Accounts
  <2>3. IsAFunction(r) /\ Fields(c) \subseteq DOMAIN r BY DEF IsAFunction, Fields, BridgeRecord
  <2>4. complete => IsDeployed(c, r) BY <1>3 DEF IInv, Done
  <2>5. Deploying => /\ IsSaved("Bridge") /\ IsSaved("ProxyAdmin") /\ IsSaved("MultiSigWallet")
                     /\ IsSaved("SideTokenFactory")
    BY <1>3, <2>2 DEF IInv, Done, IsDeployed
  <2>6. ASSUME Deploying, \A d \in DOMAIN saved : d # c => saved'[d] = saved[d] PROVE BridgeRecord' = r
    BY <2>5, <2>6 DEF BridgeRecord, IsSaved
  <2> HIDE DEF r
  <2>7. ASSUME c \in DOMAIN saved', chain'[saved'[c]].born = r, Done(5)', BridgeRecord' = r PROVE Done(6)'
    BY <2>7 DEF Done, IsDeployed, IsSaved
  <2> QED BY <1>1, <1>3, <2>1, <2>2, <2>3, <2>4, <2>6, <2>7, DeployReturns DEF Accounts
<1> QED BY <1>2, <1>3

LEMMA FederationProxyStays == IInv /\ DeployFederationProxy => IInv'
<1> SUFFICES ASSUME IInv, DeployFederationProxy PROVE IInv'
  OBVIOUS
<1> DEFINE c == "FederationProxy"
           r == FederationRecord
<1>1. At(7, 0) /\ Return BY DEF DeployFederationProxy
<1>2. CASE AllNamed
  BY <1>1, <1>2, PassNamed DEF DeployFederationProxy, AllNamed, IsNamed, Accounts
<1>3. CASE ~AllNamed
  <2>1. Deploy(c, r)
    <3>1. Sound BY DEF IInv
    <3>2. /\ ~IsNamed("FederationProxy") /\ Address("ProxyAdmin") = saved["ProxyAdmin"]
          /\ Address("MultiSigWallet") = saved["MultiSigWallet"]
          /\ Address("BridgeProxy") = saved["BridgeProxy"]
      BY <1>3, <3>1, InUse DEF Accounts
    <3> QED BY <3>2 DEF DeployFederationProxy, FederationRecord
  <2>2. run.script = 7 /\ ScriptOf[c] = 7 BY <1>1 DEF At, ScriptOf, Accounts
  <2>3. IsAFunction(r) /\ Fields(c) \subseteq DOMAIN r BY DEF IsAFunction, Fields, FederationRecord
  <2>4. complete => IsDeployed(c, r) BY <1>3 DEF IInv, Done
  <2>5. Deploying => /\ IsSaved("Federation") /\ IsSaved("ProxyAdmin") /\ IsSaved("MultiSigWallet")
                     /\ IsSaved("BridgeProxy")
    BY <1>3, <2>2 DEF IInv, Done, IsDeployed
  <2>6. ASSUME Deploying, \A d \in DOMAIN saved : d # c => saved'[d] = saved[d] PROVE FederationRecord' = r
    <3>1. net' = net BY <2>1 DEF Deploy
    <3> QED BY <2>5, <2>6, <3>1 DEF FederationRecord, FederationConf, IsSaved
  <2> HIDE DEF r
  <2>7. ASSUME c \in DOMAIN saved', chain'[saved'[c]].born = r, Done(7)', FederationRecord' = r PROVE Done(8)'
    BY <2>7 DEF Done, IsDeployed, IsSaved
  <2> QED BY <1>1, <1>3, <2>1, <2>2, <2>3, <2>4, <2>6, <2>7, DeployReturns DEF Accounts
<1> QED BY <1>2, <1>3

LEMMA AllowTokensProxyStays == IInv /\ DeployAllowTokensProxy => IInv'
<1> SUFFICES ASSUME IInv, DeployAllowTokensProxy PROVE IInv'
  OBVIOUS
<1> DEFINE c == "AllowTokensProxy"
           r == AllowTokensRecord
<1>1. At(9, 0) /\ Return BY DEF DeployAllowTokensProxy
<1>2. CASE AllNamed
  BY <1>1, <1>2, PassNamed DEF DeployAllowTokensProxy, AllNamed, IsNamed, Accounts
<1>3. CASE ~AllNamed
  <2>1. Deploy(c, r)
    <3>1. Sound BY DEF IInv
    <3>2. /\ ~IsNamed("AllowTokensProxy") /\ Address("ProxyAdmin") = saved["ProxyAdmin"]
          /\ Address("BridgeProxy") = saved["BridgeProxy"]
      BY <1>3, <3>1, InUse DEF Accounts
    <3> QED BY <3>2 DEF DeployAllowTokensProxy, AllowTokensRecord
  <2>2. run.script = 9 /\ ScriptOf[c] = 9 BY <1>1 DEF At, ScriptOf, Accounts
  <2>3. IsAFunction(r) /\ Fields(c) \subseteq DOMAIN r BY DEF IsAFunction, Fields, AllowTokensRecord
  <2>4. complete => IsDeployed(c, r) BY <1>3 DEF IInv, Done
  <2>5. Deploying => IsSaved("AllowTokens") /\ IsSaved("ProxyAdmin") /\ IsSaved("BridgeProxy")
    BY <1>3, <2>2 DEF IInv, Done, IsDeployed
  <2>6. ASSUME Deploying, \A d \in DOMAIN saved : d # c => saved'[d] = saved[d] PROVE AllowTokensRecord' = r
    BY <2>5, <2>6 DEF AllowTokensRecord, IsSaved
  <2> HIDE DEF r
  <2>7. ASSUME c \in DOMAIN saved', chain'[saved'[c]].born = r, Done(9)', AllowTokensRecord' = r PROVE Done(10)'
    BY <2>7 DEF Done, IsDeployed, IsSaved
  <2> QED BY <1>1, <1>3, <2>1, <2>2, <2>3, <2>4, <2>6, <2>7, DeployReturns DEF Accounts
<1> QED BY <1>2, <1>3

LEMMA GoOnInRun ==
  ASSUME RunSound, run # Idle, GoOn
  PROVE  /\ RunSound' /\ run'.script = run.script /\ run'.step = run.step + 1 /\ run.step \in Nat
         /\ (Deploying' <=> Deploying) /\ complete' = complete
<1>1. /\ run = [tag |-> run.tag, script |-> run.script, step |-> run.step]
      /\ run.tag \in Tags /\ run.script \in Scripts(run.tag) /\ run.step \in Nat
  BY DEF RunSound
<1>2. run' = [tag |-> run.tag, script |-> run.script, step |-> run.step + 1] /\ complete' = complete
  BY <1>1 DEF GoOn
<1>3. run.step + 1 \in Nat /\ run'.step = run.step + 1 /\ run'.tag = run.tag /\ run'.script = run.script
  BY <1>1, <1>2
<1>4. RunSound' BY <1>1, <1>2, <1>3 DEF RunSound
<1>5. run' # Idle
  <2>1. Idle.step = 0 BY DEF Idle
  <2>2. run'.step # 0 BY <1>1, <1>3
  <2> QED BY <2>1, <2>2
<1> QED BY <1>1, <1>2, <1>3, <1>4, <1>5 DEF Deploying

\* 02, its first step: the contract is new and the deployer's.
LEMMA ProxyAdminStays == IInv /\ DeployProxyAdmin => IInv'
<1> SUFFICES ASSUME IInv, DeployProxyAdmin PROVE IInv'
  OBVIOUS
<1> DEFINE c == "ProxyAdmin"
           r == [owner |-> Deployer]
<1>1. At(2, 0) BY DEF DeployProxyAdmin
<1>2. run # Idle
  <2>1. Idle.script = 0 BY DEF Idle
  <2> QED BY <1>1, <2>1 DEF At
<1>3. Sound /\ RunSound BY DEF IInv
<1>4. Deploying /\ Done(2) BY <1>1, <1>3, RunOfScript DEF At, IInv
<1>5. CASE NoChange /\ Return /\ AllNamed
  BY <1>1, <1>5, PassNamed
<1>6. CASE (IsNamed(c) \/ IsDeployed(c, r)) /\ NoChange /\ Return /\ ~AllNamed
  <2>1. ~IsNamed(c) BY <1>3, <1>6, InUse DEF Accounts
  <2>2. IsDeployed(c, r) BY <1>6, <2>1
  <2>3. Done(3) BY <1>4, <1>6, <2>2 DEF Done, IsDeployed
  <2>4. run.script = 2 /\ ~At(2, 1) BY <1>1 DEF At
  <2> QED BY <1>2, <1>6, <2>3, <2>4, NothingToDo
<1>7. CASE ~IsNamed(c) /\ ~IsDeployed(c, r) /\ Deploy(c, r) /\ GoOn
  <2>1. ~AllNamed BY <1>7 DEF AllNamed, IsNamed, Accounts
  <2>2. ~IsSaved(c) BY <1>3, <1>7, <2>1 DEF Sound, FirstOnes, IsDeployed, Born
  <2>3. IsAFunction(r) /\ Fields(c) \subseteq DOMAIN r BY DEF IsAFunction, Fields
  <2>4. ~complete BY <2>1, <2>2 DEF IInv, Done
  <2>5. IsSaved("MultiSigWallet") BY <1>4, <2>1 DEF Done
  <2>6. UNCHANGED <<net, named, source, torn, pending>> BY <1>7 DEF Deploy
  <2>7. ChainFormed /\ AddressesFound BY <1>3 DEF Sound
  <2> HIDE DEF r
  <2>8. /\ ChainFormed'
        /\ DOMAIN saved' = DOMAIN saved \cup {c}
        /\ \A d \in DOMAIN saved' : saved'[d] \in DOMAIN chain' /\ saved'[d][1] = d
        /\ \A d \in DOMAIN saved : d # c => saved'[d] = saved[d]
        /\ \A b \in DOMAIN chain : b \in DOMAIN chain' /\ (b[1] # c => chain'[b] = chain[b])
        /\ chain'[saved'[c]].born = r
    BY <1>7, <2>3, <2>7, DeployEffect
  <2>9. \A d : d # c => Stands(d)
    BY <2>7, <2>8 DEF Stands, Stays, IsSaved, AddressesFound
  <2>10. RunSound' /\ At(2, 1)' /\ ~At(10, 1)' /\ complete' = complete /\ (Deploying' <=> Deploying)
    BY <1>1, <1>2, <1>3, <1>7, GoOnInRun DEF At
  <2>11. FirstOnes'
    <3>1. IsSaved("MultiSigWallet")' /\ Born("MultiSigWallet")' = [required |-> 1]
      BY <1>3, <2>1, <2>5, <2>8, <2>9 DEF Sound, FirstOnes, Stands, Stays, IsSaved, Born
    <3>2. IsSaved("SideTokenFactory")' => Born("SideTokenFactory")' = [primary |-> Deployer]
      BY <1>3, <2>1, <2>8, <2>9 DEF Sound, FirstOnes, Stands, Stays, IsSaved, Born
    <3>3. Born(c)' = r BY <2>8 DEF Born
    <3> QED BY <2>10, <3>1, <3>2, <3>3 DEF FirstOnes, r
  <2>12. Sound'
    <3>1. IsNamed("SideTokenFactory") /\ ~AllNamed =>
            "SideTokenFactory" \in DOMAIN saved' /\ saved'["SideTokenFactory"] = saved["SideTokenFactory"]
      BY <1>3, <2>8 DEF Sound, NamesSound, IsSaved
    <3>2. \A call \in pending' : call.field \notin AskedFor BY <1>3, <2>6 DEF Sound
    <3>3. complete' \in BOOLEAN BY <1>3, <2>10 DEF Sound
    <3> QED BY <1>3, <2>1, <2>6, <2>8, <2>11, <3>1, <3>2, <3>3, SoundStays
  <2>13. HalfDone'
    <3>1. ~AllNamed' BY <2>1, <2>6 DEF AllNamed
    <3>2. IsSaved(c)' BY <2>8 DEF IsSaved
    <3> QED BY <2>4, <2>10, <3>1, <3>2 DEF HalfDone
  <2>14. Done(2)'
    <3>1. ScriptOf[c] = 2 /\ c \in Accounts BY DEF ScriptOf, Accounts
    <3> QED BY <1>4, <2>6, <2>9, <3>1, DoneBefore
  <2>15. run'.script = 2 BY <2>10 DEF At
  <2> QED BY <2>4, <2>10, <2>12, <2>13, <2>14, <2>15 DEF IInv
<1> QED BY <1>5, <1>6, <1>7 DEF DeployProxyAdmin

-----------------------------------------------------------------------------
(* The scripts that set a field of a contract.                              *)

LEMMA OwnSet ==
  ASSUME Sound, ~AllNamed, NEW c \in Accounts, IsSaved(c), NEW field \in Fields(c) \ Lasting(c), NEW v,
         Set(saved[c], field, v), UNCHANGED <<net, named, saved, source, torn, pending>>,
         complete' \in BOOLEAN
  PROVE  /\ \A d : d # c => Stands(d)
         /\ Stays(c)
         /\ \A f \in Fields(c) : chain'[saved[c]].now[f] = IF f = field THEN v ELSE chain[saved[c]].now[f]
         /\ c # "ProxyAdmin" /\ ~At(2, 1) => FirstOnes'
         /\ FirstOnes' => Sound'
<1>1. ChainFormed /\ AddressesFound BY DEF Sound
<1>2. saved[c] \in DOMAIN chain /\ saved[c][1] = c BY <1>1 DEF AddressesFound, IsSaved
<1>3. /\ DOMAIN chain' = DOMAIN chain
      /\ \A b \in DOMAIN chain : b # saved[c] => chain'[b] = chain[b]
      /\ chain'[saved[c]].born = chain[saved[c]].born
  BY <1>1, <1>2, SetEffect
<1>4. /\ ChainFormed'
      /\ \A f \in Fields(c) : chain'[saved[c]].now[f] = IF f = field THEN v ELSE chain[saved[c]].now[f]
  BY <1>1, <1>2, SetForms
<1>5. \A d : d # c => Stands(d)
  BY <1>1, <1>2, <1>3 DEF Stands, Stays, IsSaved, AddressesFound
<1>6. Stays(c) BY <1>3 DEF Stays, IsSaved
<1>7. ASSUME c # "ProxyAdmin", ~At(2, 1) PROVE FirstOnes'
  <2>1. IsSaved("MultiSigWallet")' => Born("MultiSigWallet")' = [required |-> 1]
    BY <1>5, <1>6 DEF Sound, FirstOnes, Stands, Stays, IsSaved, Born
  <2>2. IsSaved("SideTokenFactory")' => Born("SideTokenFactory")' = [primary |-> Deployer]
    BY <1>5, <1>6 DEF Sound, FirstOnes, Stands, Stays, IsSaved, Born
  <2>3. IsSaved("ProxyAdmin")' =>
          /\ Born("ProxyAdmin")' = [owner |-> Deployer]
          /\ IsSaved("MultiSigWallet")'
          /\ Now("ProxyAdmin").owner' = saved'["MultiSigWallet"] \/ torn'
    BY <1>5, <1>7 DEF Sound, FirstOnes, Stands, Stays, IsSaved, Born, Now, Fields
  <2> QED BY <2>1, <2>2, <2>3 DEF FirstOnes
<1>8. ASSUME FirstOnes' PROVE Sound'
  <2>1. \A call \in pending' : call.field \notin AskedFor BY DEF Sound
  <2>2. /\ \A d \in DOMAIN saved' : saved'[d] \in DOMAIN chain' /\ saved'[d][1] = d
        /\ \A b \in DOMAIN chain : b \in DOMAIN chain'
    BY <1>1, <1>3 DEF AddressesFound
  <2>3. IsNamed("SideTokenFactory") /\ ~AllNamed =>
          "SideTokenFactory" \in DOMAIN saved' /\ saved'["SideTokenFactory"] = saved["SideTokenFactory"]
    BY DEF Sound, NamesSound, IsSaved
  <2> QED BY <1>4, <1>8, <2>1, <2>2, <2>3, SoundStays
<1> QED BY <1>4, <1>5, <1>6, <1>7, <1>8

\* Of a field the scripts do not ask for.
LEMMA OtherSet ==
  ASSUME Sound, At(2, 1) => At(2, 1)', NEW a, NEW field, field \notin AskedFor, NEW v,
         Set(a, field, v), UNCHANGED <<net, named, saved, source, torn>>,
         complete' \in BOOLEAN, \A call \in pending' : call.field \notin AskedFor
  PROVE  Sound' /\ \A c : Stands(c)
<1>1. ChainFormed /\ AddressesFound BY DEF Sound
<1>2. /\ ChainFormed' /\ DOMAIN chain' = DOMAIN chain
      /\ \A b \in DOMAIN chain : /\ chain'[b].born = chain[b].born
                                 /\ \A f \in Fields(b[1]) : chain'[b].now[f] = chain[b].now[f]
  <2>1. CASE a \in DOMAIN chain
    <3>1. field \notin Lasting(a[1]) /\ field \notin Fields(a[1]) BY DEF Lasting, Fields, AskedFor
    <3>2. /\ DOMAIN chain' = DOMAIN chain
          /\ \A b \in DOMAIN chain : b # a => chain'[b] = chain[b]
          /\ chain'[a].born = chain[a].born
      BY <1>1, <2>1, SetEffect
    <3>3. ChainFormed' /\ \A f \in Fields(a[1]) : chain'[a].now[f] = IF f = field THEN v ELSE chain[a].now[f]
      BY <1>1, <2>1, <3>1, SetForms
    <3> QED BY <3>1, <3>2, <3>3
  <2>2. CASE a \notin DOMAIN chain
    <3>1. chain' = chain BY <1>1, <2>2 DEF Set, ChainFormed
    <3> QED BY <1>1, <3>1 DEF ChainFormed, Formed
  <2> QED BY <2>1, <2>2
<1>3. \A c : Stands(c)
  BY <1>1, <1>2 DEF Stands, Stays, IsSaved, AddressesFound
<1>4. FirstOnes' BY <1>3, FirstOnesStand DEF IsSaved
<1>5. AllNamed => \A c \in Accounts : \A f \in Fields(c) : chain'[named[c]].now[f] = chain[named[c]].now[f]
  BY <1>1, <1>2 DEF AllNamed, AddressesFound
<1>6. /\ \A c \in DOMAIN saved' : saved'[c] \in DOMAIN chain' /\ saved'[c][1] = c
      /\ \A b \in DOMAIN chain : b \in DOMAIN chain'
  BY <1>1, <1>2 DEF AddressesFound
<1>7. IsNamed("SideTokenFactory") /\ ~AllNamed =>
        "SideTokenFactory" \in DOMAIN saved' /\ saved'["SideTokenFactory"] = saved["SideTokenFactory"]
  BY DEF Sound, NamesSound, IsSaved
<1>8. Sound' BY <1>2, <1>4, <1>5, <1>6, <1>7, SoundStays
<1> QED BY <1>3, <1>8

LEMMA HandOverAdminStays == IInv /\ HandOverProxyAdmin => IInv'
<1> SUFFICES ASSUME IInv, HandOverProxyAdmin PROVE IInv'
  OBVIOUS
<1> DEFINE c == "ProxyAdmin"
<1>1. At(2, 1) /\ Return /\ UNCHANGED <<net, named, saved, source, torn, pending>>
  BY DEF HandOverProxyAdmin, OnlyChain
<1>2. run # Idle
  <2>1. Idle.script = 0 BY DEF Idle
  <2> QED BY <1>1, <2>1 DEF At
<1>3. Sound /\ RunSound BY DEF IInv
<1>4. ~AllNamed /\ ~complete /\ IsSaved(c) BY <1>1 DEF IInv, HalfDone
<1>5. IsSaved("MultiSigWallet") BY <1>3, <1>4 DEF Sound, FirstOnes
<1>6. Set(saved[c], "owner", saved["MultiSigWallet"])
  BY <1>3, <1>4, InUse DEF HandOverProxyAdmin, Accounts
<1>7. "owner" \in Fields(c) \ Lasting(c) BY DEF Fields, Lasting
<1>8. complete' \in BOOLEAN BY <1>1, <1>3 DEF Return, Sound
<1>9. /\ \A d : d # c => Stands(d)
      /\ Stays(c)
      /\ chain'[saved[c]].now.owner = saved["MultiSigWallet"]
      /\ FirstOnes' => Sound'
  BY <1>1, <1>3, <1>4, <1>6, <1>7, <1>8, OwnSet DEF Accounts
<1>10. FirstOnes'
  <2>1. IsSaved("MultiSigWallet")' => Born("MultiSigWallet")' = [required |-> 1]
    BY <1>1, <1>3, <1>4, <1>9 DEF Sound, FirstOnes, Stands, Stays, IsSaved, Born
  <2>2. IsSaved("SideTokenFactory")' => Born("SideTokenFactory")' = [primary |-> Deployer]
    BY <1>1, <1>3, <1>4, <1>9 DEF Sound, FirstOnes, Stands, Stays, IsSaved, Born
  <2>3. /\ Born(c)' = [owner |-> Deployer]
        /\ IsSaved("MultiSigWallet")'
        /\ Now(c).owner' = saved'["MultiSigWallet"]
    BY <1>1, <1>3, <1>4, <1>5, <1>9 DEF Sound, FirstOnes, Stands, Stays, IsSaved, Born, Now
  <2> QED BY <2>1, <2>2, <2>3 DEF FirstOnes
<1>11. Deploying => Done(3)'
  <2>1. run.script = 2 BY <1>1 DEF At
  <2>2. Deploying => Done(2) BY <2>1 DEF IInv
  <2>3. Done(2) => Done(3) BY <1>4 DEF Done
  <2> QED BY <1>1, <1>9, <2>2, <2>3, DoneStays DEF Stands
<1>12. run.script = 2 BY <1>1 DEF At
<1> QED BY <1>1, <1>2, <1>4, <1>9, <1>10, <1>11, <1>12, Returns

LEMMA SetTokensStays == IInv /\ SetTokens => IInv'
<1> SUFFICES ASSUME IInv, SetTokens PROVE IInv'
  OBVIOUS
<1> DEFINE c == "AllowTokensProxy"
<1>1. At(10, 0) BY DEF SetTokens
<1>2. run # Idle /\ ~At(2, 1)
  <2>1. Idle.script = 0 BY DEF Idle
  <2> QED BY <1>1, <2>1 DEF At
<1>3. Sound /\ RunSound /\ run.script = 10 BY <1>1 DEF IInv, At
<1>4. Deploying /\ Done(10) BY <1>3, RunOfScript DEF IInv
<1>5. CASE AllNamed
  <2>1. IsNamed(c) BY <1>5 DEF AllNamed, IsNamed, Accounts
  <2>2. NoChange /\ Return BY <2>1 DEF SetTokens
  <2> QED BY <1>1, <1>5, <2>2, PassNamed
<1>6. CASE ~AllNamed
  <2>1. ~IsNamed(c) /\ Address(c) = saved[c] /\ Address("MultiSigWallet") = saved["MultiSigWallet"]
    BY <1>3, <1>6, InUse DEF Accounts
  <2>2. CASE Now(c).owner = saved["MultiSigWallet"]
    <3>1. NoChange /\ Return BY <2>1, <2>2 DEF SetTokens, Has, Now
    <3>2. Done(11) BY <1>4, <1>6, <2>2 DEF Done
    <3> QED BY <1>2, <1>3, <3>1, <3>2, NothingToDo
  <2>3. CASE Now(c).owner # saved["MultiSigWallet"]
    <3>1. /\ IF HasTokens THEN Set(saved[c], "tokens", {Listed}) ELSE UNCHANGED chain
          /\ OnlyChain /\ GoOn
      BY <2>1, <2>3 DEF SetTokens, Has, Now
    <3>2. UNCHANGED <<net, named, saved, source, torn, pending>> BY <3>1 DEF OnlyChain
    <3>3. ~complete BY <1>6, <2>3 DEF IInv, Done
    <3>4. /\ RunSound' /\ ~At(2, 1)' /\ complete' = complete /\ run'.script = 10
      BY <1>1, <1>2, <1>3, <3>1, GoOnInRun DEF At
    <3>5. complete' \in BOOLEAN /\ \A call \in pending' : call.field \notin AskedFor
      BY <1>3, <3>2, <3>4 DEF Sound
    <3>6. Sound' /\ \A d : Stands(d)
      <4>1. CASE HasTokens
        BY <1>2, <1>3, <3>1, <3>2, <3>5, <4>1, OtherSet DEF AskedFor
      <4>2. CASE ~HasTokens
        BY <1>2, <1>3, <3>1, <3>2, <3>5, <4>2, NothingSet
      <4> QED BY <4>1, <4>2
    <3>7. HalfDone' BY <1>6, <3>2, <3>3, <3>4 DEF HalfDone, AllNamed
    <3>8. Done(10)' BY <1>4, <3>2, <3>6, DoneStands
    <3> QED BY <3>3, <3>4, <3>6, <3>7, <3>8 DEF IInv
  <2> QED BY <2>2, <2>3
<1> QED BY <1>5, <1>6

\* 10, its second step.
LEMMA HandOverAllowTokensStays == IInv /\ HandOverAllowTokens => IInv'
<1> SUFFICES ASSUME IInv, HandOverAllowTokens PROVE IInv'
  OBVIOUS
<1> DEFINE c == "AllowTokensProxy"
<1>1. At(10, 1) /\ Return /\ UNCHANGED <<net, named, saved, source, torn, pending>>
  BY DEF HandOverAllowTokens, OnlyChain
<1>2. run # Idle /\ ~At(2, 1)
  <2>1. Idle.script = 0 BY DEF Idle
  <2> QED BY <1>1, <2>1 DEF At
<1>3. Sound /\ RunSound /\ run.script = 10 BY <1>1 DEF IInv, At
<1>4. ~AllNamed /\ ~complete BY <1>1 DEF IInv, HalfDone
<1>5. Deploying /\ Done(10) BY <1>3, RunOfScript DEF IInv
<1>6. IsSaved(c) BY <1>4, <1>5 DEF Done, IsDeployed
<1>7. Set(saved[c], "owner", saved["MultiSigWallet"])
  BY <1>3, <1>4, InUse DEF HandOverAllowTokens, Accounts
<1>8. complete' \in BOOLEAN /\ "owner" \in Fields(c) \ Lasting(c)
  BY <1>1, <1>3 DEF Return, Sound, Fields, Lasting
<1>9. /\ \A d : d # c => Stands(d)
      /\ Stays(c)
      /\ chain'[saved[c]].now.owner = saved["MultiSigWallet"]
      /\ Sound'
  BY <1>1, <1>2, <1>3, <1>4, <1>6, <1>7, <1>8, OwnSet DEF Accounts
<1>10. Done(10)' BY <1>1, <1>5, <1>9, DoneStays DEF Stands
<1>11. Done(11)' BY <1>1, <1>9, <1>10 DEF Done, Now
<1> QED BY <1>1, <1>2, <1>3, <1>4, <1>9, <1>11, Returns

\* A run that throws leaves everything as it is.
LEMMA ThrowStays ==
  ASSUME IInv, ~At(2, 1), Throw
  PROVE  IInv'
<1>1. UNCHANGED <<net, named, saved, chain, source, complete, torn, pending>> /\ run' = Idle BY DEF Throw
<1>2. complete' \in BOOLEAN BY <1>1 DEF IInv, Sound
<1>3. Sound' /\ \A c : Stands(c) BY <1>1, <1>2, NothingSet DEF IInv
<1>4. complete => Done(14)' BY <1>1, <1>3, DoneStands DEF IInv
<1>5. RunSound' /\ ~Deploying' BY <1>1 DEF RunSound, Deploying
<1>6. HalfDone'
  <2>1. Idle.script = 0 BY DEF Idle
  <2> QED BY <1>1, <2>1 DEF HalfDone, At
<1> QED BY <1>1, <1>3, <1>4, <1>5, <1>6 DEF IInv

LEMMA TransferStays == IInv /\ TransferFactory => IInv'
<1> SUFFICES ASSUME IInv, TransferFactory PROVE IInv'
  OBVIOUS
<1> DEFINE c == "SideTokenFactory"
           p == Has(c).primary
<1>1. At(11, 0) BY DEF TransferFactory
<1>2. run # Idle /\ ~At(2, 1)
  <2>1. Idle.script = 0 BY DEF Idle
  <2> QED BY <1>1, <2>1 DEF At
<1>3. Sound /\ RunSound /\ run.script = 11 BY <1>1 DEF IInv, At
<1>4. Deploying /\ Done(11) BY <1>3, RunOfScript DEF IInv
<1>5. CASE IsNamed(c) /\ NoChange /\ Return
  <2>1. Done(12) BY <1>4, <1>5 DEF Done
  <2> QED BY <1>2, <1>3, <1>5, <2>1, NothingToDo
<1>6. ASSUME ~IsNamed(c)
      PROVE  /\ ~AllNamed /\ IsSaved(c) /\ p = Now(c).primary
             /\ complete => Now(c).primary = saved["BridgeProxy"]
  <2>1. ~AllNamed BY <1>6 DEF AllNamed, IsNamed, Accounts
  <2>2. Address(c) = saved[c] BY <1>3, <2>1, InUse
  <2> QED BY <1>4, <1>6, <2>1, <2>2 DEF Done, IInv, Has, Now
<1>7. CASE ~IsNamed(c) /\ p = saved["BridgeProxy"] /\ NoChange /\ Return
  <2>1. Done(12) BY <1>4, <1>6, <1>7 DEF Done
  <2> QED BY <1>2, <1>3, <1>7, <2>1, NothingToDo
<1>8. CASE /\ ~IsNamed(c) /\ p # saved["BridgeProxy"]
           /\ Set(saved[c], "primary", saved["BridgeProxy"]) /\ OnlyChain /\ Return
  <2>1. UNCHANGED <<net, named, saved, source, torn, pending>> BY <1>8 DEF OnlyChain
  <2>2. ~complete BY <1>6, <1>8
  <2>3. complete' \in BOOLEAN /\ "primary" \in Fields(c) \ Lasting(c)
    BY <1>3, <1>8 DEF Return, Sound, Fields, Lasting
  <2>4. /\ \A d : d # c => Stands(d)
        /\ Stays(c)
        /\ chain'[saved[c]].now.primary = saved["BridgeProxy"]
        /\ Sound'
    BY <1>2, <1>3, <1>6, <1>8, <2>1, <2>3, OwnSet DEF Accounts
  <2>5. Done(11)'
    <3>1. IsSaved("AllowTokensProxy") BY <1>4, <1>6, <1>8 DEF Done, IsDeployed
    <3>2. chain'[saved["AllowTokensProxy"]].now.owner = chain[saved["AllowTokensProxy"]].now.owner
      BY <2>4, <3>1 DEF Stands, Fields
    <3> QED BY <1>4, <2>1, <2>4, <3>2, DoneStays DEF Stands
  <2>6. Done(12)' BY <2>1, <2>4, <2>5 DEF Done, Now
  <2> QED BY <1>2, <1>3, <1>8, <2>2, <2>4, <2>6, Returns
<1>9. CASE Throw BY <1>2, <1>9, ThrowStays
<1>10. CASE ~IsNamed(c) /\ p = saved["BridgeProxy"] /\ p = Deployer
  <2>1. Deployer[1] # "BridgeProxy" BY DEF Deployer
  <2>2. IsSaved("BridgeProxy") BY <1>4, <1>6, <1>10 DEF Done, IsDeployed
  <2>3. saved["BridgeProxy"][1] = "BridgeProxy" BY <1>3, <2>2 DEF Sound, AddressesFound, IsSaved
  <2> QED BY <1>10, <2>1, <2>3
<1> QED BY <1>5, <1>7, <1>8, <1>9, <1>10 DEF TransferFactory

\* 12 and 13, for the k-th script, which has the bridge know c.
LEMMA ChangeStays ==
  ASSUME IInv, NEW k \in {12, 13}, NEW c \in {"FederationProxy", "AllowTokensProxy"},
         NEW field \in {"federation", "allowTokens"},
         <<k, c, field>> \in {<<12, "FederationProxy", "federation">>, <<13, "AllowTokensProxy", "allowTokens">>},
         ChangeBridge(k, c, field)
  PROVE  IInv'
<1> DEFINE b == "BridgeProxy"
<1>1. At(k, 0) /\ Return BY DEF ChangeBridge
<1>2. run # Idle /\ ~At(2, 1)
  <2>1. Idle.script = 0 BY DEF Idle
  <2> QED BY <1>1, <2>1 DEF At
<1>3. Sound /\ RunSound /\ run.script = k BY <1>1 DEF IInv, At
<1>4. Deploying /\ Done(k) BY <1>3, RunOfScript DEF IInv
<1>5. CASE AllNamed
  <2>1. IsNamed(c) BY <1>5 DEF AllNamed, IsNamed, Accounts
  <2>2. NoChange BY <2>1 DEF ChangeBridge
  <2> QED BY <1>1, <1>5, <2>2, PassNamed
<1>6. CASE ~AllNamed
  <2>1. ~IsNamed(c) /\ Address(c) = saved[c] /\ Address(b) = saved[b] /\ net # "known"
    BY <1>3, <1>6, InUse DEF Accounts
  <2>2. Set(saved[b], field, saved[c]) /\ UNCHANGED <<net, named, saved, source, torn, pending>>
    BY <2>1 DEF ChangeBridge, Submit
  <2>3. complete' \in BOOLEAN /\ field \in Fields(b) \ Lasting(b)
    BY <1>1, <1>3 DEF Return, Sound, Fields, Lasting
  <2>4. IsSaved(b) BY <1>4, <1>6 DEF Done, IsDeployed
  <2>5. /\ \A d : d # b => Stands(d)
        /\ Stays(b)
        /\ \A f \in Fields(b) : chain'[saved[b]].now[f] = IF f = field THEN saved[c] ELSE chain[saved[b]].now[f]
        /\ Sound'
    BY <1>2, <1>3, <1>6, <2>2, <2>3, <2>4, OwnSet DEF Accounts
  <2>6. complete => Done(14)'
    <3> SUFFICES ASSUME complete PROVE Done(14)'
      OBVIOUS
    <3>1. Now(b)[field] = saved[c] BY <1>6 DEF IInv, Done
    <3>2. chain' = chain
      <4>1. saved[b] \in DOMAIN chain /\ ChainFormed BY <1>3, <2>4 DEF Sound, AddressesFound, IsSaved
      <4> QED BY <2>2, <3>1, <4>1, SetSame DEF Now
    <3>3. \A d : Stands(d) BY <2>2, <3>2 DEF Stands, Stays, IsSaved
    <3> QED BY <2>2, <3>3, DoneStands DEF IInv
  <2>7. Done(k)'
    <3>1. IsSaved("AllowTokensProxy") /\ IsSaved("SideTokenFactory")
      BY <1>4, <1>6 DEF Done, IsDeployed
    <3>2. /\ chain'[saved["AllowTokensProxy"]].now.owner = chain[saved["AllowTokensProxy"]].now.owner
          /\ chain'[saved["SideTokenFactory"]].now.primary = chain[saved["SideTokenFactory"]].now.primary
      BY <2>5, <3>1 DEF Stands, Fields
    <3>3. k > 12 => chain'[saved[b]].now.federation = chain[saved[b]].now.federation
      BY <2>5 DEF Fields
    <3>4. \A d : Stays(d) BY <2>5 DEF Stands
    <3>5. k \in Nat /\ ~(k > 13) OBVIOUS
    <3> QED BY <1>4, <2>2, <3>2, <3>3, <3>4, <3>5, DoneStays
  <2>8. chain'[saved[b]].now[field] = saved[c] BY <2>3, <2>5
  <2>9. Done(k + 1)'
    <3>1. CASE k = 12 BY <2>2, <2>7, <2>8, <3>1 DEF Done, Now
    <3>2. CASE k = 13 BY <2>2, <2>7, <2>8, <3>2 DEF Done, Now
    <3> QED BY <3>1, <3>2
  <2> QED BY <1>1, <1>2, <1>3, <2>5, <2>6, <2>9, Returns
<1> QED BY <1>5, <1>6

-----------------------------------------------------------------------------
(* The scripts after the 13th, and the operator.                            *)

LEMMA SubmitKeeps ==
  ASSUME Sound, ~At(2, 1), NEW a, NEW field, field \notin AskedFor, NEW v,
         Submit(a, field, v), complete' \in BOOLEAN
  PROVE  Sound' /\ (\A c : Stands(c)) /\ UNCHANGED <<net, named, source>>
<1>1. UNCHANGED <<net, named, saved, source, torn>> BY DEF Submit
<1>2. CASE net = "known"
  <2>1. pending' = pending \cup {[to |-> a, field |-> field, value |-> v]} /\ UNCHANGED chain
    BY <1>2 DEF Submit
  <2>2. \A call \in pending' : call.field \notin AskedFor BY <2>1 DEF Sound
  <2>3. ChainFormed' BY <2>1 DEF Sound, ChainFormed, Formed
  <2>4. \A c : Stands(c) BY <1>1, <2>1 DEF Stands, Stays, IsSaved
  <2>5. FirstOnes' BY <1>1, <2>4, FirstOnesStand DEF IsSaved
  <2>6. /\ \A c \in DOMAIN saved' : saved'[c] \in DOMAIN chain' /\ saved'[c][1] = c
        /\ \A b \in DOMAIN chain : b \in DOMAIN chain'
    BY <1>1, <2>1 DEF Sound, AddressesFound
  <2>7. IsNamed("SideTokenFactory") /\ ~AllNamed =>
          "SideTokenFactory" \in DOMAIN saved' /\ saved'["SideTokenFactory"] = saved["SideTokenFactory"]
    BY <1>1 DEF Sound, NamesSound, IsSaved
  <2> QED BY <1>1, <2>1, <2>2, <2>3, <2>4, <2>5, <2>6, <2>7, SoundStays
<1>3. CASE net # "known"
  <2>1. Set(a, field, v) /\ UNCHANGED pending BY <1>3 DEF Submit
  <2>2. \A call \in pending' : call.field \notin AskedFor BY <2>1 DEF Sound
  <2> QED BY <1>1, <2>1, <2>2, OtherSet
<1> QED BY <1>2, <1>3

LEMMA LateReturns ==
  ASSUME IInv, NEW k \in Nat, k = run.script, k > 13, Return, Sound', \A c : Stands(c),
         UNCHANGED <<net, named, source>>
  PROVE  IInv'
<1>1. run # Idle
  <2>1. Idle.script = 0 BY DEF Idle
  <2> QED BY <2>1
<1>2. complete => Done(14)' BY DoneStands DEF IInv
<1>3. Deploying => Done(k)' BY DoneStands DEF IInv
<1>4. Deploying => Done(k + 1)' BY <1>3, DoneLess
<1> QED BY <1>1, <1>2, <1>4, Returns

LEMMA LateGoesOn ==
  ASSUME IInv, NEW k \in Nat, k = run.script, k > 13, GoOn, Sound', \A c : Stands(c),
         UNCHANGED <<net, named, source>>
  PROVE  IInv'
<1>1. run # Idle
  <2>1. Idle.script = 0 BY DEF Idle
  <2> QED BY <2>1
<1>2. complete => Done(14)' BY DoneStands DEF IInv
<1>3. Deploying => Done(k)' BY DoneStands DEF IInv
<1>4. RunSound' /\ run'.script = k /\ (Deploying' <=> Deploying) /\ complete' = complete
  BY <1>1, GoOnInRun DEF IInv
<1>5. HalfDone' BY <1>4 DEF HalfDone, At
<1> QED BY <1>2, <1>3, <1>4, <1>5 DEF IInv

LEMMA TokenStays ==
  ASSUME IInv, NEW k \in {14, 15}, NEW c \in {"MainToken", "WRBTC"}, DeployUnlessLive(k, c)
  PROVE  IInv'
<1>1. At(k, 0) /\ Return /\ (IF Live THEN NoChange ELSE Deploy(c, [supply |-> k]))
  BY DEF DeployUnlessLive
<1>2. run.script = k /\ ~At(2, 1) BY <1>1 DEF At
<1>3. complete' \in BOOLEAN /\ Sound BY <1>1 DEF Return, IInv, Sound
<1>4. CASE NoChange
  <2>1. UNCHANGED <<net, named, saved, chain, source, torn, pending>> BY <1>4 DEF NoChange, OnlyChain
  <2>2. Sound' /\ \A d : Stands(d) BY <1>2, <1>3, <2>1, NothingSet
  <2> QED BY <1>1, <1>2, <2>1, <2>2, LateReturns
<1>5. CASE Deploy(c, [supply |-> k])
  <2> DEFINE r == [supply |-> k]
  <2>1. IsAFunction(r) /\ Fields(c) \subseteq DOMAIN r BY DEF IsAFunction, Fields
  <2> HIDE DEF r
  <2>2. /\ Sound' /\ (\A d : d # c => Stands(d)) /\ UNCHANGED <<net, named, source>>
    BY <1>2, <1>3, <1>5, <2>1, DeployKeeps DEF Accounts, r
  <2>3. complete => Done(14)'
    BY <2>2, DoneStands DEF IInv, Accounts, Logic
  <2>4. Deploying => Done(k)'
    BY <1>2, <2>2, DoneStands DEF IInv, Accounts, Logic
  <2>5. Deploying => Done(k + 1)' BY <2>4, DoneLess
  <2>6. run # Idle
    <3>1. Idle.script = 0 BY DEF Idle
    <3> QED BY <1>2, <3>1
  <2> QED BY <1>1, <1>2, <2>2, <2>3, <2>5, <2>6, Returns
<1> QED BY <1>1, <1>4, <1>5

LEMMA LateStays ==
  ASSUME IInv, SetWrappedCurrency \/ AllowWrapped \/ InitDomainSeparator \/ AllowMainToken \/ WriteConfig
               \/ UpgradeBridge \/ UpgradeFederation
  PROVE  IInv'
<1>1. PICK k \in {17, 30, 101, 102} : run.script = k
  BY DEF SetWrappedCurrency, AllowWrapped, InitDomainSeparator, AllowMainToken, WriteConfig,
         UpgradeBridge, UpgradeFederation, UpgradeProxy, At
<1>2. ~At(2, 1) /\ Sound BY <1>1 DEF At, IInv
<1>3. CASE Throw BY <1>2, <1>3, ThrowStays
<1>4. ASSUME UNCHANGED <<net, named, saved, chain, source, torn, pending>>, Return \/ GoOn
      PROVE  IInv'
  <2>1. complete' \in BOOLEAN BY <1>2, <1>4 DEF Return, GoOn, Sound
  <2>2. Sound' /\ \A c : Stands(c) BY <1>2, <1>4, <2>1, NothingSet
  <2> QED BY <1>1, <1>4, <2>2, LateReturns, LateGoesOn
<1>5. ASSUME NEW a, NEW field \in {"tokens", "wrapped", "code"}, NEW v, Submit(a, field, v), Return \/ GoOn
      PROVE  IInv'
  <2>1. complete' \in BOOLEAN BY <1>2, <1>5 DEF Return, GoOn, Sound
  <2>2. field \notin AskedFor BY DEF AskedFor
  <2>3. Sound' /\ (\A c : Stands(c)) /\ UNCHANGED <<net, named, source>>
    BY <1>2, <1>5, <2>1, <2>2, SubmitKeeps
  <2> QED BY <1>1, <1>5, <2>3, LateReturns, LateGoesOn
<1>6. CASE SetWrappedCurrency
  BY <1>3, <1>4, <1>5, <1>6 DEF SetWrappedCurrency, NoChange, OnlyChain
<1>7. CASE AllowWrapped BY <1>5, <1>7 DEF AllowWrapped, AllowToken
<1>8. CASE InitDomainSeparator BY <1>3, <1>8 DEF InitDomainSeparator
<1>9. CASE AllowMainToken
  BY <1>3, <1>4, <1>5, <1>9 DEF AllowMainToken, AllowToken, NoChange, OnlyChain
<1>10. CASE WriteConfig BY <1>4, <1>10 DEF WriteConfig
<1>11. CASE UpgradeBridge \/ UpgradeFederation
  BY <1>3, <1>5, <1>11 DEF UpgradeBridge, UpgradeFederation, UpgradeProxy
<1> QED BY <1>6, <1>7, <1>8, <1>9, <1>10, <1>11

LEMMA ScriptStays ==
  ASSUME IInv, Script
  PROVE  IInv'
<1>1. CASE ChangeFederation BY <1>1, ChangeStays DEF ChangeFederation
<1>2. CASE ChangeAllowTokens BY <1>2, ChangeStays DEF ChangeAllowTokens
<1>3. CASE DeployMainToken \/ DeployWRBTC BY <1>3, TokenStays DEF DeployMainToken, DeployWRBTC
<1> QED
  BY <1>1, <1>2, <1>3, MultiSigStays, ProxyAdminStays, HandOverAdminStays, FactoryStays, LogicStays,
     BridgeProxyStays, FederationProxyStays, AllowTokensProxyStays, SetTokensStays,
     HandOverAllowTokensStays, TransferStays, LateStays
     DEF Script

LEMMA StartStays ==
  ASSUME IInv, NEW tag \in Tags, Start(tag)
  PROVE  IInv'
<1> DEFINE k == Min(Scripts(tag))
<1>1. run = Idle /\ run' = [tag |-> tag, script |-> k, step |-> 0] /\ UNCHANGED <<net, named, source, pending>>
  BY DEF Start
<1>2. k \in Scripts(tag) /\ k \in Nat /\ (tag # "Upgrade" => k <= 1)
  BY ScriptsNumbered, MinIsLeast
<1> HIDE DEF k
<1>3. run'.tag = tag /\ run'.script = k /\ run'.step = 0 BY <1>1
<1>4. RunSound' BY <1>1, <1>2, <1>3 DEF RunSound
<1>5. HalfDone' BY <1>3 DEF HalfDone, At
<1>6. Deploying' => Done(run.script)' BY <1>2, <1>3 DEF Done, Deploying
<1>7. CASE Saves
  <2>1. UNCHANGED <<saved, chain, complete, torn>> BY <1>7 DEF Start
  <2>2. ~At(2, 1) BY <1>1 DEF At, Idle
  <2>3. complete' \in BOOLEAN BY <2>1 DEF IInv, Sound
  <2>4. Sound' /\ \A c : Stands(c) BY <1>1, <2>1, <2>2, <2>3, NothingSet DEF IInv
  <2>5. complete => Done(14)' BY <1>1, <2>4, DoneStands DEF IInv
  <2> QED BY <1>4, <1>5, <1>6, <2>1, <2>4, <2>5 DEF IInv
<1>8. CASE ~Saves
  <2>1. net = "local" /\ DOMAIN named = {} BY <1>8 DEF Saves, IInv, Sound, NamesSound
  <2>2. saved' = Empty /\ chain' = Empty /\ complete' = FALSE /\ torn' = FALSE BY <1>8 DEF Start
  <2>3. DOMAIN Empty = {} /\ Empty = [a \in {} |-> Empty[a]] BY DEF Empty
  <2>4. ChainFormed' BY <2>2, <2>3 DEF ChainFormed
  <2>5. AddressesFound' /\ NamesSound'
    BY <1>1, <2>1, <2>2, <2>3 DEF AddressesFound, NamesSound, IsNamed
  <2>6. FirstOnes' BY <2>2, <2>3 DEF FirstOnes, IsSaved
  <2>7. NamedServe' BY <1>1, <2>1 DEF NamedServe, AllNamed, Accounts
  <2>8. Sound' BY <1>1, <2>2, <2>4, <2>5, <2>6, <2>7 DEF IInv, Sound
  <2> QED BY <1>4, <1>5, <1>6, <2>2, <2>8 DEF IInv
<1> QED BY <1>7, <1>8

LEMMA IdleStays ==
  ASSUME IInv, run' = Idle, Sound', complete' => Done(14)'
  PROVE  IInv'
<1>1. Idle.script = 0 BY DEF Idle
<1>2. RunSound' /\ ~Deploying' BY DEF RunSound, Deploying
<1>3. HalfDone' BY <1>1 DEF HalfDone, At
<1> QED BY <1>2, <1>3 DEF IInv

LEMMA FailStays == IInv /\ Fail => IInv'
<1> SUFFICES ASSUME IInv, Fail PROVE IInv'
  OBVIOUS
<1>1. /\ run' = Idle /\ torn' = (torn \/ At(2, 1))
      /\ UNCHANGED <<net, named, saved, chain, source, complete, pending>>
  BY DEF Fail
<1>2. \A c : Stands(c) BY <1>1 DEF Stands, Stays, IsSaved
<1>3. complete => Done(14)' BY <1>1, <1>2, DoneStands DEF IInv
<1>4. Sound'
  <2>1. Sound BY DEF IInv
  <2>2. torn' \in BOOLEAN /\ complete' \in BOOLEAN BY <1>1, <2>1 DEF Sound, At
  <2>3. ChainFormed' BY <1>1, <2>1 DEF Sound, ChainFormed, Formed
  <2>4. AddressesFound' BY <1>1, <2>1 DEF Sound, AddressesFound
  <2>5. NamesSound' BY <1>1, <2>1 DEF Sound, NamesSound, IsNamed, IsSaved, AllNamed
  <2>6. FirstOnes' BY <1>1, <2>1 DEF Sound, FirstOnes, IsSaved, Born, Now, AllNamed
  <2>7. NamedServe' BY <1>1, <2>1 DEF Sound, NamedServe, AllNamed
  <2> QED BY <1>1, <2>1, <2>2, <2>3, <2>4, <2>5, <2>6, <2>7 DEF Sound
<1> QED BY <1>1, <1>3, <1>4, IdleStays

LEMMA ConfirmStays ==
  ASSUME IInv, NEW call \in pending, Confirm(call)
  PROVE  IInv'
<1>1. /\ Set(call.to, call.field, call.value) /\ pending' = pending \ {call}
      /\ UNCHANGED <<net, named, saved, source, run, complete, torn>>
  BY DEF Confirm
<1>2. Sound BY DEF IInv
<1>3. call.field \notin AskedFor /\ complete' \in BOOLEAN /\ \A d \in pending' : d.field \notin AskedFor
  BY <1>1, <1>2 DEF Sound
<1>4. At(2, 1) => At(2, 1)' BY <1>1 DEF At
<1>5. Sound' /\ \A c : Stands(c) BY <1>1, <1>2, <1>3, <1>4, OtherSet
<1>6. complete => Done(14)' BY <1>1, <1>5, DoneStands DEF IInv
<1>7. Deploying => Done(run.script)'
  <2> SUFFICES ASSUME Deploying, NEW k \in Nat, k = run.script PROVE Done(k)'
    <3>1. Deploying => run.script \in Nat BY ScriptsNumbered DEF IInv, RunSound, Deploying
    <3> QED BY <1>1, <3>1
  <2> QED BY <1>1, <1>5, DoneStands DEF IInv
<1>8. RunSound' /\ (Deploying' <=> Deploying) BY <1>1 DEF IInv, RunSound, Deploying
<1>9. HalfDone' BY <1>1 DEF IInv, HalfDone, At, AllNamed, IsSaved
<1> QED BY <1>1, <1>5, <1>6, <1>7, <1>8, <1>9 DEF IInv

LEMMA RecompileStays ==
  ASSUME IInv, NEW c, Recompile(c)
  PROVE  IInv'
<1>1. run = Idle /\ run' = Idle /\ complete' = FALSE /\ UNCHANGED <<net, named, saved, chain, torn, pending>>
  BY DEF Recompile
<1>2. ~At(2, 1) BY <1>1 DEF At, Idle
<1>3. complete' \in BOOLEAN BY <1>1
<1>4. Sound' BY <1>1, <1>2, <1>3, NothingSet DEF IInv
<1> QED BY <1>1, <1>4, IdleStays

\* All of it done, the contracts in use serve each other and the wallet.
LEMMA Served ==
  ASSUME Sound, ~AllNamed, Done(14), ~At(2, 1)
  PROVE  /\ Now("BridgeProxy").federation = saved["FederationProxy"]
         /\ Now("FederationProxy").bridge = saved["BridgeProxy"]
         /\ Now("BridgeProxy").allowTokens = saved["AllowTokensProxy"]
         /\ Now("AllowTokensProxy").primary = saved["BridgeProxy"]
         /\ \A c \in {"BridgeProxy", "FederationProxy", "AllowTokensProxy"} :
              Now(c).owner = saved["MultiSigWallet"]
         /\ Now("ProxyAdmin").owner = saved["MultiSigWallet"] \/ torn
         /\ IsNamed("SideTokenFactory") \/ Now("SideTokenFactory").primary = saved["BridgeProxy"]
<1>1. /\ IsDeployed("BridgeProxy", BridgeRecord) /\ IsDeployed("FederationProxy", FederationRecord)
      /\ IsDeployed("AllowTokensProxy", AllowTokensRecord) /\ IsSaved("ProxyAdmin")
      /\ Now("AllowTokensProxy").owner = saved["MultiSigWallet"]
      /\ IsNamed("SideTokenFactory") \/ Now("SideTokenFactory").primary = saved["BridgeProxy"]
      /\ Now("BridgeProxy").federation = saved["FederationProxy"]
      /\ Now("BridgeProxy").allowTokens = saved["AllowTokensProxy"]
  BY DEF Done
<1>2. \A c : IsSaved(c) => \A f \in Lasting(c) : Now(c)[f] = Born(c)[f]
  BY DEF Sound, ChainFormed, Formed, AddressesFound, IsSaved, Now, Born
<1>3. Now("FederationProxy").bridge = saved["BridgeProxy"] /\ Now("FederationProxy").owner = saved["MultiSigWallet"]
  BY <1>1, <1>2 DEF IsDeployed, Lasting, FederationRecord, Born
<1>4. Now("BridgeProxy").owner = saved["MultiSigWallet"]
  BY <1>1, <1>2 DEF IsDeployed, Lasting, BridgeRecord, Born
<1>5. Now("AllowTokensProxy").primary = saved["BridgeProxy"]
  BY <1>1, <1>2 DEF IsDeployed, Lasting, AllowTokensRecord, Born
<1>6. Now("ProxyAdmin").owner = saved["MultiSigWallet"] \/ torn
  BY <1>1 DEF Sound, FirstOnes
<1> QED BY <1>1, <1>3, <1>4, <1>5, <1>6

LEMMA NamesStay == IInv /\ (NameFactory \/ NameAll) => IInv'
<1> SUFFICES ASSUME IInv, NameFactory \/ NameAll PROVE IInv'
  OBVIOUS
<1>1. /\ run = Idle /\ run' = Idle /\ net \notin {"known", "local"} /\ ~AllNamed
      /\ UNCHANGED <<net, saved, chain, source, complete, torn, pending>>
  <2>1. DOMAIN Empty = {} BY DEF Empty
  <2> QED BY <2>1 DEF NameFactory, NameAll, NameAccounts, Saves, AllNamed, Accounts
<1>2. Sound BY DEF IInv
<1>3. ChainFormed' /\ (complete' \in BOOLEAN) BY <1>1, <1>2 DEF Sound, ChainFormed, Formed
<1>4. CASE NameFactory
  <2>1. named' = [c \in {"SideTokenFactory"} |-> saved[c]] /\ IsSaved("SideTokenFactory")
    BY <1>4 DEF NameFactory, NameAccounts
  <2>2. DOMAIN named' = {"SideTokenFactory"} /\ named'["SideTokenFactory"] = saved["SideTokenFactory"] /\ ~AllNamed'
    BY <2>1 DEF AllNamed, Accounts
  <2>3. AddressesFound' BY <1>1, <1>2, <2>1, <2>2 DEF Sound, AddressesFound, IsSaved
  <2>4. NamesSound' BY <1>1, <2>1, <2>2 DEF NamesSound, IsSaved, IsNamed
  <2>5. FirstOnes' BY <1>1, <1>2 DEF Sound, FirstOnes, IsSaved, Born, Now, At
  <2>6. NamedServe' BY <2>2 DEF NamedServe
  <2>7. Sound' BY <1>1, <1>2, <1>3, <2>3, <2>4, <2>5, <2>6 DEF Sound
  <2>8. complete => Done(14)'
    <3>1. complete => Done(14) BY DEF IInv
    <3>2. IsNamed("SideTokenFactory")' BY <2>2 DEF IsNamed
    <3>3. BridgeRecord' = BridgeRecord /\ AllowTokensRecord' = AllowTokensRecord /\ FederationRecord' = FederationRecord
      BY <1>1 DEF BridgeRecord, AllowTokensRecord, FederationRecord, FederationConf
    <3> QED BY <1>1, <2>2, <3>1, <3>2, <3>3 DEF Done, IsDeployed, IsSaved, Now
  <2> QED BY <1>1, <2>7, <2>8, IdleStays
<1>5. CASE NameAll
  <2>1. named' = [c \in Accounts |-> saved[c]] /\ complete /\ Done(14)
    BY <1>5 DEF NameAll, NameAccounts, IInv
  <2>2. DOMAIN named' = Accounts /\ AllNamed' /\ \A c \in Accounts : named'[c] = saved[c]
    BY <2>1 DEF AllNamed
  <2>3. \A c \in Accounts : IsSaved(c)
    BY <1>1, <2>1 DEF Done, IsDeployed, Accounts
  <2>4. AddressesFound' BY <1>1, <1>2, <2>2, <2>3 DEF Sound, AddressesFound, IsSaved
  <2>5. NamesSound' BY <1>1, <2>2 DEF NamesSound
  <2>6. FirstOnes' BY <2>2 DEF FirstOnes
  <2>7. NamedServe'
    <3>1. ~At(2, 1) BY <1>1 DEF At, Idle
    <3> QED BY <1>1, <1>2, <2>1, <2>2, <3>1, Served DEF NamedServe, Now, Accounts
  <2>8. Sound' BY <1>1, <1>2, <1>3, <2>4, <2>5, <2>6, <2>7 DEF Sound
  <2>9. Done(14)' BY <1>1, <2>1, <2>2 DEF Done, IsDeployed, IsSaved
  <2> QED BY <1>1, <2>8, <2>9, IdleStays
<1> QED BY <1>4, <1>5

LEMMA InitSound == Init => IInv
<1> SUFFICES ASSUME Init PROVE IInv
  OBVIOUS
<1>1. /\ net \in Nets /\ run = Idle /\ complete = FALSE /\ pending = {} /\ torn = FALSE
      /\ source = [c \in Logic |-> 0]
  BY DEF Init
<1>2. net \in {"local", "test", "main", "known"} BY <1>1, DeploymentAssumption
<1>3. RunSound /\ ~Deploying BY <1>1 DEF RunSound, Deploying
<1>4. HalfDone
  <2>1. Idle.script = 0 BY DEF Idle
  <2> QED BY <1>1, <2>1 DEF HalfDone, At
<1>5. CASE net = "known"
  <2>1. named = [c \in Accounts |-> <<c, 1>>] /\ chain = OldSystem
        /\ saved \in {Empty, [c \in Accounts \cup Logic |-> <<c, 1>>]}
    BY <1>5 DEF Init
  <2>2. DOMAIN named = Accounts /\ AllNamed /\ \A c \in Accounts : named[c] = <<c, 1>> BY <2>1 DEF AllNamed
  <2> DEFINE A(c) == <<c, 1>>
             M == <<"MultiSigWallet", 1>>
  <2>3. /\ DOMAIN chain = {<<c, 1>> : c \in Accounts \cup Logic}
        /\ chain = [a \in DOMAIN chain |-> chain[a]]
        /\ \A c \in Accounts \cup Logic : chain[<<c, 1>>] = Standing(c)
    <3> DEFINE g(a) == Standing(a[1])
    <3>1. \A c : g(<<c, 1>>) = Standing(c)
      <4> SUFFICES ASSUME NEW c PROVE g(<<c, 1>>) = Standing(c)
        OBVIOUS
      <4>1. <<c, 1>>[1] = c OBVIOUS
      <4> QED BY <4>1
    <3>2. chain = [a \in {<<c, 1>> : c \in Accounts \cup Logic} |-> g(a)]
      BY <2>1 DEF OldSystem
    <3> HIDE DEF g
    <3> QED BY <3>1, <3>2
  <2>4. \A c \in Logic : chain[<<c, 1>>] = [born |-> [src |-> 0], now |-> [src |-> 0]]
    <3>1. /\ Standing("Bridge") = [born |-> [src |-> 0], now |-> [src |-> 0]]
          /\ Standing("Federation") = [born |-> [src |-> 0], now |-> [src |-> 0]]
          /\ Standing("AllowTokens") = [born |-> [src |-> 0], now |-> [src |-> 0]]
      BY DEF Standing, Logic
    <3> QED BY <2>3, <3>1 DEF Logic
  <2>5. chain[<<"MultiSigWallet", 1>>] = [born |-> [required |-> 2], now |-> [required |-> 2]]
    BY <2>3 DEF Standing, Accounts, Logic
  <2>6. chain[<<"ProxyAdmin", 1>>] = [born |-> [owner |-> M], now |-> [owner |-> M]]
    BY <2>3 DEF Standing, Accounts, Logic
  <2>7. chain[<<"SideTokenFactory", 1>>] =
          [born |-> [primary |-> <<"BridgeProxy", 1>>], now |-> [primary |-> <<"BridgeProxy", 1>>]]
    BY <2>3 DEF Standing, Accounts, Logic
  <2> DEFINE B == [code |-> <<"Bridge", 1>>, admin |-> <<"ProxyAdmin", 1>>, owner |-> M,
                   federation |-> <<"FederationProxy", 1>>, allowTokens |-> <<"AllowTokensProxy", 1>>,
                   factory |-> <<"SideTokenFactory", 1>>, wrapped |-> NoOne, initiated |-> TRUE]
             F == [code |-> <<"Federation", 1>>, admin |-> <<"ProxyAdmin", 1>>, bridge |-> <<"BridgeProxy", 1>>,
                   owner |-> M, conf |-> [members |-> 5, required |-> 2]]
             T == [code |-> <<"AllowTokens", 1>>, admin |-> <<"ProxyAdmin", 1>>,
                   primary |-> <<"BridgeProxy", 1>>, owner |-> M, tokens |-> {Listed}]
  <2>8. chain[<<"BridgeProxy", 1>>] = [born |-> B, now |-> B]
    BY <2>3 DEF Standing, Wired, Accounts, Logic
  <2>9. chain[<<"FederationProxy", 1>>] = [born |-> F, now |-> F]
    BY <2>3 DEF Standing, Accounts, Logic
  <2>10. chain[<<"AllowTokensProxy", 1>>] = [born |-> T, now |-> T]
    BY <2>3 DEF Standing, Accounts, Logic
  <2>11. ASSUME NEW c, NEW r, IsAFunction(r), Fields(c) \subseteq DOMAIN r
         PROVE  Formed(c, [born |-> r, now |-> r])
    BY <2>11 DEF Formed
  <2>12. \A c \in Accounts \cup Logic : Formed(c, chain[<<c, 1>>])
    <3>1. \A c \in Logic : Formed(c, chain[<<c, 1>>])
      <4>1. IsAFunction([src |-> 0]) /\ \A c \in Logic : Fields(c) \subseteq DOMAIN [src |-> 0]
        BY DEF IsAFunction, Fields, Logic
      <4> QED BY <2>4, <2>11, <4>1
    <3>2. Formed("MultiSigWallet", chain[<<"MultiSigWallet", 1>>])
      <4>1. IsAFunction([required |-> 2]) /\ Fields("MultiSigWallet") \subseteq DOMAIN [required |-> 2]
        BY DEF IsAFunction, Fields
      <4> QED BY <2>5, <2>11, <4>1
    <3>3. Formed("ProxyAdmin", chain[<<"ProxyAdmin", 1>>])
      <4>1. IsAFunction([owner |-> M]) /\ Fields("ProxyAdmin") \subseteq DOMAIN [owner |-> M]
        BY DEF IsAFunction, Fields
      <4> QED BY <2>6, <2>11, <4>1
    <3>4. Formed("SideTokenFactory", chain[<<"SideTokenFactory", 1>>])
      <4> DEFINE r == [primary |-> <<"BridgeProxy", 1>>]
      <4>1. IsAFunction(r) /\ Fields("SideTokenFactory") \subseteq DOMAIN r
        BY DEF IsAFunction, Fields
      <4> QED BY <2>7, <2>11, <4>1
    <3>5. Formed("BridgeProxy", chain[<<"BridgeProxy", 1>>])
      <4>1. IsAFunction(B) /\ Fields("BridgeProxy") \subseteq DOMAIN B
        BY DEF IsAFunction, Fields
      <4> HIDE DEF B
      <4> QED BY <2>8, <2>11, <4>1
    <3>6. Formed("FederationProxy", chain[<<"FederationProxy", 1>>])
      <4>1. IsAFunction(F) /\ Fields("FederationProxy") \subseteq DOMAIN F
        BY DEF IsAFunction, Fields
      <4> HIDE DEF F
      <4> QED BY <2>9, <2>11, <4>1
    <3>7. Formed("AllowTokensProxy", chain[<<"AllowTokensProxy", 1>>])
      <4>1. IsAFunction(T) /\ Fields("AllowTokensProxy") \subseteq DOMAIN T
        BY DEF IsAFunction, Fields
      <4> HIDE DEF T
      <4> QED BY <2>10, <2>11, <4>1
    <3> QED BY <3>1, <3>2, <3>3, <3>4, <3>5, <3>6, <3>7 DEF Accounts
  <2>13. ChainFormed
    <3>1. \A a \in DOMAIN chain : Formed(a[1], chain[a])
      <4> SUFFICES ASSUME NEW c \in Accounts \cup Logic PROVE Formed(<<c, 1>>[1], chain[<<c, 1>>])
        BY <2>3
      <4>1. <<c, 1>>[1] = c OBVIOUS
      <4> QED BY <2>12, <4>1
    <3> QED BY <2>3, <3>1 DEF ChainFormed
  <2>14. AddressesFound
    <3>1. DOMAIN Empty = {} BY DEF Empty
    <3> QED BY <2>1, <2>2, <2>3, <3>1 DEF AddressesFound
  <2>15. NamesSound BY <1>5, <2>2 DEF NamesSound
  <2>16. FirstOnes BY <2>2 DEF FirstOnes
  <2>17. NamedServe
    <3>1. \A c \in Accounts : chain[named[c]] = chain[<<c, 1>>] BY <2>2
    <3>2. /\ chain[named["BridgeProxy"]].now = B /\ chain[named["FederationProxy"]].now = F
          /\ chain[named["AllowTokensProxy"]].now = T /\ chain[named["ProxyAdmin"]].now = [owner |-> M]
      <4> HIDE DEF B, F, T, M
      <4> QED BY <3>1, <2>6, <2>8, <2>9, <2>10 DEF Accounts
    <3>3. /\ B.federation = <<"FederationProxy", 1>> /\ B.allowTokens = <<"AllowTokensProxy", 1>> /\ B.owner = M
          /\ F.bridge = <<"BridgeProxy", 1>> /\ F.owner = M
          /\ T.primary = <<"BridgeProxy", 1>> /\ T.owner = M /\ [owner |-> M].owner = M
      OBVIOUS
    <3>4. /\ named["BridgeProxy"] = <<"BridgeProxy", 1>> /\ named["FederationProxy"] = <<"FederationProxy", 1>>
          /\ named["AllowTokensProxy"] = <<"AllowTokensProxy", 1>> /\ named["MultiSigWallet"] = M
      BY <2>2 DEF Accounts
    <3> HIDE DEF B, F, T, M
    <3> QED BY <3>2, <3>3, <3>4 DEF NamedServe
  <2> QED BY <1>1, <1>2, <1>3, <1>4, <2>13, <2>14, <2>15, <2>16, <2>17 DEF IInv, Sound
<1>6. CASE net # "known"
  <2>1. named = Empty /\ chain = Empty /\ saved = Empty BY <1>6 DEF Init
  <2>2. DOMAIN Empty = {} /\ Empty = [a \in {} |-> Empty[a]] BY DEF Empty
  <2>3. ChainFormed BY <2>1, <2>2 DEF ChainFormed
  <2>4. AddressesFound /\ NamesSound
    BY <1>6, <2>1, <2>2 DEF AddressesFound, NamesSound, IsNamed
  <2>5. FirstOnes BY <2>1, <2>2 DEF FirstOnes, IsSaved
  <2>6. NamedServe BY <2>1, <2>2 DEF NamedServe, AllNamed, Accounts
  <2> QED BY <1>1, <1>2, <1>3, <1>4, <2>3, <2>4, <2>5, <2>6 DEF IInv, Sound
<1> QED BY <1>5, <1>6

LEMMA StepSound == IInv /\ [Next]_vars => IInv'
<1> SUFFICES ASSUME IInv, [Next]_vars PROVE IInv'
  OBVIOUS
<1>1. CASE Script BY <1>1, ScriptStays
<1>2. CASE Operator BY <1>2, StartStays, RecompileStays, NamesStay DEF Operator
<1>3. CASE Fail BY <1>3, FailStays
<1>4. ASSUME NEW call \in pending, Confirm(call) PROVE IInv' BY <1>4, ConfirmStays
<1>5. CASE UNCHANGED vars
  <2>1. UNCHANGED <<net, named, saved, chain, source, run, complete, pending, torn>> BY <1>5 DEF vars
  <2>2. Sound BY DEF IInv
  <2>3. ChainFormed' /\ AddressesFound' BY <2>1, <2>2 DEF Sound, ChainFormed, Formed, AddressesFound
  <2>4. NamesSound' BY <2>1, <2>2 DEF Sound, NamesSound, IsNamed, IsSaved, AllNamed
  <2>5. FirstOnes' BY <2>1, <2>2 DEF Sound, FirstOnes, IsSaved, Born, Now, AllNamed, At
  <2>6. NamedServe' BY <2>1, <2>2 DEF Sound, NamedServe, AllNamed
  <2>7. Sound' BY <2>1, <2>2, <2>3, <2>4, <2>5, <2>6 DEF Sound
  <2>8. \A c : Stands(c) BY <2>1 DEF Stands, Stays, IsSaved
  <2>9. complete' => Done(14)' BY <2>1, <2>8, DoneStands DEF IInv
  <2>10. Deploying => Done(run.script)'
    <3> SUFFICES ASSUME Deploying, NEW k \in Nat, k = run.script PROVE Done(k)'
      <4>1. Deploying => run.script \in Nat BY ScriptsNumbered DEF IInv, RunSound, Deploying
      <4> QED BY <2>1, <4>1
    <3> QED BY <2>1, <2>8, DoneStands DEF IInv
  <2>11. RunSound' /\ (Deploying' <=> Deploying) /\ HalfDone'
    BY <2>1 DEF IInv, RunSound, Deploying, HalfDone, At, AllNamed, IsSaved
  <2> QED BY <2>7, <2>9, <2>10, <2>11 DEF IInv
<1> QED BY <1>1, <1>2, <1>3, <1>4, <1>5 DEF Next

\* Whatever fails, is compiled anew or written into the configuration between
\* two scripts of a run or two runs, the script that comes next finds what the
\* scripts before it make: the order of deploy/01 ... 14 is enough.
THEOREM ScriptsPrepare == Spec => []IInv
BY InitSound, StepSound, PTL DEF Spec

LEMMA CompleteServes ==
  ASSUME IInv, complete
  PROVE  WiredWhenComplete /\ HandedOverWhenComplete
<1>1. Sound /\ Done(14) BY DEF IInv
<1>2. CASE AllNamed
  <2>1. \A c \in Accounts : IsNamed(c) /\ Address(c) = named[c] BY <1>2 DEF AllNamed, IsNamed, Address
  <2> QED BY <1>1, <1>2, <2>1 DEF Sound, NamedServe, WiredWhenComplete, HandedOverWhenComplete, Has, Accounts
<1>3. CASE ~AllNamed
  <2>1. ~At(2, 1) BY DEF IInv, HalfDone
  <2>2. \A c : Address(c) = saved[c] BY <1>1, <1>3, InUse
  <2>3. \A c : Has(c) = Now(c) BY <2>2 DEF Has, Now
  <2> QED
    BY <1>1, <1>3, <2>1, <2>2, <2>3, Served DEF WiredWhenComplete, HandedOverWhenComplete
<1> QED BY <1>2, <1>3

\* Once 13_changeAllowTokens has returned, bridge, federation and tokens in use
\* name each other, also where one of them was deployed again by a later run.
THEOREM CompleteIsWired == Spec => []WiredWhenComplete
<1>1. IInv => WiredWhenComplete BY CompleteServes DEF WiredWhenComplete
<1> QED BY <1>1, ScriptsPrepare, PTL

\* Then the wallet owns them all, and the factory serves the bridge in use; the
\* ProxyAdmin excepted whose run stopped between the two steps of 02.
THEOREM CompleteIsHandedOver == Spec => []HandedOverWhenComplete
<1>1. IInv => HandedOverWhenComplete BY CompleteServes DEF HandedOverWhenComplete
<1> QED BY <1>1, ScriptsPrepare, PTL

-----------------------------------------------------------------------------
(* Running all again.                                                       *)

LEMMA DeployAgain ==
  ASSUME NEW c, NEW r, IsDeployed(c, r), Deploy(c, r)
  PROVE  chain' = chain /\ saved' = saved
BY DEF Deploy

LEMMA NothingChanges ==
  ASSUME NoChange
  PROVE  chain' = chain /\ saved' = saved
BY DEF NoChange, OnlyChain

LEMMA LaterScripts ==
  ASSUME run.script \in 1..13
  PROVE  /\ ~DeployMainToken /\ ~DeployWRBTC /\ ~SetWrappedCurrency /\ ~AllowWrapped /\ ~InitDomainSeparator
         /\ ~AllowMainToken /\ ~WriteConfig /\ ~UpgradeBridge /\ ~UpgradeFederation
BY DEF DeployMainToken, DeployWRBTC, DeployUnlessLive, SetWrappedCurrency, AllowWrapped, InitDomainSeparator,
       AllowMainToken, WriteConfig, UpgradeBridge, UpgradeFederation, UpgradeProxy, At

LEMMA RerunKeeps ==
  ASSUME IInv, complete, run.script \in 1..13, Script
  PROVE  chain' = chain /\ saved' = saved
<1>1. Sound /\ Done(14) /\ ~At(2, 1) /\ ~At(10, 1) BY DEF IInv, HalfDone
<1>2. CASE DeployBridge \/ DeployFederation \/ DeployAllowTokens
  BY <1>1, <1>2, DeployAgain DEF DeployBridge, DeployFederation, DeployAllowTokens, DeployLogic, Done
<1>3. CASE AllNamed /\ ~(DeployBridge \/ DeployFederation \/ DeployAllowTokens)
  <2>1. \A c \in Accounts : IsNamed(c) BY <1>3 DEF AllNamed, IsNamed
  <2>2. CASE DeployMultiSig \/ DeployFactory
    BY <2>1, <2>2, NothingChanges DEF DeployMultiSig, DeployFactory, DeployUnlessNamed, Accounts
  <2>3. CASE DeployProxyAdmin
    <3>1. IsNamed("ProxyAdmin") BY <2>1 DEF Accounts
    <3> QED BY <2>3, <3>1, NothingChanges DEF DeployProxyAdmin
  <2>4. CASE DeployBridgeProxy \/ DeployFederationProxy \/ DeployAllowTokensProxy
    BY <2>1, <2>4, NothingChanges
       DEF DeployBridgeProxy, DeployFederationProxy, DeployAllowTokensProxy, Accounts
  <2>5. CASE SetTokens \/ TransferFactory
    BY <2>1, <2>5, NothingChanges DEF SetTokens, TransferFactory, Accounts
  <2>6. CASE ChangeFederation \/ ChangeAllowTokens
    BY <2>1, <2>6, NothingChanges DEF ChangeFederation, ChangeAllowTokens, ChangeBridge, Accounts
  <2> QED BY <1>1, <1>3, <2>2, <2>3, <2>4, <2>5, <2>6, LaterScripts
          DEF Script, HandOverProxyAdmin, HandOverAllowTokens
<1>4. CASE ~AllNamed /\ ~(DeployBridge \/ DeployFederation \/ DeployAllowTokens)
  <2>1. \A c : Address(c) = saved[c] BY <1>1, <1>4, InUse
  <2>2. \A c \in Accounts \ {"SideTokenFactory"} : ~IsNamed(c) BY <1>1, <1>4, InUse
  <2>3. CASE DeployMultiSig
    <3>1. IsDeployed("MultiSigWallet", [required |-> 1])
      BY <1>1, <1>4 DEF Sound, FirstOnes, Done, IsDeployed, Born
    <3> QED BY <2>3, <3>1, DeployAgain, NothingChanges DEF DeployMultiSig, DeployUnlessNamed
  <2>4. CASE DeployFactory
    <3>1. IsDeployed("SideTokenFactory", [primary |-> Deployer])
      BY <1>1, <1>4 DEF Sound, FirstOnes, Done, IsDeployed, Born
    <3> QED BY <2>4, <3>1, DeployAgain, NothingChanges DEF DeployFactory, DeployUnlessNamed
  <2>5. CASE DeployProxyAdmin
    <3>1. IsDeployed("ProxyAdmin", [owner |-> Deployer])
      BY <1>1, <1>4 DEF Sound, FirstOnes, Done, IsDeployed, Born
    <3> QED BY <2>5, <3>1, NothingChanges DEF DeployProxyAdmin
  <2>6. CASE DeployBridgeProxy
    <3>1. IsDeployed("BridgeProxy", BridgeRecord) BY <1>1, <1>4 DEF Done
    <3>2. NoChange \/ Deploy("BridgeProxy", BridgeRecord) BY <2>1, <2>6 DEF DeployBridgeProxy, BridgeRecord
    <3> QED BY <3>1, <3>2, DeployAgain, NothingChanges
  <2>7. CASE DeployFederationProxy
    <3>1. IsDeployed("FederationProxy", FederationRecord) BY <1>1, <1>4 DEF Done
    <3>2. NoChange \/ Deploy("FederationProxy", FederationRecord)
      BY <2>1, <2>7 DEF DeployFederationProxy, FederationRecord
    <3> QED BY <3>1, <3>2, DeployAgain, NothingChanges
  <2>8. CASE DeployAllowTokensProxy
    <3>1. IsDeployed("AllowTokensProxy", AllowTokensRecord) BY <1>1, <1>4 DEF Done
    <3>2. NoChange \/ Deploy("AllowTokensProxy", AllowTokensRecord)
      BY <2>1, <2>8 DEF DeployAllowTokensProxy, AllowTokensRecord
    <3> QED BY <3>1, <3>2, DeployAgain, NothingChanges
  <2>9. CASE SetTokens
    <3>1. Has("AllowTokensProxy").owner = Address("MultiSigWallet")
      BY <1>1, <1>4, <2>1 DEF Done, Has, Now
    <3> QED BY <2>9, <3>1, NothingChanges DEF SetTokens
  <2>10. CASE TransferFactory
    <3>1. IsNamed("SideTokenFactory") \/ Has("SideTokenFactory").primary = saved["BridgeProxy"]
      BY <1>1, <1>4, <2>1 DEF Done, Has, Now
    <3>2. IsDeployed("BridgeProxy", BridgeRecord) BY <1>1, <1>4 DEF Done
    <3>3. saved["BridgeProxy"] # Deployer
      <4>1. saved["BridgeProxy"][1] = "BridgeProxy" BY <1>1, <3>2 DEF Sound, AddressesFound, IsDeployed, IsSaved
      <4>2. Deployer[1] # "BridgeProxy" BY DEF Deployer
      <4> QED BY <4>1, <4>2
    <3> QED BY <2>10, <3>1, <3>3, NothingChanges DEF TransferFactory, Throw
  <2>11. ASSUME NEW k, NEW c \in {"FederationProxy", "AllowTokensProxy"},
                NEW field, ChangeBridge(k, c, field), Now("BridgeProxy")[field] = saved[c]
         PROVE  chain' = chain /\ saved' = saved
    <3>1. net # "known" /\ ~IsNamed(c) BY <1>1, <1>4, InUse DEF Accounts
    <3>2. Set(saved["BridgeProxy"], field, saved[c]) /\ saved' = saved
      BY <2>1, <2>11, <3>1 DEF ChangeBridge, Submit
    <3>3. IsDeployed("BridgeProxy", BridgeRecord) BY <1>1, <1>4 DEF Done
    <3>4. saved["BridgeProxy"] \in DOMAIN chain /\ ChainFormed
      BY <1>1, <3>3 DEF Sound, AddressesFound, IsDeployed, IsSaved
    <3> QED BY <2>11, <3>2, <3>4, SetSame DEF Now
  <2>12. CASE ChangeFederation \/ ChangeAllowTokens
    BY <1>1, <1>4, <2>11, <2>12 DEF ChangeFederation, ChangeAllowTokens, Done
  <2> QED BY <1>1, <1>4, <2>3, <2>4, <2>5, <2>6, <2>7, <2>8, <2>9, <2>10, <2>12, LaterScripts
          DEF Script, HandOverProxyAdmin, HandOverAllowTokens
<1> QED BY <1>2, <1>3, <1>4

\* Running 01 ... 13 over unchanged sources deploys and sets nothing.
THEOREM RerunsFindNothingToDo == Spec => RerunChangesNothing
<1>1. ASSUME IInv, Next, complete, run.script \in 1..13, pending' = pending
      PROVE  chain' = chain /\ saved' = saved
  <2>1. CASE Script BY <1>1, <2>1, RerunKeeps
  <2>2. CASE Operator
    <3>1. Idle.script = 0 BY DEF Idle
    <3>2. run # Idle BY <1>1, <3>1
    <3> QED BY <2>2, <3>2 DEF Operator, Start, Recompile, NameFactory, NameAll, NameAccounts
  <2>3. CASE Fail BY <2>3 DEF Fail
  <2>4. ~ \E call \in pending : Confirm(call) BY <1>1 DEF Confirm
  <2> QED BY <1>1, <2>1, <2>2, <2>3, <2>4 DEF Next
<1>2. ASSUME IInv, [Next]_vars
      PROVE  [complete /\ run.script \in 1..13 /\ pending' = pending => chain' = chain /\ saved' = saved]_vars
  BY <1>1, <1>2
<1> QED BY <1>2, ScriptsPrepare, PTL DEF Spec, RerunChangesNothing

==============================================================================
