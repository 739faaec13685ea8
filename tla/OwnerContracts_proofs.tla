------------------------ MODULE OwnerContracts_proofs -----------------------
(* Theorems about the wallet that owns the contracts, for any accounts,    *)
(* calls, bound on the owners and order of confirmations and changes; and  *)
(* about the limits it sets in AllowTokens, for any limits, amounts, times *)
(* and length of a day.                                                    *)
EXTENDS MultiSigWallet, AllowTokens, Arrays_proofs, FiniteSetTheorems, TLAPS

\* The inductive invariant behind the type invariant and OwnersConsistent.
IInv == TypeOK /\ OwnersConsistent

RosterFits == /\ owners \in Seq(Address) /\ isOwner \in [Address -> BOOLEAN]
          /\ required \in 1..MAX_OWNER_COUNT /\ OwnersConsistent

\* Bodies of DecidedByOwners and ExecutedIsFinal, as actions.
DecidedStep ==
  /\ \A id \in DOMAIN transactions' :
       Executes(id) => Cardinality(Supporters(transactions'[id])) >= required
  /\ UNCHANGED rosterVars \/ \E id \in DOMAIN transactions' : Executes(id)

FinalStep ==
  \A id \in DOMAIN transactions :
    transactions[id].executed => id \in DOMAIN transactions' /\ transactions'[id] = transactions[id]

-----------------------------------------------------------------------------
(* The changes of owners and requirement.                                  *)

LEMMA InitInv == Init => IInv
<1> SUFFICES ASSUME Init PROVE IInv
  OBVIOUS
<1>1. PICK n \in 1..MAX_OWNER_COUNT : owners \in [1..n -> Address \ {NULL_ADDRESS}]
  BY DEF Init
<1>2. n \in Nat /\ owners \in [1..n -> Address]
  BY <1>1, WalletAssumption
<1>3. owners \in Seq(Address) /\ Len(owners) = n
  BY <1>2, LenOfFunction
<1>4. transactions \in Seq(Transaction)
  BY DEF Init
<1>5. required \in 1..MAX_OWNER_COUNT /\ n <= MAX_OWNER_COUNT /\ required <= n
  BY <1>1, <1>3, WalletAssumption DEF Init, ValidRequirement
<1>6. isOwner = [a \in Address |-> a \in Owners]
  BY DEF Init
<1>7. isOwner \in [Address -> BOOLEAN]
  BY <1>6
<1>8. \A a \in Address : isOwner[a] <=> a \in Owners
  BY <1>6, Zenon
<1>9. NoDuplicates(owners) /\ Len(owners) <= MAX_OWNER_COUNT /\ required \in 1..Len(owners)
  BY <1>2, <1>3, <1>5, WalletAssumption DEF Init
<1> QED BY <1>3, <1>4, <1>5, <1>7, <1>8, <1>9 DEF IInv, TypeOK, OwnersConsistent

LEMMA AddOwnerKeeps ==
  ASSUME RosterFits, NEW a \in Address, CanAddOwner(a), AddOwner(a)
  PROVE  RosterFits'
<1>1. Len(owners) \in Nat /\ a \notin Owners
  BY LenProperties DEF RosterFits, OwnersConsistent, CanAddOwner
<1>2. /\ owners' \in Seq(Address) /\ Len(owners') = Len(owners) + 1
      /\ NoDuplicates(owners') /\ Elements(owners') = Elements(owners) \cup {a}
  BY <1>1, AppendAdds DEF RosterFits, OwnersConsistent, Owners, AddOwner
<1>3. Len(owners') <= MAX_OWNER_COUNT /\ required' \in 1..Len(owners')
  BY <1>1, <1>2, WalletAssumption DEF CanAddOwner, ValidRequirement, AddOwner, RosterFits, OwnersConsistent
<1>4. \A b \in Address : isOwner'[b] <=> b \in Owners'
  BY <1>2 DEF AddOwner, RosterFits, OwnersConsistent, Owners
<1> QED BY <1>2, <1>3, <1>4 DEF RosterFits, OwnersConsistent, AddOwner

LEMMA RemoveOwnerKeeps ==
  ASSUME RosterFits, NEW a \in Address, CanRemoveOwner(a), RemoveOwner(a)
  PROVE  RosterFits'
<1> DEFINE n == Len(owners)
<1>1. n \in Nat /\ DOMAIN owners = 1..n /\ n > 1
  BY LenProperties DEF RosterFits, CanRemoveOwner
<1>2. PICK k \in 1..n : owners[k] = a
  BY <1>1 DEF CanRemoveOwner, RosterFits, OwnersConsistent, Owners, Elements
<1>3. /\ owners' \in Seq(Address) /\ Len(owners') = n - 1
      /\ NoDuplicates(owners') /\ Elements(owners') = Elements(owners) \ {a}
  <2>1. owners' = SwapAndPop(owners, owners[k])
    BY <1>2 DEF RemoveOwner
  <2>2. owners \in Seq(Address) /\ NoDuplicates(owners) /\ k \in 1..Len(owners)
    BY <1>2 DEF RosterFits, OwnersConsistent
  <2> QED BY <1>2, <2>1, <2>2, SwapAndPopRemoves
<1>4. Len(owners') <= MAX_OWNER_COUNT /\ required' \in 1..Len(owners') /\ required' \in 1..MAX_OWNER_COUNT
  BY <1>1, <1>3, WalletAssumption DEF RemoveOwner, RosterFits, OwnersConsistent
<1>5. \A b \in Address : isOwner'[b] <=> b \in Owners'
  BY <1>3 DEF RemoveOwner, RosterFits, OwnersConsistent, Owners
<1> QED BY <1>3, <1>4, <1>5 DEF RosterFits, OwnersConsistent, RemoveOwner

LEMMA ReplaceOwnerKeeps ==
  ASSUME RosterFits, NEW a \in Address, NEW b \in Address, CanReplaceOwner(a, b), ReplaceOwner(a, b)
  PROVE  RosterFits'
<1> DEFINE n == Len(owners)
<1>1. n \in Nat /\ DOMAIN owners = 1..n /\ b \notin Owners /\ a # b
  BY LenProperties DEF RosterFits, OwnersConsistent, CanReplaceOwner
<1>2. PICK k \in 1..n : owners[k] = a
  BY <1>1 DEF CanReplaceOwner, RosterFits, OwnersConsistent, Owners, Elements
<1>3. /\ owners' \in Seq(Address) /\ Len(owners') = n
      /\ NoDuplicates(owners') /\ Elements(owners') = (Elements(owners) \ {a}) \cup {b}
  <2>1. owners' = Substitute(owners, owners[k], b)
    BY <1>2 DEF ReplaceOwner
  <2>2. owners \in Seq(Address) /\ NoDuplicates(owners) /\ k \in 1..Len(owners) /\ b \notin Elements(owners)
    BY <1>1, <1>2 DEF RosterFits, OwnersConsistent, Owners
  <2> QED BY <1>2, <2>1, <2>2, SubstituteReplaces
<1>4. \A c \in Address : isOwner'[c] <=> c \in Owners'
  BY <1>1, <1>3 DEF ReplaceOwner, RosterFits, OwnersConsistent, Owners
<1> QED BY <1>3, <1>4 DEF RosterFits, OwnersConsistent, ReplaceOwner

\* Whatever a call of the wallet to itself does, the owners stay consistent.
LEMMA PerformsKeeps ==
  ASSUME RosterFits, NEW c \in Call, Performs(c)
  PROVE  RosterFits'
<1>1. CASE UNCHANGED rosterVars
  BY <1>1 DEF RosterFits, OwnersConsistent, Owners, rosterVars
<1>2. CASE c \in SelfCall
  <2>1. c \in AdminCall
    BY <1>2, WalletAssumption
  <2>2. c.op \in {"addOwner", "removeOwner"} => c.owner \in Address
    BY <2>1 DEF AdminCall
  <2>3. c.op = "replaceOwner" => c.owner \in Address /\ c.newOwner \in Address
    BY <2>1 DEF AdminCall
  <2>4. CASE c.op = "addOwner" /\ CanAddOwner(c.owner) /\ AddOwner(c.owner)
    BY <2>2, <2>4, AddOwnerKeeps
  <2>5. CASE c.op = "removeOwner" /\ CanRemoveOwner(c.owner) /\ RemoveOwner(c.owner)
    BY <2>2, <2>5, RemoveOwnerKeeps
  <2>6. CASE /\ c.op = "replaceOwner"
             /\ CanReplaceOwner(c.owner, c.newOwner) /\ ReplaceOwner(c.owner, c.newOwner)
    BY <2>3, <2>6, ReplaceOwnerKeeps
  <2>7. CASE c.op = "changeRequirement" /\ CanChangeRequirement(c.n) /\ ChangeRequirement(c.n)
    <3>1. c.n \in Nat
      BY <2>1, <2>7 DEF AdminCall
    <3>2. Len(owners) \in Nat
      BY LenProperties DEF RosterFits
    <3> QED BY <2>7, <3>1, <3>2, WalletAssumption
            DEF RosterFits, OwnersConsistent, Owners, CanChangeRequirement, ValidRequirement, ChangeRequirement
  <2> QED BY <1>1, <1>2, <2>4, <2>5, <2>6, <2>7 DEF Performs
<1> QED BY <1>1, <1>2 DEF Performs

-----------------------------------------------------------------------------
(* The transactions.                                                       *)

\* ts is what the transactions become before one of them is tried: executed
\* ones are untouched, and none is executed that was not.
Prepared(ts) ==
  /\ ts \in Seq(Transaction)
  /\ DOMAIN transactions \subseteq DOMAIN ts
  /\ \A j \in DOMAIN transactions : transactions[j].executed => ts[j] = transactions[j]
  /\ \A j \in DOMAIN ts : ts[j].executed => j \in DOMAIN transactions /\ transactions[j].executed

LEMMA ResolveKeeps ==
  ASSUME IInv, NEW ts, Prepared(ts), NEW id \in DOMAIN ts, ~ts[id].executed, Resolve(ts, id)
  PROVE  IInv' /\ DecidedStep /\ FinalStep
<1>1. RosterFits
  BY DEF IInv, TypeOK, RosterFits
<1>2. DOMAIN ts = 1..Len(ts) /\ ts[id] \in Transaction
  BY LenProperties DEF Prepared
<1>3. CASE /\ IsConfirmed(ts[id])
           /\ Performs(ts[id].call)
           /\ transactions' = [ts EXCEPT ![id].executed = TRUE]
  <2> DEFINE tx == [ts[id] EXCEPT !.executed = TRUE]
  <2>1. tx \in Transaction /\ tx.executed /\ tx.confirmations = ts[id].confirmations
    BY <1>2 DEF Transaction
  <2>2. transactions' = [ts EXCEPT ![id] = tx]
    BY <1>3
  <2>3. transactions' \in Seq(Transaction) /\ DOMAIN transactions' = DOMAIN ts
    BY <1>2, <2>1, <2>2, ExceptSeq DEF Prepared
  <2>4. transactions'[id] = tx /\ \A j \in DOMAIN ts \ {id} : transactions'[j] = ts[j]
    BY <2>2
  <2>5. RosterFits'
    <3>1. ts[id].call \in Call
      BY <1>2 DEF Transaction
    <3> QED BY <1>1, <1>3, <3>1, PerformsKeeps
  <2>6. Executes(id) /\ \A j \in DOMAIN transactions' : Executes(j) => j = id
    BY <2>1, <2>3, <2>4 DEF Executes, Prepared
  <2>7. Cardinality(Supporters(transactions'[id])) >= required
    <3> DEFINE V == ts[id].confirmations
    <3>1. Cardinality({i \in DOMAIN owners : owners[i] \in V}) >= required
      BY <1>3 DEF IsConfirmed
    <3>2. Cardinality({i \in DOMAIN owners : owners[i] \in V}) = Cardinality(Elements(owners) \cap V)
      BY <1>1, CountingElements DEF RosterFits, OwnersConsistent
    <3> QED BY <2>1, <2>4, <3>1, <3>2 DEF Supporters, Owners
  <2>8. FinalStep
    BY <2>3, <2>4 DEF FinalStep, Prepared
  <2> QED BY <2>3, <2>5, <2>6, <2>7, <2>8 DEF IInv, TypeOK, RosterFits, DecidedStep
<1>4. CASE transactions' = ts /\ UNCHANGED rosterVars
  <2>1. IInv'
    BY <1>4 DEF IInv, TypeOK, OwnersConsistent, Owners, rosterVars, Prepared
  <2>2. DecidedStep /\ FinalStep
    BY <1>4 DEF DecidedStep, FinalStep, Executes, Prepared
  <2> QED BY <2>1, <2>2
<1> QED BY <1>3, <1>4 DEF Resolve

\* What a call leaves of transaction id when only its confirmations change.
LEMMA ConfirmationsPrepared ==
  ASSUME IInv, NEW id \in DOMAIN transactions, ~transactions[id].executed, NEW cs \in SUBSET Address,
         NEW ts, ts = [transactions EXCEPT ![id].confirmations = cs]
  PROVE  Prepared(ts) /\ id \in DOMAIN ts /\ ~ts[id].executed
<1>1. /\ transactions \in Seq(Transaction) /\ DOMAIN transactions = 1..Len(transactions)
      /\ transactions[id] \in Transaction
  BY LenProperties DEF IInv, TypeOK
<1> DEFINE tx == [transactions[id] EXCEPT !.confirmations = cs]
<1>2. tx \in Transaction /\ tx.executed = transactions[id].executed
  BY <1>1 DEF Transaction
<1>3. ts = [transactions EXCEPT ![id] = tx]
  OBVIOUS
<1>4. ts \in Seq(Transaction) /\ DOMAIN ts = DOMAIN transactions
  BY <1>1, <1>2, <1>3, ExceptSeq
<1> QED BY <1>2, <1>3, <1>4 DEF Prepared

LEMMA SubmitKeeps ==
  ASSUME IInv, NEW m \in Address, NEW c \in Call, SubmitTransaction(m, c)
  PROVE  IInv' /\ DecidedStep /\ FinalStep
<1> DEFINE tx == [Wrapped(c) EXCEPT !.confirmations = {m}]
           ts == Append(transactions, tx)
           n == Len(transactions)
<1>1. transactions \in Seq(Transaction) /\ n \in Nat /\ DOMAIN transactions = 1..n
  BY LenProperties DEF IInv, TypeOK
<1>2. tx \in Transaction /\ ~tx.executed
  BY DEF Wrapped, Transaction
<1>3. /\ ts \in Seq(Transaction) /\ Len(ts) = n + 1 /\ ts[n + 1] = tx
      /\ \A j \in 1..n : ts[j] = transactions[j]
  BY <1>1, <1>2, AppendProperties
<1>4. DOMAIN ts = 1..(n + 1)
  BY <1>3, LenProperties
<1>5. Resolve(ts, n + 1)
  BY DEF SubmitTransaction
<1> HIDE DEF tx, ts, n
<1>6. Prepared(ts) /\ n + 1 \in DOMAIN ts /\ ~ts[n + 1].executed
  BY <1>1, <1>2, <1>3, <1>4 DEF Prepared
<1> QED BY <1>5, <1>6, ResolveKeeps

LEMMA ConfirmKeeps ==
  ASSUME IInv, NEW m \in Address, NEW id \in DOMAIN transactions, ConfirmTransaction(m, id)
  PROVE  IInv' /\ DecidedStep /\ FinalStep
<1> DEFINE cs == transactions[id].confirmations \cup {m}
           ts == [transactions EXCEPT ![id].confirmations = cs]
<1>1. transactions[id] \in Transaction
  BY DEF IInv, TypeOK
<1>2. cs \in SUBSET Address
  BY <1>1 DEF Transaction
<1>3. Resolve(ts, id) /\ ~transactions[id].executed
  BY DEF ConfirmTransaction
<1> HIDE DEF cs
<1>4. Prepared(ts) /\ id \in DOMAIN ts /\ ~ts[id].executed
  BY <1>2, <1>3, ConfirmationsPrepared
<1> HIDE DEF ts
<1> QED BY <1>3, <1>4, ResolveKeeps

LEMMA RevokeKeeps ==
  ASSUME IInv, NEW m \in Address, NEW id \in DOMAIN transactions, RevokeConfirmation(m, id)
  PROVE  IInv' /\ DecidedStep /\ FinalStep
<1> DEFINE cs == transactions[id].confirmations \ {m}
<1>1. transactions[id] \in Transaction
  BY DEF IInv, TypeOK
<1>2. cs \in SUBSET Address
  BY <1>1 DEF Transaction
<1>3. /\ transactions' = [transactions EXCEPT ![id].confirmations = cs]
      /\ ~transactions[id].executed /\ UNCHANGED rosterVars
  BY DEF RevokeConfirmation
<1> HIDE DEF cs
<1>4. Prepared(transactions')
  BY <1>2, <1>3, ConfirmationsPrepared
<1>5. IInv'
  BY <1>3, <1>4 DEF IInv, TypeOK, OwnersConsistent, Owners, rosterVars, Prepared
<1>6. DecidedStep /\ FinalStep
  BY <1>3, <1>4 DEF DecidedStep, FinalStep, Executes, Prepared
<1> QED BY <1>5, <1>6

LEMMA ExecuteKeeps ==
  ASSUME IInv, NEW m \in Address, NEW id \in DOMAIN transactions, ExecuteTransaction(m, id)
  PROVE  IInv' /\ DecidedStep /\ FinalStep
<1>1. Prepared(transactions)
  BY DEF IInv, TypeOK, Prepared
<1> QED BY <1>1, ResolveKeeps DEF ExecuteTransaction

LEMMA NextInv ==
  ASSUME IInv, [Next]_vars
  PROVE  IInv' /\ [DecidedStep]_vars /\ [FinalStep]_vars
<1>1. CASE UNCHANGED vars
  BY <1>1 DEF IInv, TypeOK, OwnersConsistent, Owners, vars
<1>2. DOMAIN transactions = 1..Len(transactions)
  BY LenProperties DEF IInv, TypeOK
<1>3. ASSUME NEW m \in Address, NEW c \in Call, SubmitTransaction(m, c)
      PROVE  IInv' /\ DecidedStep /\ FinalStep
  BY <1>3, SubmitKeeps
<1>4. ASSUME NEW m \in Address, NEW id \in 1..Len(transactions), ConfirmTransaction(m, id)
      PROVE  IInv' /\ DecidedStep /\ FinalStep
  BY <1>2, <1>4, ConfirmKeeps
<1>5. ASSUME NEW m \in Address, NEW id \in 1..Len(transactions), RevokeConfirmation(m, id)
      PROVE  IInv' /\ DecidedStep /\ FinalStep
  BY <1>2, <1>5, RevokeKeeps
<1>6. ASSUME NEW m \in Address, NEW id \in 1..Len(transactions), ExecuteTransaction(m, id)
      PROVE  IInv' /\ DecidedStep /\ FinalStep
  BY <1>2, <1>6, ExecuteKeeps
<1> QED BY <1>1, <1>3, <1>4, <1>5, <1>6 DEF Next

LEMMA InvHolds == Spec => []IInv
BY InitInv, NextInv, PTL DEF Spec

-----------------------------------------------------------------------------
(* Theorems.                                                               *)

\* The variables keep their types.
THEOREM TypeCorrect == Spec => []TypeOK
<1>1. IInv => TypeOK
  BY DEF IInv
<1> QED BY <1>1, InvHolds, PTL

\* Whatever changes of owners and requirement are executed, in any order,
\* array, mapping and requirement agree and the requirement can be met.
THEOREM OwnersStayConsistent == Spec => []OwnersConsistent
<1>1. IInv => OwnersConsistent
  BY DEF IInv
<1> QED BY <1>1, InvHolds, PTL

\* Only a transaction that `required` of the owners of that moment confirm
\* is executed or changes the owners or the requirement.
THEOREM DecidedOnlyByOwners == Spec => DecidedByOwners
<1>1. IInv /\ [Next]_vars => [DecidedStep]_vars
  BY NextInv
<1>2. Spec => [][DecidedStep]_vars
  BY <1>1, InvHolds, PTL DEF Spec
<1> QED BY <1>2 DEF DecidedByOwners, DecidedStep

\* An executed transaction stays as it is.
THEOREM ExecutedStaysFinal == Spec => ExecutedIsFinal
<1>1. IInv /\ [Next]_vars => [FinalStep]_vars
  BY NextInv
<1>2. Spec => [][FinalStep]_vars
  BY <1>1, InvHolds, PTL DEF Spec
<1> QED BY <1>2 DEF ExecutedIsFinal, FinalStep

-----------------------------------------------------------------------------
(* AllowTokens: what crossed between two moments.                          *)

Crossing == [token : Token, at : START..END, amount : Amounts]

Counted(e, tok, from, to) == IF e.token = tok /\ e.at \in from..to THEN e.amount ELSE 0

Counts(log, tok, from, to) == [i \in 1..Len(log) |-> Counted(log[i], tok, from, to)]

LEMMA CountsTyped ==
  ASSUME NEW log \in Seq(Crossing), NEW tok, NEW from, NEW to
  PROVE  Len(log) \in Nat /\ Counts(log, tok, from, to) \in [1..Len(log) -> Int]
<1>1. \A i \in 1..Len(log) : log[i] \in Crossing
  BY ElementOfSeq
<1>2. ASSUME NEW e \in Crossing PROVE Counted(e, tok, from, to) \in Int
  <2>1. e.amount \in Int
    <3>1. e.amount \in Amounts
      BY DEF Crossing
    <3>2. Amounts \subseteq Nat
      BY AmountAssumption
    <3>3. e.amount \in Nat
      BY <3>1, <3>2
    <3> QED BY <3>3
  <2> QED BY <2>1 DEF Counted
<1> QED BY <1>1, <1>2, LenProperties DEF Counts

LEMMA CrossedSums ==
  ASSUME NEW log \in Seq(Crossing), NEW tok, NEW from, NEW to
  PROVE  \E f \in [0..Len(log) -> Int] :
           Sums(f, Counts(log, tok, from, to), Len(log)) /\ Crossed(log, tok, from, to) = f[Len(log)]
<1> DEFINE n == Len(log)
           P(g) == g = [i \in 0..n |-> IF i = 0 THEN 0
                          ELSE g[i - 1] +
                               IF log[i].token = tok /\ log[i].at \in from..to THEN log[i].amount ELSE 0]
<1>1. n \in Nat /\ Counts(log, tok, from, to) \in [1..n -> Int]
  BY CountsTyped
<1>2. PICK f \in [0..n -> Int] : Sums(f, Counts(log, tok, from, to), n)
  BY <1>1, SumsExist
<1>3. ASSUME NEW g PROVE P(g) <=> Sums(g, Counts(log, tok, from, to), n)
  <2>1. \A i \in 0..n : i # 0 => i \in 1..n
    BY <1>1
  <2> QED BY <2>1 DEF Sums, Counts, Counted
<1>4. Crossed(log, tok, from, to) = (CHOOSE g : P(g))[n]
  BY DEF Crossed
<1>5. P(f)
  BY <1>2, <1>3
<1> HIDE DEF P
<1>6. P(CHOOSE g : P(g))
  BY <1>5
<1>7. f = CHOOSE g : P(g)
  BY <1>1, <1>2, <1>3, <1>6, SumsUnique
<1> QED BY <1>2, <1>4, <1>7

LEMMA CrossedAppend ==
  ASSUME NEW log \in Seq(Crossing), NEW e \in Crossing, NEW tok, NEW from, NEW to
  PROVE  /\ Crossed(log, tok, from, to) \in Int
         /\ Crossed(Append(log, e), tok, from, to) = Crossed(log, tok, from, to) + Counted(e, tok, from, to)
<1> DEFINE more == Append(log, e)
           n == Len(log)
           v == Counts(log, tok, from, to)
           w == Counts(more, tok, from, to)
<1>1. /\ more \in Seq(Crossing) /\ n \in Nat /\ Len(more) = n + 1
      /\ more[n + 1] = e /\ \A i \in 1..n : more[i] = log[i]
  BY AppendTyped
<1> HIDE DEF more, n
<1>2. PICK f \in [0..n -> Int] : Sums(f, v, n) /\ Crossed(log, tok, from, to) = f[n]
  BY CrossedSums DEF n
<1>3. PICK g \in [0..(n + 1) -> Int] : Sums(g, w, n + 1) /\ Crossed(more, tok, from, to) = g[n + 1]
  BY <1>1, CrossedSums
<1>4. (\A i \in 1..n : v[i] = w[i]) /\ w[n + 1] = Counted(e, tok, from, to)
  BY <1>1 DEF Counts, n
<1> HIDE DEF v, w
<1>5. n \in Nat
  BY <1>1
<1>6. g[n + 1] = f[n] + w[n + 1]
  BY <1>2, <1>3, <1>4, <1>5, SumsAppend, ZenonT(30)
<1> QED BY <1>1, <1>2, <1>3, <1>4, <1>6 DEF more

\* What falls into a window falls into one of two that cover it.
LEMMA CrossedCovered ==
  ASSUME NEW log \in Seq(Crossing), NEW tok, NEW a, NEW b, NEW c, NEW d, NEW k, NEW l,
         \A i \in 1..Len(log) :
           log[i].token = tok /\ log[i].at \in a..b => log[i].at \in c..d \/ log[i].at \in k..l
  PROVE  Crossed(log, tok, a, b) <= Crossed(log, tok, c, d) + Crossed(log, tok, k, l)
<1> DEFINE n == Len(log)
           u == Counts(log, tok, a, b)
           v == Counts(log, tok, c, d)
           w == Counts(log, tok, k, l)
<1>1. n \in Nat /\ u \in [1..n -> Int] /\ v \in [1..n -> Int] /\ w \in [1..n -> Int]
  BY CountsTyped
<1>2. ASSUME NEW i \in 1..n PROVE u[i] <= v[i] + w[i]
  <2>1. log[i] \in Crossing
    BY ElementOfSeq
  <2>2. log[i].amount \in Nat
    BY <2>1, AmountAssumption DEF Crossing
  <2> QED BY <2>2 DEF Counts, Counted
<1>3. PICK f \in [0..n -> Int] : Sums(f, u, n) /\ Crossed(log, tok, a, b) = f[n]
  BY CrossedSums
<1>4. PICK g \in [0..n -> Int] : Sums(g, v, n) /\ Crossed(log, tok, c, d) = g[n]
  BY CrossedSums
<1>5. PICK h \in [0..n -> Int] : Sums(h, w, n) /\ Crossed(log, tok, k, l) = h[n]
  BY CrossedSums
<1> HIDE DEF n, u, v, w
<1>6. f[n] <= g[n] + h[n]
  BY <1>1, <1>2, <1>3, <1>4, <1>5, SumsBelow
<1> QED BY <1>3, <1>4, <1>5, <1>6

\* Nothing crossed in a window that holds no crossing.
LEMMA CrossedNothing ==
  ASSUME NEW log \in Seq(Crossing), NEW tok, NEW a, NEW b,
         \A i \in 1..Len(log) : ~ (log[i].token = tok /\ log[i].at \in a..b)
  PROVE  Crossed(log, tok, a, b) = 0
<1> DEFINE n == Len(log)
           u == Counts(log, tok, a, b)
           f == [i \in 0..n |-> 0]
<1>1. n \in Nat
  BY CountsTyped
<1>2. \A i \in 1..n : u[i] = 0
  BY DEF Counts, Counted
<1>3. PICK g \in [0..n -> Int] : Sums(g, u, n) /\ Crossed(log, tok, a, b) = g[n]
  BY CrossedSums
<1> HIDE DEF u, n
<1>4. f = [i \in 0..n |-> IF i = 0 THEN 0 ELSE f[i - 1] + u[i]]
  <2>1. ASSUME NEW i \in 0..n PROVE 0 = IF i = 0 THEN 0 ELSE f[i - 1] + u[i]
    <3>1. CASE i # 0
      <4>1. i - 1 \in 0..n /\ i \in 1..n
        BY <1>1, <3>1
      <4> QED BY <1>2, <3>1, <4>1
    <3> QED BY <3>1
  <2> QED BY <2>1
<1>5. Sums(f, u, n)
  BY <1>4 DEF Sums
<1>6. f[n] = 0
  BY <1>1
<1> HIDE DEF f
<1>7. f = g
  BY <1>1, <1>3, <1>5, SumsUnique
<1> QED BY <1>3, <1>6, <1>7

-----------------------------------------------------------------------------
(* The day in course.                                                      *)

\* The counter of a token is what crossed since its day began and is within some
\* daily limit, nothing crossed after the end of that day, and what crossed before
\* it, back to one day's length before it began, is within a limit as well.
Days ==
  /\ \A i \in 1..Len(transfers) :
       /\ transfers[i].at <= now
       /\ transfers[i].at <= info[transfers[i].token].lastDay + DAY
  /\ \A tok \in Token :
       /\ info[tok].lastDay <= now
       /\ info[tok].spentToday <= BiggestDaily
       /\ \A from \in START..END :
            from + DAY >= info[tok].lastDay =>
              Crossed(transfers, tok, from, info[tok].lastDay - 1) <= BiggestDaily

LimitsInv == AllowTokensTypeOK /\ SpentIsWindowSum /\ Days /\ AnyDayWithinTwoLimits

LEMMA Biggest == BiggestDaily \in Nat /\ \A l \in LimitChoices : l.daily \in Nat /\ l.daily <= BiggestDaily
<1> DEFINE D == {l.daily : l \in LimitChoices}
<1>1. D \in SUBSET Nat /\ D # {}
  BY AmountAssumption
<1>2. IsFiniteSet(D)
  <2> DEFINE f == [l \in LimitChoices |-> l.daily]
  <2>1. f \in Surjection(LimitChoices, D)
    BY DEF Surjection
  <2> QED BY <2>1, AmountAssumption, FS_Surjection
<1> HIDE DEF D
<1>3. \E x \in D : \A y \in D : x >= y
  BY <1>1, <1>2, FiniteMax
<1>4. BiggestDaily = CHOOSE x \in D : \A y \in D : x >= y
  BY DEF BiggestDaily, Max, D
<1>5. BiggestDaily \in D /\ \A y \in D : BiggestDaily >= y
  BY <1>3, <1>4
<1> QED BY <1>1, <1>5 DEF D

LEMMA LimitsTypes ==
  ASSUME AllowTokensTypeOK
  PROVE  /\ now \in Nat /\ START \in Nat /\ END \in Nat /\ DAY \in Nat /\ transfers \in Seq(Crossing)
         /\ \A tok \in Token : info[tok].lastDay \in Nat /\ info[tok].spentToday \in Nat
         /\ \A i \in 1..Len(transfers) : transfers[i] \in Crossing /\ transfers[i].at \in Nat
         /\ \A tok, a, b : Crossed(transfers, tok, a, b) \in Int
<1>1. now \in Nat /\ START \in Nat /\ END \in Nat /\ DAY \in Nat
  BY TimeAssumption DEF AllowTokensTypeOK
<1>2. transfers \in Seq(Crossing)
  BY DEF AllowTokensTypeOK, Crossing
<1>3. \A tok \in Token : info[tok].lastDay \in Nat /\ info[tok].spentToday \in Nat
  BY <1>1 DEF AllowTokensTypeOK
<1>4. \A i \in 1..Len(transfers) : transfers[i] \in Crossing /\ transfers[i].at \in Nat
  <2>1. \A i \in 1..Len(transfers) : transfers[i] \in Crossing
    BY <1>2, ElementOfSeq
  <2> QED BY <1>1, <2>1 DEF Crossing
<1>5. ASSUME NEW tok, NEW a, NEW b PROVE Crossed(transfers, tok, a, b) \in Int
  <2>1. PICK f \in [0..Len(transfers) -> Int] : Crossed(transfers, tok, a, b) = f[Len(transfers)]
    BY <1>2, CrossedSums
  <2> QED BY <1>2, <2>1, LenProperties
<1> QED BY <1>1, <1>2, <1>3, <1>4, <1>5

LEMMA LimitsInit == AllowTokensInit => LimitsInv
<1> SUFFICES ASSUME AllowTokensInit PROVE LimitsInv
  OBVIOUS
<1>1. transfers = <<>> /\ transfers \in Seq(Crossing) /\ Len(transfers) = 0
  BY DEF AllowTokensInit
<1>2. AllowTokensTypeOK
  <2>1. info \in [Token -> [allowed : BOOLEAN, typeId : 0..(MAX_TYPES - 1), spentToday : Nat, lastDay : 0..END]]
    BY TimeAssumption, AmountAssumption DEF AllowTokensInit
  <2>2. typeLimits \in Seq(LimitChoices) /\ Len(typeLimits) <= MAX_TYPES
    BY AmountAssumption DEF AllowTokensInit
  <2>3. now \in START..END
    BY TimeAssumption DEF AllowTokensInit
  <2>4. \A tok \in Token : ~ info[tok].allowed
    BY DEF AllowTokensInit
  <2> QED BY <1>1, <2>1, <2>2, <2>3, <2>4 DEF AllowTokensTypeOK, Crossing
<1>3. \A tok, a, b : Crossed(transfers, tok, a, b) = 0
  <2>1. ASSUME NEW tok, NEW a, NEW b PROVE Crossed(transfers, tok, a, b) = 0
    <3>1. \A i \in 1..Len(transfers) : ~ (transfers[i].token = tok /\ transfers[i].at \in a..b)
      BY <1>1
    <3> QED BY <1>1, <3>1, CrossedNothing
  <2> QED BY <2>1
<1>4. \A tok \in Token : info[tok].spentToday = 0 /\ info[tok].lastDay = 0
  BY DEF AllowTokensInit
<1>5. BiggestDaily \in Nat /\ now \in Nat
  BY Biggest, TimeAssumption DEF AllowTokensInit
<1>6. SpentIsWindowSum /\ AnyDayWithinTwoLimits
  BY <1>3, <1>4, <1>5 DEF SpentIsWindowSum, AnyDayWithinTwoLimits
<1>7. Days
  BY <1>1, <1>3, <1>4, <1>5 DEF Days
<1> QED BY <1>2, <1>6, <1>7 DEF LimitsInv

\* Steps that leave the counters, the days and the log alone; time may pass.
LEMMA NothingCrosses ==
  ASSUME LimitsInv, AllowTokensTypeOK', UNCHANGED transfers, now <= now',
         \A tok \in Token : /\ info'[tok].spentToday = info[tok].spentToday
                             /\ info'[tok].lastDay = info[tok].lastDay
  PROVE  SpentIsWindowSum' /\ Days' /\ AnyDayWithinTwoLimits'
<1> USE LimitsTypes DEF LimitsInv
<1>1. AnyDayWithinTwoLimits'
  BY DEF AnyDayWithinTwoLimits, BiggestDaily
<1>2. now' \in Nat
  BY TimeAssumption DEF AllowTokensTypeOK
<1>3. ASSUME NEW tok \in Token
      PROVE  Crossed(transfers, tok, info[tok].lastDay, now') = Crossed(transfers, tok, info[tok].lastDay, now)
  <2> DEFINE L == info[tok].lastDay
  <2>1. \A i \in 1..Len(transfers) : transfers[i].at <= now
    BY DEF Days
  <2>2. Crossed(transfers, tok, 1, 0) = 0
    BY CrossedNothing
  <2>3. Crossed(transfers, tok, L, now') <= Crossed(transfers, tok, L, now) + Crossed(transfers, tok, 1, 0)
    <3>1. \A i \in 1..Len(transfers) :
            transfers[i].token = tok /\ transfers[i].at \in L..now' => transfers[i].at \in L..now
      BY <1>2, <2>1
    <3> QED BY <3>1, CrossedCovered
  <2>4. Crossed(transfers, tok, L, now) <= Crossed(transfers, tok, L, now') + Crossed(transfers, tok, 1, 0)
    <3>1. \A i \in 1..Len(transfers) :
            transfers[i].token = tok /\ transfers[i].at \in L..now => transfers[i].at \in L..now'
      BY <1>2, <2>1
    <3> QED BY <3>1, CrossedCovered
  <2> HIDE DEF L
  <2>5. Crossed(transfers, tok, L, now) \in Int /\ Crossed(transfers, tok, L, now') \in Int
    OBVIOUS
  <2>6. Crossed(transfers, tok, L, now') = Crossed(transfers, tok, L, now)
    BY <2>2, <2>3, <2>4, <2>5
  <2> QED BY <2>6 DEF L
<1>4. SpentIsWindowSum'
  BY <1>3 DEF SpentIsWindowSum
<1>5. Days'
  <2>1. \A i \in 1..Len(transfers) : transfers[i].token \in Token
    BY DEF Crossing
  <2>2. \A tok \in Token : info[tok].lastDay <= now'
    BY <1>2 DEF Days
  <2>3. \A i \in 1..Len(transfers) : transfers[i].at <= now'
    BY <1>2 DEF Days
  <2> QED BY <2>1, <2>2, <2>3 DEF Days, BiggestDaily
<1> QED BY <1>1, <1>4, <1>5

\* A crossing keeps its token within some daily limit.
LEMMA WithinDaily ==
  ASSUME LimitsInv, NEW tok \in Token, NEW n \in Amounts, UpdateTokenTransfer(tok, n)
  PROVE  n \in Nat /\ Spent(tok) \in Nat /\ Spent(tok) + n <= BiggestDaily
<1> USE LimitsTypes DEF LimitsInv
<1>1. n \in Nat
  BY AmountAssumption
<1>2. Spent(tok) \in Nat /\ Spent(tok) <= BiggestDaily
  BY Biggest DEF Spent, Days
<1>3. Limits(tok) \in LimitChoices
  <2>1. info[tok].typeId \in Nat /\ info[tok].typeId < Len(typeLimits) /\ typeLimits \in Seq(LimitChoices)
    BY AmountAssumption DEF AllowTokensTypeOK, UpdateTokenTransfer
  <2>2. info[tok].typeId + 1 \in 1..Len(typeLimits)
    BY <2>1, LenProperties
  <2> QED BY <2>1, <2>2, ElementOfSeq DEF Limits
<1> DEFINE daily == Limits(tok).daily
           max == Limits(tok).max
           left == IF daily <= Spent(tok) THEN 0 ELSE daily - Spent(tok)
<1>4. daily \in Nat /\ daily <= BiggestDaily /\ max \in Nat
  BY <1>3, Biggest, AmountAssumption
<1>5. n <= Min({left, max})
  BY DEF UpdateTokenTransfer, CalcMaxWithdraw
<1> HIDE DEF daily, max
<1>6. left \in Nat
  BY <1>2, <1>4
<1>7. Min({left, max}) <= left
  <2>1. \E x \in {left, max} : \A y \in {left, max} : x <= y
    BY <1>4, <1>6
  <2>2. \A y \in {left, max} : Min({left, max}) <= y
    BY <2>1 DEF Min
  <2> QED BY <2>2
<1>8. Min({left, max}) \in Int
  <2>1. \E x \in {left, max} : \A y \in {left, max} : x <= y
    BY <1>4, <1>6
  <2>2. Min({left, max}) \in {left, max}
    BY <2>1 DEF Min
  <2> QED BY <1>4, <1>6, <2>2
<1>9. n <= left
  BY <1>1, <1>5, <1>6, <1>7, <1>8
<1>10. BiggestDaily \in Nat
  BY Biggest
<1> HIDE DEF LimitsInv
<1> QED BY <1>1, <1>2, <1>4, <1>9, <1>10

LEMMA AllowTokensTypesStep == LimitsInv /\ [AllowTokensNext]_allowTokensVars => AllowTokensTypeOK'
<1> SUFFICES ASSUME LimitsInv, [AllowTokensNext]_allowTokensVars PROVE AllowTokensTypeOK'
  OBVIOUS
<1> USE DEF LimitsInv
<1>0. /\ typeLimits \in Seq(LimitChoices) /\ Len(typeLimits) \in Nat
      /\ \A tok \in Token : info[tok] \in [allowed : BOOLEAN, typeId : 0..(MAX_TYPES - 1), spentToday : Nat, lastDay : 0..END]
  BY LenProperties DEF AllowTokensTypeOK
<1>1. CASE \E tok \in Token, n \in Amounts : UpdateTokenTransfer(tok, n)
  <2>1. PICK tok \in Token, n \in Amounts : UpdateTokenTransfer(tok, n)
    BY <1>1
  <2>2. Spent(tok) + n \in Nat /\ now \in 0..END
    BY <2>1, WithinDaily, TimeAssumption DEF AllowTokensTypeOK
  <2>3. [token |-> tok, at |-> now, amount |-> n] \in Crossing
    BY DEF Crossing, AllowTokensTypeOK
  <2>4. transfers' \in Seq(Crossing)
    BY <2>1, <2>3, AppendTyped DEF UpdateTokenTransfer, AllowTokensTypeOK, Crossing
  <2>5. info' \in [Token -> [allowed : BOOLEAN, typeId : 0..(MAX_TYPES - 1), spentToday : Nat, lastDay : 0..END]]
    BY <1>0, <2>1, <2>2 DEF UpdateTokenTransfer, AllowTokensTypeOK
  <2>6. \A u \in Token : info'[u].allowed = info[u].allowed /\ info'[u].typeId = info[u].typeId
    BY <1>0, <2>1 DEF UpdateTokenTransfer, AllowTokensTypeOK
  <2>7. UNCHANGED <<now, typeLimits>>
    BY <2>1 DEF UpdateTokenTransfer
  <2> QED BY <2>4, <2>5, <2>6, <2>7 DEF AllowTokensTypeOK, Crossing
<1>2. CASE \E tok \in Token, type \in 0..(MAX_TYPES - 1) : SetToken(tok, type)
  <2>1. PICK tok \in Token, type \in 0..(MAX_TYPES - 1) : SetToken(tok, type)
    BY <1>2
  <2> DEFINE r == [info[tok] EXCEPT !.allowed = TRUE, !.typeId = type]
  <2>2. /\ info' = [info EXCEPT ![tok] = r] /\ type < Len(typeLimits)
        /\ UNCHANGED <<now, typeLimits, transfers>>
    BY <2>1 DEF SetToken
  <2>3. r \in [allowed : BOOLEAN, typeId : 0..(MAX_TYPES - 1), spentToday : Nat, lastDay : 0..END] /\ r.typeId = type
    BY <1>0
  <2> HIDE DEF r
  <2> QED BY <2>2, <2>3 DEF AllowTokensTypeOK
<1>3. CASE \E tok \in Token : RemoveAllowedToken(tok)
  <2>1. PICK tok \in Token : RemoveAllowedToken(tok)
    BY <1>3
  <2> DEFINE r == [info[tok] EXCEPT !.allowed = FALSE]
  <2>2. info' = [info EXCEPT ![tok] = r] /\ UNCHANGED <<now, typeLimits, transfers>>
    BY <2>1 DEF RemoveAllowedToken
  <2>3. r \in [allowed : BOOLEAN, typeId : 0..(MAX_TYPES - 1), spentToday : Nat, lastDay : 0..END] /\ r.allowed = FALSE
    BY <1>0
  <2> HIDE DEF r
  <2> QED BY <2>2, <2>3 DEF AllowTokensTypeOK
<1>4. CASE \E type \in 0..(MAX_TYPES - 1), l \in LimitChoices : SetTypeLimits(type, l)
  <2>1. PICK type \in 0..(MAX_TYPES - 1), l \in LimitChoices :
          typeLimits' = [typeLimits EXCEPT ![type + 1] = l] /\ UNCHANGED <<now, info, transfers>>
    BY <1>4 DEF SetTypeLimits
  <2>2. typeLimits' \in Seq(LimitChoices) /\ Len(typeLimits') = Len(typeLimits)
    <3>1. typeLimits \in [1..Len(typeLimits) -> LimitChoices]
      BY <1>0, LenProperties
    <3>2. typeLimits' \in [1..Len(typeLimits) -> LimitChoices]
      BY <2>1, <3>1
    <3> QED BY <1>0, <3>2, LenOfFunction
  <2> QED BY <2>1, <2>2 DEF AllowTokensTypeOK
<1>5. CASE \E l \in LimitChoices : AddTokenType(l)
  <2>1. PICK l \in LimitChoices : AddTokenType(l)
    BY <1>5
  <2>2. typeLimits' \in Seq(LimitChoices) /\ Len(typeLimits') = Len(typeLimits) + 1
    BY <1>0, <2>1, AppendTyped DEF AddTokenType
  <2>3. \A tok \in Token : info[tok].allowed => info[tok].typeId < Len(typeLimits) + 1
    <3>1. \A tok \in Token : info[tok].typeId \in Int
      BY <1>0, AmountAssumption
    <3> QED BY <1>0, <3>1 DEF AllowTokensTypeOK
  <2> QED BY <2>1, <2>2, <2>3 DEF AddTokenType, AllowTokensTypeOK
<1>6. CASE Tick
  <2>1. now' \in START..END
    BY <1>6, TimeAssumption DEF Tick, AllowTokensTypeOK
  <2> QED BY <1>6, <2>1 DEF Tick, AllowTokensTypeOK
<1>7. CASE UNCHANGED allowTokensVars
  BY <1>7 DEF allowTokensVars, AllowTokensTypeOK
<1> QED BY <1>1, <1>2, <1>3, <1>4, <1>5, <1>6, <1>7 DEF AllowTokensNext

\* A crossing at now: in the day in course, or as the first of a new day.
LEMMA CrossingKeepsLimits ==
  ASSUME LimitsInv, AllowTokensTypeOK', NEW tok \in Token, NEW n \in Amounts, UpdateTokenTransfer(tok, n)
  PROVE  SpentIsWindowSum' /\ Days' /\ AnyDayWithinTwoLimits'
<1> DEFINE e == [token |-> tok, at |-> now, amount |-> n]
           L == info[tok].lastDay
           M == IF DayIsOver(tok) THEN now ELSE L
<1>1. /\ n \in Nat /\ Spent(tok) \in Nat /\ Spent(tok) + n <= BiggestDaily
      /\ BiggestDaily \in Nat /\ BiggestDaily' = BiggestDaily
  BY WithinDaily, Biggest DEF BiggestDaily
<1>2. /\ now \in Nat /\ DAY \in Nat /\ START \in Nat /\ END \in Nat /\ L \in Nat /\ now \in START..END
      /\ transfers \in Seq(Crossing) /\ Len(transfers) \in Nat
      /\ \A i \in 1..Len(transfers) : transfers[i] \in Crossing /\ transfers[i].at \in Nat
      /\ \A u, a, b : Crossed(transfers, u, a, b) \in Int
  BY LimitsTypes, LenProperties DEF LimitsInv, AllowTokensTypeOK
<1>3. e \in Crossing /\ e.token = tok /\ e.at = now /\ e.amount = n
  BY <1>2 DEF Crossing
<1>4. /\ transfers' = Append(transfers, e) /\ now' = now
      /\ info'[tok].spentToday = Spent(tok) + n /\ info'[tok].lastDay = M
      /\ \A u \in Token : u # tok => info'[u] = info[u]
  BY DEF UpdateTokenTransfer, LimitsInv, AllowTokensTypeOK
<1>5. /\ L <= now /\ info[tok].spentToday = Crossed(transfers, tok, L, now)
      /\ \A i \in 1..Len(transfers) : transfers[i].at <= now
      /\ \A i \in 1..Len(transfers) : transfers[i].token = tok => transfers[i].at <= L + DAY
      /\ \A from \in START..END : from + DAY >= L => Crossed(transfers, tok, from, L - 1) <= BiggestDaily
      /\ info[tok].spentToday <= BiggestDaily
  BY DEF LimitsInv, Days, SpentIsWindowSum
<1>6. M \in Nat /\ M <= now /\ now <= M + DAY /\ L <= M
  BY <1>2, <1>5 DEF DayIsOver
<1>7. /\ Len(transfers') = Len(transfers) + 1 /\ transfers'[Len(transfers) + 1] = e
      /\ \A i \in 1..Len(transfers) : transfers'[i] = transfers[i]
  BY <1>2, <1>3, <1>4, AppendTyped
<1>8. \A u, a, b : Crossed(transfers', u, a, b)
                  = Crossed(transfers, u, a, b) + IF u = tok /\ now \in a..b THEN n ELSE 0
  <2>1. ASSUME NEW u, NEW a, NEW b
        PROVE  Crossed(transfers', u, a, b) = Crossed(transfers, u, a, b) + Counted(e, u, a, b)
    BY <1>2, <1>3, <1>4, CrossedAppend
  <2> HIDE DEF e
  <2> QED BY <1>3, <2>1 DEF Counted
<1> HIDE DEF e, L
\* What had been spent of this day crossed in it.
<1>9. Spent(tok) = Crossed(transfers, tok, M, now)
  <2>1. CASE DayIsOver(tok)
    <3>1. \A i \in 1..Len(transfers) : ~ (transfers[i].token = tok /\ transfers[i].at \in M..now)
      BY <1>2, <1>5, <2>1 DEF DayIsOver, L
    <3>2. Crossed(transfers, tok, M, now) = 0
      BY <1>2, <3>1, CrossedNothing
    <3> QED BY <2>1, <3>2 DEF Spent
  <2>2. CASE ~ DayIsOver(tok)
    BY <1>5, <2>2 DEF Spent
  <2> QED BY <2>1, <2>2
<1>10. ASSUME NEW from \in START..END, from + DAY >= M
       PROVE  Crossed(transfers, tok, from, M - 1) <= BiggestDaily
  <2>1. CASE DayIsOver(tok)
    <3>1. \A i \in 1..Len(transfers) :
            transfers[i].token = tok /\ transfers[i].at \in from..(M - 1) =>
              transfers[i].at \in L..now \/ transfers[i].at \in 1..0
      BY <1>2, <1>5, <1>6, <1>10, <2>1 DEF DayIsOver, L
    <3>2. Crossed(transfers, tok, from, M - 1) <= Crossed(transfers, tok, L, now) + Crossed(transfers, tok, 1, 0)
      BY <1>2, <3>1, CrossedCovered
    <3>3. Crossed(transfers, tok, 1, 0) = 0
      BY <1>2, CrossedNothing
    <3>4. /\ Crossed(transfers, tok, L, now) \in Int /\ Crossed(transfers, tok, from, M - 1) \in Int
          /\ Crossed(transfers, tok, L, now) <= BiggestDaily
      BY <1>2, <1>5
    <3> HIDE DEF M
    <3> QED BY <1>1, <3>2, <3>3, <3>4
  <2>2. CASE ~ DayIsOver(tok)
    BY <1>5, <1>10, <2>2
  <2> QED BY <2>1, <2>2
<1> HIDE DEF M
<1>11. SpentIsWindowSum'
  <2>1. info'[tok].spentToday = Crossed(transfers', tok, M, now)
    BY <1>2, <1>4, <1>6, <1>8, <1>9
  <2>2. ASSUME NEW u \in Token, u # tok
        PROVE  info'[u].spentToday = Crossed(transfers', u, info'[u].lastDay, now)
    <3>1. info[u].spentToday = Crossed(transfers, u, info[u].lastDay, now)
      BY DEF LimitsInv, SpentIsWindowSum
    <3>2. Crossed(transfers', u, info[u].lastDay, now) = Crossed(transfers, u, info[u].lastDay, now)
      BY <1>2, <1>8, <2>2
    <3> QED BY <1>4, <2>2, <3>1, <3>2
  <2> QED BY <1>4, <2>1, <2>2 DEF SpentIsWindowSum
<1>12. Days'
  <2>1. ASSUME NEW i \in 1..Len(transfers')
        PROVE  /\ transfers'[i].at <= now
               /\ transfers'[i].at <= info'[transfers'[i].token].lastDay + DAY
    <3>1. CASE i = Len(transfers) + 1
      BY <1>2, <1>3, <1>4, <1>6, <1>7, <3>1
    <3>2. CASE i # Len(transfers) + 1
      <4>1. i \in 1..Len(transfers) /\ transfers'[i] = transfers[i]
        BY <1>2, <1>7, <3>2
      <4>2. transfers[i].token \in Token
        BY <1>2, <4>1 DEF Crossing
      <4>3. CASE transfers[i].token = tok
        BY <1>2, <1>4, <1>5, <1>6, <4>1, <4>3
      <4>4. CASE transfers[i].token # tok
        BY <1>4, <4>1, <4>2, <4>4 DEF LimitsInv, Days
      <4> QED BY <4>3, <4>4
    <3> QED BY <3>1, <3>2
  <2>2. /\ info'[tok].lastDay <= now /\ info'[tok].spentToday <= BiggestDaily
        /\ \A from \in START..END :
             from + DAY >= M => Crossed(transfers', tok, from, M - 1) <= BiggestDaily
    <3>1. ASSUME NEW from \in START..END, from + DAY >= M
          PROVE  Crossed(transfers', tok, from, M - 1) <= BiggestDaily
      <4>1. now \notin from..(M - 1)
        BY <1>2, <1>6
      <4>2. Crossed(transfers', tok, from, M - 1) = Crossed(transfers, tok, from, M - 1)
        BY <1>2, <1>8, <4>1
      <4> QED BY <1>10, <3>1, <4>2
    <3> QED BY <1>1, <1>4, <1>6, <3>1
  <2>3. ASSUME NEW u \in Token, u # tok
        PROVE  /\ info[u].lastDay <= now /\ info[u].spentToday <= BiggestDaily
               /\ \A from \in START..END :
                    from + DAY >= info[u].lastDay =>
                      Crossed(transfers', u, from, info[u].lastDay - 1) <= BiggestDaily
    <3>1. \A a, b : Crossed(transfers', u, a, b) = Crossed(transfers, u, a, b)
      BY <1>2, <1>8, <2>3
    <3> QED BY <3>1 DEF LimitsInv, Days
  <2>4. ASSUME NEW u \in Token
        PROVE  /\ info'[u].lastDay <= now' /\ info'[u].spentToday <= BiggestDaily
               /\ \A from \in START..END :
                    from + DAY >= info'[u].lastDay =>
                      Crossed(transfers', u, from, info'[u].lastDay - 1) <= BiggestDaily
    BY <1>4, <2>2, <2>3
  <2> QED BY <1>1, <1>4, <2>1, <2>4 DEF Days
<1>13. ASSUME NEW u \in Token, NEW from \in START..END
       PROVE  Crossed(transfers', u, from, from + DAY) <= 2 * BiggestDaily
  <2>1. Crossed(transfers, u, from, from + DAY) <= 2 * BiggestDaily
    BY DEF LimitsInv, AnyDayWithinTwoLimits
  <2>2. CASE ~ (u = tok /\ now \in from..(from + DAY))
    BY <1>2, <1>8, <2>1, <2>2
  \* The window ends in this day: what is before the day, and the day itself.
  <2>3. CASE u = tok /\ now \in from..(from + DAY)
    <3>1. from \in Nat /\ from + DAY >= M /\ from + DAY >= now
      BY <1>2, <1>6, <2>3
    <3>2. Crossed(transfers, tok, from, M - 1) <= BiggestDaily
      BY <1>10, <3>1
    <3>3. \A i \in 1..Len(transfers) :
            transfers[i].token = tok /\ transfers[i].at \in from..(from + DAY) =>
              transfers[i].at \in from..(M - 1) \/ transfers[i].at \in M..now
      BY <1>2, <1>5, <1>6, <3>1
    <3>4. Crossed(transfers, tok, from, from + DAY)
            <= Crossed(transfers, tok, from, M - 1) + Crossed(transfers, tok, M, now)
      BY <1>2, <3>3, CrossedCovered
    <3>5. Crossed(transfers', tok, from, from + DAY) = Crossed(transfers, tok, from, from + DAY) + n
      BY <1>8, <2>3
    <3>6. /\ Crossed(transfers, tok, from, from + DAY) \in Int /\ Crossed(transfers, tok, from, M - 1) \in Int
          /\ Crossed(transfers, tok, M, now) \in Int
      BY <1>2
    <3>7. Crossed(transfers', tok, from, from + DAY) <= 2 * BiggestDaily
      BY <1>1, <1>9, <3>2, <3>4, <3>5, <3>6
    <3> QED BY <2>3, <3>7
  <2> QED BY <2>2, <2>3
<1>14. AnyDayWithinTwoLimits'
  BY <1>1, <1>13 DEF AnyDayWithinTwoLimits
<1> QED BY <1>11, <1>12, <1>14

LEMMA LimitsStep == LimitsInv /\ [AllowTokensNext]_allowTokensVars => LimitsInv'
<1> SUFFICES ASSUME LimitsInv, [AllowTokensNext]_allowTokensVars
             PROVE  SpentIsWindowSum' /\ Days' /\ AnyDayWithinTwoLimits'
  BY AllowTokensTypesStep DEF LimitsInv
<1>0. AllowTokensTypeOK' /\ now \in Nat
  BY AllowTokensTypesStep, LimitsTypes DEF LimitsInv
<1>1. CASE \E tok \in Token, n \in Amounts : UpdateTokenTransfer(tok, n)
  BY <1>0, <1>1, CrossingKeepsLimits
<1>2. CASE ~ \E tok \in Token, n \in Amounts : UpdateTokenTransfer(tok, n)
  <2>1. UNCHANGED transfers
    BY <1>2 DEF AllowTokensNext, allowTokensVars, SetToken, RemoveAllowedToken, SetTypeLimits, AddTokenType, Tick
  <2>2. now' = now \/ now' = now + 1
    BY <1>2 DEF AllowTokensNext, allowTokensVars, SetToken, RemoveAllowedToken, SetTypeLimits, AddTokenType, Tick
  <2>3. \A tok \in Token : info'[tok].spentToday = info[tok].spentToday /\ info'[tok].lastDay = info[tok].lastDay
    <3>1. \A tok \in Token :
            info[tok] \in [allowed : BOOLEAN, typeId : 0..(MAX_TYPES - 1), spentToday : Nat, lastDay : 0..END]
      BY DEF LimitsInv, AllowTokensTypeOK
    <3>2. CASE \E tok \in Token, type \in 0..(MAX_TYPES - 1) : SetToken(tok, type)
      BY <3>1, <3>2 DEF SetToken, LimitsInv, AllowTokensTypeOK
    <3>3. CASE \E tok \in Token : RemoveAllowedToken(tok)
      BY <3>1, <3>3 DEF RemoveAllowedToken, LimitsInv, AllowTokensTypeOK
    <3>4. CASE UNCHANGED info
      BY <3>4
    <3> QED BY <1>2, <3>2, <3>3, <3>4 DEF AllowTokensNext, allowTokensVars, SetTypeLimits, AddTokenType, Tick
  <2>4. now <= now'
    BY <1>0, <2>2
  <2> QED BY <1>0, <2>1, <2>3, <2>4, NothingCrosses
<1> QED BY <1>1, <1>2

LEMMA LimitsHold == AllowTokensSpec => []LimitsInv
BY LimitsInit, LimitsStep, PTL DEF AllowTokensSpec

\* Whatever the owner sets and whatever crosses, limits, counters and days stay
\* within their types.
THEOREM LimitsTyped == AllowTokensSpec => []AllowTokensTypeOK
<1>1. LimitsInv => AllowTokensTypeOK
  BY DEF LimitsInv
<1> QED BY <1>1, LimitsHold, PTL

\* The counter of a token is what crossed since its day began, whatever the owner
\* changes and however long nothing crosses.
THEOREM CounterIsWindowSum == AllowTokensSpec => []SpentIsWindowSum
<1>1. LimitsInv => SpentIsWindowSum
  BY DEF LimitsInv
<1> QED BY <1>1, LimitsHold, PTL

\* Any window of a day's length sees at most two daily limits cross.
THEOREM TwoLimitsADay == AllowTokensSpec => []AnyDayWithinTwoLimits
<1>1. LimitsInv => AnyDayWithinTwoLimits
  BY DEF LimitsInv
<1> QED BY <1>1, LimitsHold, PTL
=============================================================================
