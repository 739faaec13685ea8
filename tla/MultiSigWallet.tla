--------------------------- MODULE MultiSigWallet ---------------------------
(***************************************************************************)
(* The wallet (bridge/contracts/MultiSigWallet.sol) that owns the other    *)
(* contracts.  An owner submits a transaction, others confirm it, and the  *)
(* confirmation that makes `required` of them carries it out in the same   *)
(* call.  The owners and the requirement themselves change only by         *)
(* transactions that the wallet sends to itself, while other transactions  *)
(* with their confirmations are pending.                                   *)
(*                                                                         *)
(* A transaction is its call, whether it was executed and who confirmed    *)
(* it.  What the wallet calls outside does not call back into it.          *)
(***************************************************************************)
EXTENDS Naturals, Sequences, FiniteSets, Roster

CONSTANTS
  Address, NULL_ADDRESS,
  MAX_OWNER_COUNT,   \* 50 in the code
  External,          \* calls to other contracts
  SelfCall,          \* calls to the wallet itself that are submitted
  MAX_TRANSACTIONS   \* transactions considered (bound)

\* Every call the wallet can send to itself.
AdminCall ==
  [op : {"addOwner", "removeOwner"}, owner : Address]
  \cup [op : {"replaceOwner"}, owner : Address, newOwner : Address]
  \cup [op : {"changeRequirement"}, n : Nat]

ASSUME WalletAssumption ==
  /\ NULL_ADDRESS \in Address
  /\ MAX_OWNER_COUNT \in Nat \ {0}
  /\ MAX_TRANSACTIONS \in Nat
  /\ \A c \in SelfCall : c \in AdminCall

VARIABLES owners, isOwner, required, transactions

rosterVars == <<owners, isOwner, required>>
vars == <<owners, isOwner, required, transactions>>

Call == External \cup SelfCall
Wrapped(c) == [call |-> c, executed |-> FALSE, confirmations |-> {}]
Transaction == [call : Call, executed : BOOLEAN, confirmations : SUBSET Address]

TypeOK ==
  /\ owners \in Seq(Address)
  /\ isOwner \in [Address -> BOOLEAN]
  /\ required \in 1..MAX_OWNER_COUNT
  /\ transactions \in Seq(Transaction)

Owners == Elements(owners)

ValidRequirement(count, r) ==
  count <= MAX_OWNER_COUNT /\ r <= count /\ r # 0 /\ count # 0

Init ==
  /\ owners \in UNION {[1..n -> Address \ {NULL_ADDRESS}] : n \in 1..MAX_OWNER_COUNT}
  /\ NoDuplicates(owners)
  /\ isOwner = [a \in Address |-> a \in Owners]
  /\ required \in 1..MAX_OWNER_COUNT
  /\ ValidRequirement(Len(owners), required)
  /\ transactions = <<>>

-----------------------------------------------------------------------------
(* The functions only the wallet may call, each with what makes it revert. *)

CanAddOwner(a) ==
  /\ ~isOwner[a]
  /\ a # NULL_ADDRESS
  /\ ValidRequirement(Len(owners) + 1, required)

AddOwner(a) ==
  /\ isOwner' = [isOwner EXCEPT ![a] = TRUE]
  /\ owners' = Append(owners, a)
  /\ UNCHANGED required

\* The last owner cannot go: the requirement would become 0.
CanRemoveOwner(a) == isOwner[a] /\ Len(owners) > 1

\* Fault: the requirement is left as it was.
RemoveOwnerOnly(a) ==
  /\ isOwner' = [isOwner EXCEPT ![a] = FALSE]
  /\ owners' = SwapAndPop(owners, a)
  /\ UNCHANGED required

RemoveOwner(a) ==
  /\ isOwner' = [isOwner EXCEPT ![a] = FALSE]
  /\ owners' = SwapAndPop(owners, a)
  /\ required' = IF required > Len(owners') THEN Len(owners') ELSE required

\* Nothing keeps the null address from becoming an owner here.
CanReplaceOwner(a, b) == isOwner[a] /\ ~isOwner[b]

ReplaceOwner(a, b) ==
  /\ owners' = Substitute(owners, a, b)
  /\ isOwner' = [isOwner EXCEPT ![a] = FALSE, ![b] = TRUE]
  /\ UNCHANGED required

CanChangeRequirement(r) == ValidRequirement(Len(owners), r)

ChangeRequirement(r) == required' = r /\ UNCHANGED <<owners, isOwner>>

Performs(c) ==
  \/ c \in External /\ UNCHANGED rosterVars
  \/ c \in SelfCall /\ c.op = "addOwner" /\ CanAddOwner(c.owner) /\ AddOwner(c.owner)
  \/ c \in SelfCall /\ c.op = "removeOwner" /\ CanRemoveOwner(c.owner) /\ RemoveOwner(c.owner)
  \/ /\ c \in SelfCall /\ c.op = "replaceOwner"
     /\ CanReplaceOwner(c.owner, c.newOwner) /\ ReplaceOwner(c.owner, c.newOwner)
  \/ c \in SelfCall /\ c.op = "changeRequirement" /\ CanChangeRequirement(c.n) /\ ChangeRequirement(c.n)

\* A call outside may revert for reasons of its own.
MayFail(c) ==
  \/ c \in External
  \/ c \in SelfCall /\ c.op = "addOwner" /\ ~CanAddOwner(c.owner)
  \/ c \in SelfCall /\ c.op = "removeOwner" /\ ~CanRemoveOwner(c.owner)
  \/ c \in SelfCall /\ c.op = "replaceOwner" /\ ~CanReplaceOwner(c.owner, c.newOwner)
  \/ c \in SelfCall /\ c.op = "changeRequirement" /\ ~CanChangeRequirement(c.n)

-----------------------------------------------------------------------------
\* Fault: confirmations of former owners count.
IsConfirmedByAnyone(tx) == Cardinality(tx.confirmations) >= required

\* The loop finds count = required at some position: the count grows by one
\* at most and required > 0, so exactly if the full count reaches it.
IsConfirmed(tx) ==
  Cardinality({i \in DOMAIN owners : owners[i] \in tx.confirmations}) >= required

\* executeTransaction on transaction id of ts: a failed call leaves it
\* unexecuted, to be tried again.
Resolve(ts, id) ==
  \/ /\ IsConfirmed(ts[id])
     /\ Performs(ts[id].call)
     /\ transactions' = [ts EXCEPT ![id].executed = TRUE]
  \/ /\ IsConfirmed(ts[id]) => MayFail(ts[id].call)
     /\ transactions' = ts
     /\ UNCHANGED rosterVars

\* No transaction of the chain is sent by the null address.
ByOwner(m) == isOwner[m] /\ m # NULL_ADDRESS

SubmitTransaction(m, c) ==
  /\ ByOwner(m)
  /\ Len(transactions) < MAX_TRANSACTIONS
  /\ Resolve(Append(transactions, [Wrapped(c) EXCEPT !.confirmations = {m}]),
             Len(transactions) + 1)

\* Fault: an executed transaction can be confirmed and executed again.
ConfirmAnything(m, id) ==
  /\ ByOwner(m)
  /\ m \notin transactions[id].confirmations
  /\ Resolve([transactions EXCEPT ![id].confirmations = @ \cup {m}], id)

\* On an executed transaction, executeTransaction reverts the call.
ConfirmTransaction(m, id) ==
  /\ ByOwner(m)
  /\ m \notin transactions[id].confirmations
  /\ ~transactions[id].executed
  /\ Resolve([transactions EXCEPT ![id].confirmations = @ \cup {m}], id)

RevokeConfirmation(m, id) ==
  /\ ByOwner(m)
  /\ m \in transactions[id].confirmations
  /\ ~transactions[id].executed
  /\ transactions' = [transactions EXCEPT ![id].confirmations = @ \ {m}]
  /\ UNCHANGED rosterVars

ExecuteTransaction(m, id) ==
  /\ ByOwner(m)
  /\ m \in transactions[id].confirmations
  /\ ~transactions[id].executed
  /\ Resolve(transactions, id)

Next ==
  \E m \in Address :
    \/ \E c \in Call : SubmitTransaction(m, c)
    \/ \E id \in 1..Len(transactions) :
         ConfirmTransaction(m, id) \/ RevokeConfirmation(m, id) \/ ExecuteTransaction(m, id)

Spec == Init /\ [][Next]_vars

-----------------------------------------------------------------------------
(* Properties.                                                             *)

\* Array, mapping and requirement agree after any sequence of changes, each
\* decided when other transactions were confirmed under other owners: the
\* wallet can never have a requirement above the number of its owners.
OwnersConsistent ==
  /\ NoDuplicates(owners)
  /\ \A a \in Address : isOwner[a] <=> a \in Owners
  /\ Len(owners) <= MAX_OWNER_COUNT
  /\ required \in 1..Len(owners)

Supporters(tx) == Owners \cap tx.confirmations

\* Transaction id is executed in this step.
Executes(id) ==
  /\ transactions'[id].executed
  /\ id \in DOMAIN transactions => ~transactions[id].executed

\* Nothing is executed, and no owner or requirement changes, but by one
\* transaction that `required` of the owners of that moment confirm:
\* confirmations of removed owners do not count, whatever the order.
DecidedByOwners ==
  [][/\ \A id \in DOMAIN transactions' :
          Executes(id) => Cardinality(Supporters(transactions'[id])) >= required
     /\ UNCHANGED rosterVars \/ \E id \in DOMAIN transactions' : Executes(id)]_vars

\* An executed transaction is final: it is not confirmed, revoked, executed
\* or overwritten again.
ExecutedIsFinal ==
  [][\A id \in DOMAIN transactions :
       transactions[id].executed =>
         id \in DOMAIN transactions' /\ transactions'[id] = transactions[id]]_vars
=============================================================================
