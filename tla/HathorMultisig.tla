---------------------------- MODULE HathorMultisig ----------------------------
(***************************************************************************)
(* How the federators make the multisig wallet pay on Hathor (Broker,      *)
(* EvmBroker, HathorBroker): one of them builds a transaction and proposes *)
(* it in the HathorFederation contract, each signs what stands there, and  *)
(* whoever sees enough signatures pushes it to Hathor and reports back.    *)
(* Calls of sendTokens of one federator overlap: the scanner's, the        *)
(* queue's and the event reader's.                                         *)
(*                                                                         *)
(* A Hathor transaction is known by the crossing it pays and the input it  *)
(* spends.  Each question to the contract is a step; the transaction and   *)
(* the number of signatures are read with the flag that makes them wanted. *)
(***************************************************************************)
EXTENDS Naturals, FiniteSets, Sequences
CONSTANTS
  Federators,
  Proposer,                 \* the federator whose multisigOrder is 1
  Scanning,                 \* bound: those whose scanner or queue is modelled
  Threshold,                \* HEADLESS_MULTISIG_SEED_DEFAULT_NUM_SIGNATURES
  Mints, Melts,             \* crossings to be minted, and to be melted
  Inputs,                   \* what the multisig wallet has to spend
  MaxFaults,                \* bound: errors, lost answers and deaths
  None                      \* no transaction, no crossing

Crossings == Mints \cup Melts
Reader == "reader"
Slots == Crossings \cup {Reader}

ASSUME MembersAssumption ==
  /\ IsFiniteSet(Federators) /\ Scanning \subseteq Federators /\ Proposer \in Scanning
  /\ Threshold \in 1..Cardinality(Federators)
ASSUME CrossingsAssumption ==
  Mints \cap Melts = {} /\ None \notin Crossings \cup Inputs /\ Reader \notin Crossings
ASSUME FaultsAssumption == MaxFaults \in Nat

VARIABLES
  proposal,                 \* transactionHex (isProposed if there is one)
  signatures,               \* transactionSignatures, with their signer
  processed,                \* isProcessed
  events,                   \* what the contract emitted
  read,                     \* the events each federator has read
  told,                     \* crossings handed over for good by scanner, queue
  call,                     \* calls of sendTokens under way
  late,                     \* transactions taken for failed, still to be mined
  ledger,                   \* transactions on Hathor
  marked, forgot,           \* inputs the proposer's wallet holds back; lost once?
  faults, failed            \* has a call failed, otherwise than by a death?
contract == <<proposal, signatures, processed, events>>
local == <<read, told, call>>
hathor == <<ledger, marked, forgot>>
trouble == <<faults, failed>>
vars == <<contract, local, late, hathor, trouble>>

Steps == {"idle", "unprocessed", "unsigned", "building", "proposing", "signing", "pushing", "sent", "unsent"}
Event == [kind : {"proposed", "signed", "sent"}, of : Crossings, by : Federators \cup {None}]
Request == [op : {"proposing", "signing", "sent", "unsent"}, of : Crossings,
            tx : Inputs \cup {None}, by : Federators]
Idle == [at |-> "idle", of |-> None, tx |-> None]

TypeOK ==
  /\ proposal \in [Crossings -> Inputs \cup {None}]
  /\ signatures \in [Crossings -> SUBSET (Federators \X Inputs)]
  /\ processed \in [Crossings -> BOOLEAN]
  /\ events \in Seq(Event) /\ read \in [Federators -> 0..Len(events)]
  /\ told \in [Federators -> SUBSET Crossings]
  /\ call \in [Federators -> [Slots -> [at : Steps, of : Crossings \cup {None}, tx : Inputs \cup {None}]]]
  /\ late \subseteq Request
  /\ ledger \subseteq Crossings \X Inputs /\ marked \subseteq Inputs
  /\ forgot \in BOOLEAN /\ failed \in BOOLEAN /\ faults \in 0..MaxFaults

Init ==
  /\ proposal = [c \in Crossings |-> None] /\ signatures = [c \in Crossings |-> {}]
  /\ processed = [c \in Crossings |-> FALSE] /\ events = <<>>
  /\ read = [f \in Federators |-> 0] /\ told = [f \in Federators |-> {}]
  /\ call = [f \in Federators |-> [s \in Slots |-> Idle]]
  /\ late = {} /\ ledger = {}
  /\ marked = {} /\ forgot = FALSE /\ failed = FALSE /\ faults = 0

-----------------------------------------------------------------------------
(* The HathorFederation contract: a refused request leaves it as it is *)

HasSigned(f, c) == \E i \in Inputs : <<f, i>> \in signatures[c]
Emit(kind, c, f) == events' = Append(events, [kind |-> kind, of |-> c, by |-> f])

SendTransactionProposal(c, i) ==
  IF proposal[c] = None
  THEN /\ proposal' = [proposal EXCEPT ![c] = i]
       /\ Emit("proposed", c, None) /\ UNCHANGED <<signatures, processed>>
  ELSE UNCHANGED contract

UpdateSignatureState(f, c, i) ==
  IF HasSigned(f, c) THEN UNCHANGED contract
  ELSE /\ signatures' = [signatures EXCEPT ![c] = @ \cup {<<f, i>>}]
       /\ Emit("signed", c, f) /\ UNCHANGED <<proposal, processed>>

UpdateTransactionState(c, sent) ==
  IF processed[c] THEN UNCHANGED contract
  ELSE /\ processed' = [processed EXCEPT ![c] = sent]
       /\ Emit("sent", c, None) /\ UNCHANGED <<proposal, signatures>>

Executes(r) ==
  CASE r.op = "proposing" -> SendTransactionProposal(r.of, r.tx)
    [] r.op = "signing" -> UpdateSignatureState(r.by, r.of, r.tx)
    [] OTHER -> UpdateTransactionState(r.of, r.op = "sent")

-----------------------------------------------------------------------------
(* A call of sendTokens *)

Goto(f, s, step, c, i) ==
  call' = [call EXCEPT ![f][s] = [at |-> step, of |-> c, tx |-> i]] /\ UNCHANGED told

Stop(f, s) == call' = [call EXCEPT ![f][s] = Idle]
Told(f, s) == IF s = Reader THEN told ELSE [told EXCEPT ![f] = @ \cup {s}]
Return(f, s) == Stop(f, s) /\ told' = Told(f, s)
\* The caller may take the crossing for done, or hand it over again.
Drop(f, s) == Stop(f, s) /\ told' \in {told, Told(f, s)}

\* Fault: a signature more than needed is waited for.
EnoughAndOne(c) == Cardinality(signatures[c]) > Threshold

Enough(c) == Cardinality(signatures[c]) >= Threshold

\* sendTokens: is it processed, is it signed by me, is it proposed?
AskProcessed(f, s, c) ==
  IF processed[c] THEN Return(f, s) ELSE Goto(f, s, "unprocessed", c, None)

AskSigned(f, s) ==
  LET c == call[f][s].of IN
  /\ call[f][s].at = "unprocessed"
  /\ \/ ~HasSigned(f, c) /\ Goto(f, s, "unsigned", c, None)
     \/ HasSigned(f, c) /\ Enough(c) /\ Goto(f, s, "pushing", c, proposal[c])
     \/ HasSigned(f, c) /\ ~Enough(c) /\ Return(f, s)
  /\ UNCHANGED <<contract, read, late, hathor, trouble>>

AskProposed(f, s) ==
  LET c == call[f][s].of IN
  /\ call[f][s].at = "unsigned"
  /\ \/ proposal[c] # None /\ Goto(f, s, "signing", c, proposal[c])
     \/ proposal[c] = None /\ f = Proposer /\ Goto(f, s, "building", c, None)
     \/ proposal[c] = None /\ f # Proposer /\ Return(f, s)
  /\ UNCHANGED <<contract, read, late, hathor, trouble>>

HandOver(f, c) ==
  /\ f \in Scanning /\ call[f][c] = Idle /\ c \notin told[f]
  /\ AskProcessed(f, c, c)
  /\ UNCHANGED <<contract, read, late, hathor, trouble>>

\* The pass over the LockTransactionHex events comes before that over the others.
ReadEvent(f) ==
  LET e == events[read[f] + 1] IN
  /\ call[f][Reader] = Idle /\ read[f] < Len(events)
  /\ read' = [read EXCEPT ![f] = @ + 1]
  /\ IF e.kind = "sent" THEN UNCHANGED <<call, told>> ELSE AskProcessed(f, Reader, e.of)
  /\ marked' = IF e.kind = "proposed" /\ f = Proposer THEN marked \cup {proposal[e.of]} ELSE marked
  /\ UNCHANGED <<contract, late, ledger, forgot, trouble>>

Spent == {l[2] : l \in ledger}
\* Fault: mark_inputs_as_used is not asked for.
FreeUnlessSpent == Inputs \ Spent

Free == Inputs \ (Spent \cup marked)

\* The wallet chooses and marks the inputs, or answers that it has none.
Build(f, s) ==
  /\ call[f][s].at = "building"
  /\ \/ \E i \in Free :
          /\ marked' = marked \cup {i}
          /\ Goto(f, s, "proposing", call[f][s].of, i)
        /\ UNCHANGED failed
     \/ Free = {} /\ Drop(f, s) /\ failed' = TRUE /\ UNCHANGED marked
  /\ UNCHANGED <<contract, read, late, ledger, forgot, faults>>

RequestOf(f, s) == [op |-> call[f][s].at, of |-> call[f][s].of, tx |-> call[f][s].tx, by |-> f]
Sending(f, s) == call[f][s].at \in {"proposing", "signing", "sent", "unsent"}

\* Fault: having sent a proposal, the federator signs what it built.
SendAndSign(f, s) ==
  /\ Sending(f, s) /\ Executes(RequestOf(f, s))
  /\ IF call[f][s].at = "proposing"
     THEN Goto(f, s, "signing", call[f][s].of, call[f][s].tx) ELSE Return(f, s)
  /\ UNCHANGED <<read, late, hathor, trouble>>

\* sendProposal, signProposal and pushProposal end with a transaction to the
\* contract, whose refusal is logged.
Send(f, s) ==
  /\ Sending(f, s)
  /\ Executes(RequestOf(f, s))
  /\ Return(f, s)
  /\ UNCHANGED <<read, late, hathor, trouble>>

Signers(c, i) == {f \in Federators : <<f, i>> \in signatures[c]}
Accepted(c, i) == i \notin Spent /\ Cardinality(Signers(c, i)) >= Threshold

\* Hathor accepts the transaction, or one of its inputs was spent before.
Push(f, s) ==
  LET c == call[f][s].of
      i == call[f][s].tx IN
  /\ call[f][s].at = "pushing"
  /\ \/ Accepted(c, i) /\ ledger' = ledger \cup {<<c, i>>} /\ Goto(f, s, "sent", c, i)
     \/ i \in Spent /\ Goto(f, s, "unsent", c, i) /\ UNCHANGED ledger
  /\ UNCHANGED <<contract, read, late, marked, forgot, trouble>>

-----------------------------------------------------------------------------
(* Faults *)

Fault == faults < MaxFaults /\ faults' = faults + 1
Failure(f, s) == Fault /\ failed' = TRUE /\ Drop(f, s)

\* A transaction to the contract fails, or is mined after it was given up.
SendFails(f, s) ==
  /\ Sending(f, s) /\ Failure(f, s)
  /\ late' \in {late, late \cup {RequestOf(f, s)}}
  /\ UNCHANGED <<contract, read, hathor>>

Mined(r) ==
  /\ r \in late /\ late' = late \ {r}
  /\ Executes(r)
  /\ UNCHANGED <<local, hathor, trouble>>

\* Fault: any failed push is reported.
WalletFailsReporting(f, s) ==
  /\ Fault /\ failed' = TRUE /\ call[f][s].at \in {"building", "pushing"}
  /\ IF call[f][s].at = "pushing"
     THEN Goto(f, s, "unsent", call[f][s].of, call[f][s].tx) ELSE Return(f, s)
  /\ UNCHANGED <<contract, read, late, hathor>>

\* Without a transaction id the arguments of updateTransactionState cannot be
\* encoded, so a push that failed for another reason is not reported.
WalletFails(f, s) ==
  /\ call[f][s].at \in {"building", "pushing"} /\ Failure(f, s)
  /\ UNCHANGED <<contract, read, late, hathor>>

\* The wallet does what it was asked, and its answer is lost.
AnswerLost(f, s) ==
  LET c == call[f][s].of IN
  /\ Failure(f, s)
  /\ \/ call[f][s].at = "building" /\ UNCHANGED ledger
        /\ \E i \in Free : marked' = marked \cup {i}
     \/ call[f][s].at = "pushing" /\ Accepted(c, call[f][s].tx) /\ UNCHANGED marked
        /\ ledger' = ledger \cup {<<c, call[f][s].tx>>}
  /\ UNCHANGED <<contract, read, late, forgot>>

\* The time to live of the marks is over, or the wallet was started anew.
Forget ==
  /\ Fault /\ marked # {}
  /\ marked' = {} /\ forgot' = TRUE
  /\ UNCHANGED <<contract, local, late, ledger, failed>>

\* After a death the events are read from the block last kept, here the first.
Die(f) ==
  /\ Fault
  /\ call' = [call EXCEPT ![f] = [s \in Slots |-> Idle]]
  /\ read' = [read EXCEPT ![f] = 0]
  /\ UNCHANGED <<contract, told, late, hathor, failed>>

-----------------------------------------------------------------------------
Step(f, s) ==
  AskSigned(f, s) \/ AskProposed(f, s) \/ Build(f, s) \/ Send(f, s) \/ Push(f, s)

Next ==
  \/ \E f \in Federators :
       \/ ReadEvent(f) \/ Die(f)
       \/ \E c \in Crossings : HandOver(f, c)
       \/ \E s \in Slots : Step(f, s) \/ SendFails(f, s) \/ WalletFails(f, s) \/ AnswerLost(f, s)
  \/ \E r \in late : Mined(r)
  \/ Forget

Spec == Init /\ [][Next]_vars

-----------------------------------------------------------------------------
\* A vote on the EVM chain starts when the report of a melt is read.
Voted(f) == {c \in Melts : \E k \in 1..read[f] : events[k].kind = "sent" /\ events[k].of = c}

Paid(c) == \E i \in Inputs : <<c, i>> \in ledger

(* Every signature in the contract (Broker.ts l.234) is for the             *)
(* transaction that stands there, although a federator may have built       *)
(* others for the same crossing and its calls overlap: the signatures fit   *)
(* together when they are pushed.                                           *)
SignaturesStand ==
  \A c \in Crossings : \A sig \in signatures[c] : sig[2] = proposal[c]

(* A crossing is marked processed (Broker.ts l.297) only when Hathor has    *)
(* its transaction; and a federator votes on the EVM chain for what a melt  *)
(* releases (HathorFederationLogsReader.ts l.52, which looks at no flag)    *)
(* only after the melt, as long as the wallet's marks were not lost.        *)
ReportsAreTrue ==
  /\ \A c \in Crossings : processed[c] => Paid(c)
  /\ forgot \/ \A f \in Federators : \A c \in Voted(f) : Paid(c)

(* Two proposals never spend the same input, as long as the wallet's marks  *)
(* were not lost (EvmBroker.ts l.113, HathorBroker.ts l.89): each can be    *)
(* pushed whatever becomes of the other.                                    *)
DisjointInputs ==
  forgot \/ \A c, d \in Crossings :
              proposal[c] # None /\ proposal[c] = proposal[d] => c = d

(* Once everything was handed over and read and no call is under way, every *)
(* crossing is paid, unless a call failed or the marks were lost: whoever   *)
(* reads the last signature that was needed pushes (Broker.ts l.268),       *)
(* although nobody calls sendTokens for this crossing again, and deaths     *)
(* lose nothing.                                                            *)
Quiet ==
  /\ \A f \in Federators : read[f] = Len(events) /\ \A s \in Slots : call[f][s] = Idle
  /\ \A f \in Scanning : told[f] = Crossings
NothingStuck == Quiet /\ ~failed /\ ~forgot => \A c \in Crossings : Paid(c)
=============================================================================
