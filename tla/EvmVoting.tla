------------------------------ MODULE EvmVoting -------------------------------
(***************************************************************************)
(* How one federator votes on the EVM chain for what was sent to the       *)
(* multisig wallet on Hathor (HathorService, HathorHistorySinc,            *)
(* HathorBroker.voteOnEvm, FederatorHTR._voteTransaction,                  *)
(* TransactionSender).  A crossing reaches it as a message of the queue,   *)
(* handled beside the others; in the history of the wallet, replayed in    *)
(* order at every start, before the queue is listened to; or, a melt, as   *)
(* an event of HathorFederation, whose vote nobody awaits.                 *)
(*                                                                         *)
(* Every await is the end of a step.  A transaction of the federator is    *)
(* known by its nonce and the crossing it votes for.  A message that is    *)
(* rejected goes through the dead letter queue back to the main one.       *)
(***************************************************************************)
EXTENDS Naturals, FiniteSets
CONSTANTS
  Direct,                   \* crossings of tokens native to Hathor
  Melts,                    \* crossings of EVM tokens, voted for once melted
  Tiny,                     \* those below the minimum of AllowTokens
  Time,                     \* timestamp of a direct crossing's transaction
  EnvTime,                  \* HATHOR_LAST_TIMESTAMP
  MaxFaults                 \* bound: errors, timeouts, missed messages, deaths

History == "history"
None == "none"
Crossings == Direct \cup Melts
Slots == Crossings \cup {History}

ASSUME CrossingsAssumption ==
  Tiny \subseteq Direct /\ Direct \cap Melts = {} /\ {History, None} \cap Crossings = {}
ASSUME TimeAssumption == Time \in [Direct -> Nat] /\ EnvTime \in Nat
ASSUME FaultsAssumption == MaxFaults \in Nat

VARIABLES
  voted, processed,         \* the Federation contract: by me; by anybody
  nonce, pool,              \* my transactions: number mined, those pending
  queue, confirmed,         \* where each message is; confirmations on Hathor
  phase, todo,              \* of the process; what is left of the history
  call,                     \* calls of sendTokensToEvm and voteOnEvm under way
  reverted, saved,          \* the two files: reverted votes, last timestamp
  failed, blamed, overlapped, \* votes reported as failed; hit by a fault or by
                            \* another call's nonce; while others were under way
  faults
evm == <<voted, processed, nonce, pool>>
hathor == <<queue, confirmed>>
process == <<phase, todo, call>>
files == <<reverted, saved>>
record == <<failed, blamed, overlapped>>
vars == <<evm, hathor, process, files, record, faults>>

Places == {"absent", "missed", "ready", "taken", "dead", "acked"}
Steps == {"idle", "begun", "asking", "unprocessed", "unvoted", "numbering", "sending", "waiting",
          "mined", "reverted"}
Idle == [at |-> "idle", of |-> None, nonce |-> 0, seen |-> {}]

TypeOK ==
  /\ voted \subseteq Crossings /\ processed \subseteq Crossings
  /\ nonce \in Nat /\ pool \subseteq [nonce : Nat, of : Crossings]
  /\ queue \in [Direct -> Places] /\ confirmed \subseteq Direct
  /\ phase \in {"starting", "history", "listening", "deaf", "waiting"} /\ todo \subseteq Direct
  /\ call \in [Slots -> [at : Steps, of : Crossings \cup {None}, nonce : Nat, seen : SUBSET Crossings]]
  /\ reverted \subseteq Crossings /\ saved \in Nat
  /\ failed \subseteq Crossings /\ blamed \subseteq Crossings /\ overlapped \subseteq Crossings
  /\ faults \in 0..MaxFaults

Init ==
  /\ voted = {} /\ processed = {} /\ nonce = 0 /\ pool = {}
  /\ queue = [c \in Direct |-> "absent"] /\ confirmed = {}
  /\ phase = "starting" /\ todo = {} /\ call = [s \in Slots |-> Idle]
  /\ reverted = {} /\ saved = 0
  /\ failed = {} /\ blamed = {} /\ overlapped = {} /\ faults = 0

-----------------------------------------------------------------------------
(* The wallet, the queue and the chain *)

Fault == faults < MaxFaults /\ faults' = faults + 1

\* The wallet learns of the transaction, and its plugin publishes it or fails to.
Arrive(c) ==
  /\ queue[c] = "absent"
  /\ \/ queue' = [queue EXCEPT ![c] = "ready"] /\ UNCHANGED faults
     \/ queue' = [queue EXCEPT ![c] = "missed"] /\ Fault
  /\ UNCHANGED <<evm, confirmed, process, files, record>>

Confirm(c) ==
  /\ queue[c] # "absent" /\ c \notin confirmed
  /\ confirmed' = confirmed \cup {c}
  /\ UNCHANGED <<evm, queue, process, files, record, faults>>

\* A dead letter's time to live is over.
Expire(c) ==
  /\ queue[c] = "dead" /\ queue' = [queue EXCEPT ![c] = "ready"]
  /\ UNCHANGED <<evm, confirmed, process, files, record, faults>>

\* The votes of others, who leave out the tiny ones too, suffice.
Processed(c) ==
  /\ c \notin processed \cup Tiny /\ processed' = processed \cup {c}
  /\ UNCHANGED <<voted, nonce, pool, hathor, process, files, record, faults>>

Awaits(s, p) == call[s].at = "waiting" /\ call[s].nonce = p.nonce /\ call[s].of = p.of

Answer(p, outcome) ==
  call' = [s \in Slots |-> IF Awaits(s, p) THEN [call[s] EXCEPT !.at = outcome] ELSE call[s]]

\* voteTransaction returns without a vote when the transfer is processed; it
\* reverts when its vote suffices and the bridge refuses the transfer.
Mine(p) ==
  /\ p \in pool /\ p.nonce = nonce
  /\ pool' = pool \ {p} /\ nonce' = nonce + 1
  /\ \/ /\ voted' = IF p.of \in processed THEN voted ELSE voted \cup {p.of}
        /\ Answer(p, "mined") /\ UNCHANGED <<blamed, faults>>
     \/ /\ Fault /\ blamed' = blamed \cup {p.of}
        /\ Answer(p, "reverted") /\ UNCHANGED voted
  /\ UNCHANGED <<processed, hathor, phase, todo, files, failed, overlapped>>

-----------------------------------------------------------------------------
(* A call *)

Goto(s, step) == call' = [call EXCEPT ![s].at = step]
Begin(s, c, step) == call' = [call EXCEPT ![s] = [Idle EXCEPT !.at = step, !.of = c]]

\* Only of what came from Hathor, and went well.
Save(s, result) == saved' = IF result /\ s \notin Melts THEN Time[call[s].of] ELSE saved

\* Fault: a message is acknowledged whatever the answer.
SettleAlways(s, result) ==
  /\ call' = [call EXCEPT ![s] = Idle]
  /\ queue' = IF s \in Direct THEN [queue EXCEPT ![s] = "acked"] ELSE queue
  /\ Save(s, result)

\* The call returns: the timestamp is saved and the message acknowledged, or
\* rejected; the history goes on; nobody looks at the vote for a melt.
Settle(s, result) ==
  /\ call' = [call EXCEPT ![s] = Idle]
  /\ queue' = IF s \in Direct THEN [queue EXCEPT ![s] = IF result THEN "acked" ELSE "dead"] ELSE queue
  /\ Save(s, result)

Deliver(c) ==
  /\ phase = "listening" /\ queue[c] = "ready"
  /\ queue' = [queue EXCEPT ![c] = "taken"] /\ Begin(c, c, "begun")
  /\ UNCHANGED <<evm, confirmed, phase, todo, files, record, faults>>

\* An event of HathorFederation: any federator's report of the melt, or one read
\* again after a restart.
ReportOfMelt(c) ==
  /\ c \in Melts /\ phase \notin {"starting", "waiting"} /\ call[c] = Idle /\ Begin(c, c, "asking")
  /\ UNCHANGED <<evm, hathor, phase, todo, files, record, faults>>

IsTxConfirmed(c) == c \in confirmed
BelowMinimum(c) == c \in Tiny

\* The confirmations come first, then the minimum.
CheckCrossing(s) ==
  LET c == call[s].of IN
  /\ call[s].at = "begun"
  /\ \/ ~IsTxConfirmed(c) /\ Settle(s, FALSE)
     \/ IsTxConfirmed(c) /\ BelowMinimum(c) /\ Settle(s, TRUE)
     \/ IsTxConfirmed(c) /\ ~BelowMinimum(c) /\ Goto(s, "asking") /\ UNCHANGED <<queue, saved>>
  /\ UNCHANGED <<evm, confirmed, phase, todo, reverted, record, faults>>

AskProcessed(s) ==
  /\ call[s].at = "asking"
  /\ IF call[s].of \in processed THEN Settle(s, TRUE)
     ELSE Goto(s, "unprocessed") /\ UNCHANGED <<queue, saved>>
  /\ UNCHANGED <<evm, confirmed, phase, todo, reverted, record, faults>>

\* Fault: only a processed transfer counts as done.
ForgetOwnVote(s) ==
  /\ call[s].at = "unprocessed" /\ Goto(s, "unvoted") /\ UNCHANGED <<queue, saved>>
  /\ UNCHANGED <<evm, confirmed, phase, todo, reverted, record, faults>>

AskVoted(s) ==
  /\ call[s].at = "unprocessed"
  /\ IF call[s].of \in voted THEN Settle(s, TRUE)
     ELSE Goto(s, "unvoted") /\ UNCHANGED <<queue, saved>>
  /\ UNCHANGED <<evm, confirmed, phase, todo, reverted, record, faults>>

ReadReverted(s) ==
  /\ call[s].at = "unvoted"
  /\ IF call[s].of \in reverted THEN Settle(s, FALSE)
     ELSE /\ call' = [call EXCEPT ![s].at = "numbering", ![s].seen = reverted]
          /\ UNCHANGED <<queue, saved>>
  /\ UNCHANGED <<evm, confirmed, phase, todo, reverted, record, faults>>

Numbered == {s \in Slots : call[s].at = "sending"}

\* Fault: the transactions that are pending are not counted.
MinedCount == nonce

\* getTransactionCount(address, 'pending')
PendingCount == nonce + Cardinality(pool)

TakeNonce(s) ==
  /\ call[s].at = "numbering"
  /\ call' = [call EXCEPT ![s].at = "sending", ![s].nonce = PendingCount]
  /\ blamed' = IF Numbered = {} THEN blamed
               ELSE blamed \cup {call[t].of : t \in Numbered \cup {s}}
  /\ UNCHANGED <<evm, hathor, phase, todo, files, failed, overlapped, faults>>

\* Calls whose copy of the file lacks what another one writes now.
Underway(s) ==
  {t \in Slots \ {s} : call[t].at \in {"numbering", "sending", "waiting", "mined", "reverted"}}

\* The file as it was before the vote was sent, and this vote.
Mark(s) == reverted' = call[s].seen \cup {call[s].of}

\* sendTransaction answers status false, whatever the reason.
VoteFails(s) ==
  /\ Mark(s)
  /\ Settle(s, FALSE)
  /\ failed' = failed \cup {call[s].of}
  /\ overlapped' = IF Underway(s) = {} THEN overlapped
                   ELSE overlapped \cup {call[s].of} \cup reverted
  /\ UNCHANGED <<processed, voted, nonce, confirmed, phase, todo>>

TxOf(s) == [nonce |-> call[s].nonce, of |-> call[s].of]

\* A transaction with the nonce of another one replaces it, for a higher price of
\* gas, or is refused, as one with a nonce already used is.
Broadcast(s) ==
  LET rivals == {p \in pool : p.nonce = call[s].nonce} IN
  /\ call[s].at = "sending"
  /\ \/ /\ call[s].nonce >= nonce
        /\ pool' = (pool \ rivals) \cup {TxOf(s)} /\ Goto(s, "waiting")
        /\ UNCHANGED <<voted, processed, nonce, hathor, phase, todo, files, failed, overlapped>>
     \/ /\ call[s].nonce < nonce \/ rivals # {}
        /\ VoteFails(s) /\ UNCHANGED pool
  /\ UNCHANGED <<blamed, faults>>

Answered(s) ==
  /\ call[s].at = "mined" /\ Settle(s, TRUE)
  /\ UNCHANGED <<evm, confirmed, phase, todo, reverted, record, faults>>

\* The receipt says so, or a transaction that was replaced is waited for in vain.
Refused(s) ==
  /\ call[s].at = "reverted" \/ (call[s].at = "waiting" /\ TxOf(s) \notin pool)
  /\ VoteFails(s) /\ UNCHANGED <<pool, blamed, faults>>

-----------------------------------------------------------------------------
(* The process *)

From == IF saved < EnvTime THEN EnvTime ELSE saved

RecentHistory == {c \in Direct : queue[c] # "absent" /\ Time[c] >= From}

Start ==
  /\ phase = "starting" /\ phase' = "history" /\ todo' = RecentHistory
  /\ UNCHANGED <<evm, hathor, call, files, record, faults>>

\* The wallet is not ready after five questions: the process waits for an event
\* that only a sixth one could bring.
GiveUp ==
  /\ phase = "starting" /\ phase' = "waiting" /\ Fault
  /\ UNCHANGED <<evm, hathor, todo, call, files, record>>

\* The history is out of reach; the queue is listened to all the same.
HistoryFails ==
  /\ phase = "starting" /\ phase' = "history" /\ Fault
  /\ UNCHANGED <<evm, hathor, todo, call, files, record>>

\* Fault: the history is not sorted.
ReplayAny ==
  /\ phase = "history" /\ call[History] = Idle
  /\ \E c \in todo : Begin(History, c, "begun") /\ todo' = todo \ {c}
  /\ UNCHANGED <<evm, hathor, phase, files, record, faults>>

Replay ==
  /\ phase = "history" /\ call[History] = Idle
  /\ \E c \in todo :
       /\ \A d \in todo : Time[c] <= Time[d]
       /\ Begin(History, c, "begun") /\ todo' = todo \ {c}
  /\ UNCHANGED <<evm, hathor, phase, files, record, faults>>

Replayed == phase = "history" /\ call[History] = Idle /\ todo = {}

Listen ==
  /\ Replayed /\ phase' = "listening"
  /\ UNCHANGED <<evm, hathor, todo, call, files, record, faults>>

\* The queue is out of reach: nobody asks for it again.
ListenFails ==
  /\ Replayed /\ phase' = "deaf" /\ Fault
  /\ UNCHANGED <<evm, hathor, todo, call, files, record>>

\* Fault: messages are acknowledged on delivery.
RestartForgets ==
  /\ phase' = "starting" /\ todo' = {} /\ call' = [s \in Slots |-> Idle]
  /\ queue' = [c \in Direct |-> IF queue[c] = "taken" THEN "acked" ELSE queue[c]]

Restart ==
  /\ phase' = "starting" /\ todo' = {} /\ call' = [s \in Slots |-> Idle]
  /\ queue' = [c \in Direct |-> IF queue[c] = "taken" THEN "ready" ELSE queue[c]]

Die ==
  /\ Fault /\ Restart
  /\ UNCHANGED <<evm, confirmed, files, record>>

\* The process runs on without listening: it gave up on the wallet or the queue.
Deaf == phase \in {"waiting", "deaf"}

\* Somebody sees it, sooner or later or never.
StartAnew ==
  /\ Deaf /\ Restart
  /\ UNCHANGED <<evm, confirmed, files, record, faults>>

\* A question is not answered.  The rejection of an unawaited vote, which nobody
\* handles, ends the process.
Throws(s) ==
  /\ Fault /\ call[s].at \in {"begun", "asking", "unprocessed", "numbering"}
  /\ IF s \in Melts THEN Restart /\ UNCHANGED saved ELSE Settle(s, FALSE) /\ UNCHANGED <<phase, todo>>
  /\ UNCHANGED <<evm, confirmed, reverted, record>>

\* The price of gas or the gas itself cannot be had.
BuildFails(s) ==
  /\ Fault /\ call[s].at = "sending" /\ VoteFails(s)
  /\ blamed' = blamed \cup {call[s].of} /\ UNCHANGED pool

\* The transaction "might still be mined", and is.
SendFails(s) ==
  /\ Fault /\ call[s].at = "waiting" /\ TxOf(s) \in pool /\ VoteFails(s)
  /\ blamed' = blamed \cup {call[s].of} /\ UNCHANGED pool

-----------------------------------------------------------------------------
Step(s) ==
  \/ CheckCrossing(s) \/ AskProcessed(s) \/ AskVoted(s) \/ ReadReverted(s) \/ TakeNonce(s)
  \/ Broadcast(s) \/ Answered(s) \/ Refused(s)

Environment ==
  \/ \E c \in Direct : Arrive(c) \/ Confirm(c) \/ Expire(c)
  \/ \E c \in Crossings : Processed(c)
  \/ \E p \in pool : Mine(p)

Next ==
  \/ Environment \/ Start \/ GiveUp \/ HistoryFails \/ Replay \/ Listen \/ ListenFails \/ Die \/ StartAnew
  \/ \E c \in Direct : Deliver(c)
  \/ \E c \in Melts : ReportOfMelt(c)
  \/ \E s \in Slots : Step(s) \/ Throws(s) \/ BuildFails(s) \/ SendFails(s)

Spec == Init /\ [][Next]_vars

\* Transactions are confirmed and mined, the broker delivers and redelivers, and
\* every question is answered or fails.
FairSpec ==
  /\ Spec /\ WF_vars(Start \/ Replay \/ Listen)
  /\ \A c \in Direct : WF_vars(Confirm(c)) /\ WF_vars(Expire(c)) /\ WF_vars(Deliver(c))
  /\ \A s \in Slots : WF_vars(Step(s))
  /\ WF_vars(\E p \in pool : Mine(p))

-----------------------------------------------------------------------------
(* Properties *)

\* A message leaves the queue for good (HathorService.ts l.111) only when this
\* federator has voted, or need not: whatever failed, timed out or overlapped.
AckedMeansVoted ==
  \A c \in Direct : queue[c] = "acked" => c \in voted \cup processed \cup Tiny

\* A vote is marked as reverted, and so given up (FederatorHTR.ts l.365), only when
\* its transaction failed or two calls took a nonce at the same time; and a
\* failed vote lacks its mark (l.389) only when other votes were under way.
MarksExplained ==
  /\ reverted \subseteq blamed
  /\ failed \ reverted \subseteq overlapped

\* Whenever the process dies in the middle of the history, the next start
\* replays what is left of it: the timestamp never runs ahead of the replay.
ReplayResumes == phase = "history" => \A c \in todo : Time[c] >= From

\* What reached the queue is voted for, processed by others or marked as
\* reverted, through every death, redelivery and collision, unless the process
\* was left deaf (main.ts l.78, HathorService.ts l.104).
EventuallyAttempted ==
  \A c \in Direct :
    queue[c] \in {"ready", "taken", "dead"} ~> c \in voted \cup processed \cup reverted \cup Tiny \/ Deaf

\* The message of a vote that was mined after it had been marked as reverted
\* does not go round for ever while the process listens.
LateVoteAcked ==
  \A c \in Direct :
    queue[c] \in {"ready", "taken", "dead"} /\ c \in voted \cup processed ~> queue[c] = "acked" \/ Deaf
=============================================================================
