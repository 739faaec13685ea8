-------------------------- MODULE EvmVoting_proofs --------------------------
(***************************************************************************)
(* For any crossings, timestamps and faults: no message leaves the queue   *)
(* unless its crossing was voted for or need not be, and the history is    *)
(* resumed where it was left.                                              *)
(***************************************************************************)
EXTENDS EvmVoting, FiniteSetTheorems, TLAPS

Calls == [at : Steps, of : Crossings \cup {None}, nonce : Nat, seen : SUBSET Crossings]

\* What the calls, the queue and the history are made of.
CoreType ==
  /\ voted \subseteq Crossings /\ processed \subseteq Crossings
  /\ queue \in [Direct -> Places]
  /\ phase \in {"starting", "history", "listening", "deaf", "waiting"} /\ todo \subseteq Direct
  /\ call \in [Slots -> Calls] /\ saved \in Nat

\* A call is for the crossing of its slot, that of the history for a direct one;
\* the transaction of one that was mined has its vote.
CallFits(s) ==
  call[s].at # "idle" =>
    /\ call[s].of \in Crossings
    /\ IF s = History THEN call[s].of \in Direct ELSE call[s].of = s
    /\ call[s].at = "mined" => call[s].of \in voted \cup processed

\* The history is replayed before the queue is listened to, oldest first.
HistoryFits ==
  /\ phase # "history" => todo = {}
  /\ phase \in {"starting", "history"} => \A c \in Direct : call[c].at = "idle"
  /\ call[History].at # "idle" =>
       phase = "history" /\ \A c \in todo : Time[call[History].of] <= Time[c]

Core ==
  /\ CoreType /\ (\A s \in Slots : CallFits(s)) /\ HistoryFits
  /\ AckedMeansVoted /\ ReplayResumes

\* The transactions, the other file and the records, which none of these depends on.
Rest ==
  /\ nonce \in Nat /\ IsFiniteSet(pool) /\ pool \subseteq [nonce : Nat, of : Crossings]
  /\ confirmed \subseteq Direct /\ reverted \subseteq Crossings
  /\ failed \subseteq Crossings /\ blamed \subseteq Crossings /\ overlapped \subseteq Crossings
  /\ faults \in 0..MaxFaults

IInv == Core /\ Rest

-----------------------------------------------------------------------------
\* The slots are the crossings and the history's own.
LEMMA SlotsAre ==
  /\ Direct \subseteq Crossings /\ Melts \subseteq Crossings
  /\ Crossings \subseteq Slots /\ History \in Slots /\ History \notin Crossings
  /\ \A s \in Slots : s = History \/ s \in Direct \/ s \in Melts
  /\ \A s \in Direct : s \notin Melts
  /\ Tiny \subseteq Direct /\ History \notin Melts
BY CrossingsAssumption DEF Slots, Crossings

LEMMA IdleIsCall == Idle \in Calls /\ Idle.at = "idle"
BY DEF Idle, Calls, Steps

LEMMA InitInv == Init => IInv
<1> SUFFICES ASSUME Init PROVE IInv
  OBVIOUS
<1>1. Core
  BY SlotsAre, IdleIsCall
     DEF Init, Core, CoreType, CallFits, HistoryFits, AckedMeansVoted, ReplayResumes, Places
<1>2. Rest
  BY FS_EmptySet, FaultsAssumption DEF Init, Rest
<1> QED BY <1>1, <1>2 DEF IInv

-----------------------------------------------------------------------------
(* What can become of the calls.                                           *)

\* A call goes on to a step that is not its end, and nothing else of the core changes
\* but that votes may be added.
LEMMA GoesOn ==
  ASSUME Core, NEW s \in Slots, call[s].at # "idle", NEW next \in Calls,
         next.of = call[s].of, next.at \notin {"idle", "mined"},
         call' = [call EXCEPT ![s] = next],
         UNCHANGED <<voted, processed, queue, phase, todo, saved>>
  PROVE  Core'
<1>1. CoreType'
  BY DEF Core, CoreType
<1>2. ASSUME NEW t \in Slots PROVE CallFits(t)'
  BY <1>2 DEF Core, CoreType, CallFits
<1>3. HistoryFits'
  BY SlotsAre DEF Core, CoreType, HistoryFits
<1>4. AckedMeansVoted' /\ ReplayResumes'
  BY DEF Core, AckedMeansVoted, ReplayResumes, From
<1> QED BY <1>1, <1>2, <1>3, <1>4 DEF Core

\* A call returns: with TRUE only when its crossing is voted for or need not be.
LEMMA Returns ==
  ASSUME Core, NEW s \in Slots, call[s].at # "idle", NEW result \in BOOLEAN,
         result => call[s].of \in voted \cup processed \cup Tiny,
         Settle(s, result), UNCHANGED <<voted, processed, phase, todo>>
  PROVE  Core'
<1> USE SlotsAre
<1>1. CallFits(s)
  BY DEF Core
<1>2. saved' \in Nat
  BY <1>1, TimeAssumption DEF Core, CoreType, Settle, Save, CallFits
<1>3. CoreType'
  BY <1>2, IdleIsCall DEF Core, CoreType, Settle, Places
<1>4. ASSUME NEW t \in Slots PROVE CallFits(t)'
  BY <1>4, IdleIsCall DEF Core, CoreType, Settle, CallFits
<1>5. HistoryFits'
  BY IdleIsCall DEF Core, CoreType, Settle, HistoryFits
<1>6. AckedMeansVoted'
  BY <1>1 DEF Core, CoreType, Settle, AckedMeansVoted, CallFits, Places
<1>7. ReplayResumes'
  <2> SUFFICES ASSUME phase = "history", NEW c \in todo
               PROVE  Time[c] >= From'
    BY DEF ReplayResumes
  <2>1. s \notin Direct
    BY DEF Core, HistoryFits
  <2>2. Time[c] \in Nat /\ Time[c] >= From /\ saved \in Nat /\ EnvTime \in Nat
    BY TimeAssumption DEF Core, CoreType, ReplayResumes
  <2>3. CASE saved' = saved
    BY <2>2, <2>3 DEF From
  <2>4. CASE saved' # saved
    <3>1. s = History /\ saved' = Time[call[History].of]
      BY <2>1, <2>4 DEF Settle, Save
    <3>2. Time[call[History].of] <= Time[c]
      BY <3>1 DEF Core, HistoryFits
    <3> QED BY <1>2, <2>2, <3>1, <3>2 DEF From
  <2> QED BY <2>3, <2>4
<1> QED BY <1>3, <1>4, <1>5, <1>6, <1>7 DEF Core

\* A process that starts again has no calls, and its messages go back to the queue.
LEMMA RestartKeeps ==
  ASSUME Core, Restart, UNCHANGED <<voted, processed, saved>>
  PROVE  Core'
BY SlotsAre, IdleIsCall
   DEF Restart, Core, CoreType, CallFits, HistoryFits, AckedMeansVoted, ReplayResumes, Places

\* A vote that fails is no vote.
LEMMA VoteFailsKeeps ==
  ASSUME IInv, NEW s \in Slots, call[s].at # "idle", VoteFails(s)
  PROVE  /\ Core'
         /\ reverted' \subseteq Crossings /\ failed' \subseteq Crossings /\ overlapped' \subseteq Crossings
         /\ nonce' = nonce /\ confirmed' = confirmed
<1>1. call[s].of \in Crossings /\ call[s].seen \subseteq Crossings
  BY DEF IInv, Core, CoreType, CallFits, Calls
<1>2. Core'
  BY Returns DEF IInv, VoteFails
<1> QED BY <1>1, <1>2 DEF VoteFails, Mark, IInv, Rest

\* Faults are counted.
LEMMA FaultCounts ==
  ASSUME Rest, Fault
  PROVE  faults' \in 0..MaxFaults
BY FaultsAssumption DEF Rest, Fault

-----------------------------------------------------------------------------
(* One lemma for each kind of step.                                        *)

\* What the wallet, the queue and the other federators do.
LEMMA EnvironmentKeeps ==
  ASSUME IInv, NEW c \in Crossings,
         \/ c \in Direct /\ (Arrive(c) \/ Confirm(c) \/ Expire(c))
         \/ Processed(c)
  PROVE  IInv'
<1> USE SlotsAre
<1>1. CASE c \in Direct /\ Arrive(c)
  <2>1. Core'
    BY <1>1 DEF IInv, Core, CoreType, CallFits, HistoryFits, AckedMeansVoted, ReplayResumes, From,
                Arrive, Places, evm, process, files, record
  <2>2. Rest'
    BY <1>1, FaultCounts DEF IInv, Rest, Arrive, evm, files, record
  <2> QED BY <2>1, <2>2 DEF IInv
<1>2. CASE c \in Direct /\ Confirm(c)
  BY <1>2 DEF IInv, Core, CoreType, CallFits, HistoryFits, AckedMeansVoted, ReplayResumes, From, Rest,
              Confirm, evm, process, files, record
<1>3. CASE c \in Direct /\ Expire(c)
  BY <1>3 DEF IInv, Core, CoreType, CallFits, HistoryFits, AckedMeansVoted, ReplayResumes, From, Rest,
              Expire, Places, evm, process, files, record
<1>4. CASE Processed(c)
  BY <1>4 DEF IInv, Core, CoreType, CallFits, HistoryFits, AckedMeansVoted, ReplayResumes, From, Rest,
              Processed, hathor, process, files, record
<1> QED BY <1>1, <1>2, <1>3, <1>4

\* A transaction is mined: its call has an answer, and its crossing a vote if the
\* answer is good.
LEMMA MineKeeps ==
  ASSUME IInv, NEW p \in pool, Mine(p)
  PROVE  IInv'
<1> USE SlotsAre
<1>1. p.of \in Crossings /\ p.nonce \in Nat
  BY DEF IInv, Rest
<1>2. PICK outcome \in {"mined", "reverted"} :
        /\ Answer(p, outcome)
        /\ outcome = "mined" => p.of \in voted' \cup processed
        /\ voted \subseteq voted' /\ voted' \subseteq Crossings
        /\ blamed' \subseteq Crossings /\ faults' \in 0..MaxFaults
  BY <1>1, FaultCounts DEF Mine, IInv, Core, CoreType, Rest
<1>3. \A s \in Slots :
        /\ call'[s] \in Calls /\ call'[s].of = call[s].of
        /\ call'[s].at = "idle" <=> call[s].at = "idle"
        /\ call'[s].at = "mined" => call[s].at = "mined" \/ call[s].of \in voted' \cup processed
  <2> SUFFICES ASSUME NEW s \in Slots
               PROVE  /\ call'[s] \in Calls /\ call'[s].of = call[s].of
                      /\ call'[s].at = "idle" <=> call[s].at = "idle"
                      /\ call'[s].at = "mined" => call[s].at = "mined" \/ call[s].of \in voted' \cup processed
    OBVIOUS
  <2>1. call[s] \in Calls
    BY DEF IInv, Core, CoreType
  <2>2. call'[s] = IF Awaits(s, p) THEN [call[s] EXCEPT !.at = outcome] ELSE call[s]
    BY <1>2 DEF Answer
  <2> QED BY <1>2, <2>1, <2>2 DEF Calls, Steps, Awaits
<1>4. UNCHANGED <<processed, queue, confirmed, phase, todo, reverted, saved, failed, overlapped>>
  BY DEF Mine, hathor, files
<1>5. call' \in [Slots -> Calls]
  BY <1>2, <1>3 DEF Answer
<1>6. CoreType'
  BY <1>2, <1>4, <1>5 DEF IInv, Core, CoreType
<1>7. ASSUME NEW s \in Slots PROVE CallFits(s)'
  BY <1>2, <1>3, <1>4 DEF IInv, Core, CallFits
<1>8. HistoryFits'
  BY <1>3, <1>4 DEF IInv, Core, HistoryFits
<1>9. AckedMeansVoted' /\ ReplayResumes'
  BY <1>2, <1>4 DEF IInv, Core, AckedMeansVoted, ReplayResumes, From
<1>10. Rest'
  BY <1>2, <1>4, FS_RemoveElement DEF IInv, Rest, Mine
<1> QED BY <1>6, <1>7, <1>8, <1>9, <1>10 DEF IInv, Core

\* A call begins: for a message, an event or the next of the history.
LEMMA BeginKeeps ==
  ASSUME IInv, NEW s \in Slots, NEW c \in Crossings, NEW step \in {"begun", "asking"},
         Begin(s, c, step),
         IF s = History
         THEN phase = "history" /\ c \in todo /\ todo' = todo \ {c} /\ \A d \in todo : Time[c] <= Time[d]
         ELSE c = s /\ todo' = todo,
         s \in Direct => phase \notin {"starting", "history"},
         queue' \in [Direct -> Places], \A d \in Direct : queue'[d] = "acked" => queue[d] = "acked",
         UNCHANGED <<evm, confirmed, phase, files, record, faults>>
  PROVE  IInv'
<1> USE SlotsAre
<1>1. call[s] \in Calls /\ [Idle EXCEPT !.at = step, !.of = c] \in Calls
  BY DEF IInv, Core, CoreType, Calls, Idle, Steps
<1>2. CoreType'
  BY <1>1 DEF IInv, Core, CoreType, Begin, evm, files
<1>3. ASSUME NEW t \in Slots PROVE CallFits(t)'
  BY <1>1, <1>3 DEF IInv, Core, CoreType, CallFits, Begin, Idle, evm
<1>4. HistoryFits'
  BY <1>1 DEF IInv, Core, CoreType, HistoryFits, Begin, Idle
<1>5. AckedMeansVoted' /\ ReplayResumes'
  BY DEF IInv, Core, AckedMeansVoted, ReplayResumes, From, evm, files
<1>6. Rest'
  BY DEF IInv, Rest, evm, files, record
<1> QED BY <1>2, <1>3, <1>4, <1>5, <1>6 DEF IInv, Core
\* The questions of a call: it returns, or goes on to the next one.
LEMMA QuestionKeeps ==
  ASSUME IInv, NEW s \in Slots,
         CheckCrossing(s) \/ AskProcessed(s) \/ AskVoted(s) \/ ReadReverted(s) \/ Answered(s)
  PROVE  IInv'
<1> USE SlotsAre
<1>1. call[s] \in Calls /\ CallFits(s)
  BY DEF IInv, Core, CoreType
<1>2. Rest'
  BY DEF IInv, Rest, CheckCrossing, AskProcessed, AskVoted, ReadReverted, Answered, evm, record
<1>3. call[s].at # "idle" /\ UNCHANGED <<voted, processed, phase, todo>>
  BY DEF CheckCrossing, AskProcessed, AskVoted, ReadReverted, Answered, evm
<1>4. \/ \E result \in BOOLEAN :
           Settle(s, result) /\ (result => call[s].of \in voted \cup processed \cup Tiny)
      \/ \E next \in Calls :
           /\ next.of = call[s].of /\ next.at \notin {"idle", "mined"}
           /\ call' = [call EXCEPT ![s] = next] /\ UNCHANGED <<queue, saved>>
  <2>1. CASE CheckCrossing(s)
    <3>1. [call[s] EXCEPT !.at = "asking"] \in Calls
      BY <1>1 DEF Calls, Steps
    <3> QED BY <1>1, <2>1, <3>1 DEF CheckCrossing, BelowMinimum, Goto, Calls
  <2>2. CASE AskProcessed(s)
    <3>1. [call[s] EXCEPT !.at = "unprocessed"] \in Calls
      BY <1>1 DEF Calls, Steps
    <3> QED BY <1>1, <2>2, <3>1 DEF AskProcessed, Goto, Calls
  <2>3. CASE AskVoted(s)
    <3>1. [call[s] EXCEPT !.at = "unvoted"] \in Calls
      BY <1>1 DEF Calls, Steps
    <3> QED BY <1>1, <2>3, <3>1 DEF AskVoted, Goto, Calls
  <2>4. CASE ReadReverted(s)
    <3> DEFINE next == [call[s] EXCEPT !.at = "numbering", !.seen = reverted]
    <3>1. reverted \subseteq Crossings
      BY DEF IInv, Rest
    <3>2. next \in Calls /\ next.of = call[s].of /\ next.at = "numbering"
      BY <1>1, <3>1 DEF Calls, Steps
    <3>3. CASE call[s].of \in reverted
      BY <2>4, <3>3 DEF ReadReverted
    <3>4. CASE call[s].of \notin reverted
      <4>1. call' = [call EXCEPT ![s] = next] /\ UNCHANGED <<queue, saved>>
        BY <2>4, <3>4 DEF ReadReverted
      <4> QED BY <3>2, <4>1
    <3> QED BY <3>3, <3>4
  <2>5. CASE Answered(s)
    BY <1>1, <2>5 DEF Answered, CallFits
  <2> QED BY <2>1, <2>2, <2>3, <2>4, <2>5
<1>5. Core'
  BY <1>3, <1>4, Returns, GoesOn DEF IInv
<1> QED BY <1>2, <1>5 DEF IInv

\* A call takes its nonce.
LEMMA TakeNonceKeeps ==
  ASSUME IInv, NEW s \in Slots, TakeNonce(s)
  PROVE  IInv'
<1> DEFINE next == [call[s] EXCEPT !.at = "sending", !.nonce = PendingCount]
<1>1. PendingCount \in Nat
  BY FS_CardinalityType DEF IInv, Rest, PendingCount
<1>2. /\ call[s] \in Calls /\ next \in Calls /\ next.of = call[s].of /\ next.at = "sending"
      /\ call[s].at = "numbering"
  BY <1>1 DEF IInv, Core, CoreType, TakeNonce, Calls, Steps
<1>3. call' = [call EXCEPT ![s] = next] /\ UNCHANGED <<voted, processed, queue, phase, todo, saved>>
  BY DEF TakeNonce, evm, hathor, files
<1>4. Core'
  BY <1>2, <1>3, GoesOn DEF IInv
<1>5. \A t \in Numbered \cup {s} : call[t].of \in Crossings
  BY DEF IInv, Core, CallFits, Numbered, TakeNonce
<1>6. blamed' \subseteq Crossings
  BY <1>5 DEF TakeNonce, IInv, Rest
<1>7. Rest'
  BY <1>6 DEF IInv, Rest, TakeNonce, evm, hathor, files
<1> QED BY <1>4, <1>7 DEF IInv

\* It sends its transaction, or the node refuses the nonce.
LEMMA BroadcastKeeps ==
  ASSUME IInv, NEW s \in Slots, Broadcast(s)
  PROVE  IInv'
<1> DEFINE next == [call[s] EXCEPT !.at = "waiting"]
           rivals == {p \in pool : p.nonce = call[s].nonce}
<1>1. /\ call[s] \in Calls /\ next \in Calls /\ next.of = call[s].of /\ next.at = "waiting"
      /\ call[s].at = "sending" /\ call[s].of \in Crossings
  BY DEF IInv, Core, CoreType, CallFits, Broadcast, Calls, Steps
<1>2. UNCHANGED <<blamed, faults>>
  BY DEF Broadcast
<1>3. CASE /\ pool' = (pool \ rivals) \cup {TxOf(s)} /\ Goto(s, "waiting")
           /\ UNCHANGED <<voted, processed, nonce, hathor, phase, todo, files, failed, overlapped>>
  <2>1. Core'
    BY <1>1, <1>3, GoesOn DEF IInv, Goto, hathor, files
  <2>2. IsFiniteSet(pool \ rivals)
    BY FS_Difference DEF IInv, Rest
  <2>3. IsFiniteSet((pool \ rivals) \cup {TxOf(s)})
    BY <2>2, FS_AddElement
  <2>4. TxOf(s) \in [nonce : Nat, of : Crossings]
    BY <1>1 DEF TxOf, Calls
  <2>5. Rest'
    BY <1>2, <1>3, <2>3, <2>4 DEF IInv, Rest, hathor, files
  <2> QED BY <2>1, <2>5 DEF IInv
<1>4. CASE VoteFails(s) /\ UNCHANGED pool
  BY <1>1, <1>2, <1>4, VoteFailsKeeps DEF IInv, Rest
<1> QED BY <1>3, <1>4 DEF Broadcast

\* The vote fails: refused, not to be built, or not to be waited for.
LEMMA FailureKeeps ==
  ASSUME IInv, NEW s \in Slots, Refused(s) \/ BuildFails(s) \/ SendFails(s)
  PROVE  IInv'
<1>1. /\ VoteFails(s) /\ UNCHANGED pool /\ call[s].at # "idle"
      /\ blamed' \subseteq blamed \cup {call[s].of} /\ faults' \in 0..MaxFaults
  BY FaultCounts DEF Refused, BuildFails, SendFails, IInv, Rest
<1>2. call[s].of \in Crossings
  BY <1>1 DEF IInv, Core, CallFits
<1>3. Core' /\ Rest'
  BY <1>1, <1>2, VoteFailsKeeps DEF IInv, Rest
<1> QED BY <1>3 DEF IInv

\* A question that is not answered ends its call, or the process.
LEMMA ThrowsKeeps ==
  ASSUME IInv, NEW s \in Slots, Throws(s)
  PROVE  IInv'
<1>1. Rest'
  BY FaultCounts DEF IInv, Rest, Throws, evm, record
<1>2. Core'
  <2>1. CASE s \in Melts
    BY <2>1, RestartKeeps DEF IInv, Throws, evm
  <2>2. CASE s \notin Melts
    BY <2>2, Returns DEF IInv, Throws, evm
  <2> QED BY <2>1, <2>2
<1> QED BY <1>1, <1>2 DEF IInv

\* The process starts, gives up, listens, dies and is started anew.
LEMMA ProcessKeeps ==
  ASSUME IInv, Start \/ GiveUp \/ HistoryFails \/ Listen \/ ListenFails \/ Die \/ StartAnew
  PROVE  IInv'
<1> USE SlotsAre
<1>1. Rest'
  BY FaultCounts DEF IInv, Rest, Start, GiveUp, HistoryFails, Listen, ListenFails, Die, StartAnew,
                     evm, hathor, files, record
<1>2. CASE Start
  BY <1>1, <1>2, TimeAssumption
     DEF IInv, Core, CoreType, CallFits, HistoryFits, AckedMeansVoted, ReplayResumes, From,
         Start, RecentHistory, evm, hathor, files
<1>3. CASE GiveUp \/ HistoryFails
  BY <1>1, <1>3
     DEF IInv, Core, CoreType, CallFits, HistoryFits, AckedMeansVoted, ReplayResumes, From,
         GiveUp, HistoryFails, evm, hathor, files
<1>4. CASE Listen \/ ListenFails
  BY <1>1, <1>4, IdleIsCall
     DEF IInv, Core, CoreType, CallFits, HistoryFits, AckedMeansVoted, ReplayResumes, From,
         Listen, ListenFails, Replayed, evm, hathor, files
<1>5. CASE Die \/ StartAnew
  BY <1>1, <1>5, RestartKeeps DEF IInv, Die, StartAnew, evm, files
<1> QED BY <1>2, <1>3, <1>4, <1>5

-----------------------------------------------------------------------------
LEMMA NextInv == IInv /\ [Next]_vars => IInv'
<1> SUFFICES ASSUME IInv, [Next]_vars PROVE IInv'
  OBVIOUS
<1> USE SlotsAre
<1>1. CASE UNCHANGED vars
  BY <1>1 DEF IInv, Core, CoreType, CallFits, HistoryFits, AckedMeansVoted, ReplayResumes, From, Rest,
              vars, evm, hathor, process, files, record
<1>2. CASE Environment
  BY <1>2, EnvironmentKeeps, MineKeeps DEF Environment
<1>3. CASE Start \/ GiveUp \/ HistoryFails \/ Listen \/ ListenFails \/ Die \/ StartAnew
  BY <1>3, ProcessKeeps
<1>4. CASE Replay
  <2>1. phase = "history" /\ todo \subseteq Crossings /\ queue \in [Direct -> Places]
    BY <1>4 DEF Replay, IInv, Core, CoreType
  <2> QED BY <1>4, <2>1, BeginKeeps DEF Replay, hathor
<1>5. CASE \E c \in Direct : Deliver(c)
  <2>1. PICK c \in Direct : Deliver(c)
    BY <1>5
  <2> QED BY <2>1, BeginKeeps DEF Deliver, IInv, Core, CoreType, Places
<1>6. CASE \E c \in Melts : ReportOfMelt(c)
  <2>1. PICK c \in Melts : ReportOfMelt(c)
    BY <1>6
  <2>2. queue \in [Direct -> Places] /\ c \notin Direct
    BY <2>1 DEF IInv, Core, CoreType
  <2> QED BY <2>1, <2>2, BeginKeeps DEF ReportOfMelt, hathor
<1>7. CASE \E s \in Slots : Step(s) \/ Throws(s) \/ BuildFails(s) \/ SendFails(s)
  BY <1>7, QuestionKeeps, TakeNonceKeeps, BroadcastKeeps, FailureKeeps, ThrowsKeeps DEF Step
<1> QED BY <1>1, <1>2, <1>3, <1>4, <1>5, <1>6, <1>7 DEF Next

\* The inductive invariant holds of every reachable state.
THEOREM InvHolds == Spec => []IInv
BY InitInv, NextInv, PTL DEF Spec

\* A message leaves the queue for good (HathorService.ts l.111) only when this
\* federator has voted for its crossing or need not, for any crossings, timestamps
\* and number of faults.
THEOREM AckedOnlyWhenVoted == Spec => []AckedMeansVoted
<1>1. IInv => AckedMeansVoted
  BY DEF IInv, Core
<1> QED BY <1>1, InvHolds, PTL

\* A replay that is cut short anywhere is resumed by the next start
\* (HathorHistorySync.ts): nothing it had left is older than the saved timestamp.
THEOREM HistoryIsResumed == Spec => []ReplayResumes
<1>1. IInv => ReplayResumes
  BY DEF IInv, Core
<1> QED BY <1>1, InvHolds, PTL
\* Every reachable state is well typed.
THEOREM TypeCorrect == Spec => []TypeOK
<1>1. IInv => TypeOK
  BY DEF IInv, Core, CoreType, Rest, TypeOK, Calls
<1> QED BY <1>1, InvHolds, PTL

-----------------------------------------------------------------------------
(* Why a vote is marked as reverted, and why a mark is missing.            *)

Marking == {"numbering", "sending", "waiting", "mined", "reverted"}

\* Pending transactions have different nonces below the next one. A call that no fault
\* and no other call's nonce has hit sends alone, with that next nonce, and then
\* waits for a transaction that nobody is about to replace.
NoncesFit ==
  /\ \A p \in pool : nonce <= p.nonce /\ p.nonce < PendingCount
  /\ \A p, q \in pool : p.nonce = q.nonce => p = q
  /\ \A s \in Numbered : call[s].nonce <= PendingCount
  /\ \A s \in Numbered :
       call[s].of \notin blamed => call[s].nonce = PendingCount /\ \A t \in Numbered : t = s
  /\ \A s \in Slots : call[s].at = "waiting" /\ call[s].of \notin blamed =>
       TxOf(s) \in pool /\ \A t \in Numbered : call[t].nonce # call[s].nonce
  /\ \A s \in Slots : call[s].at = "reverted" => call[s].of \in blamed

\* Only failed votes were ever marked, and what a call's copy of the file lacks was
\* marked while it was under way.
MarksFit ==
  /\ reverted \subseteq blamed /\ reverted \subseteq failed /\ failed \ reverted \subseteq overlapped
  /\ \A s \in Slots : call[s].at \in Marking =>
       /\ call[s].seen \subseteq blamed /\ call[s].seen \subseteq failed
       /\ reverted \ call[s].seen \subseteq overlapped

Marks == NoncesFit /\ MarksFit

LEMMA InitMarks == Init => Marks
BY SlotsAre, IdleIsCall
   DEF Init, Marks, NoncesFit, MarksFit, Numbered, Marking

\* Steps that leave transactions and marks alone and bring no call to its nonce.
LEMMA QuietKeeps ==
  ASSUME Marks, UNCHANGED <<nonce, pool, reverted, failed, blamed, overlapped>>,
         \A s \in Slots :
           \/ call'[s] = call[s]
           \/ call'[s].at \notin Marking
           \/ call'[s].at = "numbering" /\ call'[s].seen = reverted
  PROVE  Marks'
<1>1. PendingCount' = PendingCount
  BY DEF PendingCount
<1>2. \A s \in Numbered' : s \in Numbered /\ call'[s] = call[s]
  BY DEF Numbered, Marking
<1>3. \A s \in Slots : call'[s].at \in {"waiting", "reverted"} => call'[s] = call[s]
  BY DEF Marking
<1>4. NoncesFit'
  BY <1>1, <1>2, <1>3 DEF Marks, NoncesFit, TxOf
<1>5. MarksFit'
  BY DEF Marks, MarksFit
<1> QED BY <1>4, <1>5 DEF Marks

\* A vote that fails is marked, and was hit by something.
LEMMA VoteFailsMarks ==
  ASSUME IInv, Marks, NEW s \in Slots, call[s].at \in Marking, VoteFails(s), UNCHANGED pool,
         blamed' = blamed \cup {call[s].of} \/ (blamed' = blamed /\ call[s].of \in blamed)
  PROVE  Marks'
<1>1. call' = [call EXCEPT ![s] = Idle] /\ call \in [Slots -> Calls] /\ nonce' = nonce
  BY DEF VoteFails, Settle, IInv, Core, CoreType
<1>2. PendingCount' = PendingCount
  BY <1>1 DEF PendingCount
<1>3. \A t \in Slots : IF t = s THEN call'[t].at = "idle" ELSE call'[t] = call[t]
  BY <1>1, IdleIsCall
<1>4. \A t \in Numbered' : t \in Numbered /\ call'[t] = call[t]
  BY <1>3 DEF Numbered
<1>5. NoncesFit'
  BY <1>1, <1>2, <1>3, <1>4 DEF Marks, NoncesFit, TxOf
<1>6. MarksFit'
  <2>1. reverted' = call[s].seen \cup {call[s].of} /\ failed' = failed \cup {call[s].of}
    BY DEF VoteFails, Mark
  <2>2. overlapped \subseteq overlapped'
    BY DEF VoteFails
  <2>3. Underway(s) # {} => reverted \subseteq overlapped' /\ call[s].of \in overlapped'
    BY DEF VoteFails
  <2>4. call[s].seen \subseteq blamed /\ call[s].seen \subseteq failed /\ reverted \ call[s].seen \subseteq overlapped
    BY DEF Marks, MarksFit
  <2>5. reverted' \subseteq blamed' /\ reverted' \subseteq failed'
    BY <2>1, <2>4
  <2>6. failed' \ reverted' \subseteq overlapped'
    BY <2>1, <2>2, <2>4 DEF Marks, MarksFit
  <2>7. ASSUME NEW t \in Slots, call'[t].at \in Marking
        PROVE  /\ call'[t].seen \subseteq blamed' /\ call'[t].seen \subseteq failed'
               /\ reverted' \ call'[t].seen \subseteq overlapped'
    <3>1. t # s /\ call'[t] = call[t]
      BY <1>3, <2>7 DEF Marking
    <3>2. t \in Underway(s)
      BY <2>7, <3>1 DEF Underway, Marking
    <3>3. call[s].seen \subseteq overlapped'
      BY <2>2, <2>3, <2>4, <3>2 DEF Marks, MarksFit
    <3> QED BY <2>1, <2>3, <2>7, <3>1, <3>2, <3>3 DEF Marks, MarksFit
  <2> QED BY <2>5, <2>6, <2>7 DEF MarksFit
<1> QED BY <1>5, <1>6 DEF Marks
\* The next nonce is that of the last transaction pending and one.
LEMMA NextNonce ==
  ASSUME IInv
  PROVE  PendingCount \in Nat /\ nonce \in Nat /\ nonce <= PendingCount /\ Cardinality(pool) \in Nat
BY FS_CardinalityType DEF IInv, Rest, PendingCount

\* A transaction that is mined answers its call; the next nonce stays.
LEMMA MineMarks ==
  ASSUME IInv, Marks, NEW p \in pool, Mine(p)
  PROVE  Marks'
<1>1. p.nonce = nonce /\ pool' = pool \ {p} /\ nonce' = nonce + 1
  BY DEF Mine
<1>2. PICK outcome \in {"mined", "reverted"} :
        /\ Answer(p, outcome) /\ blamed \subseteq blamed'
        /\ outcome = "reverted" => p.of \in blamed'
  BY DEF Mine
<1>3. UNCHANGED <<reverted, failed, overlapped>>
  BY DEF Mine, files
<1>4. \A s \in Slots : call[s] \in Calls
  BY DEF IInv, Core, CoreType
<1>5. \A s \in Slots :
        IF Awaits(s, p)
        THEN call'[s].at = outcome /\ call'[s].of = p.of /\ call'[s].seen = call[s].seen
        ELSE call'[s] = call[s]
  <2> SUFFICES ASSUME NEW s \in Slots
               PROVE  IF Awaits(s, p)
                      THEN call'[s].at = outcome /\ call'[s].of = p.of /\ call'[s].seen = call[s].seen
                      ELSE call'[s] = call[s]
    OBVIOUS
  <2>1. call'[s] = IF Awaits(s, p) THEN [call[s] EXCEPT !.at = outcome] ELSE call[s]
    BY <1>2 DEF Answer
  <2> QED BY <1>4, <2>1 DEF Awaits, Calls
<1>6. PendingCount' = PendingCount
  <2>1. Cardinality(pool') = Cardinality(pool) - 1
    BY <1>1, FS_RemoveElement DEF IInv, Rest
  <2> QED BY <1>1, <2>1, NextNonce DEF PendingCount
<1>7. \A s \in Slots : Awaits(s, p) => call[s].at = "waiting" /\ call[s].nonce = p.nonce /\ call[s].of = p.of
  BY DEF Awaits
<1>8. Numbered' = Numbered /\ \A s \in Numbered : call'[s] = call[s]
  BY <1>2, <1>5, <1>7 DEF Numbered
<1>9. NoncesFit'
  <2>1. \A q \in pool' : nonce' <= q.nonce /\ q.nonce < PendingCount'
    <3> SUFFICES ASSUME NEW q \in pool' PROVE nonce' <= q.nonce /\ q.nonce < PendingCount'
      OBVIOUS
    <3>1. q \in pool /\ q # p /\ q.nonce \in Nat /\ nonce \in Nat
      BY <1>1 DEF IInv, Rest
    <3>2. nonce <= q.nonce /\ q.nonce < PendingCount /\ q.nonce # p.nonce
      BY <3>1 DEF Marks, NoncesFit
    <3> QED BY <1>1, <1>6, <3>1, <3>2
  <2>2. \A s \in Slots : call'[s].at = "waiting" /\ call'[s].of \notin blamed' =>
          TxOf(s)' \in pool' /\ \A t \in Numbered' : call'[t].nonce # call'[s].nonce
    <3> SUFFICES ASSUME NEW s \in Slots, call'[s].at = "waiting", call'[s].of \notin blamed'
                 PROVE  TxOf(s)' \in pool' /\ \A t \in Numbered' : call'[t].nonce # call'[s].nonce
      OBVIOUS
    <3>1. call'[s] = call[s] /\ ~Awaits(s, p)
      BY <1>2, <1>5
    <3>2. TxOf(s) \in pool /\ \A t \in Numbered : call[t].nonce # call[s].nonce
      BY <1>2, <3>1 DEF Marks, NoncesFit
    <3>3. TxOf(s) # p
      BY <3>1 DEF Awaits, TxOf
    <3>4. TxOf(s)' = TxOf(s)
      BY <3>1 DEF TxOf
    <3> QED BY <1>1, <1>8, <3>1, <3>2, <3>3, <3>4
  <2>3. \A s \in Slots : call'[s].at = "reverted" => call'[s].of \in blamed'
    BY <1>2, <1>5 DEF Marks, NoncesFit
  <2>4. \A s \in Numbered' : call'[s].nonce <= PendingCount'
    BY <1>6, <1>8 DEF Marks, NoncesFit
  <2>5. \A s \in Numbered' :
          call'[s].of \notin blamed' => call'[s].nonce = PendingCount' /\ \A t \in Numbered' : t = s
    BY <1>2, <1>6, <1>8 DEF Marks, NoncesFit
  <2>6. \A q, r \in pool' : q.nonce = r.nonce => q = r
    BY <1>1 DEF Marks, NoncesFit
  <2> QED BY <2>1, <2>2, <2>3, <2>4, <2>5, <2>6 DEF NoncesFit
<1>10. MarksFit'
  BY <1>2, <1>3, <1>5, <1>7 DEF Marks, MarksFit, Marking
<1> QED BY <1>9, <1>10 DEF Marks

\* A call that takes its nonce beside another one blames both.
LEMMA TakeNonceMarks ==
  ASSUME IInv, Marks, NEW s \in Slots, TakeNonce(s)
  PROVE  Marks'
<1>1. call[s].at = "numbering" /\ call[s] \in Calls /\ call \in [Slots -> Calls]
  BY DEF TakeNonce, IInv, Core, CoreType
<1>2. /\ call'[s].at = "sending" /\ call'[s].nonce = PendingCount
      /\ call'[s].of = call[s].of /\ call'[s].seen = call[s].seen
      /\ \A t \in Slots \ {s} : call'[t] = call[t]
  BY <1>1 DEF TakeNonce, Calls
<1>3. UNCHANGED <<nonce, pool, reverted, failed, overlapped>> /\ PendingCount' = PendingCount
  BY DEF TakeNonce, evm, files, PendingCount
<1>4. Numbered' = Numbered \cup {s} /\ s \notin Numbered
  BY <1>1, <1>2 DEF Numbered
<1>5. /\ blamed \subseteq blamed'
      /\ Numbered # {} => \A t \in Numbered' : call'[t].of \in blamed'
  <2>1. \A t \in Numbered' : t \in Numbered \cup {s} /\ call'[t].of = call[t].of
    BY <1>2, <1>4 DEF Numbered
  <2>2. Numbered # {} => blamed' = blamed \cup {call[t].of : t \in Numbered \cup {s}}
    BY DEF TakeNonce
  <2>3. Numbered # {} => \A t \in Numbered \cup {s} : call[t].of \in blamed'
    BY <2>2
  <2>4. blamed \subseteq blamed'
    BY <2>2 DEF TakeNonce
  <2> QED BY <2>1, <2>3, <2>4
<1>6. NoncesFit'
  <2>1. \A t \in Numbered' : call'[t].nonce <= PendingCount'
    BY <1>2, <1>3, <1>4, NextNonce DEF Marks, NoncesFit, Numbered
  <2>2. \A t \in Numbered' :
          call'[t].of \notin blamed' => call'[t].nonce = PendingCount' /\ \A u \in Numbered' : u = t
    BY <1>2, <1>3, <1>4, <1>5
  <2>3. ASSUME NEW t \in Slots, call'[t].at = "waiting", call'[t].of \notin blamed'
        PROVE  TxOf(t)' \in pool' /\ \A u \in Numbered' : call'[u].nonce # call'[t].nonce
    <3>1. t # s /\ call'[t] = call[t]
      BY <1>2, <2>3
    <3>2. TxOf(t) \in pool /\ \A u \in Numbered : call[u].nonce # call[t].nonce
      BY <1>5, <2>3, <3>1 DEF Marks, NoncesFit
    <3>3. call[t].nonce < PendingCount /\ call[t].nonce \in Nat
      BY <3>2 DEF Marks, NoncesFit, TxOf, IInv, Core, CoreType, Calls
    <3>4. TxOf(t)' = TxOf(t)
      BY <3>1 DEF TxOf
    <3>5. \A u \in Numbered : call'[u] = call[u]
      BY <1>2, <1>4 DEF Numbered
    <3> QED BY <1>2, <1>3, <1>4, <3>1, <3>2, <3>3, <3>4, <3>5, NextNonce
  <2>4. \A t \in Slots : call'[t].at = "reverted" => call'[t].of \in blamed'
    BY <1>2, <1>5 DEF Marks, NoncesFit
  <2> QED BY <1>3, <2>1, <2>2, <2>3, <2>4 DEF Marks, NoncesFit
<1>7. MarksFit'
  BY <1>1, <1>2, <1>3, <1>5 DEF Marks, MarksFit, Marking
<1> QED BY <1>6, <1>7 DEF Marks
\* A transaction that is sent replaces at most a rival that is blamed.
LEMMA SendMarks ==
  ASSUME IInv, Marks, NEW s \in Slots, call[s].at = "sending",
         pool' = (pool \ {p \in pool : p.nonce = call[s].nonce}) \cup {TxOf(s)}, Goto(s, "waiting"),
         call[s].nonce >= nonce,
         UNCHANGED <<nonce, reverted, failed, blamed, overlapped>>
  PROVE  Marks'
<1> DEFINE rivals == {p \in pool : p.nonce = call[s].nonce}
           tx == TxOf(s)
<1>1. call[s] \in Calls /\ call \in [Slots -> Calls] /\ s \in Numbered
  BY DEF IInv, Core, CoreType, Numbered
<1>2. /\ call'[s].at = "waiting" /\ call'[s].nonce = call[s].nonce
      /\ call'[s].of = call[s].of /\ call'[s].seen = call[s].seen
      /\ \A t \in Slots \ {s} : call'[t] = call[t]
  BY <1>1 DEF Goto, Calls
<1>3. Numbered' = Numbered \ {s} /\ \A t \in Numbered' : call'[t] = call[t]
  BY <1>2 DEF Numbered
<1>4. tx.nonce = call[s].nonce /\ tx.of = call[s].of /\ call[s].nonce \in Nat /\ nonce \in Nat
  BY <1>1, NextNonce DEF TxOf, Calls
<1>5. call[s].nonce <= PendingCount
  BY <1>1 DEF Marks, NoncesFit
<1>6. PendingCount <= PendingCount' /\ call[s].nonce < PendingCount' /\ PendingCount' \in Nat
  <2>1. IsFiniteSet(pool) /\ Cardinality(pool) \in Nat /\ PendingCount = nonce + Cardinality(pool)
    BY NextNonce DEF IInv, Rest, PendingCount
  <2>2. PendingCount' = nonce + Cardinality((pool \ rivals) \cup {tx})
    BY DEF PendingCount
  <2>3. CASE rivals = {}
    <3>1. pool \ rivals = pool /\ tx \notin pool
      BY <1>4, <2>3
    <3>2. Cardinality((pool \ rivals) \cup {tx}) = Cardinality(pool) + 1
      BY <2>1, <3>1, FS_AddElement
    <3> QED BY <1>4, <1>5, <2>1, <2>2, <3>2
  <2>4. CASE rivals # {}
    <3>1. PICK r \in pool : r.nonce = call[s].nonce
      BY <2>4
    <3>2. rivals = {r} /\ call[s].nonce < PendingCount
      BY <3>1 DEF Marks, NoncesFit
    <3>3. IsFiniteSet(pool \ {r}) /\ Cardinality(pool \ {r}) = Cardinality(pool) - 1
      BY <2>1, FS_RemoveElement
    <3>4. tx \notin pool \ {r}
      BY <1>4, <3>2
    <3>5. Cardinality((pool \ {r}) \cup {tx}) = Cardinality(pool \ {r}) + 1
      BY <3>3, <3>4, FS_AddElement
    <3>6. (pool \ rivals) \cup {tx} = (pool \ {r}) \cup {tx}
      BY <3>2
    <3>7. Cardinality((pool \ rivals) \cup {tx}) = Cardinality(pool)
      <4>1. Cardinality((pool \ {r}) \cup {tx}) = Cardinality(pool)
        BY <2>1, <3>3, <3>5
      <4> QED BY <3>6, <4>1, Zenon
    <3>8. PendingCount' = PendingCount /\ PendingCount \in Nat
      BY <2>1, <2>2, <3>7, NextNonce
    <3> QED BY <3>2, <3>8
  <2> QED BY <2>3, <2>4
<1>7. \A p \in pool' : p = tx \/ (p \in pool /\ p.nonce # call[s].nonce)
  OBVIOUS
<1>8. NoncesFit'
  <2>1. ASSUME NEW p \in pool' PROVE nonce' <= p.nonce /\ p.nonce < PendingCount'
    <3>1. CASE p = tx
      BY <1>4, <1>6, <3>1
    <3>2. CASE p \in pool
      <4>1. nonce <= p.nonce /\ p.nonce < PendingCount /\ p.nonce \in Nat
        BY <3>2 DEF Marks, NoncesFit, IInv, Rest
      <4> QED BY <1>6, <4>1, NextNonce
    <3> QED BY <1>7, <3>1, <3>2
  <2>2. \A p, q \in pool' : p.nonce = q.nonce => p = q
    BY <1>4, <1>7 DEF Marks, NoncesFit
  <2>3. ASSUME NEW t \in Numbered' PROVE call'[t].nonce <= PendingCount'
    <3>1. t \in Numbered /\ call'[t] = call[t] /\ call[t].nonce \in Nat /\ call[t].nonce <= PendingCount
      BY <1>3 DEF Marks, NoncesFit, Numbered, IInv, Core, CoreType, Calls
    <3> QED BY <1>6, <3>1, NextNonce
  <2>4. \A t \in Numbered' : call'[t].of \in blamed'
    BY <1>1, <1>3 DEF Marks, NoncesFit
  <2>5. ASSUME NEW t \in Slots, call'[t].at = "waiting", call'[t].of \notin blamed'
        PROVE  TxOf(t)' \in pool' /\ \A u \in Numbered' : call'[u].nonce # call'[t].nonce
    <3>1. CASE t = s
      <4>1. TxOf(s)' = tx
        BY <1>2 DEF TxOf
      <4>2. Numbered' = {}
        BY <1>1, <1>2, <1>3, <2>5, <3>1 DEF Marks, NoncesFit
      <4> QED BY <3>1, <4>1, <4>2
    <3>2. CASE t # s
      <4>1. call'[t] = call[t] /\ TxOf(t)' = TxOf(t)
        BY <1>2, <3>2 DEF TxOf
      <4>2. TxOf(t) \in pool /\ \A u \in Numbered : call[u].nonce # call[t].nonce
        BY <2>5, <4>1 DEF Marks, NoncesFit
      <4>3. TxOf(t).nonce # call[s].nonce
        BY <1>1, <4>2 DEF TxOf
      <4> QED BY <1>3, <4>1, <4>2, <4>3
    <3> QED BY <3>1, <3>2
  <2>6. \A t \in Slots : call'[t].at = "reverted" => call'[t].of \in blamed'
    BY <1>2 DEF Marks, NoncesFit
  <2> QED BY <2>1, <2>2, <2>3, <2>4, <2>5, <2>6 DEF NoncesFit
<1>9. MarksFit'
  BY <1>1, <1>2 DEF Marks, MarksFit, Marking, Numbered
<1> QED BY <1>8, <1>9 DEF Marks

\* A call that nothing has hit sends its transaction, and waits for one that is there.
LEMMA VotingMarks ==
  ASSUME IInv, Marks, NEW s \in Slots, Broadcast(s) \/ Refused(s) \/ BuildFails(s) \/ SendFails(s)
  PROVE  Marks'
<1> DEFINE rivals == {p \in pool : p.nonce = call[s].nonce}
<1>1. call[s] \in Calls
  BY DEF IInv, Core, CoreType
<1>2. CASE Broadcast(s)
  <2>1. call[s].at = "sending" /\ s \in Numbered /\ UNCHANGED blamed
    BY <1>2 DEF Broadcast, Numbered
  <2>2. CASE /\ call[s].nonce >= nonce
             /\ pool' = (pool \ rivals) \cup {TxOf(s)} /\ Goto(s, "waiting")
             /\ UNCHANGED <<voted, processed, nonce, hathor, phase, todo, files, failed, overlapped>>
    <3>1. UNCHANGED <<nonce, reverted, failed, blamed, overlapped>>
      BY <2>1, <2>2 DEF files
    <3> QED BY <2>1, <2>2, <3>1, SendMarks
  <2>3. CASE (call[s].nonce < nonce \/ rivals # {}) /\ VoteFails(s) /\ UNCHANGED pool
    <3>1. call[s].of \in blamed
      <4> SUFFICES ASSUME call[s].of \notin blamed PROVE FALSE
        OBVIOUS
      <4>1. call[s].nonce = PendingCount
        BY <2>1 DEF Marks, NoncesFit
      <4>2. nonce <= PendingCount /\ \A p \in pool : p.nonce < PendingCount /\ p.nonce \in Nat
        BY NextNonce DEF Marks, NoncesFit, IInv, Rest
      <4> QED BY <2>3, <4>1, <4>2, NextNonce
    <3> QED BY <2>1, <2>3, <3>1, VoteFailsMarks DEF Marking
  <2> QED BY <1>2, <2>2, <2>3 DEF Broadcast
<1>3. CASE Refused(s)
  <2>1. call[s].at \in Marking /\ VoteFails(s) /\ UNCHANGED <<pool, blamed>>
    BY <1>3 DEF Refused, Marking
  <2>2. call[s].of \in blamed
    BY <1>3 DEF Refused, Marks, NoncesFit
  <2> QED BY <2>1, <2>2, VoteFailsMarks
<1>4. CASE BuildFails(s) \/ SendFails(s)
  BY <1>4, VoteFailsMarks DEF BuildFails, SendFails, Marking
<1> QED BY <1>2, <1>3, <1>4

LEMMA NextMarks == IInv /\ Marks /\ [Next]_vars => Marks'
<1> SUFFICES ASSUME IInv, Marks, [Next]_vars PROVE Marks'
  OBVIOUS
<1> USE SlotsAre
<1>1. CASE UNCHANGED vars
  BY <1>1, QuietKeeps DEF vars, evm, process, files, record
<1>2. CASE Environment
  <2>1. CASE \E c \in Direct : Arrive(c) \/ Confirm(c) \/ Expire(c)
    BY <2>1, QuietKeeps DEF Arrive, Confirm, Expire, evm, process, files, record
  <2>2. CASE \E c \in Crossings : Processed(c)
    BY <2>2, QuietKeeps DEF Processed, process, files, record
  <2>3. CASE \E p \in pool : Mine(p)
    BY <2>3, MineMarks
  <2> QED BY <1>2, <2>1, <2>2, <2>3 DEF Environment
<1>3. CASE Start \/ GiveUp \/ HistoryFails \/ Listen \/ ListenFails
  BY <1>3, QuietKeeps DEF Start, GiveUp, HistoryFails, Listen, ListenFails, evm, files, record
<1>4. CASE Die \/ StartAnew
  BY <1>4, QuietKeeps, IdleIsCall DEF Die, StartAnew, Restart, Marking, evm, files, record
<1>5. ASSUME NEW s \in Slots, NEW c, NEW step \in {"begun", "asking"}, Begin(s, c, step),
             UNCHANGED <<nonce, pool, reverted, failed, blamed, overlapped>>
      PROVE  Marks'
  BY <1>5, QuietKeeps DEF Begin, Idle, Marking, IInv, Core, CoreType
<1>6. CASE Replay \/ (\E c \in Direct : Deliver(c)) \/ (\E c \in Melts : ReportOfMelt(c))
  BY <1>5, <1>6 DEF Replay, Deliver, ReportOfMelt, evm, files, record
<1>7. ASSUME NEW s \in Slots,
             CheckCrossing(s) \/ AskProcessed(s) \/ AskVoted(s) \/ ReadReverted(s) \/ Answered(s) \/ Throws(s)
      PROVE  Marks'
  <2>1. call \in [Slots -> Calls] /\ call[s] \in Calls
    BY DEF IInv, Core, CoreType
  <2>2. UNCHANGED <<nonce, pool, reverted, failed, blamed, overlapped>>
    BY <1>7 DEF CheckCrossing, AskProcessed, AskVoted, ReadReverted, Answered, Throws, evm, record
  <2>3. \A t \in Slots : \/ call'[t] = call[t]
                         \/ call'[t].at \notin Marking
                         \/ call'[t].at = "numbering" /\ call'[t].seen = reverted
    <3> DEFINE Asks(step) == call' = [call EXCEPT ![s].at = step]
               Ends == call' = [call EXCEPT ![s] = Idle]
    <3>1. CASE CheckCrossing(s) \/ AskProcessed(s) \/ AskVoted(s)
      <4>1. Ends \/ Asks("asking") \/ Asks("unprocessed") \/ Asks("unvoted")
        BY <3>1 DEF CheckCrossing, AskProcessed, AskVoted, Settle, Goto
      <4> QED BY <2>1, <4>1, IdleIsCall DEF Marking, Calls
    <3>2. CASE ReadReverted(s)
      <4>1. Ends \/ call' = [call EXCEPT ![s].at = "numbering", ![s].seen = reverted]
        BY <3>2 DEF ReadReverted, Settle
      <4> QED BY <2>1, <4>1, IdleIsCall DEF Marking, Calls
    <3>3. CASE Answered(s) \/ Throws(s)
      BY <2>1, <3>3, IdleIsCall DEF Answered, Throws, Restart, Settle, Marking
    <3> QED BY <1>7, <3>1, <3>2, <3>3
  <2> QED BY <2>2, <2>3, QuietKeeps
<1>8. ASSUME NEW s \in Slots, Step(s) \/ Throws(s) \/ BuildFails(s) \/ SendFails(s)
      PROVE  Marks'
  BY <1>7, <1>8, TakeNonceMarks, VotingMarks DEF Step
<1> QED BY <1>1, <1>2, <1>3, <1>4, <1>6, <1>8 DEF Next

\* A vote is given up (FederatorHTR.ts l.365) only when its transaction failed or two
\* calls took a nonce at the same time (TransactionSender.ts l.126), and a failed vote
\* lacks its mark (l.389) only when others were under way, for any number of calls,
\* faults, deaths and transactions pending.
THEOREM MarksAlwaysExplained == Spec => []MarksExplained
<1>1. Marks => MarksExplained
  BY DEF Marks, MarksFit, MarksExplained
<1>2. Spec => []Marks
  BY InitMarks, NextMarks, InvHolds, PTL DEF Spec
<1> QED BY <1>1, <1>2, PTL
=============================================================================
