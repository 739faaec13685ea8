--------------------------- MODULE MultisigScanner ---------------------------
(***************************************************************************)
(* How one federator follows the HathorFederation contract                 *)
(* (HathorMultisigManager.run over HathorFederationLogsReader): a run      *)
(* first locks the inputs of every proposal up to the current block, then  *)
(* handles the other events of the confirmed blocks, and keeps the last    *)
(* block in a file.  An error in a batch of logs is logged and the rest of *)
(* the batch dropped; the vote a paid proposal calls for runs on unawaited.*)
(*                                                                         *)
(* A block holds one event at most: a proposal's inputs to lock, a         *)
(* proposal proposed, signed or failed, or a melt paid (ProposalSent).     *)
(* What a handler does in the contracts is not modelled here: `done' means *)
(* that it returned.                                                       *)
(***************************************************************************)
EXTENDS Integers, FiniteSets
CONSTANTS
  Confirmations,            \* FEDERATION_CONFIRMATION_BLOCKS
  FromBlock,                \* FEDERATION_FROM_BLOCK
  BatchSize,                \* recordsPerPage (450 in the code)
  MaxHeight, MaxEvents,     \* bounds on the chain
  MaxFaults                 \* bound: errors and deaths

ASSUME ScanAssumption ==
  /\ Confirmations \in Nat /\ FromBlock \in Nat /\ BatchSize \in Nat \ {0}
  /\ MaxHeight \in Nat /\ MaxEvents \in Nat /\ MaxFaults \in Nat

Kinds == {"lock", "proposal", "paid"}

VARIABLES
  height, chain,            \* the state chain: the event of each block
  progress,                 \* the hmm progress file, FromBlock when there is none
  pass,                     \* which of the two loops of getLogsAndProcess runs
  current, from, next, to,  \* currentBlock, fromBlock, fromPageBlock, toBlock
  fetched, logs,            \* was the batch read, and its events still to handle
  done,                     \* events whose handler returned
  background,               \* melts paid whose vote is under way, unawaited
  dropped, lone, dead,      \* events lost to a swallowed error, to the early
                            \* return of getLogsAndProcess, to a death
  faults
world == <<height, chain>>
run == <<pass, current, from, next, to>>
fate == <<done, background, dropped, lone, dead>>
vars == <<world, progress, run, fetched, logs, fate, faults>>

Events == {<<b, chain[b]>> : b \in {n \in 1..height : chain[n] \in Kinds}}
Between(a, b) == {e \in Events : a <= e[1] /\ e[1] <= b}
Known == (1..MaxHeight) \X Kinds

TypeOK ==
  /\ height \in 0..MaxHeight /\ chain \in [1..height -> Kinds \cup {"nothing"}]
  /\ progress \in {FromBlock} \cup (FromBlock..(MaxHeight - Confirmations))
  /\ pass \in {"none", "lock", "event"} /\ fetched \in BOOLEAN
  /\ current \in 0..height /\ to \in 0..height
  /\ from \in Nat /\ next \in 0..(MaxHeight + BatchSize)
  /\ logs \subseteq Known /\ done \subseteq Known /\ background \subseteq Known
  /\ dropped \subseteq Known /\ lone \subseteq Known /\ dead \subseteq Known
  /\ faults \in 0..MaxFaults

Init ==
  /\ height = 0 /\ chain = [b \in 1..0 |-> "nothing"]
  /\ progress = FromBlock
  /\ pass = "none" /\ fetched = FALSE /\ logs = {}
  /\ current = 0 /\ from = 0 /\ next = 0 /\ to = 0
  /\ done = {} /\ background = {} /\ dropped = {} /\ lone = {} /\ dead = {}
  /\ faults = 0

Mine(content) ==
  /\ height < MaxHeight
  /\ height' = height + 1
  /\ chain' = [b \in 1..(height + 1) |-> IF b <= height THEN chain[b] ELSE content]
  /\ Cardinality({b \in DOMAIN chain' : chain'[b] \in Kinds}) <= MaxEvents
  /\ UNCHANGED <<progress, run, fetched, logs, fate, faults>>

-----------------------------------------------------------------------------
Confirmed(h) == h - Confirmations
\* Fault: the file is set to the current block.
SavedCurrentBlock(h) == h
\* The block a run leaves in the file.
Saved(h) == Confirmed(h)

\* Fault: the first pass stops where the second does.
PassEndConfirmed == to
\* The first pass reads on to the current block, the second to the confirmed one.
PassEnd == IF pass = "lock" THEN current ELSE to

\* A run over a single new block processes nothing, and saves it all the same.
BeginRun ==
  /\ pass = "none"
  /\ Confirmed(height) > 0 /\ progress < Confirmed(height)
  /\ current' = height /\ from' = progress + 1 /\ next' = progress + 1 /\ to' = Confirmed(height)
  /\ IF from' >= to'
     THEN /\ pass' = "none" /\ progress' = Saved(height)
          /\ lone' = lone \cup Between(from', to')
     ELSE pass' = "lock" /\ UNCHANGED <<progress, lone>>
  /\ UNCHANGED <<world, fetched, logs, done, background, dropped, dead, faults>>

\* Fault: an off-by-one leaves the last block of a batch out.
BatchEndShort == IF next + BatchSize - 2 <= PassEnd THEN next + BatchSize - 2 ELSE PassEnd
BatchEnd == IF next + BatchSize - 1 <= PassEnd THEN next + BatchSize - 1 ELSE PassEnd
Batch ==
  {e \in Between(next, BatchEnd) : (e[2] = "lock") = (pass = "lock")}

FetchBatch ==
  /\ pass # "none" /\ ~fetched
  /\ fetched' = TRUE /\ logs' = Batch
  /\ UNCHANGED <<world, progress, run, fate, faults>>

\* handleLockEvent, or handleEvent.
HandleLog(e) ==
  /\ fetched /\ e \in logs /\ \A f \in logs : e[1] <= f[1]
  /\ logs' = logs \ {e}
  /\ IF e[2] = "paid" THEN background' = background \cup {e} /\ UNCHANGED done
                      ELSE done' = done \cup {e} /\ UNCHANGED background
  /\ UNCHANGED <<world, progress, run, fetched, dropped, lone, dead, faults>>

\* getPastEvents or a handler throws: the catch of the batch drops the rest.
BatchFails ==
  /\ pass # "none" /\ faults < MaxFaults
  /\ faults' = faults + 1
  /\ dropped' = dropped \cup (IF fetched THEN logs ELSE Batch)
  /\ fetched' = TRUE /\ logs' = {}
  /\ UNCHANGED <<world, progress, run, done, background, lone, dead>>

EndBatch ==
  /\ fetched /\ logs = {}
  /\ fetched' = FALSE
  /\ IF next + BatchSize <= PassEnd
     THEN next' = next + BatchSize /\ UNCHANGED <<pass, progress>>
     ELSE IF pass = "lock"
     THEN pass' = "event" /\ next' = from /\ UNCHANGED progress
     ELSE pass' = "none" /\ progress' = Saved(current) /\ UNCHANGED next
  /\ UNCHANGED <<world, current, from, to, logs, fate, faults>>

\* The vote postProcessing did not wait for comes to its end.
VoteEnds(e) ==
  /\ e \in background
  /\ background' = background \ {e} /\ done' = done \cup {e}
  /\ UNCHANGED <<world, progress, run, fetched, logs, dropped, lone, dead, faults>>

\* The process dies: killed, or by the unhandled rejection of such a vote.
Die ==
  /\ faults < MaxFaults /\ (pass # "none" \/ background # {})
  /\ faults' = faults + 1
  /\ pass' = "none" /\ fetched' = FALSE /\ logs' = {}
  /\ background' = {} /\ dead' = dead \cup background
  /\ UNCHANGED <<world, progress, current, from, next, to, done, dropped, lone>>

Federator == BeginRun \/ FetchBatch \/ (\E e \in logs : HandleLog(e)) \/ EndBatch
Next ==
  \/ \E content \in Kinds \cup {"nothing"} : Mine(content)
  \/ Federator \/ (\E e \in background : VoteEnds(e)) \/ BatchFails \/ Die
Spec == Init /\ [][Next]_vars

\* The scheduler polls for ever and awaits every step; an unawaited vote is
\* answered in the end.
FairSpec ==
  /\ Spec /\ WF_vars(Federator)
  /\ \A e \in Known : WF_vars(VoteEnds(e))

-----------------------------------------------------------------------------
(* Properties *)

Behind(e) == FromBlock < e[1] /\ e[1] <= progress

\* An event up to the block kept in the file was handled, or lost in one of the
\* three ways the code has of losing it.
LossesExplained ==
  \A e \in Events : Behind(e) => e \in done \cup background \cup dropped \cup lone \cup dead

\* "First we process all the lock input events, so the proposals previously created
\* are synced locally": while the second loop runs, the inputs of every proposal of the
\* run's blocks are locked, those behind the confirmed block too, unless the lock failed.
LocksComeFirst ==
  pass = "event" =>
    \A e \in Between(from, current) : e[2] = "lock" => e \in done \cup dropped

\* An event with its confirmations and one more is handled, or lost.
EventuallyHandled ==
  \A e \in Known :
    (e \in Events /\ FromBlock < e[1] /\ e[1] < Confirmed(height)) ~> (e \in done \cup dropped \cup lone \cup dead)
=============================================================================
