----------------------- MODULE MultisigScanner_proofs -----------------------
(* For any confirmations, batch size, chain and faults: no event behind    *)
(* the kept block is lost but in the three ways the code has, and inputs   *)
(* are locked before anything else is handled.                             *)
EXTENDS MultisigScanner, TLAPS

Explained == done \cup background \cup dropped \cup lone \cup dead

\* Where a run stands.
Run ==
  /\ progress = FromBlock \/ progress <= height
  /\ ~fetched => logs = {}
  /\ pass = "none" => ~fetched
  /\ pass # "none" =>
       /\ from = progress + 1 /\ from < to /\ from <= next /\ next <= PassEnd
       /\ current <= height /\ to = Confirmed(current)

\* What the first loop has read so far is locked, or is in the batch in hand.
Locking ==
  pass = "lock" =>
    /\ \A e \in logs : e[2] = "lock"
    /\ \A e \in Events : e[2] = "lock" /\ from <= e[1] =>
         /\ e[1] < next => e \in done \cup dropped
         /\ fetched /\ e[1] <= BatchEnd => e \in done \cup dropped \cup logs

\* What the second loop has read so far is explained, or is in the batch in hand.
Handling ==
  pass = "event" =>
    \A e \in Events : e[2] # "lock" /\ from <= e[1] =>
      /\ e[1] < next => e \in Explained
      /\ fetched /\ e[1] <= BatchEnd => e \in Explained \cup logs

IInv == TypeOK /\ Run /\ Locking /\ Handling /\ LossesExplained /\ LocksComeFirst

-----------------------------------------------------------------------------
LEMMA EventsAre ==
  ASSUME TypeOK
  PROVE  \A e \in Events : e \in Known /\ e[1] \in 1..height /\ e[2] \in Kinds
BY ScanAssumption DEF TypeOK, Events, Known, Kinds

LEMMA InitInv == Init => IInv
<1> SUFFICES ASSUME Init PROVE IInv
  OBVIOUS
<1>1. height = 0 /\ chain \in [1..height -> Kinds \cup {"nothing"}]
  BY DEF Init
<1>2. TypeOK
  <2>1. /\ 0 \in 0..MaxHeight /\ 0 \in 0..(MaxHeight + BatchSize) /\ 0 \in 0..MaxFaults
        /\ 0 \in 0..0 /\ 0 \in Nat
    BY ScanAssumption
  <2>2. /\ height \in 0..MaxHeight /\ current \in 0..height /\ to \in 0..height /\ from \in Nat
        /\ next \in 0..(MaxHeight + BatchSize) /\ faults \in 0..MaxFaults
    BY <2>1 DEF Init
  <2>3. /\ progress \in {FromBlock} \cup (FromBlock..(MaxHeight - Confirmations))
        /\ pass \in {"none", "lock", "event"} /\ fetched \in BOOLEAN
    BY DEF Init
  <2>4. /\ logs \subseteq Known /\ done \subseteq Known /\ background \subseteq Known
        /\ dropped \subseteq Known /\ lone \subseteq Known /\ dead \subseteq Known
    BY DEF Init
  <2> QED BY <1>1, <2>2, <2>3, <2>4 DEF TypeOK
<1>3. Events = {}
  BY DEF Init, Events
<1> QED BY <1>2, <1>3 DEF Init, IInv, Run, Locking, Handling, LossesExplained, LocksComeFirst, Between

\* A new block is behind nothing that was read.
LEMMA MineKeeps ==
  ASSUME IInv, NEW content \in Kinds \cup {"nothing"}, Mine(content)
  PROVE  IInv'
<1>1. /\ height \in Nat /\ height < MaxHeight /\ height' = height + 1
      /\ chain \in [1..height -> Kinds \cup {"nothing"}]
      /\ chain' = [b \in 1..(height + 1) |-> IF b <= height THEN chain[b] ELSE content]
      /\ UNCHANGED <<progress, run, fetched, logs, fate, faults>>
  BY ScanAssumption DEF IInv, TypeOK, Mine
<1>2. chain' \in [1..height' -> Kinds \cup {"nothing"}]
  BY <1>1
<1>3. TypeOK'
  BY <1>1, <1>2, ScanAssumption DEF IInv, TypeOK, Known, run, fate
<1>4. Run'
  <2>1. UNCHANGED <<pass, from, next, to, current, progress, fetched, logs, PassEnd>>
    BY <1>1 DEF run, PassEnd
  <2>2. current \in Nat /\ progress \in Nat
    BY ScanAssumption DEF IInv, TypeOK
  <2> QED BY <1>1, <2>1, <2>2 DEF IInv, Run, Confirmed
<1>5. \A e \in Events' : e[1] \in Nat /\ (e \in Events \/ e[1] = height + 1)
  BY <1>1 DEF Events
<1>6. PassEnd' = PassEnd /\ BatchEnd' = BatchEnd
  BY <1>1 DEF PassEnd, BatchEnd, run
<1>7. pass # "none" => next <= height /\ BatchEnd <= height
  <2>1. current \in Nat /\ to \in Nat /\ next \in Nat /\ BatchSize \in Nat \ {0}
    BY ScanAssumption DEF IInv, TypeOK
  <2>2. pass # "none" => current <= height /\ to <= current /\ next <= PassEnd
    BY <2>1, ScanAssumption DEF IInv, Run, Confirmed
  <2> QED BY <1>1, <2>1, <2>2 DEF PassEnd, BatchEnd
<1>8. Locking' /\ Handling'
  <2>1. next \in Nat /\ from \in Nat /\ BatchEnd \in Int
    BY ScanAssumption DEF IInv, TypeOK, BatchEnd, PassEnd
  <2>2. UNCHANGED <<pass, from, next, fetched, logs, done, dropped, Explained>>
    BY <1>1 DEF run, fate, Explained
  <2>3. Locking'
    BY <1>1, <1>5, <1>6, <1>7, <2>1, <2>2 DEF IInv, Locking
  <2>4. Handling'
    BY <1>1, <1>5, <1>6, <1>7, <2>1, <2>2 DEF IInv, Handling
  <2> QED BY <2>3, <2>4
<1>9. LossesExplained'
  BY <1>1, <1>5, ScanAssumption DEF IInv, TypeOK, Run, LossesExplained, Behind, fate
<1>10. LocksComeFirst'
  BY <1>1, <1>5 DEF IInv, TypeOK, Run, LocksComeFirst, Between, run, fate
<1> QED BY <1>3, <1>4, <1>8, <1>9, <1>10 DEF IInv

\* A run starts at the block after the kept one; a run over one block ends at once.
LEMMA BeginKeeps ==
  ASSUME IInv, BeginRun
  PROVE  IInv'
<1>1. /\ pass = "none" /\ progress < Confirmed(height) /\ current' = height /\ from' = progress + 1
      /\ next' = progress + 1 /\ to' = Confirmed(height)
      /\ UNCHANGED <<world, fetched, logs, done, background, dropped, dead, faults>>
  BY DEF BeginRun
<1>2. /\ height \in Nat /\ height <= MaxHeight /\ progress \in Nat /\ FromBlock <= progress
      /\ Confirmed(height) \in Int /\ Confirmed(height) <= height /\ Confirmed(height) > 0
  BY ScanAssumption DEF IInv, TypeOK, Confirmed, BeginRun
<1>3. ~fetched /\ logs = {}
  BY <1>1 DEF IInv, Run
<1>4. UNCHANGED Events
  BY <1>1 DEF Events, world
<1>5. CASE /\ from' >= to' /\ pass' = "none" /\ progress' = Saved(height)
           /\ lone' = lone \cup Between(from', to')
  <2>1. Between(from', to') \subseteq Events
    BY DEF Between
  <2>2. Between(from', to') \subseteq Known
    BY <2>1, EventsAre DEF IInv
  <2>3. TypeOK'
    <3>1. /\ height' \in 0..MaxHeight /\ chain' \in [1..height' -> Kinds \cup {"nothing"}]
          /\ fetched' \in BOOLEAN /\ faults' \in 0..MaxFaults /\ pass' \in {"none", "lock", "event"}
      BY <1>1, <1>5 DEF IInv, TypeOK, world
    <3>2. progress' \in FromBlock..(MaxHeight - Confirmations)
      BY <1>1, <1>2, <1>5, ScanAssumption DEF Saved, Confirmed
    <3>3. current' \in 0..height' /\ to' \in 0..height' /\ from' \in Nat /\ next' \in 0..(MaxHeight + BatchSize)
      BY <1>1, <1>2, <1>5, ScanAssumption DEF world
    <3>4. /\ logs' \subseteq Known /\ done' \subseteq Known /\ background' \subseteq Known
          /\ dropped' \subseteq Known /\ lone' \subseteq Known /\ dead' \subseteq Known
      BY <1>1, <1>5, <2>2 DEF IInv, TypeOK
    <3> QED BY <3>1, <3>2, <3>3, <3>4 DEF TypeOK
  <2>4. Run' /\ Locking' /\ Handling' /\ LocksComeFirst'
    BY <1>1, <1>2, <1>3, <1>5 DEF Run, Locking, Handling, LocksComeFirst, Saved, world
  <2>5. LossesExplained'
    <3>1. \A e \in Events : e[1] \in Nat
      BY EventsAre DEF IInv, TypeOK
    <3>2. \A e \in Events : Behind(e)' => Behind(e) \/ e \in Between(from', to')
      BY <1>1, <1>2, <1>5, <3>1, ScanAssumption DEF Behind, Between, Saved
    <3> QED BY <1>1, <1>4, <1>5, <3>2 DEF IInv, LossesExplained
  <2> QED BY <2>3, <2>4, <2>5 DEF IInv
<1>6. CASE from' < to' /\ pass' = "lock" /\ UNCHANGED <<progress, lone>>
  <2>1. TypeOK'
    <3>1. /\ height' \in 0..MaxHeight /\ chain' \in [1..height' -> Kinds \cup {"nothing"}]
          /\ fetched' \in BOOLEAN /\ faults' \in 0..MaxFaults /\ pass' \in {"none", "lock", "event"}
      BY <1>1, <1>6 DEF IInv, TypeOK, world
    <3>2. progress' \in {FromBlock} \cup (FromBlock..(MaxHeight - Confirmations))
      BY <1>6 DEF IInv, TypeOK
    <3>3. current' \in 0..height' /\ to' \in 0..height' /\ from' \in Nat /\ next' \in 0..(MaxHeight + BatchSize)
      BY <1>1, <1>2, <1>6, ScanAssumption DEF world
    <3>4. /\ logs' \subseteq Known /\ done' \subseteq Known /\ background' \subseteq Known
          /\ dropped' \subseteq Known /\ lone' \subseteq Known /\ dead' \subseteq Known
      BY <1>1, <1>6 DEF IInv, TypeOK
    <3> QED BY <3>1, <3>2, <3>3, <3>4 DEF TypeOK
  <2>2. Run'
    BY <1>1, <1>2, <1>3, <1>6 DEF IInv, Run, Confirmed, PassEnd, world
  <2>3. Locking' /\ Handling' /\ LocksComeFirst'
    <3>1. \A e \in Events : e[1] \in Nat
      BY EventsAre DEF IInv, TypeOK
    <3> QED BY <1>1, <1>2, <1>3, <1>4, <1>6, <3>1 DEF Locking, Handling, LocksComeFirst
  <2>4. LossesExplained'
    BY <1>1, <1>4, <1>6 DEF IInv, LossesExplained, Behind
  <2> QED BY <2>1, <2>2, <2>3, <2>4 DEF IInv
<1>7. from' \in Int /\ to' \in Int
  BY <1>1, <1>2
<1> QED BY <1>5, <1>6, <1>7 DEF BeginRun

\* Where a batch ends, and that the last one ends with its loop.
LEMMA BatchReaches ==
  ASSUME IInv, pass # "none"
  PROVE  /\ next \in Nat /\ from \in Nat /\ current \in Nat /\ to \in Nat /\ PassEnd \in Nat
         /\ PassEnd <= current /\ BatchEnd \in Int /\ BatchEnd <= PassEnd /\ BatchSize \in Nat
         /\ next + BatchSize <= PassEnd => BatchEnd = next + BatchSize - 1
         /\ ~(next + BatchSize <= PassEnd) => BatchEnd = PassEnd
<1>1. /\ current \in Nat /\ to \in Nat /\ next \in Nat /\ from \in Nat /\ BatchSize \in Nat \ {0}
      /\ Confirmations \in Nat
  BY ScanAssumption DEF IInv, TypeOK
<1>2. to <= current
  BY <1>1 DEF IInv, Run, Confirmed
<1>3. PassEnd \in Nat /\ PassEnd <= current
  BY <1>1, <1>2 DEF PassEnd
<1> HIDE DEF PassEnd
<1> QED BY <1>1, <1>3 DEF BatchEnd

\* The batch in hand is what the loop has to read between next and its end.
LEMMA BatchIs ==
  ASSUME IInv, pass # "none"
  PROVE  /\ Batch \subseteq Events
         /\ pass = "lock" => \A e \in Batch : e[2] = "lock"
         /\ \A e \in Events :
              next <= e[1] /\ e[1] <= BatchEnd /\ (e[2] = "lock" <=> pass = "lock") => e \in Batch
BY DEF Batch, Between

LEMMA FetchKeeps ==
  ASSUME IInv, FetchBatch
  PROVE  IInv'
<1>1. /\ pass # "none" /\ fetched' = TRUE /\ logs' = Batch
      /\ UNCHANGED <<world, progress, run, fate, faults>>
  BY DEF FetchBatch
<1>2. UNCHANGED <<Events, BatchEnd, PassEnd, Explained>>
  BY <1>1 DEF Events, BatchEnd, PassEnd, Explained, world, run, fate
<1>3. Batch \subseteq Known
  BY BatchIs, EventsAre, <1>1 DEF IInv
<1>4. TypeOK'
  BY <1>1, <1>3 DEF IInv, TypeOK, world, run, fate
<1>5. Run'
  BY <1>1, <1>2 DEF IInv, Run, Confirmed, world, run
<1>6. \A e \in Events : e[1] \in Nat
  BY EventsAre DEF IInv, TypeOK
<1>7. Locking'
  BY <1>1, <1>2, <1>6, BatchIs, BatchReaches DEF IInv, Locking, run, fate
<1>8. Handling'
  BY <1>1, <1>2, <1>6, BatchIs, BatchReaches DEF IInv, Handling, run
<1>9. LossesExplained' /\ LocksComeFirst'
  BY <1>1, <1>2 DEF IInv, LossesExplained, Behind, LocksComeFirst, Between, run, fate
<1> QED BY <1>4, <1>5, <1>7, <1>8, <1>9 DEF IInv

\* The handler of a lock returns; a melt paid goes on in the background.
LEMMA HandleKeeps ==
  ASSUME IInv, NEW e \in logs, HandleLog(e)
  PROVE  IInv'
<1>1. /\ fetched /\ logs' = logs \ {e}
      /\ UNCHANGED <<world, progress, run, fetched, dropped, lone, dead, faults>>
      /\ \/ e[2] = "paid" /\ background' = background \cup {e} /\ UNCHANGED done
         \/ e[2] # "paid" /\ done' = done \cup {e} /\ UNCHANGED background
  BY DEF HandleLog
<1>2. UNCHANGED <<Events, BatchEnd, PassEnd>>
  BY <1>1 DEF Events, BatchEnd, PassEnd, world, run
<1>3. /\ done \subseteq done' /\ Explained' = Explained \cup {e}
      /\ pass = "lock" => e \in done'
  BY <1>1 DEF Explained, IInv, Locking
<1>4. TypeOK'
  BY <1>1 DEF IInv, TypeOK, world, run
<1>5. Run'
  BY <1>1, <1>2 DEF IInv, Run, Confirmed, world, run
<1>6. Locking'
  BY <1>1, <1>2, <1>3 DEF IInv, Locking, run
<1>7. Handling'
  BY <1>1, <1>2, <1>3 DEF IInv, Handling, run
<1>8. LossesExplained'
  BY <1>1, <1>2 DEF IInv, LossesExplained, Behind
<1>9. LocksComeFirst'
  BY <1>1, <1>2, <1>3 DEF IInv, LocksComeFirst, Between, run
<1> QED BY <1>4, <1>5, <1>6, <1>7, <1>8, <1>9 DEF IInv

\* What was left of the batch, or the whole of it, is dropped.
LEMMA BatchFailsKeeps ==
  ASSUME IInv, BatchFails
  PROVE  IInv'
<1>1. /\ pass # "none" /\ fetched' = TRUE /\ logs' = {} /\ faults' = faults + 1 /\ faults < MaxFaults
      /\ dropped' = dropped \cup (IF fetched THEN logs ELSE Batch)
      /\ UNCHANGED <<world, progress, run, done, background, lone, dead>>
  BY DEF BatchFails
<1>2. UNCHANGED <<Events, BatchEnd, PassEnd>>
  BY <1>1 DEF Events, BatchEnd, PassEnd, world, run
<1>3. dropped \subseteq dropped' /\ dropped' \subseteq Known
  BY <1>1, BatchIs, EventsAre DEF IInv, TypeOK
<1>4. TypeOK'
  BY <1>1, <1>3, ScanAssumption DEF IInv, TypeOK, world, run
<1>5. Run'
  BY <1>1, <1>2 DEF IInv, Run, Confirmed, world, run
<1>6. \A e \in Events : e[1] \in Nat
  BY EventsAre DEF IInv, TypeOK
<1>7. Locking'
  BY <1>1, <1>2, <1>6, BatchIs, BatchReaches DEF IInv, Locking, run
<1>8. Explained' = Explained \cup dropped'
  BY <1>1, <1>3 DEF Explained
<1>9. Handling'
  BY <1>1, <1>2, <1>6, <1>8, BatchIs, BatchReaches DEF IInv, Handling, run
<1>10. LossesExplained'
  BY <1>1, <1>2, <1>3 DEF IInv, LossesExplained, Behind
<1>11. LocksComeFirst'
  BY <1>1, <1>2, <1>3 DEF IInv, LocksComeFirst, Between, run
<1> QED BY <1>4, <1>5, <1>7, <1>9, <1>10, <1>11 DEF IInv

\* The next batch, the next loop, or the end of the run, which keeps its block.
LEMMA EndBatchKeeps ==
  ASSUME IInv, EndBatch
  PROVE  IInv'
<1>1. /\ fetched /\ logs = {} /\ fetched' = FALSE
      /\ UNCHANGED <<world, current, from, to, logs, fate, faults>>
  BY DEF EndBatch
<1>2. /\ pass \in {"lock", "event"} /\ from = progress + 1 /\ from < to /\ from <= next
      /\ current <= height /\ to = Confirmed(current) /\ height \in Nat /\ height <= MaxHeight
      /\ progress \in Nat /\ FromBlock <= progress
  BY <1>1, ScanAssumption DEF IInv, TypeOK, Run
<1>3. UNCHANGED <<Events, Explained>>
  BY <1>1 DEF Events, Explained, world, fate
<1>4. \A e \in Events : e[1] \in Nat
  BY EventsAre DEF IInv, TypeOK
<1>5. /\ next \in Nat /\ from \in Nat /\ current \in Nat /\ to \in Nat /\ PassEnd \in Nat
      /\ PassEnd <= current /\ BatchEnd \in Int /\ BatchSize \in Nat
      /\ next + BatchSize <= PassEnd => BatchEnd = next + BatchSize - 1
      /\ ~(next + BatchSize <= PassEnd) => BatchEnd = PassEnd
  BY <1>2, BatchReaches
<1>6. pass = "lock" =>
        \A e \in Events : e[2] = "lock" /\ from <= e[1] /\ e[1] <= BatchEnd => e \in done \cup dropped
  BY <1>1, <1>4, <1>5 DEF IInv, Locking
<1>7. pass = "event" =>
        \A e \in Events : e[2] # "lock" /\ from <= e[1] /\ e[1] <= BatchEnd => e \in Explained
  BY <1>1, <1>4, <1>5 DEF IInv, Handling
<1>8. ASSUME /\ pass' \in {"none", "lock", "event"}
             /\ progress' \in {FromBlock} \cup (FromBlock..(MaxHeight - Confirmations))
             /\ next' \in 0..(MaxHeight + BatchSize)
      PROVE  TypeOK'
  BY <1>1, <1>8 DEF IInv, TypeOK, world, fate
<1>9. CASE next + BatchSize <= PassEnd /\ next' = next + BatchSize /\ UNCHANGED <<pass, progress>>
  <2>1. UNCHANGED PassEnd
    BY <1>1, <1>9 DEF PassEnd
  <2>2. next' \in 0..(MaxHeight + BatchSize)
    BY <1>2, <1>5, <1>9, ScanAssumption
  <2>3. TypeOK'
    BY <1>8, <1>9, <2>2 DEF IInv, TypeOK
  <2>4. Run'
    BY <1>1, <1>2, <1>5, <1>9, <2>1 DEF IInv, Run, Confirmed, world
  <2>5. Locking' /\ Handling'
    BY <1>1, <1>3, <1>4, <1>5, <1>6, <1>7, <1>9 DEF Locking, Handling, fate
  <2>6. LossesExplained' /\ LocksComeFirst'
    BY <1>1, <1>3, <1>9 DEF IInv, LossesExplained, Behind, LocksComeFirst, Between, fate
  <2> QED BY <2>3, <2>4, <2>5, <2>6 DEF IInv
<1>10. CASE /\ ~(next + BatchSize <= PassEnd) /\ pass = "lock"
            /\ pass' = "event" /\ next' = from /\ UNCHANGED progress
  <2>1. PassEnd = current /\ PassEnd' = to
    BY <1>1, <1>10 DEF PassEnd
  <2>2. next' \in 0..(MaxHeight + BatchSize)
    BY <1>2, <1>5, <1>10, <2>1, ScanAssumption DEF Confirmed
  <2>3. TypeOK'
    BY <1>8, <1>10, <2>2 DEF IInv, TypeOK
  <2>4. Run'
    BY <1>1, <1>2, <1>5, <1>10, <2>1 DEF IInv, Run, Confirmed, world
  <2>5. Locking' /\ Handling'
    BY <1>1, <1>4, <1>5, <1>3, <1>10 DEF Locking, Handling
  <2>6. LossesExplained'
    BY <1>1, <1>3, <1>10 DEF IInv, LossesExplained, Behind, fate
  <2>7. LocksComeFirst'
    BY <1>1, <1>3, <1>5, <1>6, <1>10, <2>1 DEF LocksComeFirst, Between, fate
  <2> QED BY <2>3, <2>4, <2>5, <2>6, <2>7 DEF IInv
<1>11. CASE /\ ~(next + BatchSize <= PassEnd) /\ pass = "event"
            /\ pass' = "none" /\ progress' = Saved(current) /\ UNCHANGED next
  <2>1. PassEnd = to /\ progress' = to /\ to <= current
    BY <1>2, <1>5, <1>11, ScanAssumption DEF PassEnd, Saved, Confirmed
  <2>2. to <= MaxHeight - Confirmations
    BY <1>2, <1>5, ScanAssumption DEF Confirmed
  <2>3. progress' \in FromBlock..(MaxHeight - Confirmations)
    BY <1>2, <1>5, <2>1, <2>2, ScanAssumption
  <2>4. TypeOK'
    BY <1>8, <1>11, <2>3 DEF IInv, TypeOK
  <2>5. Run'
    BY <1>1, <1>2, <1>5, <1>11, <2>1 DEF Run, world
  <2>6. Locking' /\ Handling' /\ LocksComeFirst'
    BY <1>11 DEF Locking, Handling, LocksComeFirst
  <2>7. LossesExplained'
    <3>1. ASSUME NEW e \in Events, FromBlock < e[1], e[1] <= to
          PROVE  e \in Explained
      <4>1. CASE e[1] <= progress
        BY <3>1, <4>1 DEF IInv, LossesExplained, Behind, Explained
      <4>2. CASE from <= e[1] /\ e[2] # "lock"
        BY <1>5, <1>7, <1>11, <2>1, <3>1, <4>2
      <4>3. CASE from <= e[1] /\ e[2] = "lock"
        BY <1>4, <1>5, <1>11, <2>1, <3>1, <4>3 DEF IInv, LocksComeFirst, Between, Explained
      <4> QED BY <1>2, <1>4, <4>1, <4>2, <4>3
    <3> QED BY <1>3, <2>1, <3>1 DEF LossesExplained, Behind, Explained
  <2> QED BY <2>4, <2>5, <2>6, <2>7 DEF IInv
<1> QED BY <1>2, <1>9, <1>10, <1>11 DEF EndBatch

LEMMA VoteEndsKeeps ==
  ASSUME IInv, NEW e \in background, VoteEnds(e)
  PROVE  IInv'
<1>1. /\ background' = background \ {e} /\ done' = done \cup {e}
      /\ UNCHANGED <<world, progress, run, fetched, logs, dropped, lone, dead, faults>>
  BY DEF VoteEnds
<1>2. UNCHANGED <<Events, BatchEnd, PassEnd, Explained>>
  BY <1>1 DEF Events, BatchEnd, PassEnd, Explained, world, run
<1>3. TypeOK'
  BY <1>1 DEF IInv, TypeOK, world, run
<1>4. Run'
  BY <1>1, <1>2 DEF IInv, Run, Confirmed, world, run
<1>5. Locking'
  BY <1>1, <1>2 DEF IInv, Locking, run
<1>6. Handling'
  BY <1>1, <1>2 DEF IInv, Handling, run
<1>7. LossesExplained'
  BY <1>1, <1>2 DEF IInv, LossesExplained, Behind
<1>8. LocksComeFirst'
  BY <1>1, <1>2 DEF IInv, LocksComeFirst, Between, run
<1> QED BY <1>3, <1>4, <1>5, <1>6, <1>7, <1>8 DEF IInv

LEMMA DieKeeps ==
  ASSUME IInv, Die
  PROVE  IInv'
<1>1. /\ faults < MaxFaults /\ faults' = faults + 1 /\ pass' = "none" /\ fetched' = FALSE /\ logs' = {}
      /\ background' = {} /\ dead' = dead \cup background
      /\ UNCHANGED <<world, progress, current, from, next, to, done, dropped, lone>>
  BY DEF Die
<1>2. UNCHANGED Events
  BY <1>1 DEF Events, world
<1>3. TypeOK'
  <2>1. faults' \in 0..MaxFaults
    BY <1>1, ScanAssumption DEF IInv, TypeOK
  <2>2. /\ logs' \subseteq Known /\ background' \subseteq Known /\ dead' \subseteq Known
        /\ pass' \in {"none", "lock", "event"} /\ fetched' \in BOOLEAN
    BY <1>1 DEF IInv, TypeOK
  <2> QED BY <1>1, <2>1, <2>2 DEF IInv, TypeOK, world
<1>4. Run' /\ Locking' /\ Handling' /\ LocksComeFirst'
  BY <1>1 DEF IInv, Run, Locking, Handling, LocksComeFirst, world
<1>5. LossesExplained'
  BY <1>1, <1>2 DEF IInv, LossesExplained, Behind
<1> QED BY <1>3, <1>4, <1>5 DEF IInv

LEMMA NextInv == IInv /\ [Next]_vars => IInv'
<1> SUFFICES ASSUME IInv, [Next]_vars PROVE IInv'
  OBVIOUS
<1>1. CASE UNCHANGED vars
  BY <1>1 DEF vars, world, run, fate, IInv, TypeOK, Run, Locking, Handling, LossesExplained, LocksComeFirst,
              Explained, Events, Between, Behind, Confirmed, PassEnd, BatchEnd
<1>2. CASE \E content \in Kinds \cup {"nothing"} : Mine(content)
  BY <1>2, MineKeeps
<1>3. CASE BeginRun
  BY <1>3, BeginKeeps
<1>4. CASE FetchBatch
  BY <1>4, FetchKeeps
<1>5. CASE \E e \in logs : HandleLog(e)
  BY <1>5, HandleKeeps
<1>6. CASE EndBatch
  BY <1>6, EndBatchKeeps
<1>7. CASE \E e \in background : VoteEnds(e)
  BY <1>7, VoteEndsKeeps
<1>8. CASE BatchFails
  BY <1>8, BatchFailsKeeps
<1>9. CASE Die
  BY <1>9, DieKeeps
<1> QED BY <1>1, <1>2, <1>3, <1>4, <1>5, <1>6, <1>7, <1>8, <1>9 DEF Next, Federator

LEMMA InvHolds == Spec => []IInv
BY InitInv, NextInv, PTL DEF Spec

-----------------------------------------------------------------------------
(* Theorems *)

\* The variables keep their types: the file, above all, is a block the chain had.
THEOREM TypeCorrect == Spec => []TypeOK
<1>1. IInv => TypeOK
  BY DEF IInv
<1> QED BY <1>1, InvHolds, PTL

\* An event behind the block in the file was handled, or lost in a way the code has.
THEOREM LossesAlwaysExplained == Spec => []LossesExplained
<1>1. IInv => LossesExplained
  BY DEF IInv
<1> QED BY <1>1, InvHolds, PTL

\* While events are handled, every lock of the run's blocks was tried.
THEOREM LocksAlwaysFirst == Spec => []LocksComeFirst
<1>1. IInv => LocksComeFirst
  BY DEF IInv
<1> QED BY <1>1, InvHolds, PTL
=============================================================================
