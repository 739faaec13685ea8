------------------------------ MODULE EvmScanner ------------------------------
(***************************************************************************)
(* How one federator reads the bridge's Cross events and hands them over   *)
(* to Hathor (FederatorHTR.run): a first pass over the blocks that have    *)
(* the confirmations of a large amount, whose progress is kept in a file,  *)
(* and a second pass over the younger blocks, kept nowhere.  The chain     *)
(* grows and reorganises meanwhile, and the process may die at any step.   *)
(*                                                                         *)
(* A block holds one crossing at most, known by its size: the code asks    *)
(* nothing else of its amount.  Handing over means that                    *)
(* HathorService.sendTokensToHathor returned.                              *)
(***************************************************************************)
EXTENDS Integers, FiniteSets
CONSTANTS
  Small, Medium, Large,     \* confirmations of AllowTokens.getConfirmations
  FromBlock,                \* config.mainchain.fromBlock
  PageSize,                 \* recordsPerPage (450 in the code)
  ReorgDepth,               \* blocks a reorganisation can replace
  StartHeight, MaxHeight,   \* the chain at the start, and the bound on it
  MaxEvents,                \* bound: crossings on the chain at one time
  MaxFaults,                \* bound: errors, refusals and deaths
  MayTear                   \* can a death leave the progress file empty?

ASSUME ConfirmationsAssumption ==
  /\ Small \in Nat /\ Medium \in Nat /\ Large \in Nat
  /\ Small <= Medium /\ Medium <= Large
ASSUME ReorgAssumption == ReorgDepth \in Nat /\ ReorgDepth <= Small
ASSUME ScanAssumption ==
  /\ FromBlock \in Nat /\ PageSize \in Nat \ {0}
  /\ StartHeight \in Nat /\ MaxHeight \in Nat /\ Large <= StartHeight /\ StartHeight <= MaxHeight
  /\ MaxEvents \in Nat /\ MaxFaults \in Nat /\ MayTear \in BOOLEAN

Sizes == {"small", "medium", "large"}
Contents == Sizes \cup {"nothing"}
Needed == [small |-> Small, medium |-> Medium, large |-> Large]
NoFile == -1
NaN == -2                   \* what parseInt makes of an empty file

VARIABLES
  height, chain,            \* the EVM chain: what each block crosses
  progress,                 \* the content of the fhtr progress file
  pass,                     \* the getLogsAndProcess under way
  current, next, to,        \* currentBlock, fromPageBlock, toBlock of the run
  fetched, logs,            \* was the page read, and its logs still to process
  sent, refused,            \* handed over; ended by a HathorException
  faults
world == <<height, chain>>
handled == <<sent, refused>>
scannerVars == <<world, progress, pass, current, next, to, fetched, logs, handled, faults>>

Events == {<<b, chain[b]>> : b \in {n \in 1..height : chain[n] \in Sizes}}

ScannerTypeOK ==
  /\ height \in StartHeight..MaxHeight
  /\ chain \in [1..height -> Contents]
  /\ progress \in (FromBlock..MaxHeight) \cup {NoFile, NaN}
  /\ pass \in {"none", "all", "young"} /\ fetched \in BOOLEAN
  /\ current \in 0..height /\ next \in 0..(MaxHeight + 1) /\ to \in 0..height
  /\ logs \subseteq (1..MaxHeight) \X Sizes
  /\ sent \subseteq (1..MaxHeight) \X Sizes /\ refused \subseteq (1..MaxHeight) \X Sizes
  /\ faults \in 0..MaxFaults

ScannerInit ==
  /\ height = StartHeight /\ chain = [b \in 1..StartHeight |-> "nothing"]
  /\ progress = NoFile
  /\ pass = "none" /\ fetched = FALSE /\ logs = {}
  /\ current = 0 /\ next = 0 /\ to = 0
  /\ sent = {} /\ refused = {} /\ faults = 0

-----------------------------------------------------------------------------
(* The chain *)

FewEvents(c) == Cardinality({b \in DOMAIN c : c[b] \in Sizes}) <= MaxEvents

Mine(content) ==
  /\ height < MaxHeight
  /\ height' = height + 1
  /\ chain' = [b \in 1..(height + 1) |-> IF b <= height THEN chain[b] ELSE content]
  /\ FewEvents(chain')
  /\ UNCHANGED <<progress, pass, current, next, to, fetched, logs, handled, faults>>

\* The last `depth' blocks are replaced by as many others.
Reorg(depth, fork) ==
  /\ chain' = [b \in 1..height |-> IF b <= height - depth THEN chain[b] ELSE fork[height - b]]
  /\ FewEvents(chain')
  /\ UNCHANGED <<height, progress, pass, current, next, to, fetched, logs, handled, faults>>

-----------------------------------------------------------------------------
(* A run *)

Oldest(h) == h - Large      \* toBlock of the first pass
\* Fault: the small confirmations are not subtracted.
YoungestUnconfirmed(h) == h

Youngest(h) == h - Small    \* newToBlock, toBlock of the second

LastBlock ==
  CASE progress = NoFile -> FromBlock
    [] progress = NaN -> NaN
    [] OTHER -> IF progress < FromBlock THEN FromBlock ELSE progress

\* a >= b in JavaScript: false of NaN
AtLeast(a, b) == a # NaN /\ a >= b

\* numberOfPages = ceil((toBlock - fromBlock) / recordsPerPage) makes a page the
\* last one exactly when no more than PageSize blocks follow its first.
PageEnd == IF to - next <= PageSize THEN to ELSE next + PageSize - 1

Rest == pass' = "none" /\ UNCHANGED <<current, next, to>>

\* getLogsAndProcess returns at once from a pass of fewer than two blocks.
EnterYoung(h) ==
  IF Oldest(h) >= Youngest(h) THEN Rest
  ELSE pass' = "young" /\ current' = h /\ next' = Oldest(h) /\ to' = Youngest(h)

EnterAll(h) ==
  IF LastBlock = NaN \/ AtLeast(LastBlock, Oldest(h) - 1) THEN EnterYoung(h)
  ELSE pass' = "all" /\ current' = h /\ next' = LastBlock + 1 /\ to' = Oldest(h)

BeginRun ==
  /\ pass = "none"
  /\ Oldest(height) > 0 \/ Youngest(height) > 0
  /\ ~(AtLeast(LastBlock, Oldest(height)) /\ AtLeast(LastBlock, Youngest(height)))
  /\ EnterAll(height)
  /\ UNCHANGED <<world, progress, fetched, logs, handled, faults>>

FetchPage ==
  /\ pass # "none" /\ ~fetched
  /\ fetched' = TRUE
  /\ logs' = {e \in Events : next <= e[1] /\ e[1] <= PageEnd}
  /\ UNCHANGED <<world, progress, pass, current, next, to, handled, faults>>

\* Fault: a medium amount waits for the first pass.
DeferredAllButSmall(e) == pass = "young" /\ e[2] # "small"

Deferred(e) ==
  /\ pass = "young"
  /\ \/ e[2] = "large"
     \/ e[2] = "medium" /\ current - e[1] < Medium

\* The next log of the page, oldest first.
ProcessLog(e) ==
  /\ pass # "none" /\ fetched
  /\ e \in logs /\ \A f \in logs : e[1] <= f[1]
  /\ logs' = logs \ {e}
  /\ \/ Deferred(e) /\ UNCHANGED <<handled, faults>>
     \/ ~Deferred(e) /\ sent' = sent \cup {e} /\ UNCHANGED <<refused, faults>>
     \/ /\ ~Deferred(e) /\ faults < MaxFaults        \* a HathorException, swallowed
        /\ refused' = refused \cup {e} /\ faults' = faults + 1 /\ UNCHANGED sent
  /\ UNCHANGED <<world, progress, pass, current, next, to, fetched>>

\* Fault: the second pass saves its progress too.
SaveProgressOfYoung == progress' = PageEnd

\* Fault: the progress of the page before is kept.
SaveProgressTooEarly == progress' = IF pass = "all" THEN next - 1 ELSE progress

SaveProgress == progress' = IF pass = "all" THEN PageEnd ELSE progress

FinishPage ==
  /\ pass # "none" /\ fetched /\ logs = {}
  /\ SaveProgress
  /\ fetched' = FALSE
  /\ IF PageEnd # to THEN next' = PageEnd + 1 /\ UNCHANGED <<pass, current, to>>
     ELSE IF pass = "all" THEN EnterYoung(current) ELSE Rest
  /\ UNCHANGED <<world, logs, handled, faults>>

\* Any other error leaves runAll's loop, and a death ends the process: the next
\* run starts from the file.
Abort ==
  /\ pass # "none" /\ faults < MaxFaults
  /\ faults' = faults + 1
  /\ pass' = "none" /\ fetched' = FALSE /\ logs' = {}
  /\ UNCHANGED <<world, progress, current, next, to, handled>>

\* The death falls between the truncation and the write of writeFileSync.
TornSave ==
  /\ MayTear /\ faults < MaxFaults
  /\ pass = "all" /\ fetched /\ logs = {}
  /\ progress' = NaN
  /\ faults' = faults + 1
  /\ pass' = "none" /\ fetched' = FALSE
  /\ UNCHANGED <<world, current, next, to, logs, handled>>

Federator == BeginRun \/ FetchPage \/ (\E e \in logs : ProcessLog(e)) \/ FinishPage
ScannerNext ==
  \/ \E content \in Contents : Mine(content)
  \/ \E depth \in 1..ReorgDepth : \E fork \in [0..(depth - 1) -> Contents] : Reorg(depth, fork)
  \/ Federator \/ Abort \/ TornSave
ScannerSpec == ScannerInit /\ [][ScannerNext]_scannerVars

\* The scheduler calls runAll again and again and awaits every step of it.
ScannerFairSpec == ScannerSpec /\ WF_scannerVars(Federator)

-----------------------------------------------------------------------------
(* Properties *)

\* Every crossing up to the block kept in the progress file was handed over, or
\* refused with a HathorException: the next run starts behind it for good.
NothingSkipped ==
  progress \notin {NoFile, NaN} =>
    \A e \in Events : FromBlock < e[1] /\ e[1] <= progress => e \in sent \cup refused

\* What was handed over is on the chain and stays there.
SentStaysOnChain == sent \subseteq Events

\* A crossing with its confirmations, and one block more (the first pass leaves
\* a single new block for the next run), is eventually handed over or refused,
\* unless a death has left the progress file empty.
EventuallyHandled ==
  \A b \in (FromBlock + 1)..MaxHeight : \A size \in Sizes :
    (b < height - Needed[size] /\ <<b, size>> \in Events)
       ~> (<<b, size>> \in sent \cup refused \/ progress = NaN)

\* "the federator will increase the number each time it successfully polls for
\* blocks": the block a run starts behind reaches the last one with the
\* confirmations of a large amount, or the one before it.  Once a death has
\* left the file empty, it never does again.
FileFollowsChain == <>[]AtLeast(LastBlock, Oldest(height) - 1) \/ <>[](progress = NaN)

=============================================================================
