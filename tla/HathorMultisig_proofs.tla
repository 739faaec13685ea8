------------------------ MODULE HathorMultisig_proofs ------------------------
(***************************************************************************)
(* What stands in the contract is what was signed and what is on Hathor,   *)
(* so a crossing is paid once and reported only when it is paid; and       *)
(* proposals never compete for an input while the wallet keeps its marks.  *)
(* While no call fails either, every crossing is paid once all is read.    *)
(* For any federators, crossings, inputs and faults.                       *)
(***************************************************************************)
EXTENDS HathorMultisig, FiniteSetTheorems, TLAPS

CallRecord == [at : Steps, of : Crossings \cup {None}, tx : Inputs \cup {None}]

(* What holds of a call, or of a request given up, that is to do `step' for *)
(* the crossing c with the input i.                                         *)
Fits(step, c, i) ==
  /\ step # "idle" => c \in Crossings
  /\ step = "proposing" => i \in Inputs /\ (forgot \/ i \in marked)
  /\ step \in {"signing", "pushing", "sent", "unsent"} => i \in Inputs /\ proposal[c] = i
  /\ step = "sent" => <<c, i>> \in ledger
  /\ step = "unsent" => forgot \/ Paid(c)
FitsCall(f, s) == Fits(call[f][s].at, call[f][s].of, call[f][s].tx)
FitsRequest(r) == Fits(r.op, r.of, r.tx)
TrueEvent(e) ==
  /\ e.kind = "proposed" => proposal[e.of] # None
  /\ e.kind = "sent" => forgot \/ Paid(e.of)

(* Who may still make the contract propose i for c, or has.                 *)
Holds(c, i) ==
  \/ proposal[c] = i
  \/ \E f \in Federators : \E s \in Slots : call[f][s] = [at |-> "proposing", of |-> c, tx |-> i]
  \/ \E r \in late : r.op = "proposing" /\ r.of = c /\ r.tx = i

LedgerStands == \A c \in Crossings : \A i \in Inputs : <<c, i>> \in ledger => proposal[c] = i
ProcessedPaid == \A c \in Crossings : processed[c] => Paid(c)
CallsFit == \A f \in Federators : \A s \in Slots : FitsCall(f, s)
LateFits == \A r \in late : FitsRequest(r)
EventsTrue == \A k \in 1..Len(events) : TrueEvent(events[k])
Kept == forgot \/ \A c \in Crossings : proposal[c] # None => proposal[c] \in marked
Unique == forgot \/ \A c, d \in Crossings : \A i \in Inputs : Holds(c, i) /\ Holds(d, i) => c = d

IInv ==
  /\ TypeOK
  /\ SignaturesStand /\ LedgerStands /\ ProcessedPaid
  /\ CallsFit /\ LateFits /\ EventsTrue
  /\ Kept /\ Unique

(* What every step does: it adds to what was there, and what it adds fits.  *)
Grows ==
  /\ \A c \in Crossings : proposal[c] # None => proposal'[c] = proposal[c]
  /\ ledger \subseteq ledger'
  /\ forgot' \/ (~forgot /\ marked \subseteq marked')

LEMMA FitsGrows ==
  ASSUME Grows, NEW step, NEW c \in Crossings \cup {None}, NEW i \in Inputs \cup {None}, Fits(step, c, i)
  PROVE Fits(step, c, i)'
<1>1. Paid(c) => Paid(c)'
  BY DEF Grows, Paid
<1>2. i \in Inputs /\ c \in Crossings /\ proposal[c] = i => proposal'[c] = i
  BY CrossingsAssumption DEF Grows
<1> QED
  BY <1>1, <1>2 DEF Grows, Fits

LEMMA EventGrows ==
  ASSUME Grows, NEW e \in Event, TrueEvent(e)
  PROVE TrueEvent(e)'
<1>1. Paid(e.of) => Paid(e.of)'
  BY DEF Grows, Paid
<1> QED
  BY <1>1 DEF Grows, TrueEvent, Event

-----------------------------------------------------------------------------
(* A request given up goes on to fit, and so does one that a call gives up. *)
LEMMA RequestFits ==
  ASSUME TypeOK, CallsFit, NEW f \in Federators, NEW s \in Slots, Sending(f, s)
  PROVE  RequestOf(f, s) \in Request /\ FitsRequest(RequestOf(f, s))
<1>1. call[f][s] \in CallRecord
  BY DEF TypeOK, CallRecord
<1>2. Fits(call[f][s].at, call[f][s].of, call[f][s].tx)
  BY DEF CallsFit, FitsCall
<1> QED
  BY <1>1, <1>2 DEF Sending, RequestOf, Request, FitsRequest, Fits, CallRecord

LEMMA LateGrow ==
  ASSUME TypeOK, LateFits, CallsFit, Grows,
         \A r \in late' : r \in late
            \/ \E f \in Federators : \E s \in Slots : Sending(f, s) /\ r = RequestOf(f, s)
  PROVE  LateFits' /\ late' \subseteq Request
<1>1. ASSUME NEW r \in late' PROVE r \in Request /\ FitsRequest(r)
  BY RequestFits DEF LateFits, TypeOK
<1>2. ASSUME NEW r \in late' PROVE FitsRequest(r)'
  <2>1. r.of \in Crossings \cup {None} /\ r.tx \in Inputs \cup {None}
    BY <1>1 DEF Request
  <2> QED BY <1>1, <1>2, <2>1, FitsGrows DEF FitsRequest
<1> QED BY <1>1, <1>2 DEF LateFits

-----------------------------------------------------------------------------
ContractOK ==
  /\ proposal \in [Crossings -> Inputs \cup {None}]
  /\ signatures \in [Crossings -> SUBSET (Federators \X Inputs)]
  /\ processed \in [Crossings -> BOOLEAN]
  /\ events \in Seq(Event)
ContractTrue == SignaturesStand /\ LedgerStands /\ ProcessedPaid /\ EventsTrue /\ Kept

LEMMA LedgerGrows ==
  ASSUME IInv, Grows, UNCHANGED contract,
         \A c \in Crossings : \A i \in Inputs :
            <<c, i>> \in ledger' => <<c, i>> \in ledger \/ proposal[c] = i
  PROVE  ContractTrue'
<1>1. SignaturesStand' BY DEF IInv, SignaturesStand, contract
<1>2. LedgerStands' BY DEF IInv, LedgerStands, contract
<1>3. ProcessedPaid' BY DEF IInv, ProcessedPaid, Paid, Grows, contract
<1>4. EventsTrue'
  <2> SUFFICES ASSUME NEW k \in 1..Len(events) PROVE TrueEvent(events[k])'
    BY DEF EventsTrue, contract
  <2>1. events[k] \in Event /\ TrueEvent(events[k]) /\ events'[k] = events[k]
    BY DEF IInv, TypeOK, EventsTrue, contract
  <2> QED BY <2>1, EventGrows DEF TrueEvent
<1>5. Kept' BY DEF IInv, Kept, Grows, contract
<1> QED BY <1>1, <1>2, <1>3, <1>4, <1>5 DEF ContractTrue

(* What a request of the contract does, when it fits.                       *)
LEMMA Executed ==
  ASSUME IInv, NEW r \in Request, FitsRequest(r), Executes(r), UNCHANGED hathor
  PROVE  /\ Grows /\ ContractOK' /\ ContractTrue' /\ Len(events) <= Len(events')
         /\ \A c \in Crossings : \/ proposal'[c] = proposal[c]
                                 \/ r.op = "proposing" /\ c = r.of /\ proposal'[c] = r.tx
<1> DEFINE c == r.of  i == r.tx
<1>0. ContractOK /\ ContractTrue /\ c \in Crossings /\ i \in Inputs \cup {None}
  BY DEF IInv, TypeOK, ContractOK, ContractTrue, Request
<1>1. CASE UNCHANGED contract
  <2>1. Grows BY <1>1 DEF Grows, hathor, contract, IInv, TypeOK
  <2>2. ContractTrue' BY <2>1, LedgerGrows, <1>1 DEF hathor
  <2>3. Len(events) <= Len(events') BY <1>0, <1>1 DEF contract, ContractOK
  <2> QED BY <1>0, <1>1, <2>1, <2>2, <2>3 DEF contract, ContractOK
<1>2. ASSUME NEW e \in Event, events' = Append(events, e), TrueEvent(e)', Grows
      PROVE  EventsTrue' /\ events' \in Seq(Event) /\ Len(events) <= Len(events')
  <2>1. events' \in Seq(Event) /\ Len(events') = Len(events) + 1 /\ Len(events) \in Nat
    BY <1>0, <1>2 DEF ContractOK
  <2>2. ASSUME NEW k \in 1..Len(events') PROVE TrueEvent(events[k])'
    <3>1. CASE k = Len(events) + 1
      <4>1. events'[k] = e BY <1>0, <1>2, <3>1 DEF ContractOK
      <4> QED BY <1>2, <4>1 DEF TrueEvent
    <3>2. CASE k # Len(events) + 1
      <4>1. k \in 1..Len(events) BY <2>1, <3>2
      <4>2. events'[k] = events[k] /\ events[k] \in Event /\ TrueEvent(events[k])
        BY <1>0, <1>2, <4>1 DEF ContractOK, ContractTrue, EventsTrue
      <4>3. PICK d \in Event : d = events[k] /\ TrueEvent(d)
        BY <4>2
      <4>4. TrueEvent(d)' BY <1>2, <4>3, EventGrows
      <4> QED BY <4>2, <4>3, <4>4 DEF TrueEvent
    <3> QED BY <3>1, <3>2
  <2> QED BY <2>1, <2>2 DEF EventsTrue
<1>3. CASE r.op = "proposing" /\ ~UNCHANGED contract
  <2>1. /\ proposal[c] = None /\ proposal' = [proposal EXCEPT ![c] = i]
        /\ events' = Append(events, [kind |-> "proposed", of |-> c, by |-> None])
        /\ UNCHANGED <<signatures, processed>>
    BY <1>3 DEF Executes, SendTransactionProposal, Emit
  <2>2. i \in Inputs /\ (forgot \/ i \in marked) /\ i # None
    BY <1>3, CrossingsAssumption DEF FitsRequest, Fits
  <2>3. \A d \in Crossings : proposal'[d] = IF d = c THEN i ELSE proposal[d]
    BY <1>0, <2>1 DEF ContractOK
  <2>4. Grows BY <2>1, <2>3 DEF Grows, hathor, IInv, TypeOK
  <2>5. SignaturesStand'
    BY <1>0, <2>1, <2>3, CrossingsAssumption DEF SignaturesStand, ContractTrue, ContractOK
  <2>6. LedgerStands'
    BY <1>0, <2>1, <2>3, CrossingsAssumption DEF LedgerStands, ContractTrue, hathor
  <2>7. ProcessedPaid' BY <1>0, <2>1 DEF ProcessedPaid, ContractTrue, hathor, Paid
  <2>8. EventsTrue' /\ events' \in Seq(Event) /\ Len(events) <= Len(events')
    <3>1. [kind |-> "proposed", of |-> c, by |-> None] \in Event BY <1>0 DEF Event
    <3>2. TrueEvent([kind |-> "proposed", of |-> c, by |-> None])'
      BY <1>0, <2>2, <2>3 DEF TrueEvent
    <3> QED BY <1>2, <2>1, <2>4, <3>1, <3>2
  <2>9. Kept' BY <1>0, <2>2, <2>3 DEF Kept, ContractTrue, hathor
  <2>10. ContractOK' BY <1>0, <2>1, <2>2, <2>8 DEF ContractOK
  <2> QED BY <1>3, <2>3, <2>4, <2>5, <2>6, <2>7, <2>8, <2>9, <2>10 DEF ContractTrue
<1>4. CASE r.op = "signing" /\ ~UNCHANGED contract
  <2>1. /\ signatures' = [signatures EXCEPT ![c] = @ \cup {<<r.by, i>>}]
        /\ events' = Append(events, [kind |-> "signed", of |-> c, by |-> r.by])
        /\ UNCHANGED <<proposal, processed>>
    BY <1>4 DEF Executes, UpdateSignatureState, Emit
  <2>2. i \in Inputs /\ proposal[c] = i /\ r.by \in Federators
    BY <1>4 DEF FitsRequest, Fits, Request
  <2>4. Grows BY <2>1 DEF Grows, hathor, IInv, TypeOK
  <2>5. SignaturesStand'
    BY <1>0, <2>1, <2>2 DEF SignaturesStand, ContractTrue, ContractOK
  <2>6. LedgerStands' /\ ProcessedPaid' /\ Kept'
    BY <1>0, <2>1 DEF LedgerStands, ProcessedPaid, Kept, Paid, ContractTrue, hathor
  <2>8. EventsTrue' /\ events' \in Seq(Event) /\ Len(events) <= Len(events')
    <3>1. [kind |-> "signed", of |-> c, by |-> r.by] \in Event BY <1>0, <2>2 DEF Event
    <3>2. TrueEvent([kind |-> "signed", of |-> c, by |-> r.by])' BY DEF TrueEvent
    <3> QED BY <1>2, <2>1, <2>4, <3>1, <3>2
  <2>10. ContractOK' BY <1>0, <2>1, <2>2, <2>8 DEF ContractOK
  <2> QED BY <2>1, <2>4, <2>5, <2>6, <2>8, <2>10 DEF ContractTrue
<1>5. CASE r.op \in {"sent", "unsent"} /\ ~UNCHANGED contract
  <2>1. /\ processed' = [processed EXCEPT ![c] = (r.op = "sent")]
        /\ events' = Append(events, [kind |-> "sent", of |-> c, by |-> None])
        /\ UNCHANGED <<proposal, signatures>>
    BY <1>5 DEF Executes, UpdateTransactionState, Emit
  <2>2. (r.op = "sent" => Paid(c)) /\ (forgot \/ Paid(c))
    BY <1>5 DEF FitsRequest, Fits, Paid
  <2>4. Grows BY <2>1 DEF Grows, hathor, IInv, TypeOK
  <2>5. SignaturesStand' /\ LedgerStands' /\ Kept'
    BY <1>0, <2>1 DEF SignaturesStand, LedgerStands, Kept, ContractTrue, hathor
  <2>6. ProcessedPaid'
    BY <1>0, <2>1, <2>2 DEF ProcessedPaid, ContractTrue, ContractOK, hathor, Paid
  <2>8. EventsTrue' /\ events' \in Seq(Event) /\ Len(events) <= Len(events')
    <3>1. [kind |-> "sent", of |-> c, by |-> None] \in Event BY <1>0 DEF Event
    <3>2. TrueEvent([kind |-> "sent", of |-> c, by |-> None])'
      BY <2>2 DEF TrueEvent, Paid, hathor
    <3> QED BY <1>2, <2>1, <2>4, <3>1, <3>2
  <2>10. ContractOK' BY <1>0, <2>1, <2>8 DEF ContractOK
  <2> QED BY <2>1, <2>4, <2>5, <2>6, <2>8, <2>10 DEF ContractTrue
<1> QED BY <1>1, <1>3, <1>4, <1>5 DEF Request

-----------------------------------------------------------------------------
(* A call becomes v, and the caller may have been told so.                  *)
Becomes(f, s, v) ==
  call' = [call EXCEPT ![f][s] = v] /\ (told' = told \/ told' = Told(f, s))

LEMMA OneCall ==
  ASSUME IInv, NEW f \in Federators, NEW s \in Slots, NEW v \in CallRecord, Becomes(f, s, v)
  PROVE  /\ call' \in [Federators -> [Slots -> CallRecord]]
         /\ \A g \in Federators : \A t \in Slots :
              call'[g][t] = IF g = f /\ t = s THEN v ELSE call[g][t]
BY DEF Becomes, IInv, TypeOK, CallRecord

LEMMA IdleFits ==
  Idle \in CallRecord /\ Fits(Idle.at, Idle.of, Idle.tx) /\ Idle.at # "proposing"
BY DEF Idle, CallRecord, Steps, Fits

LEMMA Goes ==
  ASSUME NEW f \in Federators, NEW s \in Slots, NEW c \in Crossings, NEW i \in Inputs \cup {None},
         NEW step \in Steps \ {"proposing"}, Goto(f, s, step, c, i), Fits(step, c, i)
  PROVE  \E v \in CallRecord :
           Becomes(f, s, v) /\ Fits(v.at, v.of, v.tx) /\ v.at # "proposing"
<1> DEFINE v == [at |-> step, of |-> c, tx |-> i]
<1>1. v \in CallRecord BY DEF CallRecord
<1>2. Becomes(f, s, v) BY DEF Goto, Becomes
<1>3. Fits(v.at, v.of, v.tx) /\ v.at # "proposing" OBVIOUS
<1> QED BY <1>1, <1>2, <1>3

LEMMA Asked ==
  ASSUME IInv, NEW f \in Federators, NEW s \in Slots, NEW c \in Crossings,
         \/ AskProcessed(f, s, c)
         \/ c = call[f][s].of /\ (AskSigned(f, s) \/ AskProposed(f, s))
  PROVE  \E v \in CallRecord :
           Becomes(f, s, v) /\ Fits(v.at, v.of, v.tx) /\ v.at # "proposing"
<1>1. CASE Return(f, s)
  BY <1>1, IdleFits DEF Return, Stop, Becomes
<1>2. ASSUME NEW step \in {"signing", "pushing"}, Goto(f, s, step, c, proposal[c]),
             proposal[c] \in Inputs
      PROVE  \E v \in CallRecord :
               Becomes(f, s, v) /\ Fits(v.at, v.of, v.tx) /\ v.at # "proposing"
  <2>1. PICK i \in Inputs : i = proposal[c] BY <1>2
  <2>2. Fits(step, c, i) /\ step \in Steps \ {"proposing"} BY <2>1 DEF Fits, Steps
  <2> QED BY <1>2, <2>1, <2>2, Goes
<1>3. ASSUME NEW step \in {"unprocessed", "unsigned", "building"}, Goto(f, s, step, c, None)
      PROVE  \E v \in CallRecord :
               Becomes(f, s, v) /\ Fits(v.at, v.of, v.tx) /\ v.at # "proposing"
  <2>1. Fits(step, c, None) /\ step \in Steps \ {"proposing"} BY DEF Fits, Steps
  <2> QED BY <1>3, <2>1, Goes
<1>4. HasSigned(f, c) => proposal[c] \in Inputs
  <2> SUFFICES ASSUME NEW i \in Inputs, <<f, i>> \in signatures[c] PROVE proposal[c] \in Inputs
    BY DEF HasSigned
  <2> QED BY DEF IInv, SignaturesStand
<1>5. proposal[c] # None => proposal[c] \in Inputs
  BY DEF IInv, TypeOK
<1> QED BY <1>1, <1>2, <1>3, <1>4, <1>5 DEF AskProcessed, AskSigned, AskProposed

(* The parts of the state that are the federators' own.                     *)
LocalOK ==
  /\ told \in [Federators -> SUBSET Crossings]
  /\ call \in [Federators -> [Slots -> CallRecord]]
  /\ late \subseteq Request
LocalTrue == LocalOK /\ CallsFit /\ LateFits

(* What may be given up in a step: the request of a call that sends it.     *)
LateFromCalls ==
  \A r \in late' : r \in late
     \/ \E f \in Federators : \E s \in Slots : Sending(f, s) /\ r = RequestOf(f, s)

LEMMA ToldOK ==
  ASSUME IInv, NEW f \in Federators, NEW s \in Slots, NEW v, Becomes(f, s, v)
  PROVE  told' \in [Federators -> SUBSET Crossings]
<1>1. told \in [Federators -> SUBSET Crossings] BY DEF IInv, TypeOK
<1>2. Told(f, s) \in [Federators -> SUBSET Crossings]
  <2>1. CASE s = Reader BY <1>1, <2>1 DEF Told
  <2>2. CASE s # Reader
    <3>1. s \in Crossings BY <2>2 DEF Slots
    <3>2. Told(f, s) = [told EXCEPT ![f] = told[f] \cup {s}] BY <2>2 DEF Told
    <3> QED BY <1>1, <3>1, <3>2
  <2> QED BY <2>1, <2>2
<1> QED BY <1>1, <1>2 DEF Becomes

LEMMA LocalKept ==
  ASSUME IInv, Grows, LateFromCalls,
         told' \in [Federators -> SUBSET Crossings],
         call' \in [Federators -> [Slots -> CallRecord]],
         \A g \in Federators : \A t \in Slots : call'[g][t] = call[g][t] \/ FitsCall(g, t)'
  PROVE  LocalTrue'
<1>1. ASSUME NEW g \in Federators, NEW t \in Slots, call'[g][t] = call[g][t]
      PROVE  FitsCall(g, t)'
  <2>1. PICK v \in CallRecord : v = call[g][t] /\ Fits(v.at, v.of, v.tx)
    BY DEF IInv, TypeOK, CallRecord, CallsFit, FitsCall
  <2>2. v.of \in Crossings \cup {None} /\ v.tx \in Inputs \cup {None}
    BY DEF CallRecord
  <2>3. Fits(v.at, v.of, v.tx)'
    BY <2>1, <2>2, FitsGrows
  <2> QED BY <1>1, <2>1, <2>3 DEF FitsCall, Fits
<1>2. CallsFit'
  BY <1>1 DEF CallsFit
<1>3. LateFits' /\ late' \subseteq Request
  BY LateGrow DEF IInv, LateFromCalls
<1> QED BY <1>2, <1>3 DEF LocalTrue, LocalOK

-----------------------------------------------------------------------------
(* Nobody comes to hold an input, except who builds with a free one.        *)
LEMMA HoldsLess ==
  ASSUME IInv, LateFromCalls,
         \A g \in Federators : \A t \in Slots :
            call'[g][t] = call[g][t] \/ call'[g][t].at # "proposing",
         \A c \in Crossings : proposal'[c] = proposal[c] \/ Holds(c, proposal'[c])
  PROVE  \A c \in Crossings : \A i \in Inputs : Holds(c, i)' => Holds(c, i)
<1> SUFFICES ASSUME NEW c \in Crossings, NEW i \in Inputs, Holds(c, i)' PROVE Holds(c, i)
  OBVIOUS
<1>1. CASE proposal'[c] = i
  BY <1>1 DEF Holds
<1>2. CASE \E g \in Federators : \E t \in Slots :
             call'[g][t] = [at |-> "proposing", of |-> c, tx |-> i]
  BY <1>2 DEF Holds
<1>3. CASE \E r \in late' : r.op = "proposing" /\ r.of = c /\ r.tx = i
  <2>1. PICK r \in late' : r.op = "proposing" /\ r.of = c /\ r.tx = i
    BY <1>3
  <2>2. CASE r \in late
    BY <2>1, <2>2 DEF Holds
  <2>3. ASSUME NEW f \in Federators, NEW s \in Slots, r = RequestOf(f, s) PROVE Holds(c, i)
    <3>1. call[f][s] \in CallRecord
      BY DEF IInv, TypeOK, CallRecord
    <3>2. call[f][s].at = "proposing" /\ call[f][s].of = c /\ call[f][s].tx = i
      BY <2>1, <2>3 DEF RequestOf
    <3>3. call[f][s] = [at |-> "proposing", of |-> c, tx |-> i]
      BY <3>1, <3>2 DEF CallRecord
    <3> QED BY <3>3 DEF Holds
  <2> QED BY <2>2, <2>3 DEF LateFromCalls
<1> QED BY <1>1, <1>2, <1>3 DEF Holds

LEMMA UniqueKept ==
  ASSUME IInv, Grows, \A c \in Crossings : \A i \in Inputs : Holds(c, i)' => Holds(c, i)
  PROVE  Unique'
<1> SUFFICES ASSUME ~forgot', NEW c \in Crossings, NEW d \in Crossings, NEW i \in Inputs,
                    Holds(c, i)', Holds(d, i)'
             PROVE  c = d
  BY DEF Unique
<1>1. ~forgot BY DEF Grows
<1>2. Holds(c, i) /\ Holds(d, i) OBVIOUS
<1> QED BY <1>1, <1>2 DEF IInv, Unique

-----------------------------------------------------------------------------
RestOK ==
  /\ read \in [Federators -> 0..Len(events)]
  /\ ledger \subseteq Crossings \X Inputs /\ marked \subseteq Inputs
  /\ forgot \in BOOLEAN /\ failed \in BOOLEAN /\ faults \in 0..MaxFaults

LEMMA Together ==
  (ContractOK /\ LocalOK /\ RestOK <=> TypeOK)
  /\ (ContractOK /\ ContractTrue /\ LocalTrue /\ RestOK /\ Unique <=> IInv)
BY DEF ContractOK, LocalOK, RestOK, TypeOK, CallRecord, ContractTrue, LocalTrue, IInv

(* A step in which one call goes on, or ends.                               *)
LEMMA CallStep ==
  ASSUME IInv, Grows, LateFromCalls, ContractOK', ContractTrue', RestOK',
         NEW f \in Federators, NEW s \in Slots, NEW v \in CallRecord,
         Becomes(f, s, v), Fits(v.at, v.of, v.tx)', v.at # "proposing",
         \A c \in Crossings : proposal'[c] = proposal[c] \/ Holds(c, proposal'[c])
  PROVE  IInv'
<1>1. /\ call' \in [Federators -> [Slots -> CallRecord]]
      /\ \A g \in Federators : \A t \in Slots :
           call'[g][t] = IF g = f /\ t = s THEN v ELSE call[g][t]
  BY OneCall
<1>2. \A g \in Federators : \A t \in Slots : call'[g][t] = call[g][t] \/ FitsCall(g, t)'
  BY <1>1 DEF FitsCall, Fits
<1>3. LocalTrue' BY <1>1, <1>2, ToldOK, LocalKept
<1>4. \A c \in Crossings : \A i \in Inputs : Holds(c, i)' => Holds(c, i)
  BY <1>1, HoldsLess
<1>5. Unique' BY <1>4, UniqueKept
<1> QED BY <1>3, <1>5, Together DEF IInv, ContractOK, ContractTrue, LocalTrue, LocalOK, RestOK, TypeOK, CallRecord

-----------------------------------------------------------------------------
(* One lemma for each action.                                               *)
LEMMA AskStep ==
  ASSUME IInv, NEW f \in Federators, NEW s \in Slots, NEW c \in Crossings,
         \/ AskProcessed(f, s, c)
         \/ c = call[f][s].of /\ (AskSigned(f, s) \/ AskProposed(f, s)),
         UNCHANGED <<contract, late, ledger, forgot, trouble>>,
         marked \subseteq marked', marked' \subseteq Inputs,
         read' \in [Federators -> 0..Len(events)]
  PROVE  IInv'
<1>1. Grows BY DEF Grows, contract, IInv, TypeOK
<1>2. ContractTrue' BY <1>1, LedgerGrows
<1>3. ContractOK' BY DEF ContractOK, contract, IInv, TypeOK
<1>4. RestOK' BY DEF RestOK, contract, trouble, IInv, TypeOK
<1>5. PICK v \in CallRecord : Becomes(f, s, v) /\ Fits(v.at, v.of, v.tx) /\ v.at # "proposing"
  BY Asked
<1>6. Fits(v.at, v.of, v.tx)'
  <2>1. v.of \in Crossings \cup {None} /\ v.tx \in Inputs \cup {None} BY DEF CallRecord
  <2> QED BY <1>1, <1>5, <2>1, FitsGrows
<1> QED BY <1>1, <1>2, <1>3, <1>4, <1>5, <1>6, CallStep DEF LateFromCalls, contract

LEMMA HandOverStep ==
  ASSUME IInv, NEW f \in Federators, NEW c \in Crossings, HandOver(f, c)
  PROVE  IInv'
<1>1. c \in Slots BY DEF Slots
<1>2. AskProcessed(f, c, c) /\ UNCHANGED <<contract, late, ledger, forgot, trouble>>
      /\ marked' = marked /\ read' = read
  BY DEF HandOver, hathor
<1>3. marked \subseteq Inputs /\ read \in [Federators -> 0..Len(events)]
  BY DEF IInv, TypeOK
<1> QED BY <1>1, <1>2, <1>3, AskStep

LEMMA QuestionStep ==
  ASSUME IInv, NEW f \in Federators, NEW s \in Slots, AskSigned(f, s) \/ AskProposed(f, s)
  PROVE  IInv'
<1>1. PICK c \in Crossings : c = call[f][s].of
  <2>1. Fits(call[f][s].at, call[f][s].of, call[f][s].tx) BY DEF IInv, CallsFit, FitsCall
  <2> QED BY <2>1 DEF AskSigned, AskProposed, Fits
<1>2. UNCHANGED <<contract, late, ledger, forgot, trouble>> /\ marked' = marked /\ read' = read
  BY DEF AskSigned, AskProposed, hathor
<1>3. marked \subseteq Inputs /\ read \in [Federators -> 0..Len(events)]
  BY DEF IInv, TypeOK
<1> QED BY <1>1, <1>2, <1>3, AskStep

LEMMA ReadEventStep ==
  ASSUME IInv, NEW f \in Federators, ReadEvent(f)
  PROVE  IInv'
<1> DEFINE e == events[read[f] + 1]
<1>1. /\ read[f] + 1 \in 1..Len(events) /\ e \in Event /\ TrueEvent(e)
      /\ read' = [read EXCEPT ![f] = read[f] + 1]
  <2>1. read[f] \in 0..Len(events) /\ read[f] < Len(events) /\ Len(events) \in Nat
    BY DEF ReadEvent, IInv, TypeOK
  <2>2. read[f] + 1 \in 1..Len(events) BY <2>1
  <2>3. events \in Seq(Event) /\ EventsTrue BY DEF IInv, TypeOK
  <2>4. read' = [read EXCEPT ![f] = read[f] + 1] BY DEF ReadEvent
  <2> QED BY <2>2, <2>3, <2>4 DEF EventsTrue
<1>2. read' \in [Federators -> 0..Len(events)]
  BY <1>1 DEF IInv, TypeOK
<1>3. marked \subseteq marked' /\ marked' \subseteq Inputs
  <2>1. e.kind = "proposed" => proposal[e.of] \in Inputs
    BY <1>1 DEF TrueEvent, Event, IInv, TypeOK
  <2>2. marked' = IF e.kind = "proposed" /\ f = Proposer THEN marked \cup {proposal[e.of]} ELSE marked
    BY DEF ReadEvent
  <2>3. marked \subseteq Inputs BY DEF IInv, TypeOK
  <2> QED BY <2>1, <2>2, <2>3
<1>4. UNCHANGED <<contract, late, ledger, forgot, trouble>>
  BY DEF ReadEvent
<1>5. CASE e.kind # "sent"
  <2>1. AskProcessed(f, Reader, e.of) BY <1>5 DEF ReadEvent
  <2>2. Reader \in Slots /\ e.of \in Crossings BY <1>1 DEF Slots, Event
  <2> QED BY <1>2, <1>3, <1>4, <2>1, <2>2, AskStep
<1>6. CASE e.kind = "sent"
  <2>1. UNCHANGED <<call, told>> BY <1>6 DEF ReadEvent
  <2>2. Grows BY <1>3, <1>4 DEF Grows, contract, IInv, TypeOK
  <2>3. ContractTrue' BY <1>4, <2>2, LedgerGrows
  <2>4. ContractOK' BY <1>4 DEF ContractOK, contract, IInv, TypeOK
  <2>5. RestOK' BY <1>2, <1>3, <1>4 DEF RestOK, contract, trouble, IInv, TypeOK
  <2>6. LateFromCalls BY <1>4 DEF LateFromCalls
  <2>7. LocalTrue'
    <3>1. told' \in [Federators -> SUBSET Crossings] /\ call' \in [Federators -> [Slots -> CallRecord]]
      BY <2>1 DEF IInv, TypeOK, CallRecord
    <3> QED BY <2>1, <2>2, <2>6, <3>1, LocalKept
  <2>8. Unique'
    <3>1. \A c \in Crossings : proposal'[c] = proposal[c] BY <1>4 DEF contract
    <3> QED BY <2>1, <2>2, <2>6, <3>1, HoldsLess, UniqueKept
  <2> QED BY <2>3, <2>4, <2>5, <2>7, <2>8 DEF IInv, ContractOK, ContractTrue, LocalTrue, LocalOK, RestOK, TypeOK, CallRecord
<1> QED BY <1>5, <1>6

(* A call ends, with or without a failure.                                  *)
LEMMA EndStep ==
  ASSUME IInv, Grows, LateFromCalls, RestOK',
         NEW f \in Federators, NEW s \in Slots, Drop(f, s) \/ Return(f, s), UNCHANGED contract,
         \A c \in Crossings : \A i \in Inputs :
            <<c, i>> \in ledger' => <<c, i>> \in ledger \/ proposal[c] = i
  PROVE  IInv'
<1>1. Becomes(f, s, Idle)
  BY DEF Drop, Return, Stop, Becomes
<1>2. Idle \in CallRecord /\ Fits(Idle.at, Idle.of, Idle.tx)' /\ Idle.at # "proposing"
  BY DEF Idle, CallRecord, Steps, Fits
<1>3. ContractTrue' BY LedgerGrows
<1>4. ContractOK' BY DEF ContractOK, contract, IInv, TypeOK
<1>5. \A c \in Crossings : proposal'[c] = proposal[c] BY DEF contract
<1> QED BY <1>1, <1>2, <1>3, <1>4, <1>5, CallStep

LEMMA InCallRecord ==
  ASSUME IInv, NEW f \in Federators, NEW s \in Slots
  PROVE  call[f][s] \in CallRecord /\ Fits(call[f][s].at, call[f][s].of, call[f][s].tx)
BY DEF IInv, TypeOK, CallRecord, CallsFit, FitsCall

(* A free input is not marked, so nobody holds it.                          *)
LEMMA FreeNotHeld ==
  ASSUME IInv, ~forgot, NEW i \in Free, NEW c \in Crossings
  PROVE  ~Holds(c, i)
<1>1. i \in Inputs /\ i \notin marked BY DEF Free
<1>2. proposal[c] # i
  BY <1>1, CrossingsAssumption DEF IInv, Kept
<1>3. ASSUME NEW f \in Federators, NEW s \in Slots,
             call[f][s] = [at |-> "proposing", of |-> c, tx |-> i]
      PROVE  FALSE
  <2>1. Fits(call[f][s].at, call[f][s].of, call[f][s].tx) BY InCallRecord
  <2>2. call[f][s].at = "proposing" /\ call[f][s].tx = i BY <1>3
  <2> QED BY <1>1, <2>1, <2>2 DEF Fits
<1>4. ASSUME NEW r \in late, r.op = "proposing", r.tx = i PROVE FALSE
  BY <1>1, <1>4 DEF IInv, LateFits, FitsRequest, Fits
<1> QED BY <1>2, <1>3, <1>4 DEF Holds

LEMMA BuildStep ==
  ASSUME IInv, NEW f \in Federators, NEW s \in Slots, Build(f, s)
  PROVE  IInv'
<1> DEFINE c == call[f][s].of
<1>0. /\ UNCHANGED <<contract, read, late, ledger, forgot, faults>>
      /\ call[f][s].at = "building" /\ c \in Crossings
  BY InCallRecord DEF Build, Fits
<1>1. CASE Free = {} /\ Drop(f, s) /\ failed' = TRUE /\ UNCHANGED marked
  <2>1. Grows BY <1>0, <1>1 DEF Grows, contract, IInv, TypeOK
  <2>2. RestOK' BY <1>0, <1>1 DEF RestOK, contract, IInv, TypeOK
  <2> QED BY <1>0, <1>1, <2>1, <2>2, EndStep DEF LateFromCalls
<1>2. ASSUME NEW i \in Free, marked' = marked \cup {i},
             Goto(f, s, "proposing", c, i), UNCHANGED failed
      PROVE  IInv'
  <2> DEFINE v == [at |-> "proposing", of |-> c, tx |-> i]
  <2>1. i \in Inputs /\ v \in CallRecord
    BY <1>0 DEF Free, CallRecord, Steps
  <2>2. Becomes(f, s, v) BY <1>2 DEF Goto, Becomes
  <2>3. Grows BY <1>0, <1>2 DEF Grows, contract, IInv, TypeOK
  <2>4. ContractTrue' BY <1>0, <2>3, LedgerGrows
  <2>5. ContractOK' BY <1>0 DEF ContractOK, contract, IInv, TypeOK
  <2>6. RestOK' BY <1>0, <1>2, <2>1 DEF RestOK, contract, IInv, TypeOK
  <2>7. LateFromCalls BY <1>0 DEF LateFromCalls
  <2>8. /\ call' \in [Federators -> [Slots -> CallRecord]]
        /\ \A g \in Federators : \A t \in Slots :
             call'[g][t] = IF g = f /\ t = s THEN v ELSE call[g][t]
    BY <2>1, <2>2, OneCall
  <2>9. LocalTrue'
    <3>1. FitsCall(f, s)' BY <1>0, <1>2, <2>1, <2>8 DEF FitsCall, Fits
    <3>2. \A g \in Federators : \A t \in Slots : call'[g][t] = call[g][t] \/ FitsCall(g, t)'
      BY <2>8, <3>1
    <3> QED BY <2>1, <2>2, <2>3, <2>7, <2>8, <3>2, ToldOK, LocalKept
  <2>10. ASSUME NEW d \in Crossings, NEW j \in Inputs, Holds(d, j)'
         PROVE  Holds(d, j) \/ (d = c /\ j = i)
    <3>1. CASE proposal'[d] = j BY <1>0, <3>1 DEF Holds, contract
    <3>2. CASE \E r \in late' : r.op = "proposing" /\ r.of = d /\ r.tx = j
      BY <1>0, <3>2 DEF Holds
    <3>3. ASSUME NEW g \in Federators, NEW t \in Slots,
                 call'[g][t] = [at |-> "proposing", of |-> d, tx |-> j]
          PROVE  Holds(d, j) \/ (d = c /\ j = i)
      BY <2>8, <3>3 DEF Holds
    <3> QED BY <2>10, <3>1, <3>2, <3>3 DEF Holds
  <2>11. Unique'
    <3> SUFFICES ASSUME ~forgot', NEW d \in Crossings, NEW e \in Crossings, NEW j \in Inputs,
                        Holds(d, j)', Holds(e, j)'
                 PROVE  d = e
      BY DEF Unique
    <3>1. ~forgot BY <1>0
    <3>2. (Holds(d, j) \/ (d = c /\ j = i)) /\ (Holds(e, j) \/ (e = c /\ j = i))
      BY <2>10
    <3>3. Holds(d, j) /\ Holds(e, j) => d = e BY <3>1 DEF IInv, Unique
    <3> QED BY <3>1, <3>2, <3>3, FreeNotHeld
  <2> QED BY <2>4, <2>5, <2>6, <2>9, <2>11
          DEF IInv, ContractOK, ContractTrue, LocalTrue, LocalOK, RestOK, TypeOK, CallRecord
<1> QED BY <1>1, <1>2 DEF Build

LEMMA SendStep ==
  ASSUME IInv, NEW f \in Federators, NEW s \in Slots, Send(f, s)
  PROVE  IInv'
<1> DEFINE r == RequestOf(f, s)
<1>1. r \in Request /\ FitsRequest(r)
  BY RequestFits DEF Send, IInv
<1>2. Executes(r) /\ UNCHANGED hathor BY DEF Send
<1>3. /\ Grows /\ ContractOK' /\ ContractTrue' /\ Len(events) <= Len(events')
      /\ \A c \in Crossings : \/ proposal'[c] = proposal[c]
                              \/ r.op = "proposing" /\ c = r.of /\ proposal'[c] = r.tx
  BY <1>1, <1>2, Executed
<1>4. RestOK'
  <2>1. UNCHANGED <<read, hathor, trouble>> BY DEF Send
  <2>2. Len(events) \in Nat /\ Len(events') \in Nat BY <1>3 DEF ContractOK, IInv, TypeOK
  <2>3. read' \in [Federators -> 0..Len(events')] BY <1>3, <2>1, <2>2 DEF IInv, TypeOK
  <2> QED BY <2>1, <2>3 DEF RestOK, hathor, trouble, IInv, TypeOK
<1>5. Becomes(f, s, Idle) BY DEF Send, Return, Stop, Becomes
<1>6. Idle \in CallRecord /\ Fits(Idle.at, Idle.of, Idle.tx)' /\ Idle.at # "proposing"
  BY DEF Idle, CallRecord, Steps, Fits
<1>7. LateFromCalls BY DEF Send, LateFromCalls
<1>8. \A c \in Crossings : proposal'[c] = proposal[c] \/ Holds(c, proposal'[c])
  <2>1. r.op = "proposing" => call[f][s] = [at |-> "proposing", of |-> r.of, tx |-> r.tx]
    BY InCallRecord DEF RequestOf, CallRecord
  <2> QED BY <1>3, <2>1 DEF Holds
<1> QED BY <1>3, <1>4, <1>5, <1>6, <1>7, <1>8, CallStep

LEMMA PushStep ==
  ASSUME IInv, NEW f \in Federators, NEW s \in Slots, Push(f, s)
  PROVE  IInv'
<1> DEFINE c == call[f][s].of  i == call[f][s].tx
<1>1. c \in Crossings /\ i \in Inputs /\ proposal[c] = i
  BY InCallRecord DEF Push, Fits
<1>2. UNCHANGED <<contract, read, late, marked, forgot, trouble>> BY DEF Push
<1>3. ContractOK' BY <1>2 DEF ContractOK, contract, IInv, TypeOK
<1>4. LateFromCalls BY <1>2 DEF LateFromCalls
<1>5. \A d \in Crossings : proposal'[d] = proposal[d] BY <1>2 DEF contract
<1>6. CASE Accepted(c, i) /\ ledger' = ledger \cup {<<c, i>>} /\ Goto(f, s, "sent", c, i)
  <2>1. PICK v \in CallRecord : v = [at |-> "sent", of |-> c, tx |-> i]
    BY <1>1 DEF CallRecord, Steps
  <2>2. Becomes(f, s, v) BY <1>6, <2>1 DEF Goto, Becomes
  <2>3. Grows BY <1>2, <1>6 DEF Grows, contract, IInv, TypeOK
  <2>4. ContractTrue' BY <1>1, <1>2, <1>6, <2>3, LedgerGrows
  <2>5. RestOK' BY <1>1, <1>2, <1>6 DEF RestOK, contract, trouble, IInv, TypeOK
  <2>6. Fits(v.at, v.of, v.tx)' /\ v.at # "proposing" BY <1>1, <1>5, <1>6, <2>1 DEF Fits
  <2> QED BY <1>3, <1>4, <1>5, <2>2, <2>3, <2>4, <2>5, <2>6, CallStep
<1>7. CASE i \in Spent /\ Goto(f, s, "unsent", c, i) /\ UNCHANGED ledger
  <2>1. PICK v \in CallRecord : v = [at |-> "unsent", of |-> c, tx |-> i]
    BY <1>1 DEF CallRecord, Steps
  <2>2. Becomes(f, s, v) BY <1>7, <2>1 DEF Goto, Becomes
  <2>3. Grows BY <1>2, <1>7 DEF Grows, contract, IInv, TypeOK
  <2>4. ContractTrue' BY <1>2, <1>7, <2>3, LedgerGrows
  <2>5. RestOK' BY <1>2, <1>7 DEF RestOK, contract, trouble, IInv, TypeOK
  <2>6. forgot \/ Paid(c)
    <3>1. PICK d \in Crossings : <<d, i>> \in ledger
      <4>1. PICK l \in ledger : l[2] = i BY <1>7 DEF Spent
      <4>2. l \in Crossings \X Inputs BY DEF IInv, TypeOK
      <4>3. l[1] \in Crossings /\ l = <<l[1], i>> BY <4>1, <4>2
      <4> QED BY <4>1, <4>3
    <3>2. proposal[d] = i BY <1>1, <3>1 DEF IInv, LedgerStands
    <3>3. Holds(c, i) /\ Holds(d, i) BY <1>1, <3>2 DEF Holds
    <3>4. forgot \/ c = d BY <1>1, <3>3 DEF IInv, Unique
    <3> QED BY <1>1, <3>1, <3>4 DEF Paid
  <2>7. Fits(v.at, v.of, v.tx)' /\ v.at # "proposing"
    BY <1>1, <1>2, <1>5, <1>7, <2>1, <2>6 DEF Fits, Paid
  <2> QED BY <1>3, <1>4, <1>5, <2>2, <2>3, <2>4, <2>5, <2>7, CallStep
<1> QED BY <1>6, <1>7 DEF Push

LEMMA FailStep ==
  ASSUME IInv, NEW f \in Federators, NEW s \in Slots,
         SendFails(f, s) \/ WalletFails(f, s) \/ AnswerLost(f, s)
  PROVE  IInv'
<1>1. /\ Drop(f, s) /\ UNCHANGED <<contract, read, forgot>>
      /\ failed' = TRUE /\ faults < MaxFaults /\ faults' = faults + 1
  BY DEF SendFails, WalletFails, AnswerLost, Failure, Fault, hathor
<1>2. faults' \in 0..MaxFaults BY <1>1, FaultsAssumption DEF IInv, TypeOK
<1>3. CASE SendFails(f, s) \/ WalletFails(f, s)
  <2>1. UNCHANGED hathor /\ LateFromCalls
    BY <1>3 DEF SendFails, WalletFails, LateFromCalls
  <2>2. Grows BY <1>1, <2>1 DEF Grows, contract, hathor, IInv, TypeOK
  <2>3. RestOK' BY <1>1, <1>2, <2>1 DEF RestOK, contract, hathor, IInv, TypeOK
  <2> QED BY <1>1, <2>1, <2>2, <2>3, EndStep DEF hathor
<1>4. CASE AnswerLost(f, s)
  <2> DEFINE c == call[f][s].of  i == call[f][s].tx
  <2>1. LateFromCalls BY <1>4 DEF AnswerLost, LateFromCalls
  <2>2. CASE UNCHANGED ledger /\ \E j \in Free : marked' = marked \cup {j}
    <3>1. Grows BY <1>1, <2>2 DEF Grows, contract, IInv, TypeOK
    <3>2. RestOK' BY <1>1, <1>2, <2>2 DEF RestOK, contract, Free, IInv, TypeOK
    <3> QED BY <1>1, <2>1, <2>2, <3>1, <3>2, EndStep
  <2>3. CASE call[f][s].at = "pushing" /\ UNCHANGED marked /\ ledger' = ledger \cup {<<c, i>>}
    <3>1. c \in Crossings /\ i \in Inputs /\ proposal[c] = i
      BY <2>3, InCallRecord DEF Fits
    <3>2. Grows BY <1>1, <2>3 DEF Grows, contract, IInv, TypeOK
    <3>3. RestOK' BY <1>1, <1>2, <2>3, <3>1 DEF RestOK, contract, IInv, TypeOK
    <3> QED BY <1>1, <2>1, <2>3, <3>1, <3>2, <3>3, EndStep
  <2> QED BY <1>4, <2>2, <2>3 DEF AnswerLost
<1> QED BY <1>3, <1>4

-----------------------------------------------------------------------------
(* Steps in which no call goes on: calls stay as they are, or are lost.     *)
LEMMA OtherStep ==
  ASSUME IInv, Grows, ContractOK', ContractTrue', RestOK', UNCHANGED told,
         call' \in [Federators -> [Slots -> CallRecord]], late' \subseteq late,
         \A g \in Federators : \A t \in Slots : call'[g][t] = call[g][t] \/ call'[g][t] = Idle,
         \A c \in Crossings : proposal'[c] = proposal[c] \/ Holds(c, proposal'[c])
  PROVE  IInv'
<1>1. LateFromCalls BY DEF LateFromCalls
<1>2. \A g \in Federators : \A t \in Slots :
        /\ call'[g][t] = call[g][t] \/ FitsCall(g, t)'
        /\ call'[g][t] = call[g][t] \/ call'[g][t].at # "proposing"
  BY DEF FitsCall, Fits, Idle
<1>3. told' \in [Federators -> SUBSET Crossings] BY DEF IInv, TypeOK
<1>4. LocalTrue' BY <1>1, <1>2, <1>3, LocalKept
<1>5. Unique' BY <1>1, <1>2, HoldsLess, UniqueKept
<1> QED BY <1>4, <1>5
        DEF IInv, ContractOK, ContractTrue, LocalTrue, LocalOK, RestOK, TypeOK, CallRecord

LEMMA MinedStep ==
  ASSUME IInv, NEW r \in late, Mined(r)
  PROVE  IInv'
<1>1. r \in Request /\ FitsRequest(r) BY DEF IInv, TypeOK, LateFits
<1>2. Executes(r) /\ UNCHANGED <<local, hathor, trouble>> BY DEF Mined
<1>3. /\ Grows /\ ContractOK' /\ ContractTrue' /\ Len(events) <= Len(events')
      /\ \A c \in Crossings : \/ proposal'[c] = proposal[c]
                              \/ r.op = "proposing" /\ c = r.of /\ proposal'[c] = r.tx
  BY <1>1, <1>2, Executed
<1>4. RestOK'
  <2>1. Len(events) \in Nat /\ Len(events') \in Nat BY <1>3 DEF ContractOK, IInv, TypeOK
  <2>2. read' \in [Federators -> 0..Len(events')] BY <1>2, <1>3, <2>1 DEF local, IInv, TypeOK
  <2> QED BY <1>2, <2>2 DEF RestOK, hathor, trouble, IInv, TypeOK
<1>5. \A c \in Crossings : proposal'[c] = proposal[c] \/ Holds(c, proposal'[c])
  BY <1>3 DEF Holds
<1>6. late' \subseteq late /\ UNCHANGED <<told, call>> BY <1>2 DEF Mined, local
<1>7. call' \in [Federators -> [Slots -> CallRecord]] BY <1>6 DEF IInv, TypeOK, CallRecord
<1> QED BY <1>3, <1>4, <1>5, <1>6, <1>7, OtherStep

LEMMA LossStep ==
  ASSUME IInv, Forget \/ \E f \in Federators : Die(f)
  PROVE  IInv'
<1>1. /\ UNCHANGED <<contract, told, late, ledger, failed>>
      /\ faults < MaxFaults /\ faults' = faults + 1
  BY DEF Forget, Die, Fault, local, hathor
<1>2. faults' \in 0..MaxFaults BY <1>1, FaultsAssumption DEF IInv, TypeOK
<1>3. ContractOK' BY <1>1 DEF ContractOK, contract, IInv, TypeOK
<1>4. \A c \in Crossings : proposal'[c] = proposal[c] BY <1>1 DEF contract
<1>5. CASE Forget
  <2>1. UNCHANGED <<call, read>> /\ marked' = {} /\ forgot' = TRUE
    BY <1>5 DEF Forget, local
  <2>2. Grows BY <1>1, <2>1 DEF Grows, contract
  <2>3. ContractTrue' BY <1>1, <2>2, LedgerGrows
  <2>4. RestOK' BY <1>1, <1>2, <2>1 DEF RestOK, contract, IInv, TypeOK
  <2>5. call' \in [Federators -> [Slots -> CallRecord]] BY <2>1 DEF IInv, TypeOK, CallRecord
  <2> QED BY <1>1, <1>3, <1>4, <2>1, <2>2, <2>3, <2>4, <2>5, OtherStep
<1>6. ASSUME NEW f \in Federators, Die(f) PROVE IInv'
  <2>1. /\ UNCHANGED hathor
        /\ call' = [call EXCEPT ![f] = [s \in Slots |-> Idle]]
        /\ read' = [read EXCEPT ![f] = 0]
    BY <1>6 DEF Die
  <2>2. Grows BY <1>1, <2>1 DEF Grows, contract, hathor, IInv, TypeOK
  <2>3. ContractTrue' BY <1>1, <2>2, LedgerGrows
  <2>4. Len(events) \in Nat /\ read' \in [Federators -> 0..Len(events)]
    BY <2>1 DEF IInv, TypeOK
  <2>5. RestOK' BY <1>1, <1>2, <2>1, <2>4 DEF RestOK, contract, hathor, IInv, TypeOK
  <2>6. /\ call' \in [Federators -> [Slots -> CallRecord]]
        /\ \A g \in Federators : \A t \in Slots : call'[g][t] = call[g][t] \/ call'[g][t] = Idle
    BY <2>1, IdleFits DEF IInv, TypeOK, CallRecord
  <2> QED BY <1>1, <1>3, <1>4, <2>2, <2>3, <2>5, <2>6, OtherStep
<1> QED BY <1>5, <1>6

-----------------------------------------------------------------------------
LEMMA Initially == Init => IInv
<1> SUFFICES ASSUME Init PROVE IInv
  OBVIOUS
<1>1. TypeOK
  <2>1. ContractOK BY DEF Init, ContractOK
  <2>2. Idle \in CallRecord BY IdleFits
  <2>3. LocalOK BY <2>2 DEF Init, LocalOK
  <2>4. Len(events) = 0 BY DEF Init
  <2>5. read \in [Federators -> 0..Len(events)]
    <3>1. 0 \in 0..Len(events) BY <2>4
    <3> QED BY <3>1 DEF Init
  <2>6. faults \in 0..MaxFaults BY FaultsAssumption DEF Init
  <2>7. RestOK BY <2>5, <2>6 DEF Init, RestOK
  <2> QED BY <2>1, <2>3, <2>7, Together
<1>2. LedgerStands /\ SignaturesStand /\ ProcessedPaid /\ LateFits
  BY DEF Init, LedgerStands, SignaturesStand, ProcessedPaid, LateFits
<1>3. CallsFit
  BY DEF Init, CallsFit, FitsCall, Fits, Idle
<1>4. EventsTrue
  BY DEF Init, EventsTrue
<1>5. Kept
  BY DEF Init, Kept
<1>6. \A c \in Crossings : \A i \in Inputs : ~Holds(c, i)
  BY CrossingsAssumption DEF Init, Holds, Idle
<1>7. Unique
  BY <1>6 DEF Unique
<1> QED BY <1>1, <1>2, <1>3, <1>4, <1>5, <1>7 DEF IInv

LEMMA Inductive == IInv /\ [Next]_vars => IInv'
<1> SUFFICES ASSUME IInv, [Next]_vars PROVE IInv'
  OBVIOUS
<1>1. ASSUME NEW f \in Federators, NEW s \in Slots, Step(f, s) PROVE IInv'
  BY <1>1, QuestionStep, BuildStep, SendStep, PushStep DEF Step
<1>2. ASSUME NEW f \in Federators, NEW s \in Slots,
             SendFails(f, s) \/ WalletFails(f, s) \/ AnswerLost(f, s)
      PROVE  IInv'
  BY <1>2, FailStep
<1>3. ASSUME NEW f \in Federators, NEW c \in Crossings, HandOver(f, c) PROVE IInv'
  BY <1>3, HandOverStep
<1>4. ASSUME NEW f \in Federators, ReadEvent(f) PROVE IInv'
  BY <1>4, ReadEventStep
<1>5. CASE Forget \/ \E f \in Federators : Die(f)
  BY <1>5, LossStep
<1>6. ASSUME NEW r \in late, Mined(r) PROVE IInv'
  BY <1>6, MinedStep
<1>7. CASE UNCHANGED vars
  <2>1. Grows /\ UNCHANGED contract
    BY <1>7 DEF vars, contract, hathor, Grows, IInv, TypeOK
  <2>2. ContractTrue' BY <1>7, <2>1, LedgerGrows DEF vars, hathor
  <2>3. ContractOK' /\ RestOK'
    BY <1>7 DEF vars, contract, local, hathor, trouble, ContractOK, RestOK, IInv, TypeOK
  <2>4. call' \in [Federators -> [Slots -> CallRecord]]
    BY <1>7 DEF vars, local, IInv, TypeOK, CallRecord
  <2> QED BY <1>7, <2>1, <2>2, <2>3, <2>4, OtherStep DEF vars, contract, local
<1> QED BY <1>1, <1>2, <1>3, <1>4, <1>5, <1>6, <1>7 DEF Next

THEOREM Invariant == Spec => []IInv
<1>1. Init => IInv BY Initially
<1>2. IInv /\ [Next]_vars => IInv' BY Inductive
<1> QED BY <1>1, <1>2, PTL DEF Spec

-----------------------------------------------------------------------------
(* The variables have their types (Broker, HathorFederation).               *)
THEOREM TypeCorrect == Spec => []TypeOK
<1>1. IInv => TypeOK BY DEF IInv
<1> QED BY <1>1, Invariant, PTL

(* Every signature in the contract is for the transaction that stands       *)
(* there, whatever else was built, timed out or mined late (Broker.ts       *)
(* l.234).                                                                  *)
THEOREM SignaturesAlwaysStand == Spec => []SignaturesStand
<1>1. IInv => SignaturesStand BY DEF IInv
<1> QED BY <1>1, Invariant, PTL

(* A crossing marked processed was paid, and a melt that is voted for on    *)
(* the EVM chain was melted, unless the wallet lost its marks (Broker.ts    *)
(* l.297).                                                                  *)
THEOREM ReportsAlwaysTrue == Spec => []ReportsAreTrue
<1>1. IInv => ReportsAreTrue
  <2> SUFFICES ASSUME IInv PROVE ReportsAreTrue
    OBVIOUS
  <2>1. \A c \in Crossings : processed[c] => Paid(c)
    BY DEF IInv, ProcessedPaid
  <2>2. ASSUME ~forgot, NEW f \in Federators, NEW c \in Voted(f) PROVE Paid(c)
    <3>1. PICK k \in 1..read[f] : events[k].kind = "sent" /\ events[k].of = c
      BY DEF Voted
    <3>2. k \in 1..Len(events)
      <4>1. read[f] \in 0..Len(events) /\ Len(events) \in Nat BY DEF IInv, TypeOK
      <4> QED BY <4>1
    <3>3. TrueEvent(events[k]) BY <3>2 DEF IInv, EventsTrue
    <3> QED BY <2>2, <3>1, <3>3 DEF TrueEvent
  <2> QED BY <2>1, <2>2 DEF ReportsAreTrue
<1> QED BY <1>1, Invariant, PTL

(* Proposals that stand never spend the same input, unless the wallet lost  *)
(* its marks (EvmBroker.ts l.113).                                          *)
THEOREM InputsAlwaysDisjoint == Spec => []DisjointInputs
<1>1. IInv => DisjointInputs
  <2> SUFFICES ASSUME IInv, ~forgot, NEW c \in Crossings, NEW d \in Crossings,
                      proposal[c] # None, proposal[c] = proposal[d]
               PROVE  c = d
    BY DEF DisjointInputs
  <2>1. proposal[c] \in Inputs BY DEF IInv, TypeOK
  <2>2. Holds(c, proposal[c]) /\ Holds(d, proposal[c]) BY DEF Holds
  <2> QED BY <2>1, <2>2 DEF IInv, Unique
<1> QED BY <1>1, Invariant, PTL

(* Hathor has at most one transaction for a crossing, although every        *)
(* federator may build, push and retry (Broker.ts l.281).                   *)
PaidOnce ==
  \A c \in Crossings : \A i, j \in Inputs :
    <<c, i>> \in ledger /\ <<c, j>> \in ledger => i = j

THEOREM AlwaysPaidOnce == Spec => []PaidOnce
<1>1. IInv => PaidOnce BY DEF IInv, LedgerStands, PaidOnce
<1> QED BY <1>1, Invariant, PTL
-----------------------------------------------------------------------------
(* While no call failed and the wallet kept its marks, nothing is lost: what*)
(* a federator read last about a crossing is either done or under way.      *)
Proposed(c) == proposal[c] # None
Has(f, c) == <<f, proposal[c]>> \in signatures[c]
IsEvent(k, kind, c) == events[k].kind = kind /\ events[k].of = c
Announced(c) == \E k \in 1..Len(events) : IsEvent(k, "proposed", c)
HasRead(f, c) == \E k \in 1..read[f] : IsEvent(k, "proposed", c)
AnnouncedSigned(c) == \E k \in 1..Len(events) : IsEvent(k, "signed", c)
ReadSignings(f, c) == \A k \in 1..Len(events) : IsEvent(k, "signed", c) => k <= read[f]
ReadingAt(f, c, steps) == call[f][Reader].of = c /\ call[f][Reader].at \in steps

SlotsMatch ==
  \A f \in Federators : \A c \in Crossings : call[f][c].at # "idle" => call[f][c].of = c
EventsEmitted ==
  \A c \in Crossings :
    /\ Proposed(c) => Announced(c)
    /\ signatures[c] # {} => AnnouncedSigned(c)
ToldProposed == \A c \in Crossings : c \in told[Proposer] => Proposed(c)
ReadSigns ==
  \A f \in Federators : \A c \in Crossings :
    HasRead(f, c) => \/ Paid(c) \/ Has(f, c)
                     \/ ReadingAt(f, c, {"unprocessed", "unsigned", "signing"})
ReadPushes ==
  \A f \in Federators : \A c \in Crossings :
    Has(f, c) /\ Enough(c) /\ ReadSignings(f, c) =>
      Paid(c) \/ ReadingAt(f, c, {"unprocessed", "pushing"})
Moving == late = {} /\ SlotsMatch /\ EventsEmitted /\ ToldProposed /\ ReadSigns /\ ReadPushes
GoesOn == failed \/ forgot \/ Moving

LEMMA PaidProposed ==
  ASSUME IInv, NEW c \in Crossings, Paid(c)
  PROVE  Proposed(c)
BY CrossingsAssumption DEF IInv, LedgerStands, Paid, Proposed

LEMMA HasIsHasSigned ==
  ASSUME IInv, NEW f \in Federators, NEW c \in Crossings
  PROVE  /\ HasSigned(f, c) <=> Has(f, c)
         /\ Has(f, c) => proposal[c] \in Inputs /\ Proposed(c)
<1>1. signatures[c] \in SUBSET (Federators \X Inputs) /\ SignaturesStand
  BY DEF IInv, TypeOK
<1>2. HasSigned(f, c) => Has(f, c)
  BY <1>1 DEF HasSigned, Has, SignaturesStand
<1>3. Has(f, c) => proposal[c] \in Inputs
  BY <1>1 DEF Has
<1> QED BY <1>2, <1>3, CrossingsAssumption DEF Has, HasSigned, Proposed

LEMMA ReadProposed ==
  ASSUME IInv, NEW f \in Federators, NEW c \in Crossings, HasRead(f, c)
  PROVE  Proposed(c)
<1>1. PICK k \in 1..read[f] : IsEvent(k, "proposed", c) BY DEF HasRead
<1>2. read[f] \in 0..Len(events) /\ Len(events) \in Nat BY DEF IInv, TypeOK
<1>3. k \in 1..Len(events) BY <1>2
<1> QED BY <1>1, <1>3 DEF IInv, EventsTrue, TrueEvent, IsEvent, Proposed

(* A step of one call that asks nothing of the contract and reads no event. *)
LEMMA OneGoesOn ==
  ASSUME IInv, Moving, Grows, ~forgot', UNCHANGED <<contract, read, late>>,
         NEW f \in Federators, NEW s \in Slots, NEW v \in CallRecord, Becomes(f, s, v),
         s \in Crossings /\ v.at # "idle" => v.of = s,
         f = Proposer /\ s \in Crossings /\ told' # told => Proposed(s),
         s = Reader => \A c \in Crossings :
           /\ Proposed(c) /\ ReadingAt(f, c, {"unprocessed", "unsigned", "signing"}) =>
                Has(f, c) \/ Paid(c)' \/ ReadingAt(f, c, {"unprocessed", "unsigned", "signing"})'
           /\ ReadingAt(f, c, {"unprocessed", "pushing"}) /\ Has(f, c) /\ Enough(c) =>
                Paid(c)' \/ ReadingAt(f, c, {"unprocessed", "pushing"})'
  PROVE  Moving'
<1>1. \A g \in Federators : \A t \in Slots :
        call'[g][t] = IF g = f /\ t = s THEN v ELSE call[g][t]
  BY OneCall
<1>2. Reader \in Slots /\ Reader \notin Crossings /\ Crossings \subseteq Slots
  BY CrossingsAssumption DEF Slots
<1>3. SlotsMatch'
  BY <1>1, <1>2 DEF SlotsMatch, Moving
<1>4. EventsEmitted'
  BY DEF EventsEmitted, Moving, contract, Proposed, Announced, AnnouncedSigned, IsEvent
<1>5. ToldProposed'
  <2>1. told' = told \/ told' = Told(f, s) BY DEF Becomes
  <2>2. told \in [Federators -> SUBSET Crossings] BY DEF IInv, TypeOK
  <2>3. ASSUME NEW c \in Crossings, c \in told'[Proposer] PROVE c \in told[Proposer] \/ Proposed(c)
    BY <2>1, <2>2, <2>3, MembersAssumption DEF Told, Slots
  <2> QED BY <2>3 DEF ToldProposed, Moving, Proposed, contract
<1>6. \A c \in Crossings : Paid(c) => Paid(c)'
  BY DEF Grows, Paid
<1>7. ASSUME NEW g \in Federators, NEW c \in Crossings, NEW steps, ~(g = f /\ s = Reader),
             ReadingAt(g, c, steps)
      PROVE  ReadingAt(g, c, steps)'
  BY <1>1, <1>2, <1>7 DEF ReadingAt
<1>8. ReadSigns'
  <2> SUFFICES ASSUME NEW g \in Federators, NEW c \in Crossings, HasRead(g, c)'
               PROVE  (\/ Paid(c) \/ Has(g, c)
                       \/ ReadingAt(g, c, {"unprocessed", "unsigned", "signing"}))'
    BY DEF ReadSigns
  <2>1. HasRead(g, c) BY DEF HasRead, IsEvent, contract
  <2>2. Has(g, c) => Has(g, c)' BY DEF Has, contract
  <2>3. Proposed(c) BY <2>1, ReadProposed
  <2> QED BY <1>6, <1>7, <2>1, <2>2, <2>3 DEF Moving, ReadSigns
<1>9. ReadPushes'
  <2> SUFFICES ASSUME NEW g \in Federators, NEW c \in Crossings,
                      Has(g, c)', Enough(c)', ReadSignings(g, c)'
               PROVE  (Paid(c) \/ ReadingAt(g, c, {"unprocessed", "pushing"}))'
    BY DEF ReadPushes
  <2>1. Has(g, c) /\ Enough(c) /\ ReadSignings(g, c)
    BY DEF Has, Enough, ReadSignings, IsEvent, contract
  <2> QED BY <1>6, <1>7, <2>1 DEF Moving, ReadPushes
<1>10. late' = {} BY DEF Moving
<1> QED BY <1>3, <1>4, <1>5, <1>8, <1>9, <1>10 DEF Moving

LEMMA HandOverGoesOn ==
  ASSUME IInv, Moving, ~forgot', NEW f \in Federators, NEW c \in Crossings, HandOver(f, c)
  PROVE  Moving'
<1>1. /\ AskProcessed(f, c, c) /\ UNCHANGED <<contract, read, late, hathor, trouble>>
      /\ c \in Slots /\ c # Reader
  BY CrossingsAssumption DEF HandOver, Slots
<1>2. Grows BY <1>1 DEF Grows, contract, hathor, IInv, TypeOK
<1>3. CASE processed[c] /\ Return(f, c)
  <2>1. Proposed(c) BY <1>3, PaidProposed DEF IInv, ProcessedPaid
  <2>2. Becomes(f, c, Idle) BY <1>3 DEF Return, Stop, Becomes
  <2> QED BY <1>1, <1>2, <2>1, <2>2, IdleFits, OneGoesOn DEF Idle
<1>4. CASE Goto(f, c, "unprocessed", c, None)
  <2> DEFINE v == [at |-> "unprocessed", of |-> c, tx |-> None]
  <2>1. v \in CallRecord /\ v.of = c BY DEF CallRecord, Steps
  <2>2. Becomes(f, c, v) /\ told' = told BY <1>4 DEF Goto, Becomes
  <2> HIDE DEF v
  <2> QED BY <1>1, <1>2, <2>1, <2>2, OneGoesOn
<1> QED BY <1>1, <1>3, <1>4 DEF AskProcessed

(* A call that goes on to another question, or to sign or push.             *)
LEMMA GotoGoesOn ==
  ASSUME IInv, Moving, Grows, ~forgot', UNCHANGED <<contract, read, late>>,
         NEW f \in Federators, NEW s \in Slots, NEW step \in Steps \ {"idle"},
         NEW c \in Crossings, NEW i \in Inputs \cup {None},
         c = call[f][s].of, call[f][s].at # "idle", Goto(f, s, step, c, i),
         s = Reader =>
           /\ call[f][s].at \in {"unprocessed", "unsigned"} /\ ~Has(f, c) /\ Proposed(c) =>
                step \in {"unsigned", "signing"}
           /\ call[f][s].at = "unprocessed" /\ Has(f, c) /\ Enough(c) => step = "pushing"
           /\ call[f][s].at = "pushing" => Paid(c)'
           /\ call[f][s].at # "signing"
  PROVE  Moving'
<1> DEFINE v == [at |-> step, of |-> c, tx |-> i]
<1>1. v \in CallRecord /\ v.of = c /\ v.at = step BY DEF CallRecord
<1>2. Becomes(f, s, v) /\ told' = told BY DEF Goto, Becomes
<1>3. s \in Crossings => c = s BY DEF Moving, SlotsMatch
<1>4. call'[f][s] = v BY <1>1, <1>2, OneCall
<1> HIDE DEF v
<1>5. ASSUME s = Reader, NEW d \in Crossings
      PROVE  /\ Proposed(d) /\ ReadingAt(f, d, {"unprocessed", "unsigned", "signing"}) =>
                  Has(f, d) \/ Paid(d)' \/ ReadingAt(f, d, {"unprocessed", "unsigned", "signing"})'
             /\ ReadingAt(f, d, {"unprocessed", "pushing"}) /\ Has(f, d) /\ Enough(d) =>
                  Paid(d)' \/ ReadingAt(f, d, {"unprocessed", "pushing"})'
  BY <1>1, <1>4, <1>5 DEF ReadingAt
<1> QED BY <1>1, <1>2, <1>3, <1>5, OneGoesOn

(* A call that ends after a question, without having to go on.              *)
LEMMA ReturnGoesOn ==
  ASSUME IInv, Moving, Grows, ~forgot', UNCHANGED <<contract, read, late>>,
         NEW f \in Federators, NEW s \in Slots, Return(f, s),
         call[f][s].at \in {"unprocessed", "unsigned"},
         LET c == call[f][s].of IN
           \/ Has(f, c) /\ ~Enough(c)
           \/ ~Proposed(c) /\ f # Proposer
  PROVE  Moving'
<1> DEFINE c == call[f][s].of
<1>1. c \in Crossings BY InCallRecord DEF Fits
<1>2. Becomes(f, s, Idle) BY DEF Return, Stop, Becomes
<1>3. s \in Crossings => c = s BY DEF Moving, SlotsMatch
<1>4. s \in Crossings /\ f = Proposer => Proposed(s)
  BY <1>1, <1>3, HasIsHasSigned
<1>5. ASSUME s = Reader, NEW d \in Crossings
      PROVE  /\ Proposed(d) /\ ReadingAt(f, d, {"unprocessed", "unsigned", "signing"}) => Has(f, d)
             /\ ReadingAt(f, d, {"unprocessed", "pushing"}) /\ Has(f, d) => ~Enough(d)
  BY <1>1, <1>5, HasIsHasSigned DEF ReadingAt
<1> QED BY <1>1, <1>2, <1>3, <1>4, <1>5, IdleFits, OneGoesOn DEF Idle

LEMMA QuestionGoesOn ==
  ASSUME IInv, Moving, ~forgot', NEW f \in Federators, NEW s \in Slots,
         AskSigned(f, s) \/ AskProposed(f, s)
  PROVE  Moving'
<1> DEFINE c == call[f][s].of
<1>1. c \in Crossings /\ call[f][s].at \in {"unprocessed", "unsigned"}
  BY InCallRecord DEF AskSigned, AskProposed, Fits
<1>2. UNCHANGED <<contract, read, late, hathor, trouble>>
  BY DEF AskSigned, AskProposed
<1>3. Grows BY <1>2 DEF Grows, contract, hathor, IInv, TypeOK
<1>4. (HasSigned(f, c) <=> Has(f, c)) /\ (Has(f, c) => Proposed(c) /\ proposal[c] \in Inputs)
  BY <1>1, HasIsHasSigned
<1>5. proposal[c] \in Inputs \cup {None} BY <1>1 DEF IInv, TypeOK
<1>6. ASSUME NEW step \in {"unsigned", "signing", "building", "pushing"}, NEW i \in Inputs \cup {None},
             Goto(f, s, step, c, i),
             \/ call[f][s].at = "unprocessed" /\ ~Has(f, c) /\ step = "unsigned"
             \/ call[f][s].at = "unprocessed" /\ Has(f, c) /\ step = "pushing"
             \/ call[f][s].at = "unsigned" /\ (step = "signing" \/ ~Proposed(c))
      PROVE  Moving'
  <2>1. step \in Steps \ {"idle"} BY DEF Steps
  <2> QED BY <1>1, <1>2, <1>3, <1>4, <1>6, <2>1, GotoGoesOn
<1>7. CASE AskSigned(f, s)
  <2>1. CASE ~HasSigned(f, c) /\ Goto(f, s, "unsigned", c, None)
    BY <1>4, <1>6, <1>7, <2>1 DEF AskSigned
  <2>2. CASE HasSigned(f, c) /\ Enough(c) /\ Goto(f, s, "pushing", c, proposal[c])
    BY <1>4, <1>5, <1>6, <1>7, <2>2 DEF AskSigned
  <2>3. CASE HasSigned(f, c) /\ ~Enough(c) /\ Return(f, s)
    BY <1>1, <1>2, <1>3, <1>4, <2>3, ReturnGoesOn
  <2> QED BY <1>7, <2>1, <2>2, <2>3 DEF AskSigned
<1>8. CASE AskProposed(f, s)
  <2>1. CASE proposal[c] # None /\ Goto(f, s, "signing", c, proposal[c])
    BY <1>5, <1>6, <1>8, <2>1 DEF AskProposed
  <2>2. CASE proposal[c] = None /\ Goto(f, s, "building", c, None)
    BY <1>6, <1>8, <2>2 DEF Proposed, AskProposed
  <2>3. CASE proposal[c] = None /\ f # Proposer /\ Return(f, s)
    BY <1>1, <1>2, <1>3, <2>3, ReturnGoesOn DEF Proposed
  <2> QED BY <1>8, <2>1, <2>2, <2>3 DEF AskProposed
<1> QED BY <1>7, <1>8

LEMMA BuildGoesOn ==
  ASSUME IInv, Moving, ~forgot', ~failed', NEW f \in Federators, NEW s \in Slots, Build(f, s)
  PROVE  Moving'
<1> DEFINE c == call[f][s].of
<1>1. PICK i \in Free : marked' = marked \cup {i} /\ Goto(f, s, "proposing", c, i)
  BY DEF Build
<1>2. c \in Crossings /\ call[f][s].at = "building" /\ UNCHANGED <<contract, read, late, ledger, forgot>>
  BY InCallRecord DEF Build, Fits
<1>3. i \in Inputs /\ "proposing" \in Steps \ {"idle"} BY DEF Free, Steps
<1>4. Grows BY <1>1, <1>2 DEF Grows, contract, IInv, TypeOK
<1> QED BY <1>1, <1>2, <1>3, <1>4, GotoGoesOn

LEMMA PushGoesOn ==
  ASSUME IInv, IInv', Moving, ~forgot', NEW f \in Federators, NEW s \in Slots, Push(f, s)
  PROVE  Moving'
<1>1. PICK c \in Crossings, i \in Inputs :
        c = call[f][s].of /\ i = call[f][s].tx /\ call[f][s].at = "pushing"
  BY InCallRecord DEF Push, Fits
<1>2. PICK step \in {"sent", "unsent"} : Goto(f, s, step, c, i)
  BY <1>1 DEF Push
<1>3. UNCHANGED <<contract, read, late, marked, forgot>> /\ ledger \subseteq ledger'
  BY DEF Push
<1>4. Grows BY <1>3 DEF Grows, contract, IInv, TypeOK
<1>5. step \in Steps \ {"idle"} BY DEF Steps
<1>6. Paid(c)'
  <2> DEFINE v == [at |-> step, of |-> c, tx |-> i]
  <2>1. v \in CallRecord /\ Becomes(f, s, v)
    BY <1>1, <1>2, <1>5 DEF CallRecord, Goto, Becomes
  <2>2. call'[f][s] = v BY <2>1, OneCall
  <2>3. FitsCall(f, s)' BY DEF IInv, CallsFit
  <2> QED BY <1>1, <1>2, <2>2, <2>3 DEF FitsCall, Fits, Paid
<1> QED BY <1>1, <1>2, <1>3, <1>4, <1>5, <1>6, GotoGoesOn

LEMMA DieGoesOn ==
  ASSUME IInv, Moving, ~forgot', NEW f \in Federators, Die(f)
  PROVE  Moving'
<1>1. /\ UNCHANGED <<contract, told, late, hathor>>
      /\ call' = [call EXCEPT ![f] = [s \in Slots |-> Idle]]
      /\ read' = [read EXCEPT ![f] = 0]
  BY DEF Die
<1>2. /\ call \in [Federators -> [Slots -> CallRecord]]
      /\ read \in [Federators -> 0..Len(events)] /\ Len(events) \in Nat
  BY DEF IInv, TypeOK, CallRecord
<1>3. /\ call'[f] = [s \in Slots |-> Idle] /\ read'[f] = 0
      /\ \A g \in Federators : g # f => call'[g] = call[g] /\ read'[g] = read[g]
  BY <1>1, <1>2
<1>4. Reader \in Slots /\ Crossings \subseteq Slots BY DEF Slots
<1>5. SlotsMatch' BY <1>3, <1>4 DEF SlotsMatch, Moving, Idle
<1>6. EventsEmitted' /\ ToldProposed' /\ late' = {}
  BY <1>1 DEF Moving, EventsEmitted, ToldProposed, Proposed, Announced, AnnouncedSigned, IsEvent, contract
<1>7. ReadSigns'
  <2> SUFFICES ASSUME NEW g \in Federators, NEW c \in Crossings, HasRead(g, c)'
               PROVE  (\/ Paid(c) \/ Has(g, c)
                       \/ ReadingAt(g, c, {"unprocessed", "unsigned", "signing"}))'
    BY DEF ReadSigns
  <2>1. g # f BY <1>3 DEF HasRead
  <2> QED BY <1>1, <1>3, <2>1
          DEF Moving, ReadSigns, HasRead, Has, Paid, ReadingAt, IsEvent, contract, hathor
<1>8. ReadPushes'
  <2> SUFFICES ASSUME NEW g \in Federators, NEW c \in Crossings,
                      Has(g, c)', Enough(c)', ReadSignings(g, c)'
               PROVE  (Paid(c) \/ ReadingAt(g, c, {"unprocessed", "pushing"}))'
    BY DEF ReadPushes
  <2>1. PICK k \in 1..Len(events) : IsEvent(k, "signed", c)
    BY <1>1 DEF Has, contract, Moving, EventsEmitted, AnnouncedSigned
  <2>2. g # f BY <1>1, <1>2, <1>3, <2>1 DEF ReadSignings, IsEvent, contract
  <2> QED BY <1>1, <1>3, <2>2
          DEF Moving, ReadPushes, ReadSignings, Has, Enough, Paid, ReadingAt, IsEvent, contract, hathor
<1> QED BY <1>5, <1>6, <1>7, <1>8 DEF Moving

LEMMA ReadEventGoesOn ==
  ASSUME IInv, Moving, ~forgot', NEW f \in Federators, ReadEvent(f)
  PROVE  Moving'
<1> DEFINE n == read[f] + 1  e == events[n]
<1>1. /\ UNCHANGED <<contract, late, ledger, forgot>> /\ call[f][Reader] = Idle
      /\ read' = [read EXCEPT ![f] = n] /\ read[f] < Len(events)
  BY DEF ReadEvent
<1>2. /\ call \in [Federators -> [Slots -> CallRecord]]
      /\ read \in [Federators -> 0..Len(events)] /\ Len(events) \in Nat
      /\ n \in 1..Len(events) /\ e \in Event
  <2>1. /\ read \in [Federators -> 0..Len(events)] /\ Len(events) \in Nat
        /\ events \in Seq(Event) /\ call \in [Federators -> [Slots -> CallRecord]]
    BY DEF IInv, TypeOK, CallRecord
  <2>2. n \in 1..Len(events) BY <1>1, <2>1
  <2> QED BY <2>1, <2>2
<1>3. read'[f] = n /\ \A g \in Federators : g # f => read'[g] = read[g]
  BY <1>1, <1>2
<1>4. told' = told /\ Reader \in Slots /\ e.of \in Crossings
  BY <1>2 DEF ReadEvent, AskProcessed, Return, Goto, Told, Slots, Event
<1>5. PICK v \in CallRecord :
        /\ \A g \in Federators : \A t \in Slots :
             call'[g][t] = IF g = f /\ t = Reader THEN v ELSE call[g][t]
        /\ e.kind # "sent" => Paid(e.of) \/ (v.of = e.of /\ v.at = "unprocessed")
  <2>1. CASE e.kind = "sent"
    <3>1. call' = call BY <2>1 DEF ReadEvent
    <3> QED BY <1>1, <2>1, <3>1, IdleFits
  <2>2. CASE e.kind # "sent" /\ processed[e.of] /\ Return(f, Reader)
    <3>1. Becomes(f, Reader, Idle) BY <2>2 DEF Return, Stop, Becomes
    <3>2. Paid(e.of) BY <1>4, <2>2 DEF IInv, ProcessedPaid
    <3> QED BY <1>4, <3>1, <3>2, IdleFits, OneCall
  <2>3. CASE Goto(f, Reader, "unprocessed", e.of, None)
    <3> DEFINE v == [at |-> "unprocessed", of |-> e.of, tx |-> None]
    <3>1. v \in CallRecord /\ v.of = e.of /\ v.at = "unprocessed" BY <1>4 DEF CallRecord, Steps
    <3>2. Becomes(f, Reader, v) BY <2>3 DEF Goto, Becomes
    <3> HIDE DEF v
    <3> QED BY <1>4, <3>1, <3>2, OneCall
  <2> QED BY <2>1, <2>2, <2>3 DEF ReadEvent, AskProcessed
<1>6. SlotsMatch'
  BY <1>4, <1>5, CrossingsAssumption DEF SlotsMatch, Moving, Slots
<1>7. EventsEmitted' /\ ToldProposed' /\ late' = {}
  BY <1>1, <1>4 DEF Moving, EventsEmitted, ToldProposed, Proposed, Announced, AnnouncedSigned, IsEvent, contract
<1>8. \A c \in Crossings : \A steps : ~ReadingAt(f, c, steps) \/ "idle" \in steps
  BY <1>1 DEF ReadingAt, Idle
<1>9. ReadSigns'
  <2> SUFFICES ASSUME NEW g \in Federators, NEW c \in Crossings, HasRead(g, c)'
               PROVE  (\/ Paid(c) \/ Has(g, c)
                       \/ ReadingAt(g, c, {"unprocessed", "unsigned", "signing"}))'
    BY DEF ReadSigns
  <2>1. Paid(c) \/ Has(g, c) => (Paid(c) \/ Has(g, c))'
    BY <1>1 DEF Has, Paid, contract
  <2>2. CASE g # f
    BY <1>1, <1>3, <1>4, <1>5, <2>1, <2>2 DEF Moving, ReadSigns, HasRead, ReadingAt, IsEvent, contract
  <2>3. CASE g = f /\ HasRead(f, c)
    BY <1>8, <2>1, <2>3 DEF Moving, ReadSigns
  <2>4. CASE g = f /\ ~HasRead(f, c)
    <3>1. PICK k \in 1..n : IsEvent(k, "proposed", c)
      BY <1>1, <1>3, <2>4 DEF HasRead, IsEvent, contract
    <3>2. k = n BY <1>2, <2>4, <3>1 DEF HasRead
    <3> QED BY <1>1, <1>4, <1>5, <2>4, <3>1, <3>2 DEF IsEvent, ReadingAt, Paid
  <2> QED BY <2>2, <2>3, <2>4
<1>10. ReadPushes'
  <2> SUFFICES ASSUME NEW g \in Federators, NEW c \in Crossings,
                      Has(g, c)', Enough(c)', ReadSignings(g, c)'
               PROVE  (Paid(c) \/ ReadingAt(g, c, {"unprocessed", "pushing"}))'
    BY DEF ReadPushes
  <2>1. Has(g, c) /\ Enough(c) BY <1>1 DEF Has, Enough, contract
  <2>2. Paid(c) => Paid(c)' BY <1>1 DEF Paid
  <2>3. CASE g # f
    BY <1>1, <1>3, <1>4, <1>5, <2>1, <2>2, <2>3
       DEF Moving, ReadPushes, ReadSignings, ReadingAt, IsEvent, contract
  <2>4. CASE g = f /\ ReadSignings(f, c)
    BY <1>8, <2>1, <2>2, <2>4 DEF Moving, ReadPushes
  <2>5. CASE g = f /\ ~ReadSignings(f, c)
    <3>1. PICK k \in 1..Len(events) : IsEvent(k, "signed", c) /\ ~(k <= read[f])
      BY <2>5 DEF ReadSignings
    <3>2. k <= n BY <1>1, <1>3, <2>5, <3>1 DEF ReadSignings, IsEvent, contract
    <3>3. k = n BY <1>2, <3>1, <3>2
    <3> QED BY <1>1, <1>4, <1>5, <2>5, <3>1, <3>3 DEF IsEvent, ReadingAt, Paid
  <2> QED BY <2>3, <2>4, <2>5
<1> QED BY <1>6, <1>7, <1>9, <1>10 DEF Moving

(* What a request adds to the contract: nothing, or one event that says so. *)
Added(e) ==
  /\ events' = Append(events, e)
  /\ \A d \in Crossings :
       /\ Proposed(d)' => Proposed(d) \/ (e.kind = "proposed" /\ e.of = d)
       /\ signatures'[d] = signatures[d] \/ (e.kind = "signed" /\ e.of = d)
       /\ signatures[d] \subseteq signatures'[d]

LEMMA ExecutedAdds ==
  ASSUME IInv, NEW r \in Request, Executes(r)
  PROVE  /\ UNCHANGED contract \/ \E e \in Event : Added(e)
         /\ r.op = "proposing" /\ r.tx # None => Proposed(r.of)'
         /\ r.op = "signing" /\ r.tx = proposal[r.of] => Has(r.by, r.of)'
<1>0. /\ r.of \in Crossings /\ r.tx \in Inputs \cup {None} /\ r.by \in Federators
      /\ proposal \in [Crossings -> Inputs \cup {None}]
      /\ signatures \in [Crossings -> SUBSET (Federators \X Inputs)]
  BY DEF Request, IInv, TypeOK
<1>1. CASE r.op = "proposing"
  <2>1. SendTransactionProposal(r.of, r.tx) BY <1>1 DEF Executes
  <2>2. CASE proposal[r.of] # None
    BY <1>1, <2>1, <2>2 DEF SendTransactionProposal, Proposed, contract
  <2>3. CASE proposal[r.of] = None
    <3> DEFINE e == [kind |-> "proposed", of |-> r.of, by |-> None]
    <3>1. e \in Event /\ e.kind = "proposed" /\ e.of = r.of BY <1>0 DEF Event
    <3>2. /\ proposal' = [proposal EXCEPT ![r.of] = r.tx] /\ UNCHANGED signatures
          /\ events' = Append(events, e)
      BY <2>1, <2>3 DEF SendTransactionProposal, Emit
    <3>3. Added(e) BY <1>0, <3>1, <3>2 DEF Added, Proposed
    <3> QED BY <1>0, <1>1, <3>1, <3>2, <3>3 DEF Proposed
  <2> QED BY <2>2, <2>3
<1>2. CASE r.op = "signing"
  <2>1. UpdateSignatureState(r.by, r.of, r.tx) BY <1>2 DEF Executes
  <2>2. CASE HasSigned(r.by, r.of)
    BY <1>0, <1>2, <2>1, <2>2, HasIsHasSigned DEF UpdateSignatureState, Has, contract
  <2>3. CASE ~HasSigned(r.by, r.of)
    <3> DEFINE e == [kind |-> "signed", of |-> r.of, by |-> r.by]
    <3>1. e \in Event /\ e.kind = "signed" /\ e.of = r.of BY <1>0 DEF Event
    <3>2. /\ signatures' = [signatures EXCEPT ![r.of] = @ \cup {<<r.by, r.tx>>}] /\ UNCHANGED proposal
          /\ events' = Append(events, e)
      BY <2>1, <2>3 DEF UpdateSignatureState, Emit
    <3>3. Added(e) BY <1>0, <3>1, <3>2 DEF Added, Proposed
    <3> QED BY <1>0, <1>2, <3>1, <3>2, <3>3 DEF Has
  <2> QED BY <2>2, <2>3
<1>3. CASE r.op \in {"sent", "unsent"}
  <2>1. UpdateTransactionState(r.of, r.op = "sent") BY <1>3 DEF Executes
  <2>2. CASE processed[r.of]
    BY <1>3, <2>1, <2>2 DEF UpdateTransactionState
  <2>3. CASE ~processed[r.of]
    <3> DEFINE e == [kind |-> "sent", of |-> r.of, by |-> None]
    <3>1. e \in Event BY <1>0 DEF Event
    <3>2. UNCHANGED <<proposal, signatures>> /\ events' = Append(events, e)
      BY <2>1, <2>3 DEF UpdateTransactionState, Emit
    <3>3. Added(e) BY <3>2 DEF Added, Proposed
    <3> QED BY <1>3, <3>1, <3>3
  <2> QED BY <2>2, <2>3
<1> QED BY <1>1, <1>2, <1>3 DEF Request

LEMMA EventAppended ==
  ASSUME IInv, NEW e \in Event, events' = Append(events, e)
  PROVE  /\ Len(events) \in Nat /\ Len(events') = Len(events) + 1
         /\ events'[Len(events')] = e
         /\ \A k \in 1..Len(events) : events'[k] = events[k]
BY DEF IInv, TypeOK

LEMMA AddedEmits ==
  ASSUME IInv, Moving, UNCHANGED contract \/ \E e \in Event : Added(e)
  PROVE  EventsEmitted'
<1>1. CASE UNCHANGED contract
  BY <1>1 DEF Moving, EventsEmitted, Proposed, Announced, AnnouncedSigned, IsEvent, contract
<1>2. ASSUME NEW e \in Event, Added(e) PROVE EventsEmitted'
  <2>1. /\ Len(events) \in Nat /\ Len(events') = Len(events) + 1
        /\ events'[Len(events')] = e
        /\ \A k \in 1..Len(events) : events'[k] = events[k]
    BY <1>2, EventAppended DEF Added
  <2>2. Len(events') \in 1..Len(events') /\ \A k \in 1..Len(events) : k \in 1..Len(events')
    BY <2>1
  <2>3. ASSUME NEW kind, NEW c \in Crossings,
               (e.kind = kind /\ e.of = c) \/ \E k \in 1..Len(events) : IsEvent(k, kind, c)
        PROVE  \E k \in 1..Len(events') : IsEvent(k, kind, c)'
    BY <2>1, <2>2, <2>3 DEF IsEvent
  <2>4. ASSUME NEW c \in Crossings, Proposed(c)' PROVE Announced(c)'
    <3>1. Proposed(c) \/ (e.kind = "proposed" /\ e.of = c) BY <1>2, <2>4 DEF Added
    <3>2. \E k \in 1..Len(events') : IsEvent(k, "proposed", c)'
      BY <2>3, <3>1 DEF Moving, EventsEmitted, Announced
    <3> QED BY <3>2 DEF Announced, IsEvent
  <2>5. ASSUME NEW c \in Crossings, signatures'[c] # {} PROVE AnnouncedSigned(c)'
    <3>1. signatures[c] # {} \/ (e.kind = "signed" /\ e.of = c) BY <1>2, <2>5 DEF Added
    <3>2. \E k \in 1..Len(events') : IsEvent(k, "signed", c)'
      BY <2>3, <3>1 DEF Moving, EventsEmitted, AnnouncedSigned
    <3> QED BY <3>2 DEF AnnouncedSigned, IsEvent
  <2> QED BY <2>4, <2>5 DEF EventsEmitted
<1> QED BY <1>1, <1>2

(* Whoever has read of all signatures, after a request, had read of all     *)
(* before, and there is none more.                                          *)
LEMMA AddedUnread ==
  ASSUME IInv, UNCHANGED contract \/ \E e \in Event : Added(e), UNCHANGED read,
         NEW f \in Federators, NEW c \in Crossings
  PROVE  /\ HasRead(f, c)' => HasRead(f, c)
         /\ ReadSignings(f, c)' => ReadSignings(f, c) /\ signatures'[c] = signatures[c]
<1>1. CASE UNCHANGED contract
  BY <1>1 DEF HasRead, ReadSignings, IsEvent, contract
<1>2. ASSUME NEW e \in Event, Added(e)
      PROVE  /\ HasRead(f, c)' => HasRead(f, c)
             /\ ReadSignings(f, c)' => ReadSignings(f, c) /\ signatures'[c] = signatures[c]
  <2>1. /\ Len(events) \in Nat /\ Len(events') = Len(events) + 1
        /\ events'[Len(events')] = e
        /\ \A k \in 1..Len(events) : events'[k] = events[k]
    BY <1>2, EventAppended DEF Added
  <2>2. read[f] \in 0..Len(events) BY DEF IInv, TypeOK
  <2>3. HasRead(f, c)' => HasRead(f, c)
    <3>1. \A k \in 1..read[f] : events'[k] = events[k] BY <2>1, <2>2
    <3> QED BY <3>1 DEF HasRead, IsEvent
  <2>4. ReadSignings(f, c)' => ReadSignings(f, c)
    <3>1. \A k \in 1..Len(events) : k \in 1..Len(events') BY <2>1
    <3> QED BY <2>1, <3>1 DEF ReadSignings, IsEvent
  <2>5. ReadSignings(f, c)' => ~(e.kind = "signed" /\ e.of = c)
    <3>1. Len(events') \in 1..Len(events') /\ ~(Len(events') <= read[f]) BY <2>1, <2>2
    <3> QED BY <2>1, <3>1 DEF ReadSignings, IsEvent
  <2> QED BY <1>2, <2>3, <2>4, <2>5 DEF Added
<1> QED BY <1>1, <1>2

LEMMA SendGoesOn ==
  ASSUME IInv, IInv', Moving, ~forgot', NEW f \in Federators, NEW s \in Slots, Send(f, s)
  PROVE  Moving'
<1>0. PICK r \in Request : r = RequestOf(f, s) /\ FitsRequest(r)
  BY RequestFits DEF Send, IInv
<1>1. /\ r.of \in Crossings /\ r.op = call[f][s].at /\ r.of = call[f][s].of /\ r.by = f
      /\ r.op \in {"proposing", "signing", "sent", "unsent"}
      /\ Fits(r.op, r.of, r.tx)
  BY <1>0 DEF RequestOf, Request, FitsRequest
<1>2. Executes(r) /\ Return(f, s) /\ UNCHANGED <<read, late, hathor, trouble>>
  BY <1>0 DEF Send
<1>3. UNCHANGED contract \/ \E e \in Event : Added(e)
  BY <1>2, ExecutedAdds
<1>4. Grows /\ ledger' = ledger /\ ~forgot
  BY <1>0, <1>2, Executed DEF hathor
<1>5. \A c \in Crossings : (Paid(c) => Paid(c)') /\ (Proposed(c) => Proposed(c)')
  BY <1>4 DEF Paid, Proposed, Grows
<1>6. /\ Becomes(f, s, Idle)
      /\ \A g \in Federators : \A t \in Slots :
           call'[g][t] = IF g = f /\ t = s THEN Idle ELSE call[g][t]
  <2>1. Becomes(f, s, Idle) BY <1>2 DEF Return, Stop, Becomes
  <2> QED BY <2>1, OneCall, IdleFits
<1>7. Reader \in Slots /\ Reader \notin Crossings /\ Crossings \subseteq Slots
  BY CrossingsAssumption DEF Slots
<1>8. SlotsMatch'
  BY <1>6, <1>7 DEF SlotsMatch, Moving, Idle
<1>9. EventsEmitted' BY <1>3, AddedEmits
<1>10. Proposed(r.of)'
  <2>1. CASE r.op = "proposing"
    BY <1>1, <1>2, <2>1, ExecutedAdds, CrossingsAssumption DEF Fits
  <2>2. CASE r.op = "signing"
    BY <1>1, <1>5, <2>2, CrossingsAssumption DEF Fits, Proposed
  <2>3. CASE r.op \in {"sent", "unsent"}
    <3>1. Paid(r.of) BY <1>1, <1>4, <2>3 DEF Fits, Paid
    <3> QED BY <1>1, <1>5, <3>1, PaidProposed
  <2> QED BY <1>1, <2>1, <2>2, <2>3
<1>11. ToldProposed'
  <2>1. told \in [Federators -> SUBSET Crossings] BY DEF IInv, TypeOK
  <2>2. s \in Crossings => r.of = s BY <1>1 DEF Moving, SlotsMatch
  <2>3. ASSUME NEW c \in Crossings, c \in told'[Proposer]
        PROVE  c \in told[Proposer] \/ c = r.of
    BY <1>6, <2>1, <2>2, <2>3, MembersAssumption DEF Becomes, Told, Slots
  <2> QED BY <1>5, <1>10, <2>3 DEF ToldProposed, Moving
<1>12. ASSUME NEW g \in Federators, NEW c \in Crossings, NEW steps, ReadingAt(g, c, steps),
              ~(g = f /\ s = Reader)
       PROVE  ReadingAt(g, c, steps)'
  BY <1>6, <1>7, <1>12 DEF ReadingAt
<1>13. ASSUME NEW g \in Federators, NEW c \in Crossings, Has(g, c)
       PROVE  Has(g, c)' /\ proposal'[c] = proposal[c]
  <2>1. proposal'[c] = proposal[c] BY <1>4, <1>13, HasIsHasSigned DEF Grows, Proposed
  <2> QED BY <1>3, <1>13, <2>1 DEF Has, Added, contract
<1>14. ReadSigns'
  <2> SUFFICES ASSUME NEW g \in Federators, NEW c \in Crossings, HasRead(g, c)'
               PROVE  (\/ Paid(c) \/ Has(g, c)
                       \/ ReadingAt(g, c, {"unprocessed", "unsigned", "signing"}))'
    BY DEF ReadSigns
  <2>1. HasRead(g, c) BY <1>2, <1>3, AddedUnread
  <2>2. CASE ReadingAt(g, c, {"unprocessed", "unsigned", "signing"}) /\ g = f /\ s = Reader
    <3>1. r.op = "signing" /\ r.of = c BY <1>1, <2>2 DEF ReadingAt
    <3>2. r.tx = proposal[r.of] BY <1>1, <3>1 DEF Fits
    <3> QED BY <1>1, <1>2, <2>2, <3>1, <3>2, ExecutedAdds
  <2>3. CASE ReadingAt(g, c, {"unprocessed", "unsigned", "signing"}) /\ ~(g = f /\ s = Reader)
    BY <1>12, <2>3
  <2>4. CASE Paid(c) \/ Has(g, c)
    BY <1>5, <1>13, <2>4
  <2> QED BY <2>1, <2>2, <2>3, <2>4 DEF Moving, ReadSigns
<1>15. ReadPushes'
  <2> SUFFICES ASSUME NEW g \in Federators, NEW c \in Crossings,
                      Has(g, c)', Enough(c)', ReadSignings(g, c)'
               PROVE  (Paid(c) \/ ReadingAt(g, c, {"unprocessed", "pushing"}))'
    BY DEF ReadPushes
  <2>1. ReadSignings(g, c) /\ signatures'[c] = signatures[c]
    BY <1>2, <1>3, AddedUnread
  <2>2. HasSigned(g, c)
    <3>1. signatures'[c] \in SUBSET (Federators \X Inputs) BY DEF IInv, TypeOK
    <3>2. <<g, proposal'[c]>> \in signatures'[c] BY DEF Has
    <3> QED BY <2>1, <3>1, <3>2 DEF HasSigned
  <2>3. Has(g, c) /\ Enough(c) BY <2>1, <2>2, HasIsHasSigned DEF Enough
  <2>4. CASE ReadingAt(g, c, {"unprocessed", "pushing"})
    <3>1. ~(g = f /\ s = Reader) BY <1>1, <2>4 DEF ReadingAt
    <3> QED BY <1>12, <2>4, <3>1
  <2>5. CASE Paid(c)
    BY <1>5, <2>5
  <2> QED BY <2>1, <2>3, <2>4, <2>5 DEF Moving, ReadPushes
<1>16. late' = {} BY <1>2 DEF Moving
<1> QED BY <1>8, <1>9, <1>11, <1>14, <1>15, <1>16 DEF Moving

LEMMA StartsMoving == Init => GoesOn
<1> SUFFICES ASSUME Init PROVE Moving
  BY DEF GoesOn
<1>1. /\ proposal = [c \in Crossings |-> None] /\ signatures = [c \in Crossings |-> {}]
      /\ read = [f \in Federators |-> 0] /\ told = [f \in Federators |-> {}]
      /\ call = [f \in Federators |-> [s \in Slots |-> Idle]] /\ late = {}
  BY DEF Init
<1>2. SlotsMatch BY <1>1 DEF SlotsMatch, Idle, Slots
<1>3. EventsEmitted /\ ToldProposed
  BY <1>1, MembersAssumption DEF EventsEmitted, ToldProposed, Proposed
<1>4. ReadSigns BY <1>1 DEF ReadSigns, HasRead
<1>5. ReadPushes BY <1>1 DEF ReadPushes, Has
<1> QED BY <1>1, <1>2, <1>3, <1>4, <1>5 DEF Moving

LEMMA TroubleStays == [Next]_vars => (failed => failed') /\ (forgot => forgot')
<1> SUFFICES ASSUME [Next]_vars
             PROVE  (failed => failed') /\ (forgot => forgot')
  OBVIOUS
<1>1. ASSUME NEW f \in Federators, NEW s \in Slots, AskSigned(f, s) \/ AskProposed(f, s) \/ Send(f, s)
      PROVE  (failed => failed') /\ (forgot => forgot')
  BY <1>1 DEF AskSigned, AskProposed, Send, hathor, trouble
<1>2. ASSUME NEW f \in Federators, NEW s \in Slots, Build(f, s)
      PROVE  (failed => failed') /\ (forgot => forgot')
  BY <1>2 DEF Build
<1>3. ASSUME NEW f \in Federators, NEW s \in Slots, Push(f, s)
      PROVE  (failed => failed') /\ (forgot => forgot')
  BY <1>3 DEF Push, trouble
<1>4. ASSUME NEW f \in Federators, NEW s \in Slots,
             SendFails(f, s) \/ WalletFails(f, s) \/ AnswerLost(f, s)
      PROVE  (failed => failed') /\ (forgot => forgot')
  BY <1>4 DEF SendFails, WalletFails, AnswerLost, Failure, hathor
<1>5. ASSUME NEW f \in Federators, ReadEvent(f) \/ Die(f) \/ \E c \in Crossings : HandOver(f, c)
      PROVE  (failed => failed') /\ (forgot => forgot')
  BY <1>5 DEF ReadEvent, Die, HandOver, hathor, trouble
<1>6. ASSUME NEW r \in late, Mined(r)
      PROVE  (failed => failed') /\ (forgot => forgot')
  BY <1>6 DEF Mined, hathor, trouble
<1>7. Forget => (failed => failed') /\ (forgot => forgot') BY DEF Forget
<1>8. UNCHANGED vars => (failed => failed') /\ (forgot => forgot') BY DEF vars, hathor, trouble
<1> QED BY <1>1, <1>2, <1>3, <1>4, <1>5, <1>6, <1>7, <1>8 DEF Next, Step

LEMMA StaysMoving == IInv /\ IInv' /\ GoesOn /\ [Next]_vars => GoesOn'
<1> SUFFICES ASSUME IInv, IInv', GoesOn, [Next]_vars, ~failed', ~forgot' PROVE Moving'
  BY DEF GoesOn
<1>1. ~failed /\ ~forgot BY TroubleStays
<1>2. Moving /\ ~forgot BY <1>1 DEF GoesOn
<1>3. ASSUME NEW f \in Federators, NEW s \in Slots, Step(f, s) PROVE Moving'
  BY <1>2, <1>3, QuestionGoesOn, BuildGoesOn, SendGoesOn, PushGoesOn DEF Step
<1>4. ASSUME NEW f \in Federators, NEW s \in Slots,
             SendFails(f, s) \/ WalletFails(f, s) \/ AnswerLost(f, s)
      PROVE  Moving'
  BY <1>4 DEF SendFails, WalletFails, AnswerLost, Failure
<1>5. ASSUME NEW f \in Federators, NEW c \in Crossings, HandOver(f, c) PROVE Moving'
  BY <1>2, <1>5, HandOverGoesOn
<1>6. ASSUME NEW f \in Federators, ReadEvent(f) \/ Die(f) PROVE Moving'
  BY <1>2, <1>6, ReadEventGoesOn, DieGoesOn
<1>7. ~Forget BY DEF Forget
<1>8. \A r \in late : FALSE BY <1>2 DEF Moving
<1>9. CASE UNCHANGED vars
  <2>1. UNCHANGED <<proposal, signatures, events, ledger, read, told, call, late>>
    BY <1>9 DEF vars, contract, local, hathor
  <2>2. late' = {} /\ SlotsMatch' BY <1>2, <2>1 DEF Moving, SlotsMatch
  <2>3. ToldProposed' BY <1>2, <2>1 DEF Moving, ToldProposed, Proposed
  <2>4. EventsEmitted'
    BY <1>2, <2>1 DEF Moving, EventsEmitted, Proposed, Announced, AnnouncedSigned, IsEvent
  <2>5. ReadSigns' BY <1>2, <2>1 DEF Moving, ReadSigns, Paid, Has, HasRead, IsEvent, ReadingAt
  <2>6. ReadPushes'
    BY <1>2, <2>1 DEF Moving, ReadPushes, Paid, Has, Enough, ReadSignings, IsEvent, ReadingAt
  <2> QED BY <2>2, <2>3, <2>4, <2>5, <2>6 DEF Moving
<1> QED BY <1>3, <1>4, <1>5, <1>6, <1>7, <1>8, <1>9 DEF Next

(* Once every federator has signed, there are as many signatures.           *)
LEMMA AllSigned ==
  ASSUME IInv, NEW c \in Crossings, \A f \in Federators : Has(f, c)
  PROVE  Enough(c)
<1>1. signatures[c] = {<<f, proposal[c]>> : f \in Federators}
  BY DEF IInv, TypeOK, SignaturesStand, Has
<1> DEFINE b == [f \in Federators |-> <<f, proposal[c]>>]
<1>2. b \in Bijection(Federators, signatures[c])
  BY <1>1 DEF Bijection, Injection, Surjection, IsInjective
<1>3. Cardinality(signatures[c]) = Cardinality(Federators)
  BY <1>2, MembersAssumption, FS_Bijection DEF ExistsBijection
<1>4. Cardinality(Federators) \in Nat BY MembersAssumption, FS_CardinalityType
<1> QED BY <1>3, <1>4, MembersAssumption DEF Enough

(* Once everything was handed over and read and no call is under way, every *)
(* crossing is paid, unless a call failed or the marks were lost: whoever   *)
(* reads the last signature that was needed pushes (Broker.ts l.268).  The  *)
(* invariant follows what each federator read last about a crossing: who    *)
(* read of a proposal has signed it or is about to, and who read the last   *)
(* signature when there were enough has paid or is about to push.           *)
THEOREM NothingEverStuck == Spec => []NothingStuck
<1>1. Init => GoesOn BY StartsMoving
<1>2. IInv /\ IInv' /\ GoesOn /\ [Next]_vars => GoesOn' BY StaysMoving
<1>3. IInv /\ GoesOn => NothingStuck
  <2> SUFFICES ASSUME IInv, Moving, Quiet, NEW c \in Crossings, ~Paid(c) PROVE FALSE
    BY DEF GoesOn, NothingStuck
  <2>1. Proposed(c)
    BY MembersAssumption DEF Moving, ToldProposed, Quiet
  <2>2. \A f \in Federators : \A steps : ReadingAt(f, c, steps) => "idle" \in steps
    BY DEF Quiet, ReadingAt, Idle, Slots
  <2>3. \A f \in Federators : read[f] = Len(events) BY DEF Quiet
  <2>4. \A f \in Federators : HasRead(f, c)
    BY <2>1, <2>3 DEF Moving, EventsEmitted, Announced, HasRead
  <2>5. \A f \in Federators : Has(f, c)
    BY <2>2, <2>4 DEF Moving, ReadSigns
  <2>6. Enough(c) BY <2>5, AllSigned
  <2>7. ReadSignings(Proposer, c) /\ Proposer \in Federators
    BY <2>3, MembersAssumption DEF ReadSignings
  <2> QED BY <2>2, <2>5, <2>6, <2>7 DEF Moving, ReadPushes
<1> QED BY <1>1, <1>2, <1>3, Invariant, PTL DEF Spec
=============================================================================
