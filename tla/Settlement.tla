----------------------------- MODULE Settlement -----------------------------
(***************************************************************************)
(* What the contracts promise about the transfers that arrive from the     *)
(* other chains, whoever votes, claims, pauses or re-points them: at most  *)
(* one transfer is promised per transaction hash, a promise is kept at     *)
(* most once, to the receiver or to the sender, and the vault of a token   *)
(* shrinks only by what a kept promise is worth.                           *)
(***************************************************************************)
EXTENDS Integers

CONSTANTS
  Transfer,  \* records with at least hash, token, from, to and amount
  Native,    \* the tokens kept in a vault
  Scale,     \* token => units of a transfer's amount in one unit of the token
  NOBODY     \* the payee of what was not paid

VARIABLES promised, payee, vault

vars == <<promised, payee, vault>>

Worth(t) == t.amount \div Scale[t.token]

Init ==
  /\ promised = {}
  /\ payee = [t \in Transfer |-> NOBODY]
  /\ vault = [tok \in Native |-> 0]

Promise(t) ==
  /\ \A u \in promised : u.hash # t.hash
  /\ promised' = promised \cup {t}
  /\ UNCHANGED <<payee, vault>>

\* From the vault, or with tokens minted for it.
Pay(t, who) ==
  /\ t \in promised
  /\ payee[t] = NOBODY
  /\ who \in {t.from, t.to}
  /\ payee' = [payee EXCEPT ![t] = who]
  /\ \/ vault' = vault
     \/ /\ t.token \in Native
        /\ Worth(t) <= vault[t.token]
        /\ vault' = [vault EXCEPT ![t.token] = @ - Worth(t)]
  /\ UNCHANGED promised

Deposit(tok) ==
  /\ vault'[tok] >= vault[tok]
  /\ vault' = [vault EXCEPT ![tok] = vault'[tok]]
  /\ UNCHANGED <<promised, payee>>

Next ==
  \/ \E t \in Transfer : Promise(t) \/ Pay(t, t.to) \/ Pay(t, t.from)
  \/ \E tok \in Native : Deposit(tok)

Spec == Init /\ [][Next]_vars
=============================================================================
