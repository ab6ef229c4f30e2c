--------------------------- MODULE TokenBalances ---------------------------
(***************************************************************************)
(* What the fungible token promises a holder and an indexer: one balance   *)
(* per signing key, moved only by transfers, each of which is one event.   *)
(* A key, once a holder, stays one, so at most Places keys can ever be.    *)
(* Where the contract keeps a list of slots in order of arrival, this is a *)
(* function; FungibleToken implements it.                                  *)
(***************************************************************************)
EXTENDS Naturals

CONSTANTS
    Keys,       \* external signing keys
    Supply,     \* units credited once
    Amounts,    \* what one transfer may move, never zero
    Places      \* keys the ledger has room for

VARIABLES
    balance,    \* Keys -> units
    known       \* the keys that ever held or received units

\* All units go to the key that initialises the account.
Minted ==
    \E k \in Keys :
      /\ known = {}
      /\ known' = {k}
      /\ balance' = [balance EXCEPT ![k] = Supply]

\* Each key of S can have a place to itself.
HavePlaces(S) ==
    \E place \in [S -> 1..Places] : \A j, k \in S : place[j] = place[k] => j = k

\* A transfer to oneself leaves the balance as it was.
Moved(from, to, amount) ==
    /\ from \in known
    /\ amount <= balance[from]
    /\ known' = known \cup {to}
    /\ HavePlaces(known')
    /\ balance' = [k \in Keys |->
                     (IF k = from THEN balance[k] - amount ELSE balance[k])
                     + (IF k = to THEN amount ELSE 0)]

Init ==
    /\ balance = [k \in Keys |-> 0]
    /\ known = {}

Next ==
    \/ Minted
    \/ \E from, to \in Keys : \E amount \in Amounts : Moved(from, to, amount)

Spec == Init /\ [][Next]_<<balance, known>>
============================================================================
