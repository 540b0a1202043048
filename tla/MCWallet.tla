------------------------------ MODULE MCWallet ------------------------------
(* Small instances of Wallet for TLC. *)
EXTENDS Wallet, SequencesExt

\* What the entries add to a wallet, credits less debits.
NetOf(entries) == FoldLeft(LAMBDA sum, e : sum + (e.after - e.before), 0, entries)

\* Implied by updateWallet's "Insufficient balance" check, and not so: no more is
\* debited from a wallet than was credited to it.
DebitsCovered == \A w \in WalletId : NetOf(ledger[w]) >= 0

\* One amount of each sign.
MCAmount == {-1, 1}

WalletSymmetry == Permutations(Request) \cup Permutations(WalletId)
=============================================================================
