---------------------------- MODULE MCFomoVault ----------------------------
(* Instances of FomoVault for TLC. *)
EXTENDS FomoVault, TLC

CONSTANTS leader, user, treasury1, treasury2, manager1, manager2, authority1,
          authority2, usdc, token

(* FomoVault.cfg: two depositors, the mirrored leader among them, and the fee
   treasury, over a book of two mints that is traded, and the bucket of
   pending deposits with it. *)
MCHolders == {leader, user, treasury1}
MCTreasuries == {treasury1}
MCAssets == {usdc, token}
MCFees == {200, 300}
\* A route that loses half of what it spends, so that amounts run out.
MCFills == {<<100, 50>>}
MCInitialQuote == [h \in MCHolders |-> IF h \in MCTreasuries THEN 0 ELSE 100]

(* FomoVaultTerms.cfg: one depositor, while the platform's authority changes
   the fee (below the cap, at it, above it) and the treasury, and hands over. *)
TermsHolders == {user, treasury1, treasury2}
TermsTreasuries == {treasury1, treasury2}
TermsFees == {100, 200, 300}
TermsInitialQuote == [h \in TermsHolders |-> IF h = user THEN 100 ELSE 0]
=============================================================================
