-------------------------- MODULE MCPasswordReset --------------------------
(***************************************************************************)
(* Instances of PasswordReset for TLC: the mailboxes are those of one      *)
(* domain, and another domain has a portal too, so that a request can      *)
(* reach the right portal, the wrong one and the main host.                *)
(***************************************************************************)
EXTENDS PasswordReset, TLC

CONSTANTS m1, m2, d1, d2

TwoMailboxes == (m1 :> d1) @@ (m2 :> d1)
OneMailbox   == (m1 :> d1)

Symmetry == Permutations(Workers) \cup Permutations(Tokens)
                \cup Permutations(Mailboxes)
=============================================================================
