----------------------------- MODULE MC_Sessions ----------------------------
(* Sessions and Accounts for TLC: one token, overlapping requests and forms. *)
EXTENDS Accounts, TLC

CONSTANTS t1, r1, r2, f1, f2, ada, bob, pw1, pw2, s1, s2

OneToken == {t1}
TwoRequests == {r1, r2}
TwoForms == {f1, f2}
\* Two addresses, the first also typed with a capital.
ThreeEmails == {[address |-> ada, lower |-> TRUE], [address |-> ada, lower |-> FALSE],
                [address |-> bob, lower |-> TRUE]}
TwoPasswords == {pw1, pw2}
TwoSlugs == {s1, s2}
\* Requests, forms, passwords and slugs are interchangeable among themselves.
Same == Permutations(TwoRequests) \cup Permutations(TwoForms)
        \cup Permutations(TwoPasswords) \cup Permutations(TwoSlugs)
=============================================================================
