--------------------------- MODULE MCConsoleSession ---------------------------
(* Two tabs of one browser, two users, two functions under way at a time. *)
EXTENDS ConsoleSession, TLC

CONSTANTS t1, t2, u1, u2, s1, s2

OneTab == {t1}
TwoTabs == {t1, t2}
SoleUser == {u1}
TwoUsers == {u1, u2}
JSON == {"request"}
Fetch == {"apiFetch", "apiFetchBlob"}
TwoCalls == {s1, s2}
Symmetry == Permutations(TwoTabs) \cup Permutations(TwoUsers) \cup Permutations(TwoCalls)
=============================================================================
