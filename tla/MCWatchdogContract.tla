------------------------ MODULE MCWatchdogContract ------------------------
EXTENDS WatchdogContract, TLC

CONSTANTS k1, k2

Symmetry == Permutations(Accounts)

\* Clients read one of the two contracts daily, and the other when they like.
OneIsRead == {"status", "alerts"} \X {k1}
=============================================================================
