----------------------------- MODULE AlertOutbox -----------------------------
(***************************************************************************)
(* What alerting promises whoever subscribed: an alert is on record before *)
(* anybody hears of it, it stays there, and no subscription is told of the *)
(* same alert more than MaxAttempts times, whatever is restarted.          *)
(***************************************************************************)
EXTENDS Naturals

CONSTANTS
    Contracts,      \* contract ids
    Keys,           \* what an alert of a contract is about
    Subscriptions,  \* who is told
    MaxAttempts     \* how often somebody is told of one alert

VARIABLES
    alerts,         \* alerts[c]: the alerts of c on record
    sent            \* sent[c][k][s]: how often s was told of alert k of c

Init ==
    /\ alerts = [c \in Contracts |-> {}]
    /\ sent = [c \in Contracts |-> [k \in Keys |-> [s \in Subscriptions |-> 0]]]

Record(c, k) ==
    /\ alerts' = [alerts EXCEPT ![c] = @ \union {k}]
    /\ UNCHANGED sent

Tell(c, k, s) ==
    /\ k \in alerts[c] /\ sent[c][k][s] < MaxAttempts
    /\ sent' = [sent EXCEPT ![c][k][s] = @ + 1]
    /\ UNCHANGED alerts

Next ==
    \E c \in Contracts, k \in Keys :
        Record(c, k) \/ \E s \in Subscriptions : Tell(c, k, s)

Spec == Init /\ [][Next]_<<alerts, sent>>
=============================================================================
