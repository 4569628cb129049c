---- MODULE MCNotificationDelivery ----
(* Instances of NotificationDelivery for TLC. *)
EXTENDS NotificationDelivery, TLC

CONSTANTS d1, d2, r1, r2, h1, h2

NoReports == [n \in 1..MaxAttempts |-> {}]
SentAndDelivered == [n \in 1..MaxAttempts |-> {"SENT", "DELIVERED"}]

\* The first message is reported in every way, the others as sent.
FirstInFull ==
    [n \in 1..MaxAttempts |-> IF n = 1 THEN {"SENT", "FAILED", Unsupported} ELSE {"SENT"}]

AnyReplica == Permutations({r1, r2})
====
