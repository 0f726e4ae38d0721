----------------------------- MODULE MCWebClient -----------------------------
(* The web client on a small plant, for TLC: two accounts, two channels of *)
(* different protocols and a profile for each.                             *)
EXTENDS WebClient

MCRoleOf == [u \in Users |-> IF u = "technician" THEN "technician" ELSE "viewer"]
MCSupports == [p \in Profile |-> IF p = "p1" THEN {"c1"} ELSE {"c2"}]
MCSpeaks == [p \in Driver |-> IF p = "both" THEN {"tcp", "rtu"} ELSE {"rtu"}]
MCBusKind == [c \in Bus |-> IF c = "lan" THEN "tcp" ELSE "rtu"]
=============================================================================
