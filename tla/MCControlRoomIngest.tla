------------------------- MODULE MCControlRoomIngest -------------------------
(* A small instance of ControlRoomIngest: two minutes, a row of quality    *)
(* other than "good" and a row without a value.                            *)
EXTENDS ControlRoomIngest

MCBucketOf == [r \in Row |-> IF r <= 2 THEN "m1" ELSE "m2"]

MCValueOf == [r \in Row |-> IF r = 3 THEN NoValue ELSE 5 - r]

=============================================================================
