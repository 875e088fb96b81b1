------------------------------ MODULE MCChannel ------------------------------
(* Channel with the real range and a servo of 1000 to 2000 microseconds.     *)
EXTENDS Channel

MCRANGE == 1000

\* The two ends of the servo, the middle and the furthest the setting page lets
\* the user move the middle.
MCPulses == {1000, 1350, 1500, 1650, 2000}

\* Every multiple of a hundred, and the coordinates where a cut changes something.
Steps == {100 * k : k \in 0..10}
Edges == {1, 2, 9, 10, 31, 32, 99, 101, 999}
MCCoordinates == Steps \union Edges \union {-c : c \in Steps \union Edges}

\* Math.sqrt, cut to an int.
MCRoot ==
    [v \in 0..MCRANGE |->
        CHOOSE r \in 0..MCRANGE : r * r <= MCRANGE * v /\ MCRANGE * v < (r + 1) * (r + 1)]
=============================================================================
