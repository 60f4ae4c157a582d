------------------------------ MODULE MCTunnel ------------------------------
EXTENDS Tunnel

MCByte == 1 .. 3

\* The client says three bytes and the server two, or the other way round.
MCScripts ==
    {[s \in Sides |-> IF s = long THEN <<1, 2, 3>> ELSE <<1, 2>>] : long \in Sides}
=============================================================================
