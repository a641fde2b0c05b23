---------------------------------- MODULE MCClientSync ----------------------------------
\* Instances of ClientSync for TLC.
EXTENDS ClientSync

MCChar == {"s", "t", "1", "2", "3"}
MCSeed == <<"s">>
MCKeys == <<"1", "2", "3">>
=============================================================================
