----------------------------- MODULE MCZmqPipe ------------------------------
EXTENDS ZmqPipe

\* A socket terminates at once, a session waits if it lingers.
MCEnds == {"socket", "session"}
MCDelays == [e \in MCEnds |-> IF e = "socket" THEN {FALSE} ELSE BOOLEAN]
MCTerminates == [e \in MCEnds |-> IF e = "socket" THEN 1 ELSE 2]
MCHwm == [e \in MCEnds |-> IF e = "socket" THEN 3 ELSE 1]
MCMessages == [e \in MCEnds |-> IF e = "socket" THEN 4 ELSE 2]
=============================================================================
