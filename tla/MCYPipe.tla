------------------------------ MODULE MCYPipe -------------------------------
EXTENDS YPipe, TLC

\* Addresses are alike.  Sound: no property of the run is about liveness.
ChunkSymmetry == Permutations(Chunks)
=============================================================================
