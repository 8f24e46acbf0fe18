--------------------------- MODULE MCParallelFor ----------------------------
EXTENDS ParallelFor

Loop(n, h, c, cores) == [max_nw |-> n, height |-> h, chunk |-> c, numCores |-> cores]

\* Every branch of init_data(), setF() and sendTask(): a core for the scheduler
\* or none; 0, 1 or 2 tasks over an equal share; an odd task that doubles the
\* chunk; enough tasks to send two at first; fewer than workers; static blocks.
MCLoops ==
    {Loop(3, 7, 1, 4), Loop(3, 8, 1, 4), Loop(3, 11, 2, 4), Loop(2, 17, 2, 4)}
    \cup {Loop(3, 5, 1, 3), Loop(3, 7, 2, 3), Loop(2, 13, 2, 1)}
    \cup {Loop(3, 2, 1, 4), Loop(3, 1, 1, 4), Loop(3, 7, 0, 4), Loop(3, 2, 0, 4)}
=============================================================================
