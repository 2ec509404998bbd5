------------------------------ MODULE MCReaper ------------------------------
EXTENDS Reaper

\* Each stage takes as long as its threshold allows: the deadline until azcopy is there, the
\* stale limit after that.
MCLimit == [start |-> Deadline, tooling |-> Stale, clone |-> Stale, ready |-> 0]
=============================================================================
