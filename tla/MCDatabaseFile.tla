--------------------------- MODULE MCDatabaseFile ---------------------------
(* Two controller processes on one database file, with a thread each.       *)
EXTENDS DatabaseFile

CONSTANTS t1, t2, p1, p2, run1, s1, l1, l2, c1, c2

MCThreads == {t1, t2}
MCProcesses == {p1, p2}
MCProcessOf == [t \in MCThreads |-> IF t = t1 THEN p1 ELSE p2]

\* A run's context, and one record of it with two different payloads.  Records of
\* one kind are all saved with the same label; l2 comes from an edit alone.
MCItems ==
  {[run |-> run1, subject |-> "context", label |-> "none", payload |-> c1]} \cup
  [run : {run1}, subject : {s1}, label : {l1}, payload : {c1, c2}]
=============================================================================
