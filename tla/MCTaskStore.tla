---------------------------- MODULE MCTaskStore ----------------------------
\* The instances of TaskStore that TLC checks.
EXTENDS TaskStore, TLC

\* Tasks that continue nothing; a series of a root task and its episodes.
Alone  == [t \in Task |-> None]
Series == LET root == CHOOSE t \in Task : TRUE
          IN [t \in Task |-> IF t = root THEN None ELSE root]

\* Objects and coroutines are interchangeable.
Symmetry == Permutations(Object) \cup Permutations(Coroutine)
=============================================================================
