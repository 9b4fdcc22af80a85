------------------------------- MODULE MCPodPool -------------------------------
(* The scheduler for TLC: two cases and two pods of one type. *)
EXTENDS PodPool, TLC
CONSTANTS c1, c2, ta, r1, r2, p1, p2

\* One pod is kept warm, two may be in use.
OneType == [p \in {p1, p2} |-> ta]
OneWarm == [t \in {ta} |-> 1]
OneMax  == [t \in {ta} |-> 2]

\* Cases, requests and pods are interchangeable.
Symmetric == Permutations(Cases) \cup Permutations(Requests) \cup Permutations(Pods)

================================================================================
