-------------------------------- MODULE Crawl --------------------------------
(***************************************************************************)
(* What a walk of the mesh promises its reader, apart from goroutines,     *)
(* channels and wait groups: each node that an answering node names is     *)
(* found once and reported once, and the walk ends when all were reported. *)
(***************************************************************************)
CONSTANTS Node, Start, Links

VARIABLES
    begun,      \* has the starting node answered?
    found,      \* nodes named by a node that answered
    answered,   \* nodes whose list of hosts is known
    reported,   \* found nodes the reader was told of
    over        \* was the reader told that there is no more?

crawl == <<begun, found, answered, reported, over>>

Init ==
    /\ begun = FALSE /\ over = FALSE
    /\ found = {} /\ answered = {} /\ reported = {}

Begin ==
    /\ ~begun /\ begun' = TRUE
    /\ UNCHANGED <<found, answered, reported, over>>

\* A found node answers; one that never does is reported all the same.
Answer(n) ==
    /\ n \in found \ (answered \cup reported)
    /\ answered' = answered \cup {n}
    /\ UNCHANGED <<begun, found, reported, over>>

Find(n) ==
    /\ ~over /\ n \notin found
    /\ \/ begun /\ n \in Links[Start]
       \/ \E m \in answered \ reported : n \in Links[m]
    /\ found' = found \cup {n}
    /\ UNCHANGED <<begun, answered, reported, over>>

\* Before a node that answered is reported, all it names has been found.
Report(n) ==
    /\ ~over
    /\ n \in found \ reported
    /\ n \in answered => Links[n] \subseteq found
    /\ reported' = reported \cup {n}
    /\ UNCHANGED <<begun, found, answered, over>>

Finish ==
    /\ ~over /\ begun /\ Links[Start] \subseteq found
    /\ found = reported
    /\ over' = TRUE
    /\ UNCHANGED <<begun, found, answered, reported>>

Next == Begin \/ Finish \/ \E n \in Node : Answer(n) \/ Find(n) \/ Report(n)

Spec == Init /\ [][Next]_crawl
=============================================================================
