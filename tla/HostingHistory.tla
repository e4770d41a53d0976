---------------------------- MODULE HostingHistory ----------------------------
(***************************************************************************)
(* DeploymentReconciler with what it takes to compare it with Hosting: two *)
(* history variables, and the mapping of its objects to wishes and claims. *)
(***************************************************************************)
EXTENDS DeploymentReconciler

CONSTANTS
    None,       \* no wish, no claim, or no Deployment
    Others      \* the Deployment is held by another field manager

VARIABLES
    asked,      \* every generation of every server there has been
    granted     \* those whose Deployment has been in place

WishOf(s, o) == [server |-> s, inc |-> o.inc, generation |-> o.generation, spec |-> o.spec]

wish == [s \in Server |-> IF server[s].exists THEN WishOf(s, server[s]) ELSE None]

hosted ==
    [d \in Deployment |->
        LET o == deployment[d]
        IN  IF ~ o.exists THEN None
            ELSE IF o.manager = Foreign THEN Others
            ELSE [server |-> o.owner, inc |-> o.inc, spec |-> o.spec]]

claim ==
    [s \in Server |->
        IF server[s].exists /\ server[s].status.failure = "False"
        THEN [inc |-> server[s].inc, generation |-> server[s].status.observedGeneration]
        ELSE None]

Promise == INSTANCE Hosting

Records == Promise!Wish \cup [server: Server \cup {NoServer}, inc: Nat, spec: Spec \cup {NoSpec}]
                        \cup [inc: Nat, generation: Nat]

ASSUME HistoryAssumption ==
    /\ None # Others
    /\ None \notin Records
    /\ Others \notin Records

historyVars == <<vars, asked, granted>>

HistoryInit ==
    /\ Init
    /\ asked = {wish[s] : s \in Server} \ {None}
    /\ granted = {}

Remember ==
    /\ asked' = asked \cup ({wish'[s] : s \in Server} \ {None})
    /\ granted' = granted \cup {w \in asked' : hosted'[DeploymentOf[w.server]] = Promise!Hosted(w)}

HistoryNext == Next /\ Remember

HistorySpec == HistoryInit /\ [][HistoryNext]_historyVars

\* The controllers keep what they promise, whatever their caches, workers and
\* lost or late requests do on the way.
KeepsPromise == Promise!HostingSpec
===============================================================================
