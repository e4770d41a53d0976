------------------------------- MODULE Hosting -------------------------------
(***************************************************************************)
(* What the three hosting controllers promise, without caches, workqueues, *)
(* workers and requests: users ask for components, Deployments host what   *)
(* was asked for, and a status claims no more than has been done.          *)
(*                                                                         *)
(* A wish is one generation of one incarnation of a custom resource.       *)
(***************************************************************************)
EXTENDS Naturals

CONSTANTS
    Server,         \* custom resources, by name
    KindOf,         \* the controller of a server
    Deployment,     \* names a Deployment can have
    DeploymentOf,   \* the Deployment name of a server
    Spec,           \* what users may ask of a server
    None,           \* no wish, no claim, or no Deployment
    Others          \* the Deployment is held by another field manager

Wish == [server: Server, inc: Nat, generation: Nat, spec: Spec]

\* What a Deployment hosts, by which its owner is known: it names no generation.
Hosted(w) == [server |-> w.server, inc |-> w.inc, spec |-> w.spec]
Claimed(w) == [inc |-> w.inc, generation |-> w.generation]

VARIABLES
    wish,       \* what the user asks of a server now
    asked,      \* every wish there has been
    hosted,     \* what each Deployment hosts
    granted,    \* the wishes that a Deployment has hosted
    claim       \* the wish a server's status says is applied

vars == <<wish, asked, hosted, granted, claim>>

Init ==
    /\ wish \in [Server -> Wish \cup {None}]
    /\ \A s \in Server : wish[s] # None => wish[s].server = s
    /\ asked = {wish[s] : s \in Server} \ {None}
    /\ hosted = [d \in Deployment |-> None]
    /\ granted = {}
    /\ claim = [s \in Server |-> None]

\* The wishes that the Deployments of now host.
HostedNow(wishes, deployments) ==
    {w \in wishes : deployments[DeploymentOf[w.server]] = Hosted(w)}

Newer(w, v) == w.inc > v.inc \/ (w.inc = v.inc /\ w.generation > v.generation)

\* A user creates or edits a server.  A claim about an earlier generation stays.
Ask(s) ==
    /\ wish'[s] \in Wish
    /\ wish'[s].server = s
    /\ \A v \in asked : v.server = s => Newer(wish'[s], v)
    /\ wish[s] # None => wish'[s].inc = wish[s].inc
    /\ wish' = [wish EXCEPT ![s] = wish'[s]]
    /\ asked' = asked \cup {wish'[s]}
    /\ granted' = granted \cup HostedNow(asked', hosted)
    /\ UNCHANGED <<hosted, claim>>

\* The server is gone, and its status with it.
Withdraw(s) ==
    /\ wish[s] # None
    /\ wish' = [wish EXCEPT ![s] = None]
    /\ claim' = [claim EXCEPT ![s] = None]
    /\ UNCHANGED <<asked, hosted, granted>>

\* A Deployment is made to host something that was asked for, perhaps long ago,
\* but never taken from another controller or field manager.
Host(d, w) ==
    /\ w \in asked
    /\ DeploymentOf[w.server] = d
    /\ hosted[d] # Others
    /\ hosted[d] # None => KindOf[hosted[d].server] = KindOf[w.server]
    /\ hosted' = [hosted EXCEPT ![d] = Hosted(w)]
    /\ granted' = granted \cup HostedNow(asked, hosted')
    /\ UNCHANGED <<wish, asked, claim>>

\* The Deployment is deleted, or taken by somebody else.
Lose(d) ==
    /\ \E lost \in {None, Others} : hosted' = [hosted EXCEPT ![d] = lost]
    /\ UNCHANGED <<wish, asked, granted, claim>>

\* A status says that the current generation is applied: it has been.
Claim(s) ==
    /\ wish[s] \in granted
    /\ claim' = [claim EXCEPT ![s] = Claimed(wish[s])]
    /\ UNCHANGED <<wish, asked, hosted, granted>>

Retract(s) ==
    /\ claim' = [claim EXCEPT ![s] = None]
    /\ UNCHANGED <<wish, asked, hosted, granted>>

Next ==
    \/ \E s \in Server : Ask(s) \/ Withdraw(s) \/ Claim(s) \/ Retract(s)
    \/ \E d \in Deployment : (\E w \in asked : Host(d, w)) \/ Lose(d)

HostingSpec == Init /\ [][Next]_vars

-----------------------------------------------------------------------------
\* A status that says "Applied" of a generation is about a generation that a
\* Deployment has really hosted.
ClaimsWereGranted ==
    \A s \in Server : claim[s] # None =>
        \E w \in granted : w.server = s /\ Claimed(w) = claim[s]

\* No Deployment hosts what nobody ever asked for.
HostsWishes ==
    \A d \in Deployment : hosted[d] \notin {None, Others} =>
        \E w \in asked : Hosted(w) = hosted[d] /\ DeploymentOf[w.server] = d
==============================================================================
