---------------------------- MODULE ContentStore ----------------------------
(***************************************************************************)
(* What the dataset artifact cache promises to the runs that use it: an    *)
(* intact tree that somebody holds or has rooted stays where it is, and a   *)
(* construction recipe is bound to one tree for good.  Leases, locks, the   *)
(* catalog, staging and garbage do not appear here; ArtifactCache shows how *)
(* they deliver it.                                                         *)
(***************************************************************************)
EXTENDS Naturals

CONSTANTS
    Digests,   \* content addresses
    Recipes,   \* construction identities
    Holders,   \* whoever can hold a tree: a process, or a named root
    None       \* no tree

VARIABLES
    live,   \* the tree at each address: none, good, or bad (tampered with)
    pins,   \* <<h, d>>: holder h relies on the tree at address d
    bound   \* the tree each recipe constructs, once it is known

vars == <<live, pins, bound>>

Init ==
    /\ live = [d \in Digests |-> "none"]
    /\ pins = {}
    /\ bound = [r \in Recipes |-> None]

Publish(d) ==
    /\ live[d] = "none"
    /\ live' = [live EXCEPT ![d] = "good"]
    /\ UNCHANGED <<pins, bound>>

Pin(h, d) ==
    /\ live[d] # "none"
    /\ pins' = pins \cup {<<h, d>>}
    /\ UNCHANGED <<live, bound>>

Unpin(h, d) ==
    /\ pins' = pins \ {<<h, d>>}
    /\ UNCHANGED <<live, bound>>

Bind(r, d) ==
    /\ bound[r] = None
    /\ live[d] = "good"
    /\ bound' = [bound EXCEPT ![r] = d]
    /\ UNCHANGED <<live, pins>>

\* Somebody outside the program changes bytes beneath the cache.
Damage(d) ==
    /\ live[d] = "good"
    /\ live' = [live EXCEPT ![d] = "bad"]
    /\ UNCHANGED <<pins, bound>>

\* Damage is noticed: the tree leaves its address, and whoever noticed it
\* through a hold gives that hold up.
Discard(d) ==
    /\ live[d] = "bad"
    /\ live' = [live EXCEPT ![d] = "none"]
    /\ pins' \in {pins} \cup {pins \ {<<h, d>>} : h \in Holders}
    /\ UNCHANGED bound

\* Collection takes only trees that nobody relies on.
Collect(d) ==
    /\ \A h \in Holders : <<h, d>> \notin pins
    /\ live' = [live EXCEPT ![d] = "none"]
    /\ UNCHANGED <<pins, bound>>

Next ==
    \E d \in Digests :
       \/ Publish(d) \/ Damage(d) \/ Discard(d) \/ Collect(d)
       \/ \E h \in Holders : Pin(h, d) \/ Unpin(h, d)
       \/ \E r \in Recipes : Bind(r, d)

Spec == Init /\ [][Next]_vars
=============================================================================
