---------------------------- MODULE WalkPromise ----------------------------
(***************************************************************************)
(* What a provider walk promises, with nothing of how it is done: it has a *)
(* set of providers to ask, asks one at a time and none of them twice, and *)
(* gives way to another walk only when the user's errand changes.          *)
(***************************************************************************)
CONSTANTS Providers, None

VARIABLES
    errand,   \* what the user wants; a value of any kind
    walking,  \* a walk is on
    left,     \* the providers it may still ask
    asking    \* the provider being asked, or None

PromiseInit == ~walking /\ left = {} /\ asking = None

Ask(mayAsk) ==
    \E p \in mayAsk : asking' = p /\ left' \subseteq mayAsk \ {p} /\ walking'

Begin == (walking => errand' # errand) /\ Ask(Providers)

Hop == walking /\ Ask(left)

Over == ~walking' /\ left' = {} /\ asking' = None

PromiseNext == Begin \/ Hop \/ Over

PromiseSpec == PromiseInit /\ [][PromiseNext]_<<walking, left, asking>>
=============================================================================
