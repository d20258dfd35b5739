------------------------------ MODULE MCSignIn ------------------------------
(* SignIn for TLC: bob is a moderator written into the file by hand. *)
EXTENDS SignIn

CONSTANTS
    alice, bob, home,
    MaxVersion,       \* bound: versions of all sessions
    MaxChallenges,    \* bound: challenges given out
    MaxEvents         \* bound: failures, secrets and sessions of one behaviour

MCRoleOf == [u \in Users |-> IF u = bob THEN "moderator" ELSE NoUser]

\* Nothing set up; an account in the file; one in the environment; both, on the
\* machine of the panel.
MCInstalled ==
    {[env |-> NoUser, admin |-> NoUser, bypass |-> FALSE],
     [env |-> NoUser, admin |-> alice, bypass |-> FALSE],
     [env |-> alice, admin |-> NoUser, bypass |-> FALSE],
     [env |-> alice, admin |-> bob, bypass |-> TRUE]}

Failures == Cardinality(UNION {{<<k, i>> : i \in 1..Len(misses[k])} : k \in Keys})

FewEvents ==
    /\ auth.ver <= MaxVersion
    /\ Cardinality(challenges) <= MaxChallenges
    /\ Failures + Len(madeFor) + Cardinality(tokens) <= MaxEvents
=============================================================================
