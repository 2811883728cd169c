----------------------------- MODULE MCSsoSignIn -----------------------------
(* An instance of SsoSignIn for TLC. *)
EXTENDS SsoSignIn, TLC

CONSTANTS acme, globex, emma, ed, anna, guest

\* Emma may sign in; Ed works for another organization, Anna's email
\* is not verified, and the guest has no account.
MCAccountOf == emma :> emma @@ ed :> ed @@ anna :> anna
                 @@ guest :> NoUser
MCOrgOf == emma :> acme @@ ed :> globex @@ anna :> acme

Symmetry == Permutations(Browser) \cup Permutations(Flow) \cup Permutations(Visit)
=============================================================================
