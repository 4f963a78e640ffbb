--------------------------- MODULE MCGuestSession ---------------------------
(***************************************************************************)
(* Instances of GuestSession: a host has everything to offer, or nothing.  *)
(***************************************************************************)
EXTENDS GuestSession, TLC

Offers(token, hosts, agent) ==
    ("gh-token" :> token) @@ ("ssh-known-hosts" :> hosts) @@ ("ssh-agent" :> agent)
MCConfig == {Offers(TRUE, TRUE, TRUE), Offers(FALSE, FALSE, FALSE)}
=============================================================================
