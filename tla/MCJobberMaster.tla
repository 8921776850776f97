---------------------------- MODULE MCJobberMaster ----------------------------
(***************************************************************************)
(* A small instance of JobberMaster for TLC.                               *)
(***************************************************************************)
EXTENDS JobberMaster

CONSTANTS alice, bob, carol, dave

FourUsers == {alice, bob, carol, dave}

OwnHome(name, home) ==
  [name |-> name, home |-> home, absolute |-> TRUE, owned |-> TRUE, hidden |-> FALSE]

\* carol does not own her home directory; dave is hidden.
Accounts == [u \in Users |->
  CASE u = alice -> OwnHome("svc-a", "/srv/a")
    [] u = bob   -> OwnHome("svc-b", "/home/b")
    [] u = carol -> [OwnHome("carol", "/srv/a") EXCEPT !.owned = FALSE]
    [] u = dave  -> [OwnHome("_svc", "/srv/d") EXCEPT !.hidden = TRUE]]

Entry(names, homes) == [username |-> names, home |-> homes]

Lists == {<<>>,
          <<Entry({"svc-a", "svc-b"}, {"/srv/a"})>>,
          <<Entry({"nobody"}, Blank), Entry({"svc-b"}, Blank)>>,
          <<Entry(Blank, Blank)>>}

Files == [exists : BOOLEAN, wellFormed : BOOLEAN, include : Lists, exclude : Lists]

=============================================================================
