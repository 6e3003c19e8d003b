----------------------------- MODULE MCScreens -----------------------------
(***************************************************************************)
(* A small instance of Screens: two browsers of one address.               *)
(***************************************************************************)
EXTENDS Screens, TLC

CONSTANTS b1, b2

\* Requests of both count against one limit.
SameAddress == [b \in {b1, b2} |-> "lan"]

\* A page that logs in, checks and logs out; two pages that set up and log in; an account
\* form beside a second page.
UsesOfTwo ==
  {(b1 :> {"page", "check", "logout"}) @@ (b2 :> {}),
   (b1 :> {"page"}) @@ (b2 :> {"page"}),
   (b1 :> {}) @@ (b2 :> {"page", "dialog"})}
=============================================================================
