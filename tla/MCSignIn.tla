------------------------------ MODULE MCSignIn ------------------------------
(***************************************************************************)
(* An instance of SignIn for TLC: a hosted client whose URI one of two     *)
(* lists has, by a star, a client on the laptop, and one whose URI no list *)
(* can save.                                                               *)
(***************************************************************************)
EXTENDS SignIn, TLC

CONSTANTS f1, f2, f3

MCWeb == [parses |-> TRUE, protocol |-> "https:", hash |-> FALSE, loopback |-> FALSE,
          target |-> <<"https://a.example", "/cb/", "123">>]
MCLocal == [MCWeb EXCEPT !.protocol = "http:", !.loopback = TRUE, !.target = <<"http://localhost">>]

MCUri == (f1 :> MCWeb) @@ (f2 :> MCLocal) @@ (f3 :> [MCLocal EXCEPT !.hash = TRUE])

MCLists == {{[star |-> TRUE, text |-> <<"https://a.example", "/cb/">>]},
            {[star |-> FALSE, text |-> <<"https://a.example", "/cb/">>]}}

=============================================================================
