--------------------------- MODULE MCAuthSession ---------------------------
(***************************************************************************)
(* Settings before and after a cookie domain is introduced and the secret  *)
(* replaced, without a password file, without device tokens and without a  *)
(* secret.                                                                 *)
(***************************************************************************)
EXTENDS AuthSession

Options(secret, domain) ==
    [secret |-> secret, domain |-> domain, htpasswd |-> TRUE, device |-> TRUE]

MCOptionsSet ==
    {Options("s1", Unset), Options("s1", "d1"),
     [Options("s2", "d2") EXCEPT !.device = FALSE],
     Options(Unset, Unset),
     [Options("s1", Unset) EXCEPT !.htpasswd = FALSE]}

MCNextValues ==
    {<<"none">>, <<"page">>, <<"own">>, <<"logout", "none">>,
     <<"login", "logout", "page">>, <<"trust", "login", "page">>}
=============================================================================
