------------------------------ MODULE MCRedirect ------------------------------
(* Small instance of Redirect: three nodes, one of them older than the keys. *)
EXTENDS Redirect

CONSTANTS n1, n2, n3, ada, eve, prod, odd

Plainly(user) == [credentials |-> user, keyed |-> FALSE, use |-> None]

MCNodes == {n1, n2, n3}
MCUsers == {ada, eve}
MCMinor == [n \in MCNodes |-> IF n = n3 THEN KEYED_MINOR - 1 ELSE KEYED_MINOR]
MCRequests ==
    {Plainly(user) : user \in MCUsers \cup {None}}
    \cup [credentials : {ada, None}, keyed : {TRUE}, use : {None}]
    \cup [credentials : {None}, keyed : {FALSE},
          use : {<<"NAMESPACE", prod>>, <<"NAMESPACE", odd>>, <<"DATABASE", prod>>}]
==============================================================================
