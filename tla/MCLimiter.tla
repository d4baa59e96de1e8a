----------------------------- MODULE MCLimiter -----------------------------
(***************************************************************************)
(* Constants of the runs of Limiter: two routes, and the policies with     *)
(* limits in reach.                                                        *)
(***************************************************************************)
EXTENDS Limiter

TwoRoutes == {[method |-> "POST", path |-> <<"users", "me", "phone", "request">>],
              [method |-> "GET", path |-> <<"products">>]}

SomePolicies ==
    [i \in 1..Len(DefaultPolicies) |->
        [DefaultPolicies[i] EXCEPT !.limit = IF @ > 100 THEN 2 ELSE 1]]

=============================================================================
