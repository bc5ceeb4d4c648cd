------------------------------ MODULE MCPortal ------------------------------
(* Instances of Portal for TLC. *)
EXTENDS Portal

OneEach == [k \in Kinds |-> 1]

Good(route) == [route |-> route, db |-> "postgres", cookie |-> TRUE, origin |-> TRUE,
                csrf |-> "header", body |-> "fits"]

\* Requests that compete for what is shared, and requests with a flaw each.
Competing == {Good(r) : r \in {"issue_form", "revoke", "logout", "index"}}
Flawed ==
    {[Good("issue") EXCEPT !.body = b] : b \in Bodies \ {"fits"}}
    \cup {[Good("issue_form") EXCEPT !.csrf = "bad"],
          [Good("issue_form") EXCEPT !.csrf = "form", !.body = "streamed"],
          [Good("issue_form") EXCEPT !.body = "streamed"],
          [Good("issue_form") EXCEPT !.body = "invalid"],
          [Good("revoke") EXCEPT !.cookie = FALSE],
          [Good("revoke") EXCEPT !.origin = FALSE],
          [Good("rotate") EXCEPT !.csrf = "bad"],
          [Good("login") EXCEPT !.body = "streamed"],
          [Good("login") EXCEPT !.cookie = FALSE]}
MCRequests == Competing \cup Flawed \cup {Good(r) : r \in {"rotate", "tables", "list"}}
=============================================================================
