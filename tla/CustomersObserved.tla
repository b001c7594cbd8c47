------------------------- MODULE CustomersObserved -------------------------
(***************************************************************************)
(* Customers with a history variable: what was true of the collection at   *)
(* some moment of each request.  An answer computed from several commands  *)
(* is right when it was true at one of those moments.                      *)
(***************************************************************************)
EXTENDS Customers

VARIABLE since   \* the facts that held while the request was under way

Facts == {"clash", "changed", "gone"}

\* What the errors of a request say of the customers.
Clash(c) == EmailTaken(req[c].email, req[c].id)
Gone(c) == req[c].id # None /\ ~Exists(req[c].id)
Changed(c) ==
  /\ req[c].id # None /\ Exists(req[c].id)
  /\ req[c].match # AnyVersion
  /\ req[c].match # customers[req[c].id].version

FactsNow(c) == {f \in Facts : \/ f = "clash" /\ Clash(c)
                              \/ f = "gone" /\ Gone(c)
                              \/ f = "changed" /\ Changed(c)}

Observe ==
  since' = [c \in Clients |-> IF req[c] # None /\ req'[c] # None
                              THEN since[c] \cup FactsNow(c) ELSE {}]

ObservedInit == Init /\ since = [c \in Clients |-> {}]

ObservedNext == Next /\ Observe

ObservedSpec == ObservedInit /\ [][ObservedNext]_<<vars, since>>

\* Each error a POST or PATCH ends in names something that was the case at
\* some moment between the request and its answer: another customer had the
\* email, the customer had another version, the customer did not exist.  The
\* first holds of the requests that spell the id as the API prints it: any
\* other spelling makes a customer a duplicate of itself.
ErrorsWereTrue ==
  [][\A c \in Clients :
       req[c] # None /\ req'[c] = None =>
         LET known == since[c] \cup FactsNow(c) IN
         /\ answer'.what \in {"CUSTOMER_DUPLICATE_EMAIL", "DB_DUPLICATE_KEY"}
              /\ req[c].asPrinted => "clash" \in known
         /\ answer'.what = "CUSTOMER_ETAG_MISMATCH" => "changed" \in known
         /\ answer'.what = "CUSTOMER_NOT_FOUND" => "gone" \in known]_<<vars, since>>
=============================================================================
