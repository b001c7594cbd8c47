---------------------- MODULE CustomersObservedProofs ----------------------
(***************************************************************************)
(* For any number of clients, customers and emails: the errors that        *)
(* requests end in were true at a moment of the request.                   *)
(***************************************************************************)
EXTENDS CustomersObserved, CustomersProofs

\* A request that creates a customer names none.
NewHasNoId == \A c \in Clients :
  req[c] # None /\ req[c].step \in {"checkNew", "insert"} => req[c].id = None

\* A request that reads again has not found the version it asked for: the
\* customer had another one at some moment, or is gone for good if the version
\* was one of its own.
RereadForCause == \A c \in Clients :
  req[c] # None /\ req[c].step = "reread" =>
    /\ req[c].match # AnyVersion
    /\ \/ "changed" \in since[c]
       \/ req[c].match \in Nat => ~Exists(req[c].id)

OInv == IInv /\ NewHasNoId /\ RereadForCause

-----------------------------------------------------------------------------
\* A customer that is gone stays so: its id is not handed out again.
LEMMA GoneForGood ==
  ASSUME IInv, Next, NEW i \in Ids \ unused, ~Exists(i)
  PROVE  ~Exists(i)'
<1>1. TypeOK
  BY DEF IInv
<1>2. ASSUME NEW c \in Clients,
             \/ CheckNew(c) \/ CheckEmail(c) \/ Reread(c) \/ CommandFails(c)
             \/ \E e \in Emails : Post(c, e)
             \/ \E k \in Ids, e \in Emails \cup {None} : Patch(c, k, e)
             \/ \E k \in Ids : Get(c, k)
      PROVE  UNCHANGED customers
  BY <1>2 DEF CheckNew, CheckEmail, Reread, CommandFails, Post, Patch, Begin,
              Get
<1>3. ASSUME NEW c \in Clients, Insert(c) PROVE ~Exists(i)'
  BY <1>1, <1>3 DEF Insert, Exists, TypeOK
<1>4. ASSUME NEW c \in Clients, Update(c) PROVE ~Exists(i)'
  BY <1>1, <1>4 DEF Update, Matches, Exists, TypeOK
<1>5. ASSUME NEW c \in Clients, NEW k \in Ids, Delete(c, k)
      PROVE  ~Exists(i)'
  BY <1>1, <1>5 DEF Delete, Exists, TypeOK
<1>6. ASSUME NEW e \in Emails, Import(e) PROVE ~Exists(i)'
  BY <1>1, <1>6 DEF Import, Holders, Exists, TypeOK
<1>7. CreateIndexes => UNCHANGED customers
  BY DEF CreateIndexes
<1>8. UNCHANGED customers => ~Exists(i)'
  BY DEF Exists
<1>9. QED
  BY <1>2, <1>3, <1>4, <1>5, <1>6, <1>7, <1>8 DEF Next, Served, RequestStep

\* What a step may make of a request: it begins, stays, goes on or ends.
Begins(c) == req[c] = None /\ req'[c] # None /\
  /\ req'[c].step \in {"checkNew", "checkEmail", "update"}
  /\ req'[c].step = "checkNew" => req'[c].id = None

GoesOn(c) == req[c] # None /\ \E step \in Steps :
  /\ req'[c] = [req[c] EXCEPT !.step = step]
  /\ \/ req[c].step = "checkNew" /\ step = "insert"
     \/ req[c].step = "checkEmail" /\ step = "update"
     \/ /\ req[c].step = "update" /\ step = "reread"
        /\ ~Matches(req[c]) /\ req[c].match # AnyVersion

LEMMA RequestsMove ==
  ASSUME IInv, Next, NEW c \in Clients, req'[c] # None
  PROVE  req'[c] = req[c] \/ Begins(c) \/ GoesOn(c)
<1>1. TypeOK
  BY DEF IInv
<1>2. ASSUME NEW d \in Clients, NEW what, Reply(d, what)
      PROVE  req'[c] = req[c]
  BY <1>1, <1>2 DEF Reply, TypeOK
<1>3. ASSUME NEW d \in Clients, NEW e, Throw(d, e)
      PROVE  req'[c] = req[c]
  BY <1>2, <1>3 DEF Throw
<1>4. ASSUME NEW d \in Clients, NEW e \in Emails, Post(d, e)
      PROVE  req'[c] = req[c] \/ Begins(c)
  BY <1>1, <1>4 DEF Post, Begin, Begins, TypeOK
<1>5. ASSUME NEW d \in Clients, NEW i \in Ids, NEW e \in Emails \cup {None},
             Patch(d, i, e)
      PROVE  req'[c] = req[c] \/ Begins(c)
  BY <1>1, <1>5 DEF Patch, Begin, Begins, TypeOK
<1>6. ASSUME NEW d \in Clients, CheckNew(d)
      PROVE  req'[c] = req[c] \/ GoesOn(c)
  BY <1>1, <1>3, <1>6 DEF CheckNew, Proceed, GoesOn, TypeOK, Steps
<1>7. ASSUME NEW d \in Clients, CheckEmail(d)
      PROVE  req'[c] = req[c] \/ GoesOn(c)
  BY <1>1, <1>3, <1>7 DEF CheckEmail, Proceed, GoesOn, TypeOK, Steps
<1>8. ASSUME NEW d \in Clients, Update(d)
      PROVE  req'[c] = req[c] \/ GoesOn(c)
  <2>1. CASE Proceed(d, "reread") /\ ~Matches(req[d]) /\ req[d].match # AnyVersion
    BY <1>1, <1>8, <2>1 DEF Update, Proceed, GoesOn, TypeOK, Steps
  <2>2. CASE (\E e : Throw(d, e)) \/ Reply(d, "updated")
    BY <1>2, <1>3, <2>2
  <2>3. QED BY <1>8, <2>1, <2>2 DEF Update
<1>9. ASSUME NEW d \in Clients,
             \/ Insert(d) \/ Reread(d) \/ CommandFails(d)
             \/ \E i \in Ids : Get(d, i) \/ Delete(d, i)
      PROVE  req'[c] = req[c]
  BY <1>2, <1>3, <1>9 DEF Insert, Reread, CommandFails, Get, Delete
<1>10. (\E e \in Emails : Import(e)) \/ CreateIndexes => req'[c] = req[c]
  BY DEF Import, CreateIndexes
<1>11. QED
  BY <1>4, <1>5, <1>6, <1>7, <1>8, <1>9, <1>10 DEF Next, Served, RequestStep

LEMMA NextObserved ==
  ASSUME OInv, ObservedNext
  PROVE  OInv'
<1>0. IInv /\ Next /\ TypeOK
  BY DEF OInv, IInv, ObservedNext
<1>1. IInv'
  BY <1>0, NextInv
<1>2. \A c \in Clients : req'[c] # None =>
        req'[c] = req[c] \/ Begins(c) \/ GoesOn(c)
  BY <1>0, RequestsMove
<1>3. \A c \in Clients : req[c] # None => req[c] \in Request
  BY <1>0 DEF TypeOK
<1>4. NewHasNoId'
  BY <1>2, <1>3 DEF OInv, NewHasNoId, Begins, GoesOn, Request
<1>5. RereadForCause'
  <2> SUFFICES ASSUME NEW c \in Clients, req'[c] # None,
                      req'[c].step = "reread"
               PROVE  /\ req'[c].match # AnyVersion
                      /\ \/ "changed" \in since'[c]
                         \/ req'[c].match \in Nat =>
                              customers'[req'[c].id] = None
    BY DEF RereadForCause, Exists
  <2>1. req[c] # None /\ req'[c].id = req[c].id /\ req'[c].match = req[c].match
    BY <1>2, <1>3 DEF Begins, GoesOn, Request
  <2>2. since'[c] = since[c] \cup FactsNow(c)
    BY <2>1 DEF ObservedNext, Observe
  <2>3. req[c].match \in Nat => req[c].id \in Ids \ unused
    BY <1>0, <2>1 DEF IInv, TypeOK, MatchIsOfTag, TagsOfUsedIds, ETag
  <2>4. req[c].match \in Nat /\ ~Exists(req[c].id) =>
          customers'[req'[c].id] = None
    BY <1>0, <2>1, <2>3, GoneForGood DEF Exists
  <2>5. CASE req'[c] = req[c]
    BY <2>1, <2>2, <2>4, <2>5 DEF OInv, RereadForCause
  <2>6. CASE GoesOn(c)
    <3>1. ~Matches(req[c]) /\ req[c].match # AnyVersion /\ req[c].step = "update"
      BY <1>3, <2>1, <2>6 DEF GoesOn, Request
    <3>2. req[c].id # None
      BY <1>0, <2>1, <3>1, NoneAssumption DEF IInv, FieldsSent, FieldsOf
    <3>3. Exists(req[c].id) => "changed" \in FactsNow(c)
      BY <3>1, <3>2 DEF Matches, FactsNow, Facts, Changed
    <3>4. QED BY <2>1, <2>2, <2>4, <3>1, <3>3
  <2>7. QED BY <1>2, <2>1, <2>5, <2>6 DEF Begins
<1>6. QED BY <1>1, <1>4, <1>5 DEF OInv

-----------------------------------------------------------------------------
\* The facts an answer names, and the errors that hold of a request when it is
\* answered.
Truthful(c) ==
  LET known == since[c] \cup FactsNow(c) IN
  /\ answer'.what \in {"CUSTOMER_DUPLICATE_EMAIL", "DB_DUPLICATE_KEY"}
       /\ req[c].asPrinted => "clash" \in known
  /\ answer'.what = "CUSTOMER_ETAG_MISMATCH" => "changed" \in known
  /\ answer'.what = "CUSTOMER_NOT_FOUND" => "gone" \in known

LEMMA FactsAre ==
  ASSUME NEW c \in Clients
  PROVE  /\ Clash(c) => "clash" \in FactsNow(c)
         /\ Gone(c) => "gone" \in FactsNow(c)
         /\ Changed(c) => "changed" \in FactsNow(c)
BY DEF FactsNow, Facts

\* Each of the errors a request throws, with what makes it throw.
LEMMA Threw ==
  ASSUME IInv, NEW c \in Clients, NEW e, Throw(c, e),
         \/ e = DuplicateEmail /\ (req[c].asPrinted => Clash(c))
         \/ e = MongoError(DuplicateKey) /\ Clash(c)
         \/ e = NotFound /\ Gone(c)
         \/ e = EtagMismatch /\ ("changed" \in since[c] \/ Changed(c))
         \/ e \in {ConnectionLost, mapMongoError(ConnectionLost)}
  PROVE  Truthful(c)
<1>1. answer'.what = transformException(e).code
  BY DEF Throw, Reply
<1>2. QED BY <1>1, CodesOfErrors, FactsAre DEF Truthful

LEMMA ProceedGoesOn ==
  ASSUME IInv, NEW c \in Clients, req[c] # None, NEW step \in Steps,
         Proceed(c, step)
  PROVE  req'[c] # None
<1>1. req[c] \in Request
  BY DEF IInv, TypeOK
<1>2. [req[c] EXCEPT !.step = step] \in Request
  BY <1>1 DEF Request
<1>3. req'[c] = [req[c] EXCEPT !.step = step]
  BY DEF Proceed, IInv, TypeOK
<1>4. QED BY <1>2, <1>3, NoneAssumption

LEMMA StepsTruthful ==
  ASSUME OInv, NEW c \in Clients, RequestStep(c) \/ CommandFails(c),
         req'[c] = None
  PROVE  Truthful(c)
<1> DEFINE r == req[c]
<1>0. /\ r # None /\ r \in Request /\ IInv
      /\ \A step \in Steps : ~Proceed(c, step)
  BY ProceedGoesOn
     DEF OInv, IInv, TypeOK, RequestStep, CheckNew, Insert, CheckEmail, Update,
         Reread, CommandFails
<1>1. CASE CheckNew(c)
  <2>1. Throw(c, DuplicateEmail) /\ EmailTaken(r.email, None) /\ r.id = None
    BY <1>0, <1>1 DEF CheckNew, Steps, OInv, NewHasNoId
  <2>2. QED BY <1>0, <2>1, Threw DEF Clash
<1>2. CASE Insert(c)
  <2>1. r.id = None
    BY <1>2 DEF Insert, OInv, NewHasNoId
  <2>2. CASE Throw(c, DuplicateEmail) /\ Refused(r.email, None)
    BY <1>0, <2>1, <2>2, Threw DEF Clash, Refused
  <2>3. CASE Throw(c, mapMongoError(ConnectionLost))
    BY <1>0, <2>3, Threw
  <2>4. CASE Reply(c, "created")
    BY <2>4 DEF Reply, Truthful
  <2>5. QED BY <1>2, <2>2, <2>3, <2>4 DEF Insert
<1>3. CASE CheckEmail(c)
  <2>1. /\ Throw(c, DuplicateEmail)
        /\ \E k \in Holders(r.email, None) : ~IsSelf(r, k)
    BY <1>0, <1>3 DEF CheckEmail, Steps
  <2>2. r.asPrinted => Clash(c)
    BY <2>1 DEF IsSelf, Clash, EmailTaken, Holders
  <2>3. QED BY <1>0, <2>1, <2>2, Threw
<1>4. CASE Update(c)
  <2>0. r.id \in Ids /\ r.id # None
    BY <1>4, NoneAssumption DEF Update, OInv, IInv, FieldsSent, FieldsOf
  <2>1. CASE ~Matches(r) /\ r.match = AnyVersion /\ Throw(c, NotFound)
    <3>1. Gone(c)
      BY <2>0, <2>1 DEF Matches, Gone
    <3>2. QED BY <1>0, <2>1, <3>1, Threw
  <2>2. CASE Refused(r.email, r.id) /\ Throw(c, MongoError(DuplicateKey))
    BY <1>0, <2>2, Threw DEF Clash, Refused
  <2>3. CASE Throw(c, ConnectionLost)
    BY <1>0, <2>3, Threw
  <2>4. CASE Reply(c, "updated")
    BY <2>4 DEF Reply, Truthful
  <2>5. QED BY <1>0, <1>4, <2>1, <2>2, <2>3, <2>4 DEF Update, Steps
<1>5. CASE Reread(c)
  <2>0. r.step = "reread" /\ r.id \in Ids /\ r.id # None
    BY <1>5, NoneAssumption DEF Reread, OInv, IInv, FieldsSent, FieldsOf
  <2>1. CASE Exists(r.id)
    <3>1. Throw(c, EtagMismatch)
      BY <1>5, <2>1 DEF Reread
    <3>2. r.match # AnyVersion
          /\ ("changed" \in since[c] \/ r.match \notin Nat)
      BY <1>0, <2>0, <2>1 DEF OInv, RereadForCause
    <3>3. customers[r.id].version \in Nat
      BY <1>0, <2>0, <2>1 DEF IInv, TypeOK, Exists, Document, Customer
    <3>4. "changed" \in since[c] \/ Changed(c)
      BY <2>0, <2>1, <3>2, <3>3 DEF Changed
    <3>5. QED BY <1>0, <3>1, <3>4, Threw
  <2>2. CASE ~Exists(r.id)
    <3>1. Throw(c, NotFound) /\ Gone(c)
      BY <1>5, <2>0, <2>2 DEF Reread, Gone
    <3>2. QED BY <1>0, <3>1, Threw
  <2>3. QED BY <2>1, <2>2
<1>6. CASE CommandFails(c)
  BY <1>0, <1>6, Threw DEF CommandFails
<1>7. QED BY <1>1, <1>2, <1>3, <1>4, <1>5, <1>6 DEF RequestStep

\* A request ends in a step of its own.
LEMMA EndsByItself ==
  ASSUME IInv, Next, NEW c \in Clients, req[c] # None, req'[c] = None
  PROVE  RequestStep(c) \/ CommandFails(c)
<1>1. TypeOK
  BY DEF IInv
<1>2. ASSUME NEW d \in Clients \ {c}, NEW what, Reply(d, what) PROVE FALSE
  BY <1>1, <1>2 DEF Reply, TypeOK
<1>3. ASSUME NEW d \in Clients \ {c}, NEW e, Throw(d, e) PROVE FALSE
  BY <1>2, <1>3 DEF Throw
<1>4. ASSUME NEW d \in Clients \ {c}, NEW step \in Steps, Proceed(d, step)
      PROVE  FALSE
  BY <1>1, <1>4 DEF Proceed, TypeOK
<1>5. ASSUME NEW d \in Clients, NEW r, Begin(d, r) PROVE FALSE
  BY <1>1, <1>5 DEF Begin, TypeOK
<1>6. ASSUME NEW d \in Clients, NEW i \in Ids, Get(d, i) \/ Delete(d, i)
      PROVE  FALSE
  <2>1. d # c
    BY <1>6 DEF Get, Delete
  <2>2. QED BY <1>2, <1>3, <1>6, <2>1 DEF Get, Delete
<1>7. ASSUME NEW d \in Clients \ {c}, RequestStep(d) \/ CommandFails(d)
      PROVE  FALSE
  BY <1>2, <1>3, <1>4, <1>7
     DEF RequestStep, CheckNew, Insert, CheckEmail, Update, Reread,
         CommandFails, Steps
<1>8. ~CreateIndexes /\ \A e \in Emails : ~Import(e)
  BY DEF CreateIndexes, Import
<1>9. QED
  BY <1>5, <1>6, <1>7, <1>8 DEF Next, Served, Post, Patch

\* Whatever other requests and imports run meanwhile: an error a request ends
\* in was true at one of its moments.
THEOREM ErrorsOfAMoment == ObservedSpec => ErrorsWereTrue
<1> DEFINE True == \A c \in Clients :
                     req[c] # None /\ req'[c] = None => Truthful(c)
<1>1. ObservedInit => OInv
  <2>1. Init => NewHasNoId /\ \A c \in Clients : req[c] = None
    BY DEF Init, NewHasNoId
  <2>2. QED BY <2>1, InitInv DEF ObservedInit, OInv, RereadForCause
<1>2. OInv /\ [ObservedNext]_<<vars, since>> => OInv'
  <2>1. OInv /\ ObservedNext => OInv'
    BY NextObserved
  <2>2. OInv /\ UNCHANGED <<vars, since>> => OInv'
    <3>1. OInv /\ UNCHANGED <<vars, since>> => IInv'
      BY NextInv DEF OInv
    <3>2. QED
      BY <3>1 DEF OInv, NewHasNoId, RereadForCause, Exists, vars
  <2>3. QED BY <2>1, <2>2
<1>3. OInv /\ [ObservedNext]_<<vars, since>> => [True]_<<vars, since>>
  BY EndsByItself, StepsTruthful DEF OInv, ObservedNext
<1>4. ErrorsWereTrue <=> [][True]_<<vars, since>>
  BY DEF ErrorsWereTrue, Truthful
<1>5. QED BY <1>1, <1>2, <1>3, <1>4, PTL DEF ObservedSpec

=============================================================================
