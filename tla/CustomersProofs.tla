-------------------------- MODULE CustomersProofs --------------------------
(***************************************************************************)
(* For any number of clients, customers and emails: an ETag stands for the *)
(* document it was given for, and a conditional PATCH overwrites no other  *)
(* request's write.                                                        *)
(***************************************************************************)
EXTENDS Customers, TLAPS

\* An ETag is of a customer that exists or existed: its id is not handed out
\* again.
TagsOfUsedIds == \A c \in Clients : tag[c] # None => tag[c].id \notin unused

\* The version a request asks for is that of the ETag its client holds.
MatchIsOfTag ==
  \A c \in Clients :
    req[c] # None /\ req[c].match \in Nat =>
      /\ tag[c] # None
      /\ tag[c].id = req[c].id
      /\ tag[c].seen.version = req[c].match

\* A request to create a customer has its email, one to change it its id.
FieldsOf(r) == IF r.step \in {"checkNew", "insert"} THEN r.email \in Emails
                                                   ELSE r.id \in Ids

FieldsSent == \A c \in Clients : req[c] # None => FieldsOf(req[c])

IInv == /\ TypeOK
        /\ TagsOfUsedIds
        /\ TagTellsWrites
        /\ MatchIsOfTag
        /\ FieldsSent

Errors == {DuplicateEmail, NotFound, EtagMismatch, ConnectionLost,
           MongoError(DuplicateKey), mapMongoError(ConnectionLost)}

\* What the errors of a request are answered with.
LEMMA CodesOfErrors ==
  /\ transformException(DuplicateEmail).code = "CUSTOMER_DUPLICATE_EMAIL"
  /\ transformException(NotFound).code = "CUSTOMER_NOT_FOUND"
  /\ transformException(EtagMismatch).code = "CUSTOMER_ETAG_MISMATCH"
  /\ transformException(ConnectionLost).code = "DB_OPERATION_FAILED"
  /\ transformException(MongoError(DuplicateKey)).code = "DB_DUPLICATE_KEY"
  /\ transformException(mapMongoError(ConnectionLost)).code =
       "DB_OPERATION_FAILED"
<1> USE DEF transformException, AppError, Exception
<1>1. /\ transformException(DuplicateEmail).code = "CUSTOMER_DUPLICATE_EMAIL"
      /\ transformException(NotFound).code = "CUSTOMER_NOT_FOUND"
      /\ transformException(EtagMismatch).code = "CUSTOMER_ETAG_MISMATCH"
  BY DEF DuplicateEmail, NotFound, EtagMismatch, ConflictError, NotFoundError,
         PreconditionFailedError
<1>2. mapMongoError(ConnectionLost) = AppError("DB_OPERATION_FAILED", 500)
  BY DEF mapMongoError, ConnectionLost, MongoError, isMongoError, NoCode,
         DuplicateKey, DatabaseError
<1>3. mapMongoError(MongoError(DuplicateKey)) =
        AppError("DB_DUPLICATE_KEY", 409)
  BY DEF mapMongoError, MongoError, isMongoError, NoCode, DuplicateKey,
         ConflictError
<1>4. \A code : transformException(MongoError(code)) =
                  mapMongoError(MongoError(code))
  BY DEF MongoError, mapUnknown, isMongoError
<1>5. /\ transformException(ConnectionLost).code = "DB_OPERATION_FAILED"
      /\ transformException(MongoError(DuplicateKey)).code =
           "DB_DUPLICATE_KEY"
      /\ transformException(mapMongoError(ConnectionLost)).code =
           "DB_OPERATION_FAILED"
  BY <1>2, <1>3, <1>4 DEF ConnectionLost
<1>6. QED BY <1>1, <1>5

LEMMA ErrorAnswers ==
  ASSUME NEW e \in Errors
  PROVE  transformException(e).code \in Answers \ {"updated"}
BY CodesOfErrors DEF Errors, Answers

-----------------------------------------------------------------------------
\* Every reply ends the request of its client, and no other.
Ends(c) ==
  /\ req' \in [Clients -> Request \cup {None}]
  /\ answer' \in Answer
  /\ \A d \in Clients : req'[d] # None => d # c /\ req'[d] = req[d]

LEMMA ReplyEnds ==
  ASSUME TypeOK, NEW c \in Clients, NEW what \in Answers, Reply(c, what)
  PROVE  Ends(c) /\ answer' = [to |-> c, what |-> what]
BY DEF TypeOK, Reply, Ends, Answer

LEMMA ThrowEnds ==
  ASSUME TypeOK, NEW c \in Clients, NEW e \in Errors, Throw(c, e)
  PROVE  Ends(c) /\ answer'.what # "updated"
BY ErrorAnswers, ReplyEnds DEF Throw, Reply

\* A request goes on, or a new one begins, with the same id and version.
LEMMA ProceedType ==
  ASSUME TypeOK, NEW c \in Clients, req[c] # None, NEW step \in Steps,
         Proceed(c, step)
  PROVE  /\ req' \in [Clients -> Request \cup {None}]
         /\ answer' = None
         /\ \A d \in Clients : req'[d] # None =>
              /\ req[d] # None
              /\ req'[d].match = req[d].match
              /\ req'[d].id = req[d].id
<1>1. req[c] \in Request
  BY DEF TypeOK
<1>2. [req[c] EXCEPT !.step = step] \in Request
  BY <1>1 DEF Request
<1>3. req' = [req EXCEPT ![c] = [req[c] EXCEPT !.step = step]]
  BY DEF Proceed
<1>4. QED BY <1>1, <1>2, <1>3 DEF TypeOK, Proceed, Request

\* Steps that leave the collection and the ETags alone keep what is said of
\* them.
LEMMA QuietKeeps ==
  ASSUME IInv, UNCHANGED <<indexed, customers, unused, tag, imports>>,
         req' \in [Clients -> Request \cup {None}],
         answer' \in Answer \cup {None}, writes' \in 0 .. MaxWrites,
         MatchIsOfTag', FieldsSent'
  PROVE  IInv'
BY DEF IInv, TypeOK, TagsOfUsedIds, TagTellsWrites, Exists

\* A request that neither begins nor changes its version keeps MatchIsOfTag,
\* as long as its client keeps its ETag.
LEMMA MatchKept ==
  ASSUME IInv,
         \A d \in Clients : req'[d] # None =>
           /\ req[d] # None
           /\ req'[d].match = req[d].match
           /\ req'[d].id = req[d].id
           /\ tag'[d] = tag[d]
  PROVE  MatchIsOfTag'
BY DEF IInv, MatchIsOfTag

LEMMA EndsQuietly ==
  ASSUME IInv, NEW c \in Clients, Ends(c),
         UNCHANGED <<indexed, customers, unused, tag, writes, imports>>
  PROVE  IInv'
<1>1. MatchIsOfTag'
  BY MatchKept DEF Ends
<1>2. FieldsSent'
  BY DEF Ends, IInv, FieldsSent, FieldsOf
<1>3. QED BY <1>1, <1>2, QuietKeeps DEF Ends, IInv, TypeOK

LEMMA ProceedsQuietly ==
  ASSUME IInv, NEW c \in Clients, req[c] # None, NEW step \in Steps,
         Proceed(c, step),
         IF step = "insert" THEN req[c].step = "checkNew"
         ELSE step # "checkNew" /\ req[c].step \notin {"checkNew", "insert"},
         UNCHANGED <<indexed, customers, unused, tag, writes, imports>>
  PROVE  IInv'
<1>1. MatchIsOfTag'
  BY MatchKept, ProceedType DEF IInv
<1>2. FieldsSent'
  <2>1. req[c] \in Request /\ FieldsOf(req[c])
    BY DEF IInv, TypeOK, FieldsSent
  <2>2. req'[c] = [req[c] EXCEPT !.step = step]
    BY DEF Proceed, IInv, TypeOK
  <2>3. FieldsOf(req'[c])
    BY <2>1, <2>2 DEF FieldsOf, Request
  <2>4. \A d \in Clients : d # c => req'[d] = req[d]
    BY DEF Proceed, IInv, TypeOK
  <2>5. QED BY <2>3, <2>4 DEF FieldsSent, FieldsOf, IInv
<1>3. QED BY <1>1, <1>2, ProceedType, QuietKeeps DEF IInv, TypeOK

\* A request begins: its version is that of its client's ETag, if it has one.
LEMMA BeginsWell ==
  ASSUME IInv, NEW c \in Clients, NEW r \in Request, Begin(c, r),
         UNCHANGED indexed,
         r.match \in Nat => /\ tag[c] # None
                            /\ tag[c].id = r.id
                            /\ tag[c].seen.version = r.match,
         FieldsOf(r)
  PROVE  IInv'
<1>1. /\ req' = [req EXCEPT ![c] = r]
      /\ req' \in [Clients -> Request \cup {None}]
  BY DEF Begin, IInv, TypeOK
<1>2. MatchIsOfTag'
  BY <1>1 DEF Begin, MatchIsOfTag, IInv, TypeOK
<1>3. writes' \in 0 .. MaxWrites
  BY BoundsAssumption DEF Begin, IInv, TypeOK
<1>4. FieldsSent'
  BY <1>1 DEF FieldsSent, FieldsOf, IInv, TypeOK
<1>5. QED BY <1>1, <1>2, <1>3, <1>4, QuietKeeps DEF Begin

-----------------------------------------------------------------------------
\* A write leaves every customer that remains as it was, or with a higher
\* version; ids are used once.
Evolves ==
  /\ customers' \in [Ids -> Document]
  /\ unused' \subseteq unused
  /\ unused' \subseteq {i \in Ids : ~Exists(i)'}
  /\ \A k \in Ids \ unused :
       Exists(k)' =>
         /\ Exists(k)
         /\ customers[k].version <= customers'[k].version
         /\ customers'[k].version = customers[k].version =>
              /\ customers'[k].written = customers[k].written
              /\ customers'[k].email = customers[k].email

\* The ETags given before still stand for what was seen, and so does the one
\* given by this step, if any.
LEMMA TagsStand ==
  ASSUME IInv, Evolves, NEW c \in Clients, NEW i \in Ids,
         \/ UNCHANGED tag
         \/ GiveTag(c, i) /\ customers'[i] \in Customer /\ i \notin unused'
  PROVE  /\ tag' \in [Clients -> ETag \cup {None}]
         /\ TagsOfUsedIds'
         /\ TagTellsWrites'
<1> USE DEF IInv, TypeOK
<1>1. \A d \in Clients :
        \/ tag'[d] = tag[d]
        \/ /\ tag'[d] = [id |-> i, seen |-> SeenOf(customers'[i])]
           /\ customers'[i] \in Customer /\ i \notin unused'
  BY DEF GiveTag
<1>2. tag' \in [Clients -> ETag \cup {None}]
  <2>1. customers'[i] \in Customer => SeenOf(customers'[i]) \in Seen
    BY DEF Seen, SeenOf, Customer
  <2>2. \A d \in Clients : tag'[d] \in ETag \cup {None}
    BY <1>1, <2>1 DEF ETag
  <2>3. QED BY <2>2 DEF GiveTag
<1>3. TagsOfUsedIds'
  BY <1>1 DEF TagsOfUsedIds, Evolves
<1>4. TagTellsWrites'
  <2> SUFFICES ASSUME NEW d \in Clients, tag'[d] # None,
                      customers'[tag'[d].id] # None
               PROVE  LET t == tag'[d] IN
                      /\ t.seen.version <= customers'[t.id].version
                      /\ customers'[t.id].version = t.seen.version =>
                           /\ customers'[t.id].written = t.seen.written
                           /\ customers'[t.id].email = t.seen.email
    BY DEF TagTellsWrites, Exists
  <2>1. CASE tag'[d] = tag[d]
    <3> DEFINE t == tag[d]
    <3>1. t \in ETag /\ t.id \in Ids \ unused
      BY <2>1 DEF TagsOfUsedIds, ETag
    <3>2. /\ Exists(t.id)
          /\ customers[t.id].version <= customers'[t.id].version
          /\ customers'[t.id].version = customers[t.id].version =>
               /\ customers'[t.id].written = customers[t.id].written
               /\ customers'[t.id].email = customers[t.id].email
      BY <2>1, <3>1 DEF Evolves, Exists
    <3>3. /\ t.seen.version <= customers[t.id].version
          /\ customers[t.id].version = t.seen.version =>
               /\ customers[t.id].written = t.seen.written
               /\ customers[t.id].email = t.seen.email
      BY <2>1, <3>2 DEF TagTellsWrites
    <3>4. /\ t.seen.version \in Nat /\ customers[t.id].version \in Nat
          /\ customers'[t.id].version \in Nat
      BY <2>1, <3>1, <3>2 DEF ETag, Seen, Customer, Document, Evolves,
                                   Exists
    <3>5. QED BY <2>1, <3>2, <3>3, <3>4
  <2>2. CASE /\ tag'[d] = [id |-> i, seen |-> SeenOf(customers'[i])]
             /\ customers'[i] \in Customer
    BY <2>2 DEF Customer, SeenOf
  <2>3. QED BY <1>1, <2>1, <2>2
<1>5. QED BY <1>2, <1>3, <1>4

\* A request that writes, and ends.
LEMMA WritesWell ==
  ASSUME IInv, Evolves, NEW c \in Clients, Ends(c),
         UNCHANGED <<indexed, writes, imports>>,
         NEW i \in Ids,
         \/ UNCHANGED tag
         \/ GiveTag(c, i) /\ customers'[i] \in Customer /\ i \notin unused'
  PROVE  IInv'
<1>1. \A d \in Clients : d # c => tag'[d] = tag[d]
  BY DEF GiveTag, IInv, TypeOK
<1>2. MatchIsOfTag'
  BY <1>1, MatchKept DEF Ends
<1>3. TypeOK'
  BY TagsStand DEF TypeOK, IInv, Evolves, Ends
<1>4. FieldsSent'
  BY DEF Ends, IInv, FieldsSent, FieldsOf
<1>5. QED BY <1>2, <1>3, <1>4, TagsStand DEF IInv

-----------------------------------------------------------------------------
LEMMA InitInv == Init => IInv
<1> SUFFICES ASSUME Init PROVE IInv
  OBVIOUS
<1>1. \A e \in Emails : New(e, 0, 0) \in Customer
  BY BoundsAssumption DEF New, Customer
<1>2. TypeOK
  BY <1>1, BoundsAssumption DEF Init, TypeOK, Document, Exists
<1>3. TagsOfUsedIds /\ TagTellsWrites /\ MatchIsOfTag /\ FieldsSent
  BY DEF Init, TagsOfUsedIds, TagTellsWrites, MatchIsOfTag, FieldsSent
<1>4. QED BY <1>2, <1>3 DEF IInv

LEMMA PostStep ==
  ASSUME IInv, NEW c \in Clients, NEW e \in Emails, Post(c, e),
         UNCHANGED indexed
  PROVE  IInv'
<1> DEFINE r == [step |-> "checkNew", id |-> None, asPrinted |-> TRUE,
                 email |-> e, match |-> AnyVersion, write |-> writes + 1]
<1>1. r \in Request /\ r.match \notin Nat /\ FieldsOf(r)
  BY DEF FieldsOf, Request, Steps, Versions, AnyVersion, IInv, TypeOK
<1>2. Begin(c, r)
  BY DEF Post
<1> HIDE DEF r
<1>3. QED BY <1>1, <1>2, BeginsWell

LEMMA PatchStep ==
  ASSUME IInv, NEW c \in Clients, NEW i \in Ids, NEW e \in Emails \cup {None},
         Patch(c, i, e), UNCHANGED indexed
  PROVE  IInv'
<1>1. PICK p \in BOOLEAN : \E m \in VersionToMatch(c, i, p) :
        Begin(c, [step |-> IF e = None THEN "update" ELSE "checkEmail",
                  id |-> i, asPrinted |-> p, email |-> e, match |-> m,
                  write |-> writes + 1])
  BY DEF Patch, Spellings
<1>2. PICK m \in VersionToMatch(c, i, p) :
        Begin(c, [step |-> IF e = None THEN "update" ELSE "checkEmail",
                  id |-> i, asPrinted |-> p, email |-> e, match |-> m,
                  write |-> writes + 1])
  BY <1>1
<1> DEFINE r == [step |-> IF e = None THEN "update" ELSE "checkEmail",
                 id |-> i, asPrinted |-> p, email |-> e, match |-> m,
                 write |-> writes + 1]
<1>3. m \in Versions /\ (m \in Nat => /\ tag[c] # None
                                      /\ tag[c].id = i
                                      /\ tag[c].seen.version = m)
  BY DEF VersionToMatch, Versions, AnyVersion, NeverMatches, IInv, TypeOK,
         ETag, Seen
<1>4. r \in Request /\ r.match = m /\ r.id = i
      /\ FieldsOf(r)
  BY <1>3 DEF FieldsOf, Request, Steps, IInv, TypeOK
<1>5. Begin(c, r)
  BY <1>2
<1> HIDE DEF r
<1>6. QED BY <1>3, <1>4, <1>5, BeginsWell

\* The steps that only look: the checks, the second read, a failed command.
LEMMA LookStep ==
  ASSUME IInv, NEW c \in Clients, UNCHANGED indexed,
         CheckNew(c) \/ CheckEmail(c) \/ Reread(c) \/ CommandFails(c)
  PROVE  IInv'
<1>1. UNCHANGED <<indexed, customers, unused, tag, writes, imports>>
  BY DEF CheckNew, CheckEmail, Reread, CommandFails
<1>2. \/ \E e \in Errors : Throw(c, e)
      \/ req[c] # None /\ req[c].step = "checkEmail" /\ Proceed(c, "update")
      \/ req[c] # None /\ req[c].step = "checkNew" /\ Proceed(c, "insert")
  BY DEF CheckNew, CheckEmail, Reread, CommandFails, Errors, Steps
<1>3. TypeOK
  BY DEF IInv
<1>4. CASE \E e \in Errors : Throw(c, e)
  BY <1>1, <1>3, <1>4, ThrowEnds, EndsQuietly
<1>5. CASE req[c] # None /\ req[c].step = "checkEmail" /\ Proceed(c, "update")
  BY <1>1, <1>5, ProceedsQuietly DEF Steps
<1>6. CASE req[c] # None /\ req[c].step = "checkNew" /\ Proceed(c, "insert")
  BY <1>1, <1>6, ProceedsQuietly DEF Steps
<1>7. QED BY <1>2, <1>4, <1>5, <1>6

\* A new customer at an id not handed out yet, with an email nobody has if
\* there is an index.
LEMMA NewCustomer ==
  ASSUME IInv, NEW i \in unused, NEW e \in Emails, NEW w \in Nat,
         NEW m \in 0 .. MaxImports,
         customers' = [customers EXCEPT ![i] = New(e, w, m)],
         unused' = unused \ {i}
  PROVE  Evolves /\ customers'[i] \in Customer
<1> USE DEF IInv, TypeOK
<1>1. i \in Ids /\ New(e, w, m) \in Customer
  BY DEF New, Customer
<1>2. /\ customers' \in [Ids -> Document]
      /\ \A k \in Ids : k # i => customers'[k] = customers[k]
      /\ customers'[i] = New(e, w, m)
  BY <1>1 DEF Document
<1>3. Evolves
  <2>1. \A k \in Ids \ unused : customers'[k] = customers[k]
    BY <1>2
  <2>2. \A k \in Ids : customers[k] # None => customers[k].version \in Nat
    BY DEF Document, Customer
  <2>3. \A k \in unused' : customers'[k] = customers[k]
    BY <1>2
  <2>4. QED BY <1>2, <2>1, <2>2, <2>3 DEF Evolves, Exists
<1>4. QED BY <1>1, <1>2, <1>3

LEMMA InsertStep ==
  ASSUME IInv, NEW c \in Clients, Insert(c), UNCHANGED indexed
  PROVE  IInv'
<1> DEFINE r == req[c]
<1>0. /\ r.email \in Emails /\ r.write \in Nat /\ 0 \in 0 .. MaxImports
      /\ TypeOK
  BY BoundsAssumption DEF IInv, Insert, TypeOK, FieldsSent, FieldsOf, Request
<1>1. CASE Throw(c, DuplicateEmail) /\ UNCHANGED <<customers, unused, tag>>
  <2>1. Ends(c)
    BY <1>0, <1>1, ThrowEnds DEF Errors
  <2>2. QED BY <1>1, <2>1, EndsQuietly DEF Insert
<1>2. CASE ~(Throw(c, DuplicateEmail) /\ UNCHANGED <<customers, unused, tag>>)
  <2>1. PICK i \in unused :
          /\ customers' = [customers EXCEPT ![i] = New(r.email, r.write, 0)]
          /\ unused' = unused \ {i}
          /\ \/ Reply(c, "created") /\ GiveTag(c, i)
             \/ Throw(c, mapMongoError(ConnectionLost)) /\ UNCHANGED tag
    BY <1>2 DEF Insert
  <2>2. UNCHANGED <<indexed, writes, imports>> /\ i \in Ids
    BY <1>0, <2>1 DEF Insert, TypeOK
  <2>3. Ends(c)
    BY <1>0, <2>1, ReplyEnds, ThrowEnds DEF Errors, Answers
  <2> HIDE DEF r
  <2>4. Evolves /\ customers'[i] \in Customer
    BY <1>0, <2>1, <2>2, NewCustomer
  <2>5. i \notin unused'
    BY <2>1
  <2>6. QED BY <2>1, <2>2, <2>3, <2>4, <2>5, WritesWell
<1>3. QED BY <1>1, <1>2

\* A document of a customer that is there is written over.
LEMMA Rewritten ==
  ASSUME IInv, NEW i \in Ids, Exists(i), NEW d \in Customer,
         customers' = [customers EXCEPT ![i] = d],
         UNCHANGED unused,
         customers[i].version <= d.version,
         d.version = customers[i].version =>
           d.written = customers[i].written /\ d.email = customers[i].email
  PROVE  /\ Evolves
         /\ customers'[i] \in Customer
         /\ i \notin unused'
<1> USE DEF IInv, TypeOK
<1>1. /\ customers' \in [Ids -> Document]
      /\ \A k \in Ids : k # i => customers'[k] = customers[k]
      /\ customers'[i] = d
      /\ i \notin unused
  BY DEF Document
<1>2. Evolves
  <2>1. \A k \in Ids : customers[k] # None => customers[k].version \in Nat
    BY DEF Document, Customer
  <2>2. QED BY <1>1, <2>1 DEF Evolves, Exists
<1>3. QED BY <1>1, <1>2

LEMMA UpdateStep ==
  ASSUME IInv, NEW c \in Clients, Update(c), UNCHANGED indexed
  PROVE  IInv'
<1> DEFINE r == req[c]
<1>0. /\ r \in Request /\ r # None /\ r.step = "update" /\ r.id \in Ids
      /\ TypeOK /\ UNCHANGED <<unused, writes, imports>>
  BY DEF IInv, Update, TypeOK, FieldsSent, FieldsOf
<1>1. CASE /\ \E e \in Errors : Throw(c, e)
           /\ UNCHANGED <<customers, tag>>
  <2>1. Ends(c)
    BY <1>0, <1>1, ThrowEnds
  <2>2. QED BY <1>0, <1>1, <2>1, EndsQuietly
<1>2. CASE Proceed(c, "reread") /\ UNCHANGED <<customers, tag>>
  BY <1>0, <1>2, ProceedsQuietly DEF Steps
<1>3. CASE /\ Matches(r)
           /\ customers' = [customers EXCEPT ![r.id] = Patched(r)]
           /\ \/ Reply(c, "updated") /\ GiveTag(c, r.id)
              \/ Throw(c, ConnectionLost) /\ UNCHANGED tag
  <2>1. Ends(c)
    BY <1>0, <1>3, ReplyEnds, ThrowEnds DEF Errors, Answers
  <2>2. r.id \in Ids /\ Exists(r.id) /\ customers[r.id] \in Customer
    BY <1>0, <1>3 DEF Matches, TypeOK, Exists, Document
  <2> DEFINE d == Patched(r)
  <2>3. /\ d \in Customer
        /\ d.version = customers[r.id].version + 1
    <3> DEFINE x == customers[r.id]
               e == IF r.email = None THEN x.email ELSE r.email
    <3>1. /\ x.email \in Emails /\ x.version \in Nat /\ x.version + 1 \in Nat
          /\ r.email \in Emails \cup {None} /\ r.write \in Nat
      BY <1>0, <2>2 DEF Customer, Request
    <3>2. d = [x EXCEPT !.email = e, !.version = x.version + 1,
                        !.written = r.write]
      BY DEF Patched
    <3>3. e \in Emails
      BY <3>1
    <3> HIDE DEF x, e, r, d
    <3>4. x \in Customer
      BY <2>2 DEF x
    <3>5. d \in Customer /\ d.version = x.version + 1
      BY <3>1, <3>2, <3>3, <3>4 DEF Customer
    <3>6. QED BY <3>5 DEF x
  <2>4. customers[r.id].version \in Nat
    BY <2>2 DEF Customer
  <2>5. customers' = [customers EXCEPT ![r.id] = d]
    BY <1>3
  <2> HIDE DEF r, d
  <2>6. /\ customers[r.id].version <= d.version
        /\ d.version # customers[r.id].version
    BY <2>3, <2>4
  <2>7. Evolves /\ customers'[r.id] \in Customer /\ r.id \notin unused'
    BY <1>0, <2>2, <2>3, <2>5, <2>6, Rewritten
  <2>8. QED BY <1>0, <1>3, <2>1, <2>2, <2>7, WritesWell
<1>4. QED
  BY <1>1, <1>2, <1>3 DEF Update, Errors

LEMMA GetStep ==
  ASSUME IInv, NEW c \in Clients, NEW i \in Ids, Get(c, i), UNCHANGED indexed
  PROVE  IInv'
<1>0. TypeOK /\ UNCHANGED <<customers, unused, writes, imports>>
  BY DEF IInv, Get
<1>1. CASE Throw(c, NotFound) /\ UNCHANGED tag
  <2>1. Ends(c)
    BY <1>0, <1>1, ThrowEnds DEF Errors
  <2>2. QED BY <1>0, <1>1, <2>1, EndsQuietly
<1>2. CASE Exists(i) /\ Reply(c, "ok") /\ GiveTag(c, i)
  <2>1. Ends(c)
    BY <1>0, <1>2, ReplyEnds DEF Answers
  <2>2. Evolves /\ customers'[i] \in Customer /\ i \notin unused'
    BY <1>0, <1>2 DEF IInv, TypeOK, Evolves, Exists, Document, Customer
  <2>3. QED BY <1>0, <1>2, <2>1, <2>2, WritesWell
<1>3. QED BY <1>1, <1>2 DEF Get

LEMMA DeleteStep ==
  ASSUME IInv, NEW c \in Clients, NEW i \in Ids, Delete(c, i),
         UNCHANGED indexed
  PROVE  IInv'
<1>0. TypeOK /\ UNCHANGED <<unused, tag, writes, imports>>
  BY DEF IInv, Delete
<1>1. Ends(c)
  BY <1>0, ReplyEnds, ThrowEnds DEF Delete, Errors, Answers
<1>2. /\ customers' \in [Ids -> Document]
      /\ \A k \in Ids : customers'[k] # None => customers'[k] = customers[k]
      /\ \A k \in Ids : customers[k] # None => customers[k].version \in Nat
  BY <1>0 DEF Delete, TypeOK, Document, Customer
<1>3. Evolves
  <2>1. unused' \subseteq {k \in Ids : customers'[k] = None}
    BY <1>0, <1>2 DEF TypeOK, Exists
  <2>2. QED BY <1>0, <1>2, <2>1 DEF Evolves, Exists
<1>4. QED BY <1>0, <1>1, <1>3, WritesWell

\* Steps of no request: an import's row, an index.
LEMMA NoRequest ==
  ASSUME IInv, Evolves, UNCHANGED <<req, tag, writes>>,
         indexed' \in BOOLEAN, answer' = None, imports' \in 0 .. MaxImports
  PROVE  IInv'
<1>1. TagsOfUsedIds'
  BY DEF IInv, TagsOfUsedIds, Evolves
<1>2. CASE Clients = {} \/ Ids = {}
  <2>1. TypeOK' /\ MatchIsOfTag' /\ FieldsSent'
    BY DEF IInv, TypeOK, MatchIsOfTag, FieldsSent,
           FieldsOf, Evolves
  <2>2. TagTellsWrites'
    BY <1>2, <2>1 DEF TypeOK, TagTellsWrites, ETag
  <2>3. QED BY <1>1, <2>1, <2>2 DEF IInv
<1>3. CASE Clients # {} /\ Ids # {}
  <2>1. PICK c \in Clients, k \in Ids : TRUE
    BY <1>3
  <2>2. TagTellsWrites'
    BY <2>1, TagsStand
  <2>3. TypeOK' /\ MatchIsOfTag' /\ FieldsSent'
    BY DEF IInv, TypeOK, MatchIsOfTag, FieldsSent,
           FieldsOf, Evolves
  <2>4. QED BY <1>1, <2>2, <2>3 DEF IInv
<1>4. QED BY <1>2, <1>3

LEMMA ImportStep ==
  ASSUME IInv, NEW e \in Emails, Import(e), UNCHANGED indexed
  PROVE  IInv'
<1>0. /\ TypeOK /\ UNCHANGED <<req, tag, writes>> /\ answer' = None
      /\ imports + 1 \in 0 .. MaxImports /\ imports' = imports + 1
      /\ indexed' \in BOOLEAN
  BY BoundsAssumption DEF IInv, TypeOK, Import
<1>1. CASE \E i \in Holders(e, None) :
             /\ customers' = [customers EXCEPT ![i].imported = imports + 1]
             /\ UNCHANGED unused
  <2>1. PICK i \in Holders(e, None) :
             customers' = [customers EXCEPT ![i].imported = imports + 1]
    BY <1>1
  <2>2. i \in Ids /\ Exists(i) /\ customers[i] \in Customer
    BY <1>0, <2>1 DEF Holders, TypeOK, Exists, Document
  <2> DEFINE d == [customers[i] EXCEPT !.imported = imports + 1]
  <2>3. /\ d \in Customer /\ d.version = customers[i].version
        /\ d.written = customers[i].written /\ d.email = customers[i].email
    BY <1>0, <2>2 DEF Customer
  <2>4. customers[i].version <= d.version
    BY <2>2, <2>3 DEF Customer
  <2>5. customers' = [customers EXCEPT ![i] = d]
    BY <2>1
  <2> HIDE DEF d
  <2>6. Evolves
    BY <1>1, <2>2, <2>3, <2>4, <2>5, Rewritten
  <2>7. QED BY <1>0, <2>6, NoRequest
<1>2. CASE /\ ~EmailTaken(e, None)
           /\ \E i \in unused :
                /\ customers' = [customers EXCEPT ![i] = New(e, 0, imports + 1)]
                /\ unused' = unused \ {i}
  <2>1. PICK i \in unused :
          /\ customers' = [customers EXCEPT ![i] = New(e, 0, imports + 1)]
          /\ unused' = unused \ {i}
    BY <1>2
  <2>2. Evolves
    BY <1>0, <2>1, NewCustomer
  <2>3. QED BY <1>0, <2>2, NoRequest
<1>3. QED BY <1>1, <1>2 DEF Import

LEMMA IndexStep ==
  ASSUME IInv, CreateIndexes
  PROVE  IInv'
<1>1. /\ UNCHANGED <<customers, unused, req, tag, writes, imports>>
      /\ answer' = None /\ indexed' \in BOOLEAN
  BY DEF CreateIndexes
<1>2. Evolves
  BY <1>1 DEF IInv, TypeOK, Evolves, Exists, Document, Customer
<1>3. QED BY <1>1, <1>2, NoRequest DEF IInv, TypeOK

LEMMA NextInv == IInv /\ [Next]_vars => IInv'
<1> SUFFICES ASSUME IInv, [Next]_vars PROVE IInv'
  OBVIOUS
<1>1. ASSUME NEW c \in Clients, RequestStep(c) \/ CommandFails(c),
             UNCHANGED indexed
      PROVE  IInv'
  BY <1>1, LookStep, InsertStep, UpdateStep DEF RequestStep
<1>2. CASE Served /\ UNCHANGED indexed
  BY <1>1, <1>2, PostStep, PatchStep, GetStep, DeleteStep, ImportStep
     DEF Served
<1>3. CASE CreateIndexes
  BY <1>3, IndexStep
<1>4. CASE UNCHANGED vars
  BY <1>4 DEF vars, IInv, TypeOK, TagsOfUsedIds, TagTellsWrites,
       MatchIsOfTag, FieldsSent, FieldsOf, Exists
<1>5. QED BY <1>2, <1>3, <1>4 DEF Next

\* The collection, the requests under way and the ETags have their types, and
\* ids are handed out once.
THEOREM CustomersTyped == Spec => []TypeOK
<1>1. IInv => TypeOK
  BY DEF IInv
<1>2. QED BY <1>1, InitInv, NextInv, PTL DEF Spec

\* An ETag stands for the document it was given for until a request writes it.
THEOREM TagsTell == Spec => []TagTellsWrites
<1>1. IInv => TagTellsWrites
  BY DEF IInv
<1>2. QED BY <1>1, InitInv, NextInv, PTL DEF Spec

-----------------------------------------------------------------------------
IsUpdated(c) == answer' = [to |-> c, what |-> "updated"]

\* No other step answers as an update does.
LEMMA OnlyUpdateUpdates ==
  ASSUME IInv, NEW c \in Clients, Next, IsUpdated(c)
  PROVE  Update(c)
<1>1. answer' # None /\ answer'.to = c /\ answer'.what = "updated"
  BY NoneAssumption DEF IsUpdated, Answer, Answers
<1>2. TypeOK
  BY DEF IInv
<1>3. ASSUME NEW d \in Clients, NEW e \in Errors, Throw(d, e)
      PROVE  FALSE
  BY <1>1, <1>2, <1>3, ThrowEnds
<1>4. ASSUME NEW d \in Clients, NEW what \in Answers, Reply(d, what)
      PROVE  d = c /\ what = "updated"
  BY <1>1, <1>4 DEF Reply
<1>5. \A d \in Clients :
        /\ \A e \in Emails : ~Post(d, e)
        /\ \A i \in Ids, e \in Emails \cup {None} : ~Patch(d, i, e)
        /\ ~CheckNew(d) /\ ~CheckEmail(d) /\ ~Reread(d) /\ ~CommandFails(d)
  BY <1>1, <1>3 DEF Post, Patch, Begin, CheckNew, CheckEmail, Reread,
                    CommandFails, Proceed, Errors
<1>6. \A d \in Clients :
        /\ \A i \in Ids : ~Get(d, i) /\ ~Delete(d, i)
        /\ ~Insert(d)
  BY <1>3, <1>4 DEF Get, Delete, Insert, Answers, Errors
<1>7. (\A e \in Emails : ~Import(e)) /\ ~CreateIndexes
  BY <1>1 DEF Import, CreateIndexes
<1>8. PICK d \in Clients : Update(d)
  BY <1>5, <1>6, <1>7 DEF Next, Served, RequestStep
<1>9. CASE \E e \in Errors : Throw(d, e)
  BY <1>3, <1>9
<1>10. CASE Proceed(d, "reread")
  BY <1>1, <1>10 DEF Proceed
<1>11. CASE Reply(d, "updated")
  BY <1>4, <1>8, <1>11 DEF Answers
<1>12. QED BY <1>8, <1>9, <1>10, <1>11 DEF Update, Errors

LEMMA UpdateOfTheVersionRead ==
  ASSUME IInv, NEW c \in Clients, Update(c), IsUpdated(c),
         req[c].match # AnyVersion
  PROVE  /\ tag[c] # None
         /\ tag[c].id = req[c].id
         /\ customers[req[c].id].written = tag[c].seen.written
<1>1. answer' # None /\ answer'.what = "updated" /\ TypeOK
  BY NoneAssumption DEF IsUpdated, Answer, Answers, IInv
<1>2. \A e \in Errors : ~Throw(c, e)
  BY <1>1, ThrowEnds
<1>3. req[c] # None /\ Matches(req[c])
  BY <1>1, <1>2 DEF Update, Proceed, Errors
<1>4. /\ Exists(req[c].id) /\ req[c].id \in Ids
      /\ req[c].match = customers[req[c].id].version
  BY <1>3 DEF Matches, Update, IInv, FieldsSent, FieldsOf
<1>5. req[c].match \in Nat
  BY <1>1, <1>4 DEF TypeOK, Exists, Document, Customer
<1>6. QED BY <1>3, <1>4, <1>5 DEF IInv, MatchIsOfTag, TagTellsWrites

\* A conditional PATCH that succeeds overwrites the document as the request
\* its client read it after had left it.
THEOREM ConditionalWritesLoseNone == Spec => IfMatchLosesNoWrite
<1> DEFINE Safe ==
      \A c \in Clients :
        /\ answer' = [to |-> c, what |-> "updated"]
        /\ req[c].match # AnyVersion
        => /\ tag[c] # None
           /\ tag[c].id = req[c].id
           /\ customers[req[c].id].written = tag[c].seen.written
<1>1. IInv /\ [Next]_vars => [Safe]_vars
  BY OnlyUpdateUpdates, UpdateOfTheVersionRead DEF IsUpdated
<1>2. IfMatchLosesNoWrite <=> [][Safe]_vars
  BY DEF IfMatchLosesNoWrite
<1>3. QED BY <1>1, <1>2, InitInv, NextInv, PTL DEF Spec

=============================================================================
