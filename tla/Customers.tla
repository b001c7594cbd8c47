----------------------------- MODULE Customers -----------------------------
(***************************************************************************)
(* The customers collection under concurrent HTTP requests and customer    *)
(* imports.  A request is the sequence of its database commands, one TLA+  *)
(* step each, from CustomerController through CustomerService to           *)
(* CustomerRepository; an import writes one row at a time.                 *)
(*                                                                         *)
(* Email addresses are canonical: trimmed and lower case.  Of the other    *)
(* fields only their last writer matters: the number of the API request,   *)
(* and of the import, that wrote them.                                     *)
(***************************************************************************)
EXTENDS ErrorMapping, FiniteSets

CONSTANTS
  Clients,     \* who sends requests, one at a time each
  Ids,         \* the ObjectIds the database may hand out
  Emails,      \* canonical email addresses
  None,        \* no document, no request, no field
  MaxWrites,   \* bound: POST and PATCH requests begun
  MaxImports   \* bound: rows imported

ASSUME BoundsAssumption == MaxWrites \in Nat /\ MaxImports \in Nat

VARIABLES
  indexed,     \* whether emailCanonical has its unique index
  customers,   \* [Ids -> document or None]
  unused,      \* ids not handed out yet
  req,         \* what each client's request is about to do, or None
  tag,         \* the last ETag each client got, with what it saw then
  answer,      \* the reply the last step sent, or None
  writes,      \* POST and PATCH requests so far
  imports      \* rows imported so far

vars == <<indexed, customers, unused, req, tag, answer, writes, imports>>

Customer == [email : Emails,
             version : Nat,            \* __v
             written : Nat,            \* the API request that wrote it last
             imported : 0 .. MaxImports]  \* the import that did, 0 for none

Document == Customer \cup {None}

AnyVersion == -2         \* no If-Match header
NeverMatches == -1       \* an ETag that does not parse, or of another id

Steps == {"checkNew", "insert", "checkEmail", "update", "reread"}

Versions == Nat \cup {AnyVersion, NeverMatches}

Request == [step : Steps,
            id : Ids \cup {None},
            asPrinted : BOOLEAN,       \* whether the id is spelled as the API
                                       \* prints it: upper case is valid too
            email : Emails \cup {None},
            match : Versions,
            write : Nat]               \* its number

\* What requests write, and an ETag stands for.
Seen == [email : Emails, version : Nat, written : Nat]

ETag == [id : Ids, seen : Seen]

Answers == {"created", "ok", "updated", "deleted", "CUSTOMER_NOT_FOUND",
            "CUSTOMER_DUPLICATE_EMAIL", "DB_DUPLICATE_KEY",
            "CUSTOMER_ETAG_MISMATCH", "DB_OPERATION_FAILED"}

Answer == [to : Clients, what : Answers]

ASSUME NoneAssumption == None \notin Ids \cup Emails \cup Answer \cup Request

New(e, write, import) ==
  [email |-> e, version |-> 0, written |-> write, imported |-> import]

\* Some customers are there already.  The index may be missing: createIndexes
\* logs its failure (while two customers share an email, say) and goes on.
Init ==
  /\ indexed \in BOOLEAN
  /\ customers \in [Ids -> {None} \cup {New(e, 0, 0) : e \in Emails}]
  /\ indexed => \A i, k \in Ids : i # k /\ customers[i] # None =>
                                   customers[i] # customers[k]
  /\ unused = {i \in Ids : customers[i] = None}
  /\ req = [c \in Clients |-> None]
  /\ tag = [c \in Clients |-> None]
  /\ answer = None
  /\ writes = 0
  /\ imports = 0

-----------------------------------------------------------------------------
Exists(i) == customers[i] # None

\* The customers other than i that have this email: without the unique index
\* there may be several.
Holders(e, i) == {k \in Ids \ {i} : Exists(k) /\ customers[k].email = e}

EmailTaken(e, i) == Holders(e, i) # {}

\* Whether the index refuses that customer i gets this email.
Refused(e, i) == indexed /\ EmailTaken(e, i)

Proceed(c, step) ==
  /\ req' = [req EXCEPT ![c].step = step]
  /\ answer' = None

Reply(c, what) ==
  /\ req' = [req EXCEPT ![c] = None]
  /\ answer' = [to |-> c, what |-> what]

\* The handler throws e, and the global filter answers.
Throw(c, e) == Reply(c, transformException(e).code)

DuplicateEmail == ConflictError("CUSTOMER_DUPLICATE_EMAIL")
NotFound == NotFoundError("CUSTOMER_NOT_FOUND")
EtagMismatch == PreconditionFailedError("CUSTOMER_ETAG_MISMATCH")
ConnectionLost == MongoError(NoCode)

SeenOf(d) ==
  [email |-> d.email, version |-> d.version, written |-> d.written]

GiveTag(c, i) ==
  tag' = [tag EXCEPT ![c] = [id |-> i, seen |-> SeenOf(customers'[i])]]

Begin(c, request) ==
  /\ req[c] = None
  /\ writes < MaxWrites
  /\ writes' = writes + 1
  /\ req' = [req EXCEPT ![c] = request]
  /\ answer' = None
  /\ UNCHANGED <<customers, unused, tag, imports>>

-----------------------------------------------------------------------------
(* POST /customers                                                         *)

Post(c, e) ==
  Begin(c, [step |-> "checkNew", id |-> None, asPrinted |-> TRUE, email |-> e,
            match |-> AnyVersion, write |-> writes + 1])

CheckNew(c) ==
  /\ req[c] # None
  /\ req[c].step = "checkNew"
  /\ IF EmailTaken(req[c].email, None)
     THEN Throw(c, DuplicateEmail)
     ELSE Proceed(c, "insert")
  /\ UNCHANGED <<customers, unused, tag, writes, imports>>

\* The insert the unique index may refuse; the error is then recognised.
Insert(c) ==
  LET r == req[c] IN
  /\ r # None
  /\ r.step = "insert"
  /\ IF Refused(r.email, None)
     THEN /\ Throw(c, DuplicateEmail)
          /\ UNCHANGED <<customers, unused, tag>>
     ELSE \E i \in unused :
            /\ customers' = [customers EXCEPT ![i] = New(r.email, r.write, 0)]
            /\ unused' = unused \ {i}
            /\ \/ Reply(c, "created") /\ GiveTag(c, i)
               \/ Throw(c, mapMongoError(ConnectionLost)) /\ UNCHANGED tag
  /\ UNCHANGED <<writes, imports>>

-----------------------------------------------------------------------------
(* PATCH /customers/:id                                                    *)

\* What the If-Match header asks for: nothing, the version of an ETag of this
\* customer (whose id must be spelled as in the path), or a version no
\* document has.
VersionToMatch(c, i, asPrinted) ==
  {AnyVersion, NeverMatches} \cup
  IF tag[c] # None /\ tag[c].id = i /\ asPrinted THEN {tag[c].seen.version}
                                                ELSE {}

\* Without an email the spelling only matters to the ETag, and is covered by
\* the one that never matches.
Spellings(e) == IF e = None THEN {TRUE} ELSE BOOLEAN

Patch(c, i, e) ==
  \E p \in Spellings(e) : \E m \in VersionToMatch(c, i, p) :
    Begin(c, [step |-> IF e = None THEN "update" ELSE "checkEmail",
              id |-> i, asPrinted |-> p, email |-> e, match |-> m,
              write |-> writes + 1])

\* Mutant: a customer may not keep its own email.
IsSelfNever(r, k) == FALSE

\* existingId === id, the latter as the request spells it.
IsSelf(r, k) == k = r.id /\ r.asPrinted

\* findOne by emailCanonical returns any of the customers that have it.
CheckEmail(c) ==
  LET r == req[c] IN
  /\ r # None
  /\ r.step = "checkEmail"
  /\ \/ /\ \/ ~EmailTaken(r.email, None)
           \/ \E k \in Holders(r.email, None) : IsSelf(r, k)
        /\ Proceed(c, "update")
     \/ /\ \E k \in Holders(r.email, None) : ~IsSelf(r, k)
        /\ Throw(c, DuplicateEmail)
  /\ UNCHANGED <<customers, unused, tag, writes, imports>>

\* Mutant: the version is not part of the filter.
MatchesAny(r) == Exists(r.id)

\* The filter { _id, __v } of findOneAndUpdate.
Matches(r) ==
  Exists(r.id) /\ r.match \in {AnyVersion, customers[r.id].version}

\* Mutant: an email that was not sent is written all the same.
PatchedClearing(r) ==
  [customers[r.id] EXCEPT !.email = r.email, !.version = @ + 1,
                          !.written = r.write]

\* Mutant: __v is incremented only when the request named a version.
PatchedSometimes(r) ==
  [customers[r.id] EXCEPT !.email = IF r.email = None THEN @ ELSE r.email,
                          !.version = IF r.match = AnyVersion THEN @ ELSE @ + 1,
                          !.written = r.write]

\* { $set: updateData, $inc: { __v: 1 } }
Patched(r) ==
  [customers[r.id] EXCEPT !.email = IF r.email = None THEN @ ELSE r.email,
                          !.version = @ + 1,
                          !.written = r.write]

Update(c) ==
  LET r == req[c] IN
  /\ r # None
  /\ r.step = "update"
  /\ \/ /\ ~Matches(r)
        /\ IF r.match = AnyVersion THEN Throw(c, NotFound)
                                   ELSE Proceed(c, "reread")
        /\ UNCHANGED <<customers, tag>>
     \/ /\ Matches(r)
        /\ Refused(r.email, r.id)
        /\ Throw(c, MongoError(DuplicateKey))
        /\ UNCHANGED <<customers, tag>>
     \/ /\ Matches(r)
        /\ ~Refused(r.email, r.id)
        /\ customers' = [customers EXCEPT ![r.id] = Patched(r)]
        /\ \/ Reply(c, "updated") /\ GiveTag(c, r.id)
           \/ Throw(c, ConnectionLost) /\ UNCHANGED tag
  /\ UNCHANGED <<unused, writes, imports>>

\* Tells a version conflict from a customer that is not there.
Reread(c) ==
  /\ req[c] # None
  /\ req[c].step = "reread"
  /\ Throw(c, IF Exists(req[c].id) THEN EtagMismatch ELSE NotFound)
  /\ UNCHANGED <<customers, unused, tag, writes, imports>>

-----------------------------------------------------------------------------
(* GET and DELETE /customers/:id, requests of one command.                 *)

Get(c, i) ==
  /\ req[c] = None
  /\ UNCHANGED <<customers, unused, writes, imports>>
  /\ IF Exists(i)
     THEN Reply(c, "ok") /\ GiveTag(c, i)
     ELSE Throw(c, NotFound) /\ UNCHANGED tag

Delete(c, i) ==
  /\ req[c] = None
  /\ IF Exists(i) THEN Reply(c, "deleted") ELSE Throw(c, NotFound)
  /\ customers' = [customers EXCEPT ![i] = None]
  /\ UNCHANGED <<unused, tag, writes, imports>>

\* A command of a request that fails and changed nothing.
CommandFails(c) ==
  /\ req[c] # None
  /\ Throw(c, ConnectionLost)
  /\ UNCHANGED <<customers, unused, tag, writes, imports>>

-----------------------------------------------------------------------------
\* One operation of a customer import's bulk write: an upsert by
\* emailCanonical that sets the fields and leaves __v alone.
Import(e) ==
  /\ imports < MaxImports
  /\ imports' = imports + 1
  /\ IF EmailTaken(e, None)
     THEN \E i \in Holders(e, None) :
            /\ customers' = [customers EXCEPT ![i].imported = imports + 1]
            /\ UNCHANGED unused
     ELSE \E i \in unused :
            /\ customers' = [customers EXCEPT ![i] = New(e, 0, imports + 1)]
            /\ unused' = unused \ {i}
  /\ answer' = None
  /\ UNCHANGED <<req, tag, writes>>

\* A process starts: createIndexes, which fails while two customers share an
\* email.
CreateIndexes ==
  /\ ~indexed
  /\ indexed' = \A i \in Ids : Exists(i) => ~EmailTaken(customers[i].email, i)
  /\ answer' = None
  /\ UNCHANGED <<customers, unused, req, tag, writes, imports>>

-----------------------------------------------------------------------------
RequestStep(c) ==
  CheckNew(c) \/ Insert(c) \/ CheckEmail(c) \/ Update(c) \/ Reread(c)

Served ==
  \/ \E c \in Clients :
       \/ \E e \in Emails : Post(c, e)
       \/ \E i \in Ids, e \in Emails \cup {None} : Patch(c, i, e)
       \/ \E i \in Ids : Get(c, i) \/ Delete(c, i)
       \/ RequestStep(c)
       \/ CommandFails(c)
  \/ \E e \in Emails : Import(e)

Next == (Served /\ UNCHANGED indexed) \/ CreateIndexes

Spec == Init /\ [][Next]_vars

-----------------------------------------------------------------------------
\* Every variable has its type; no id handed out is unused.
TypeOK ==
  /\ indexed \in BOOLEAN
  /\ customers \in [Ids -> Document]
  /\ unused \subseteq {i \in Ids : ~Exists(i)}
  /\ req \in [Clients -> Request \cup {None}]
  /\ tag \in [Clients -> ETag \cup {None}]
  /\ answer \in Answer \cup {None}
  /\ writes \in 0 .. MaxWrites
  /\ imports \in 0 .. MaxImports

\* An ETag a client still holds stands for what the client saw: as long as the
\* customer has that version, no request has written it since, and its email
\* is the one the client read.  (An import may have.)
TagTellsWrites ==
  \A c \in Clients :
    LET t == tag[c] IN
    t # None /\ Exists(t.id) =>
      /\ t.seen.version <= customers[t.id].version
      /\ customers[t.id].version = t.seen.version =>
           /\ customers[t.id].written = t.seen.written
           /\ customers[t.id].email = t.seen.email

\* A PATCH that names the version it read is applied only to the document as
\* some request left it when that version was read: it never overwrites the
\* write of another request.
IfMatchLosesNoWrite ==
  [][\A c \in Clients :
       /\ answer' = [to |-> c, what |-> "updated"]
       /\ req[c].match # AnyVersion
       => /\ tag[c] # None
          /\ tag[c].id = req[c].id
          /\ customers[req[c].id].written = tag[c].seen.written]_vars

=============================================================================
