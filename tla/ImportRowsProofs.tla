-------------------------- MODULE ImportRowsProofs --------------------------
(***************************************************************************)
(* Whatever the rows of a sheet, and however many: of the rows written     *)
(* that agree on the unique index, exactly the last is in the collection.  *)
(* What the proof needs of the code is that every handler's upsert filter  *)
(* is the key of its collection's unique index, and that the order of the  *)
(* rows is the order of the upserts.                                       *)
(***************************************************************************)
EXTENDS ImportRows, TLAPS

\* The upserts are a sequence (of what does not matter), and the write is
\* somewhere in them.
OpsOK ==
  /\ type \in Types
  /\ \E S : ops \in Seq(S)
  /\ done \in 0 .. Len(ops)

\* Every handler's filter is the key of the unique index of its collection.
LEMMA FilterIsIndex ==
  ASSUME NEW t \in Types
  PROVE  getUpsertFilter(t) = uniqueIndex(t)
<1> USE DEF getUpsertFilter, uniqueIndex
<1>1. CASE t = "ap"
  BY <1>1 DEF AccountsPayableFilter, AccountsPayableIndex
<1>2. CASE t = "ar"
  BY <1>2 DEF AccountsReceivableFilter, AccountsReceivableIndex
<1>3. CASE t = "budgetForecast"
  BY <1>3 DEF BudgetForecastFilter, BudgetForecastIndex
<1>4. CASE t = "expenseClaims"
  BY <1>4 DEF ExpenseClaimsFilter, ExpenseClaimsIndex
<1>5. CASE t = "gl"
  BY <1>5 DEF GeneralLedgerFilter, GeneralLedgerIndex
<1>6. CASE t = "customers"
  BY <1>6 DEF CustomerFilter, CustomerIndex
<1>7. QED BY <1>1, <1>2, <1>3, <1>4, <1>5, <1>6 DEF Types, ManifestTypes

\* A row that is read joins the upserts, or not; nothing is written yet.
LEMMA ProcessRowOps ==
  ASSUME OpsOK, ProcessRow
  PROVE  OpsOK' /\ done' = 0
<1>1. PICK op : ops' \in {ops, Append(ops, op)}
  BY DEF ProcessRow
<1>2. PICK S : ops \in Seq(S)
  BY DEF OpsOK
<1>3. ops \in Seq(S \cup {op})
  BY <1>2
<1>4. ops' \in Seq(S \cup {op})
  BY <1>1, <1>3
<1>5. done = 0 /\ done' = 0 /\ type' = type
  BY DEF ProcessRow
<1>6. Len(ops') \in Nat
  BY <1>4
<1>7. QED BY <1>4, <1>5, <1>6 DEF OpsOK

\* The next upsert is one of the upserts.
LEMMA BulkWriteOps ==
  ASSUME OpsOK, BulkWrite
  PROVE  OpsOK'
<1>1. PICK S : ops \in Seq(S)
  BY DEF OpsOK
<1>2. done + 1 \in 0 .. Len(ops)
  BY <1>1 DEF OpsOK, BulkWrite
<1>3. QED BY <1>1, <1>2 DEF OpsOK, BulkWrite

\* A row is superseded after the next upsert if it was before, or if that
\* upsert has its key; the upsert itself is not.
LEMMA SupersededNext ==
  ASSUME OpsOK, BulkWrite, NEW i \in 1 .. done + 1
  PROVE  Superseded(i)' <=> /\ i <= done
                           /\ \/ Superseded(i)
                              \/ SameOn(uniqueIndex(type), ops[i].value,
                                        ops[done + 1].value)
<1>1. done' = done + 1 /\ ops' = ops /\ type' = type /\ done \in Nat
  BY DEF OpsOK, BulkWrite
<1>2. Superseded(i)' <=>
        \E k \in i + 1 .. done + 1 :
          SameOn(uniqueIndex(type), ops[i].value, ops[k].value)
  BY <1>1 DEF Superseded, SameOn
<1>3. ASSUME NEW k
      PROVE  k \in i + 1 .. done + 1 <=>
               i <= done /\ (k \in i + 1 .. done \/ k = done + 1)
  BY <1>1
<1>4. QED BY <1>2, <1>3 DEF Superseded

\* Exactly the last written row of each key is in the collection, for every
\* number of rows.
THEOREM LastRowStored == Spec => []LastRowOfAKeyIsStored
<1> DEFINE Inv == OpsOK /\ LastRowOfAKeyIsStored
<1>1. Init => Inv
  <2> SUFFICES ASSUME Init PROVE Inv
    OBVIOUS
  <2>1. ops \in Seq({}) /\ Len(ops) = 0
    BY DEF Init
  <2>2. OpsOK
    BY <2>1 DEF Init, OpsOK
  <2>3. 1 .. done = {}
    BY DEF Init
  <2>4. LastRowOfAKeyIsStored
    BY <2>3 DEF Init, LastRowOfAKeyIsStored
  <2>5. QED BY <2>2, <2>4
<1>2. Inv /\ [Next]_vars => Inv'
  <2> SUFFICES ASSUME Inv, [Next]_vars PROVE Inv'
    OBVIOUS
  <2>1. CASE ProcessRow
    <3>1. OpsOK' /\ done' = 0 /\ done = 0 /\ docs' = docs
      BY <2>1, ProcessRowOps DEF ProcessRow
    <3>2. 1 .. done = {} /\ 1 .. done' = {}
      BY <3>1
    <3>3. docs = {}
      BY <3>2 DEF LastRowOfAKeyIsStored
    <3>4. LastRowOfAKeyIsStored'
      BY <3>1, <3>2, <3>3 DEF LastRowOfAKeyIsStored
    <3>5. QED BY <3>1, <3>4
  <2>2. CASE BulkWrite
    <3> DEFINE v == ops[done + 1].value
               F == uniqueIndex(type)
    <3>1. OpsOK' /\ done' = done + 1 /\ ops' = ops /\ done \in Nat
      BY <2>2, BulkWriteOps DEF BulkWrite, OpsOK
    <3>2. docs' = {d \in docs : ~SameOn(F, d, v)} \cup {v}
      BY <2>2, FilterIsIndex DEF BulkWrite, Upserted, OpsOK
    <3>3. 1 .. done' = (1 .. done) \cup {done + 1}
      BY <3>1
    <3>4. \A i \in 1 .. done :
            Superseded(i)' <=> Superseded(i) \/ SameOn(F, ops[i].value, v)
      BY <2>2, <3>1, SupersededNext
    <3>5. ASSUME NEW i, i = done + 1
          PROVE  ~Superseded(i)'
      <4>1. i \in 1 .. done + 1 /\ ~(i <= done)
        BY <3>1, <3>5
      <4>2. QED BY <2>2, <4>1, SupersededNext
    <3>6. docs = {ops[i].value : i \in {i \in 1 .. done : ~Superseded(i)}}
      BY DEF LastRowOfAKeyIsStored
    <3> HIDE DEF v, F
    <3>7. docs' =
            {ops[i].value : i \in {i \in 1 .. done' : ~Superseded(i)'}}
      <4>1. ops[done + 1].value = v
        BY DEF v
      <4>2. QED BY <3>2, <3>3, <3>4, <3>5, <3>6, <4>1
    <3>8. QED BY <3>1, <3>7 DEF LastRowOfAKeyIsStored
  <2>3. CASE UNCHANGED vars
    BY <2>3 DEF vars, OpsOK, LastRowOfAKeyIsStored, Superseded, SameOn
  <2>4. QED BY <2>1, <2>2, <2>3 DEF Next
<1>3. QED BY <1>1, <1>2, PTL DEF Spec

-----------------------------------------------------------------------------
\* A document that the schema of type t allows.
Allowed(t, d) ==
  /\ DOMAIN d = DOMAIN mongoose(t)
  /\ \A f \in DOMAIN d : d[f] \in mongoose(t)[f]

\* The fields of a manifest type are the same in both schemas, and the Joi
\* schema allows no value that the mongoose schema does not.
LEMMA JoiWithinSchema ==
  ASSUME NEW t \in ManifestTypes
  PROVE  /\ DOMAIN mongoose(t) = DOMAIN joi(t)
         /\ \A f \in DOMAIN joi(t) : joi(t)[f] \subseteq mongoose(t)[f]
<1>1. CASE t = "ap"
  BY <1>1 DEF joi, mongoose, accountsPayableSchema, AccountsPayable
<1>2. CASE t = "ar"
  BY <1>2 DEF joi, mongoose, accountsReceivableSchema, AccountsReceivable
<1>3. CASE t = "expenseClaims"
  BY <1>3 DEF joi, mongoose, expenseClaimsSchema, ExpenseClaims
<1>4. CASE t = "budgetForecast"
  BY <1>4 DEF joi, mongoose, budgetForecastSchema, BudgetForecast, Integer
<1>5. CASE t = "gl"
  <2>1. joi(t) = generalLedgerSchema /\ mongoose(t) = GeneralLedger
    BY <1>5 DEF joi, mongoose
  <2>2. DOMAIN GeneralLedger = DOMAIN generalLedgerSchema
    BY DEF generalLedgerSchema, GeneralLedger
  <2>3. Integer \subseteq Int
    BY DEF Integer
  <2>4. ASSUME NEW f \in DOMAIN generalLedgerSchema, f # "accountNumber"
        PROVE  generalLedgerSchema[f] = GeneralLedger[f]
    <3>1. f \in {"glId", "txnDate", "accountName", "debit", "credit", "dept",
                 "costCenter", "description", "currency"}
      BY <2>4 DEF generalLedgerSchema
    <3>2. /\ generalLedgerSchema.glId = GeneralLedger.glId
          /\ generalLedgerSchema.txnDate = GeneralLedger.txnDate
          /\ generalLedgerSchema.accountName = GeneralLedger.accountName
          /\ generalLedgerSchema.debit = GeneralLedger.debit
          /\ generalLedgerSchema.credit = GeneralLedger.credit
          /\ generalLedgerSchema.dept = GeneralLedger.dept
          /\ generalLedgerSchema.costCenter = GeneralLedger.costCenter
          /\ generalLedgerSchema.description = GeneralLedger.description
          /\ generalLedgerSchema.currency = GeneralLedger.currency
      BY DEF generalLedgerSchema, GeneralLedger
    <3>3. QED BY <3>1, <3>2
  <2>5. /\ generalLedgerSchema["accountNumber"] = Integer
        /\ GeneralLedger["accountNumber"] = Int
    BY DEF generalLedgerSchema, GeneralLedger
  <2>6. QED BY <2>1, <2>2, <2>3, <2>4, <2>5
<1>6. QED BY <1>1, <1>2, <1>3, <1>4, <1>5 DEF ManifestTypes

\* What is written of a row that validates is allowed by the schema.
LEMMA ValueAllowed ==
  ASSUME NEW t \in Types, NEW row,
         t \in ManifestTypes => DOMAIN row = DOMAIN joi(t),
         Validates(t, Normalized(t, row))
  PROVE  Allowed(t, Value(t, row))
<1>1. CASE t \in ManifestTypes
  <2>1. t # "customers"
    BY <1>1 DEF ManifestTypes
  <2>2. /\ Normalized(t, row) = normalizeRow(t, row)
        /\ Value(t, row) = normalizeRow(t, row)
    BY <2>1 DEF Normalized, Value
  <2>3. DOMAIN normalizeRow(t, row) = DOMAIN joi(t)
    BY <1>1 DEF normalizeRow
  <2>4. \A f \in DOMAIN joi(t) : normalizeRow(t, row)[f] \in joi(t)[f]
    BY <2>2 DEF Validates
  <2>5. QED BY <1>1, <2>2, <2>3, <2>4, JoiWithinSchema DEF Allowed
<1>2. CASE t = "customers"
  <2> DEFINE n == normalizeCustomerRow(row)
  <2>1. /\ Normalized(t, row) = n
        /\ Value(t, row) = [name |-> n.name, email |-> n.email,
                            balance |-> n.balance,
                            emailCanonical |-> toLowerCase(n.email)]
    BY <1>2 DEF Normalized, Value
  <2>2. joi(t) = [name |-> STRING \ TooShort, email |-> Emails,
                  balance |-> Nat]
    BY <1>2 DEF joi, createCustomerSchema
  <2> HIDE DEF n
  <2>3. n.name \in STRING \ TooShort /\ n.email \in Emails /\ n.balance \in Nat
    BY <2>1, <2>2 DEF Validates
  <2>4. n.email \in Text /\ toLowerCase(n.email) \in Emails
    <3>1. n.email \in Text /\ n.email # "A@x.io"
      BY <2>3 DEF Emails
    <3>2. toLowerCase(n.email) = n.email
      BY <3>1 DEF toLowerCase
    <3>3. QED BY <2>3, <3>1, <3>2
  <2>5. mongoose(t) = [name |-> STRING \ TooShort, email |-> Text,
                       emailCanonical |-> Emails, balance |-> Nat]
    BY <1>2 DEF mongoose, Customer
  <2>6. QED BY <2>1, <2>3, <2>4, <2>5 DEF Allowed
<1>3. QED BY <1>1, <1>2 DEF Types

\* Every document an import stores satisfies the schema of its collection,
\* although no validator of that schema runs.
THEOREM DocsAllowed == Spec => []StoredDocsSatisfySchema
<1> DEFINE Inv == /\ type \in Types
                  /\ type \in ManifestTypes => columns = DOMAIN joi(type)
                  /\ \E S : /\ ops \in Seq(S)
                            /\ \A op \in S : Allowed(type, op.value)
                  /\ done \in 0 .. Len(ops)
                  /\ \A d \in docs : Allowed(type, d)
<1>1. Init => Inv
  <2> SUFFICES ASSUME Init PROVE Inv
    OBVIOUS
  <2>1. ops \in Seq({}) /\ Len(ops) = 0
    BY DEF Init
  <2>2. type \in ManifestTypes => columns = DOMAIN joi(type)
    BY DEF Init, Headers, ManifestTypes
  <2>3. QED BY <2>1, <2>2 DEF Init
<1>2. Inv /\ [Next]_vars => Inv'
  <2> SUFFICES ASSUME Inv, [Next]_vars PROVE Inv'
    OBVIOUS
  <2>1. PICK S : ops \in Seq(S) /\ \A op \in S : Allowed(type, op.value)
    OBVIOUS
  <2>2. CASE ProcessRow
    <3>1. UNCHANGED <<type, columns, done, docs>> /\ done = 0
      BY <2>2 DEF ProcessRow
    <3>2. PICK row \in Rows :
            ops' = IF Validates(type, Normalized(type, row))
                   THEN Append(ops, [row |-> row, value |-> Value(type, row)])
                   ELSE ops
      BY <2>2 DEF ProcessRow
    <3>3. type \in ManifestTypes => DOMAIN row = DOMAIN joi(type)
      BY <3>2 DEF Rows, PlainRow, ManifestTypes
    <3>4. CASE Validates(type, Normalized(type, row))
      <4> DEFINE op == [row |-> row, value |-> Value(type, row)]
      <4>1. Allowed(type, op.value)
        BY <3>3, <3>4, ValueAllowed
      <4> HIDE DEF op
      <4>2. ops' = Append(ops, op)
        BY <3>2, <3>4 DEF op
      <4>3. ops' \in Seq(S \cup {op}) /\ 0 \in 0 .. Len(ops')
        BY <2>1, <4>2
      <4>4. \A o \in S \cup {op} : Allowed(type, o.value)
        BY <2>1, <4>1
      <4>5. QED BY <3>1, <4>3, <4>4 DEF Allowed, mongoose
    <3>5. CASE ops' = ops
      BY <2>1, <3>1, <3>5
    <3>6. QED BY <3>2, <3>4, <3>5
  <2>3. CASE BulkWrite
    <3>1. /\ UNCHANGED <<type, columns, ops>>
          /\ done' = done + 1 /\ done + 1 \in 1 .. Len(ops)
          /\ docs' \subseteq docs \cup {ops[done + 1].value}
      BY <2>1, <2>3 DEF BulkWrite, Upserted
    <3>2. ops[done + 1] \in S
      BY <2>1, <3>1
    <3>3. \A d \in docs' : Allowed(type, d)
      BY <2>1, <3>1, <3>2
    <3>4. QED BY <2>1, <3>1, <3>3
  <2>4. CASE UNCHANGED vars
    BY <2>4 DEF vars
  <2>5. QED BY <2>2, <2>3, <2>4 DEF Next
<1>3. Inv => StoredDocsSatisfySchema
  BY DEF StoredDocsSatisfySchema, Allowed
<1>4. QED BY <1>1, <1>2, <1>3, PTL DEF Spec

-----------------------------------------------------------------------------
(* Dates and numbers.                                                      *)

LEMMA NumberKept ==
  ASSUME NEW t, NEW f \in numberFields, NEW cell \in NumberCells
  PROVE  PlainMeaning(cell) # Null =>
           NormalizedCell(t, f, cell) = PlainMeaning(cell)
<1>1. f \notin dateFields /\ f \notin {"currency", "status"}
  BY DEF numberFields, dateFields
<1>2. trim(cell) = cell \/ cell = " "
  BY DEF NumberCells, trim
<1>3. cell # "" => NormalizedCell(t, f, cell) = Number(trim(cell))
  BY <1>1 DEF NormalizedCell
<1>4. ASSUME PlainMeaning(cell) # Null
      PROVE  cell \in {"0", "2", "3", "-2", "1.5", "2024"}
             /\ PlainMeaning(cell) = parseFloat(cell)
  BY <1>4 DEF PlainMeaning, NumberCells
<1>5. SUFFICES ASSUME PlainMeaning(cell) # Null
               PROVE  NormalizedCell(t, f, cell) = PlainMeaning(cell)
  OBVIOUS
<1>6. NormalizedCell(t, f, cell) = Number(cell)
  BY <1>2, <1>3, <1>4, <1>5
<1>7. QED BY <1>4, <1>5, <1>6 DEF Number

\* A plain date is midnight in the server's zone, and read there.
LEMMA DateKept ==
  ASSUME NEW t, NEW f \in dateFields, NEW cell \in DateCells
  PROVE  PlainMeaning(cell) # Null =>
           NormalizedCell(t, f, cell) = PlainMeaning(cell)
<1>1. trim(cell) = cell
  BY DEF DateCells, trim
<1>2. cell # "" => NormalizedCell(t, f, cell) = parseExcelDate(cell)
  <2>1. f \notin numberFields /\ f \notin {"currency", "status"}
    BY DEF numberFields, dateFields
  <2>2. QED BY <1>1, <2>1 DEF NormalizedCell
<1>3. ASSUME cell = "1/15/24" PROVE parseExcelDate(cell) = 15
  <2>1. newDate(cell) = [day |-> 15, of |-> "server"]
    BY <1>3 DEF newDate
  <2>2. newDate(cell) # Null /\ LocalDay(newDate(cell)) = 15
    BY <2>1, NullAssumption DEF LocalDay
  <2>3. QED BY <2>2 DEF parseExcelDate
<1>4. PlainMeaning(cell) # Null => cell = "1/15/24" /\ PlainMeaning(cell) = 15
  BY DEF PlainMeaning, DateCells
<1>5. QED BY <1>2, <1>3, <1>4

\* The cells of a row are those of their columns.
LEMMA CellsOfRows ==
  ASSUME type \in ManifestTypes, NEW row \in Rows, NEW f \in DOMAIN row
  PROVE  /\ f \in dateFields => row[f] \in DateCells
         /\ f \in numberFields => row[f] \in NumberCells
<1>1. PICK g \in columns : \E c \in CellsOf(g) : row = [PlainRow EXCEPT ![g] = c]
  BY DEF Rows, ManifestTypes
<1>2. f \in columns /\ (row[f] \in CellsOf(f) \/ row[f] = PlainCell(f))
  BY <1>1 DEF PlainRow
<1>3. ASSUME f \in dateFields
      PROVE  PlainCell(f) \in DateCells /\ CellsOf(f) = DateCells
  <2>1. /\ f \notin numberFields
        /\ f \notin {"fiscalYear", "credit", "currency", "status"}
    BY <1>3 DEF numberFields, dateFields
  <2>2. PlainCell(f) = "1/15/24"
    BY <1>3, <2>1 DEF PlainCell
  <2>3. QED BY <1>3, <2>1, <2>2 DEF CellsOf, DateCells
<1>4. ASSUME f \in numberFields
      PROVE  PlainCell(f) \in NumberCells /\ CellsOf(f) = NumberCells
  <2>1. f \notin dateFields /\ f \notin {"currency", "status"}
    BY <1>4 DEF numberFields, dateFields
  <2>2. PlainCell(f) \in {"2024", "0", "2"}
    BY <1>4, <2>1 DEF PlainCell
  <2>3. QED BY <1>4, <2>1, <2>2 DEF CellsOf, NumberCells
<1>5. QED BY <1>1, <1>2, <1>3, <1>4

\* The dates and numbers of a row, and what is written of them.
Kept(row, value) ==
  \A f \in (DOMAIN row) \cap (dateFields \cup numberFields) :
    PlainMeaning(row[f]) # Null => value[f] = PlainMeaning(row[f])

LEMMA RowsKept ==
  ASSUME type \in Types, columns \in Headers(type), NEW row \in Rows
  PROVE  Kept(row, Value(type, row))
<1>1. CASE type = "customers"
  <2>1. DOMAIN row = columns
    BY <1>1 DEF Rows, CustomerRows
  <2>2. columns \subseteq {"Name", "email", "Balance", "name", "EMAIL", "CustomerName"}
    BY <1>1 DEF Headers
  <2>3. (DOMAIN row) \cap (dateFields \cup numberFields) = {}
    BY <2>1, <2>2 DEF dateFields, numberFields
  <2>4. QED BY <2>3 DEF Kept
<1>2. CASE type \in ManifestTypes
  <2>1. type # "customers"
    BY <1>2 DEF ManifestTypes
  <2>2. Value(type, row) = [f \in DOMAIN row |-> NormalizedCell(type, f, row[f])]
    BY <2>1 DEF Value, Normalized, normalizeRow
  <2>3. ASSUME NEW f \in (DOMAIN row) \cap (dateFields \cup numberFields)
        PROVE  PlainMeaning(row[f]) # Null =>
                 NormalizedCell(type, f, row[f]) = PlainMeaning(row[f])
    <3>1. f \in dateFields => row[f] \in DateCells
      BY <1>2, CellsOfRows
    <3>2. f \in numberFields => row[f] \in NumberCells
      BY <1>2, CellsOfRows
    <3>3. QED BY <3>1, <3>2, DateKept, NumberKept
  <2>4. QED BY <2>2, <2>3 DEF Kept
<1>3. QED BY <1>1, <1>2 DEF Types

\* Wherever the server runs, the plain dates and numbers of the rows of any
\* sheet are stored as they are meant.
THEOREM PlainCellsKept == Spec => []PlainCellsKeepTheirValue
<1> DEFINE Inv == /\ type \in Types /\ columns \in Headers(type)
                  /\ \E S : /\ ops \in Seq(S)
                            /\ \A op \in S : Kept(op.row, op.value)
<1>1. Init => Inv
  <2> SUFFICES ASSUME Init PROVE Inv
    OBVIOUS
  <2>1. ops \in Seq({})
    BY DEF Init
  <2>2. \E S : ops \in Seq(S) /\ \A op \in S : Kept(op.row, op.value)
    <3> WITNESS {}
    <3>1. QED BY <2>1
  <2>3. QED BY <2>2 DEF Init
<1>2. Inv /\ [Next]_vars => Inv'
  <2> SUFFICES ASSUME Inv, [Next]_vars PROVE Inv'
    OBVIOUS
  <2>1. PICK S : ops \in Seq(S) /\ \A op \in S : Kept(op.row, op.value)
    OBVIOUS
  <2>2. CASE ProcessRow
    <3>1. type' = type /\ columns' = columns /\ zone' = zone
      BY <2>2 DEF ProcessRow
    <3>2. PICK row \in Rows :
            ops' \in {ops, Append(ops, [row |-> row, value |-> Value(type, row)])}
      BY <2>2 DEF ProcessRow
    <3> DEFINE op == [row |-> row, value |-> Value(type, row)]
    <3>3. Kept(op.row, op.value)
      BY RowsKept
    <3>4. ops' \in {ops, Append(ops, op)}
      BY <3>2
    <3> HIDE DEF op
    <3>5. ops' \in Seq(S \cup {op})
      BY <2>1, <3>4
    <3>6. \A o \in S \cup {op} : Kept(o.row, o.value)'
      BY <2>1, <3>1, <3>3 DEF Kept
    <3>7. QED BY <3>1, <3>5, <3>6 DEF Headers, Kept
  <2>3. CASE BulkWrite \/ UNCHANGED vars
    <3>1. type' = type /\ columns' = columns /\ zone' = zone /\ ops' = ops
      BY <2>3 DEF BulkWrite, vars
    <3>2. QED BY <3>1 DEF Kept, Headers
  <2>4. QED BY <2>2, <2>3 DEF Next
<1>3. Inv => PlainCellsKeepTheirValue
  <2> SUFFICES ASSUME Inv PROVE PlainCellsKeepTheirValue
    OBVIOUS
  <2>1. \A i \in DOMAIN ops : Kept(ops[i].row, ops[i].value)
    OBVIOUS
  <2>2. QED BY <2>1 DEF PlainCellsKeepTheirValue, Kept
<1>4. QED BY <1>1, <1>2, <1>3, PTL DEF Spec

=============================================================================
