----------------------------- MODULE ImportRows -----------------------------
(***************************************************************************)
(* What becomes of the cells of an imported sheet: every row is normalised *)
(* (xlsx.util.ts, or ImportXlsxHandler for customers), validated by the    *)
(* Joi schema of its type, and written by one bulk write of upserts, which *)
(* runs no validator of the mongoose schema.                               *)
(*                                                                         *)
(* SheetJS is asked for formatted text (raw: false, defval: ''), so that   *)
(* every cell is a string and a missing one is "".  Each string below      *)
(* stands for the cells like it; what JavaScript's own functions make of   *)
(* it is tabulated.  A row maps columns to cells; a column of the manifest *)
(* goes by the field it is mapped to.  Numbers are counted in tenths,      *)
(* dates in days of January 2024.                                          *)
(***************************************************************************)
EXTENDS Integers, Sequences

CONSTANTS
  Null,       \* null and undefined
  Zones,      \* UTC offsets, in hours, the server may run in
  MaxRows     \* bound: rows of a sheet

ASSUME ZonesAssumption == Zones \subseteq -12 .. 14
ASSUME MaxRowsAssumption == MaxRows \in Nat
ASSUME NullAssumption == Null \notin [day : Int, of : {"server", "UTC"}]

VARIABLES
  type,      \* the import type
  zone,      \* the server's UTC offset
  columns,   \* the columns of the sheet
  rows,      \* the rows read so far
  ops,       \* the validated rows: the upserts of the bulk write
  done,      \* how many of them the bulk write has done
  docs       \* the collection

vars == <<type, zone, columns, rows, ops, done, docs>>

-----------------------------------------------------------------------------
(* Cells, and JavaScript's functions on them.                              *)

TextCells == {"", " ", "A1", " A1", "B2"}
NumberCells == {"", " ", "2", "3", "-2", "1.5", "5,000", "$5", "n/a", "0", "2024"}
DateCells == {"", "1/15/24", "2024-01-15", "45306", "n/a"}
CurrencyCells == {"", " ", "USD", "usd", "US"}
StatusCells == {"", "Paid", " Partial", "Received", "paid", "Approved"}
NameCells == {"", " ", "Ann", " Ann", "A"}
EmailCells == {"", " ", "a@x.io", " A@x.io", "b@x.io", "nope"}

trim(c) == CASE c = " " -> ""
             [] c = " A1" -> "A1"
             [] c = " Ann" -> "Ann"
             [] c = " Partial" -> "Partial"
             [] c = " A@x.io" -> "A@x.io"
             [] OTHER -> c

toUpperCase(c) == IF c = "usd" THEN "USD" ELSE c

toLowerCase(c) == IF c = "A@x.io" THEN "a@x.io" ELSE c

\* parseFloat reads the longest prefix that is a number; Null stands for NaN.
parseFloat(c) == CASE c = "0" -> 0
                   [] c = "2" -> 20
                   [] c = "3" -> 30
                   [] c = "-2" -> -20
                   [] c = "1.5" -> 15
                   [] c = "2024" -> 20240
                   [] c = "5,000" -> 50
                   [] OTHER -> Null

FarFuture == 99999      \* a day of the year 45306

\* The midnight new Date(c) stands for, of the server's zone or of UTC; Null
\* for an invalid date.
newDate(c) == CASE c = "1/15/24" -> [day |-> 15, of |-> "server"]
                [] c = "2024-01-15" -> [day |-> 15, of |-> "UTC"]
                [] c = "45306" -> [day |-> FarFuture, of |-> "server"]
                [] OTHER -> Null

\* getFullYear, getMonth and getDate: the day it is in the server's zone.
LocalDay(d) == IF d.of = "UTC" /\ zone < 0 THEN d.day - 1 ELSE d.day

-----------------------------------------------------------------------------
(* config/import-manifest.json and the Joi schemas: the fields of each     *)
(* type, each with the values it may have.                                 *)

Text == STRING \ {""}
Integer == {n \in Int : n % 10 = 0}
Orr(S) == S \cup {Null}                  \* .allow(null)
CurrencyCode == {"USD"}                  \* those of the cells that match
PaymentStatus == {"Open", "Paid", "PartiallyPaid", "Overdue", "Canceled"}
ClaimStatus == {"Submitted", "Approved", "Rejected", "Paid"}
Emails == Text \cap {"a@x.io", "b@x.io"}  \* those of the cells that are one
TooShort == {"", "A"}                    \* those under two characters

accountsPayableSchema ==
  [apId |-> Text, vendor |-> Text, invoiceDate |-> Int, dueDate |-> Int,
   amount |-> Int, currency |-> CurrencyCode, status |-> PaymentStatus,
   paidDate |-> Orr(Int), terms |-> Orr(STRING)]

accountsReceivableSchema ==
  [arId |-> Text, customer |-> Text, invoiceDate |-> Int, dueDate |-> Int,
   amount |-> Int, currency |-> CurrencyCode, status |-> PaymentStatus,
   receivedDate |-> Orr(Int), terms |-> Orr(STRING)]

budgetForecastSchema ==
  [fiscalYear |-> {n \in Integer : n \in 20000 .. 21000}, dept |-> Text,
   quarter |-> {n \in Integer : n \in 10 .. 40}, budgetUsd |-> Int,
   forecastUsd |-> Int, actualUsd |-> Int, varianceUsd |-> Int,
   notes |-> Orr(STRING)]

expenseClaimsSchema ==
  [claimId |-> Text, employeeId |-> Text, submitDate |-> Int,
   category |-> Text, description |-> Text, amount |-> Int,
   currency |-> CurrencyCode, status |-> ClaimStatus,
   approvedBy |-> Orr(STRING), payDate |-> Orr(Int)]

generalLedgerSchema ==
  [glId |-> Text, txnDate |-> Int, accountNumber |-> Integer,
   accountName |-> Text, debit |-> Nat, credit |-> Nat, dept |-> Orr(STRING),
   costCenter |-> Orr(STRING), description |-> Orr(STRING),
   currency |-> Orr(CurrencyCode \cup {""})]

createCustomerSchema ==
  [name |-> STRING \ TooShort, email |-> Emails, balance |-> Nat]

joi(t) == CASE t = "ap" -> accountsPayableSchema
            [] t = "ar" -> accountsReceivableSchema
            [] t = "budgetForecast" -> budgetForecastSchema
            [] t = "expenseClaims" -> expenseClaimsSchema
            [] t = "gl" -> generalLedgerSchema
            [] t = "customers" -> createCustomerSchema

ManifestTypes == {"ap", "ar", "budgetForecast", "expenseClaims", "gl"}
Types == ManifestTypes \cup {"customers"}

\* Mutant: no field is required.
ValidatesPresent(t, value) ==
  /\ \A f \in DOMAIN joi(t) : value[f] \in Orr(joi(t)[f])
  /\ t = "gl" => ~(value.debit = 0 /\ value.credit = 0)

\* schema.validate: every field has one of its values, and a journal entry
\* has a debit or a credit.
Validates(t, value) ==
  /\ \A f \in DOMAIN joi(t) : value[f] \in joi(t)[f]
  /\ t = "gl" => ~(value.debit = 0 /\ value.credit = 0)

-----------------------------------------------------------------------------
(* Normalisation of a row.                                                 *)

dateFields == {"invoiceDate", "dueDate", "paidDate", "receivedDate",
               "txnDate", "submitDate", "payDate"}

numberFields == {"amount", "debit", "credit", "accountNumber", "fiscalYear",
                 "quarter", "budgetUsd", "forecastUsd", "actualUsd",
                 "varianceUsd"}

\* Mutant: the day is taken from the UTC getters.
parseExcelDateInUtc(c) ==
  LET d == newDate(c) IN
  IF d = Null THEN Null
  ELSE IF d.of = "server" /\ zone > 0 THEN d.day - 1 ELSE d.day

\* The branch for serial numbers is not taken: a cell is text.
parseExcelDate(c) == IF newDate(c) = Null THEN Null ELSE LocalDay(newDate(c))

\* parseFloat(value) || 0
Number(c) == IF parseFloat(c) = Null THEN 0 ELSE parseFloat(c)

valueTransformations ==
  [ap |-> [Partial |-> "PartiallyPaid"],
   ar |-> [Partial |-> "PartiallyPaid", Received |-> "Paid"]]

\* The status as the manifest rewrites it.
Transformed(t, s) ==
  IF t \in DOMAIN valueTransformations /\ s \in DOMAIN valueTransformations[t]
  THEN valueTransformations[t][s]
  ELSE s

NormalizedCell(t, f, cell) ==
  LET c == trim(cell) IN
  IF cell = "" THEN Null
  ELSE CASE f \in dateFields  -> parseExcelDate(c)
         [] f = "currency"    -> toUpperCase(c)
         [] f \in numberFields -> Number(c)
         [] f = "status"      -> Transformed(t, c)
         [] OTHER             -> c

normalizeRow(t, row) == [f \in DOMAIN row |-> NormalizedCell(t, f, row[f])]

\* The first of the columns that the sheet has, blank or not.
getRowValue(row, keys) ==
  LET found == SelectSeq(keys, LAMBDA k : k \in DOMAIN row)
  IN  IF found = <<>> THEN "" ELSE row[Head(found)]

\* The customer of a row; one without a name or an email is refused, here or
\* by its schema.
normalizeCustomerRow(row) ==
  [name |-> trim(getRowValue(row,
      <<"name", "Name", "NAME", "customer_name", "CustomerName">>)),
   email |-> toLowerCase(trim(getRowValue(row,
      <<"email", "Email", "EMAIL", "customer_email", "CustomerEmail">>))),
   balance |-> Number(getRowValue(row, <<"balance", "Balance", "BALANCE">>))]

Normalized(t, row) ==
  IF t = "customers" THEN normalizeCustomerRow(row) ELSE normalizeRow(t, row)

\* What is written of a valid row.
Value(t, row) ==
  LET value == Normalized(t, row) IN
  IF t = "customers"
  THEN [name |-> value.name, email |-> value.email, balance |-> value.balance,
        emailCanonical |-> toLowerCase(value.email)]
  ELSE value

-----------------------------------------------------------------------------
(* The upserts.                                                            *)

\* The fields by which each handler's upsert finds its document.
AccountsPayableFilter == {"apId"}
AccountsReceivableFilter == {"arId"}
ExpenseClaimsFilter == {"claimId"}
GeneralLedgerFilter == {"glId"}
CustomerFilter == {"emailCanonical"}

\* Mutant: the forecasts of a department and year share one document.
BudgetForecastFilterYearly == {"fiscalYear", "dept"}

BudgetForecastFilter == {"fiscalYear", "dept", "quarter"}

getUpsertFilter(t) == CASE t = "ap" -> AccountsPayableFilter
                        [] t = "ar" -> AccountsReceivableFilter
                        [] t = "budgetForecast" -> BudgetForecastFilter
                        [] t = "expenseClaims" -> ExpenseClaimsFilter
                        [] t = "gl" -> GeneralLedgerFilter
                        [] t = "customers" -> CustomerFilter

SameOn(fields, a, b) == \A f \in fields : a[f] = b[f]

\* The collection after an updateOne with upsert, whose $set replaces every
\* field of the document found (the filter being the key of a unique index).
Upserted(value) ==
  {d \in docs : ~SameOn(getUpsertFilter(type), d, value)} \cup {value}

-----------------------------------------------------------------------------
\* Sheets: the header row, and rows that differ from a plain one in a cell.

CellsOf(f) == CASE f \in dateFields   -> DateCells
                [] f \in numberFields -> NumberCells
                [] f = "currency"     -> CurrencyCells
                [] f = "status"       -> StatusCells
                [] OTHER              -> TextCells

PlainCell(f) == CASE f \in dateFields   -> "1/15/24"
                  [] f = "fiscalYear"   -> "2024"
                  [] f = "credit"       -> "0"
                  [] f \in numberFields \ {"fiscalYear", "credit"} -> "2"
                  [] f = "currency"     -> "USD"
                  [] f = "status"       -> "Paid"
                  [] OTHER              -> "A1"

PlainRow == [f \in columns |-> PlainCell(f)]

CustomerRows ==
  {row \in [columns -> NameCells \cup EmailCells \cup NumberCells] :
     \A k \in columns :
       row[k] \in CASE k \in {"name", "Name", "CustomerName"} -> NameCells
                    [] k \in {"email", "EMAIL"} -> EmailCells
                    [] OTHER -> NumberCells}

Rows == IF type = "customers" THEN CustomerRows
        ELSE UNION {{[PlainRow EXCEPT ![f] = c] : c \in CellsOf(f)} :
                      f \in columns}

Headers(t) ==
  IF t = "customers"
  THEN {{"Name", "email", "Balance"}, {"name", "Name", "EMAIL"},
        {"CustomerName", "email"}, {"email", "Balance"}}
  ELSE {DOMAIN joi(t)}

Init ==
  /\ type \in Types
  /\ zone \in Zones
  /\ columns \in Headers(type)
  /\ rows = <<>>
  /\ ops = <<>>
  /\ done = 0
  /\ docs = {}

\* processRows: the next row is normalised and validated; a row that is
\* refused is an error of the summary.
ProcessRow ==
  /\ done = 0
  /\ Len(rows) < MaxRows
  /\ \E row \in Rows :
       /\ rows' = Append(rows, row)
       /\ ops' = IF Validates(type, Normalized(type, row))
                 THEN Append(ops, [row |-> row, value |-> Value(type, row)])
                 ELSE ops
  /\ UNCHANGED <<type, zone, columns, done, docs>>

\* executeBulkWrite: the upserts, in the order of their rows.
BulkWrite ==
  /\ done < Len(ops)
  /\ done' = done + 1
  /\ docs' = Upserted(ops[done + 1].value)
  /\ UNCHANGED <<type, zone, columns, rows, ops>>

Next == ProcessRow \/ BulkWrite

Spec == Init /\ [][Next]_vars

-----------------------------------------------------------------------------
(* The mongoose schemas, which a bulk write does not enforce: the values   *)
(* their validators allow in each field.                                   *)

AccountsPayable ==
  [apId |-> Text, vendor |-> Text, invoiceDate |-> Int, dueDate |-> Int,
   amount |-> Int, currency |-> CurrencyCode, status |-> PaymentStatus,
   paidDate |-> Orr(Int), terms |-> Orr(STRING)]

AccountsReceivable ==
  [arId |-> Text, customer |-> Text, invoiceDate |-> Int, dueDate |-> Int,
   amount |-> Int, currency |-> CurrencyCode, status |-> PaymentStatus,
   receivedDate |-> Orr(Int), terms |-> Orr(STRING)]

BudgetForecast ==
  [fiscalYear |-> 20000 .. 21000, dept |-> Text, quarter |-> 10 .. 40,
   budgetUsd |-> Int, forecastUsd |-> Int, actualUsd |-> Int,
   varianceUsd |-> Int, notes |-> Orr(STRING)]

ExpenseClaims ==
  [claimId |-> Text, employeeId |-> Text, submitDate |-> Int,
   category |-> Text, description |-> Text, amount |-> Int,
   currency |-> CurrencyCode, status |-> ClaimStatus,
   approvedBy |-> Orr(STRING), payDate |-> Orr(Int)]

GeneralLedger ==
  [glId |-> Text, txnDate |-> Int, accountNumber |-> Int,
   accountName |-> Text, debit |-> Nat, credit |-> Nat, dept |-> Orr(STRING),
   costCenter |-> Orr(STRING), description |-> Orr(STRING),
   currency |-> Orr(CurrencyCode \cup {""})]

\* emailCanonical is in lower case, as findByEmail and the index expect it.
Customer ==
  [name |-> STRING \ TooShort, email |-> Text, emailCanonical |-> Emails,
   balance |-> Nat]

mongoose(t) == CASE t = "ap" -> AccountsPayable
                 [] t = "ar" -> AccountsReceivable
                 [] t = "budgetForecast" -> BudgetForecast
                 [] t = "expenseClaims" -> ExpenseClaims
                 [] t = "gl" -> GeneralLedger
                 [] t = "customers" -> Customer

\* The fields of the unique index of each collection.
AccountsPayableIndex == {"apId"}
AccountsReceivableIndex == {"arId"}
BudgetForecastIndex == {"fiscalYear", "dept", "quarter"}
ExpenseClaimsIndex == {"claimId"}
GeneralLedgerIndex == {"glId"}
CustomerIndex == {"emailCanonical"}

uniqueIndex(t) == CASE t = "ap" -> AccountsPayableIndex
                    [] t = "ar" -> AccountsReceivableIndex
                    [] t = "budgetForecast" -> BudgetForecastIndex
                    [] t = "expenseClaims" -> ExpenseClaimsIndex
                    [] t = "gl" -> GeneralLedgerIndex
                    [] t = "customers" -> CustomerIndex

-----------------------------------------------------------------------------
\* Every document an import stores satisfies the schema of its collection,
\* although the bulk write that stores it runs none of the validators.
StoredDocsSatisfySchema ==
  \A d \in docs :
    /\ DOMAIN d = DOMAIN mongoose(type)
    /\ \A f \in DOMAIN d : d[f] \in mongoose(type)[f]

\* Whether a later row that is written has the unique index key of row i.
Superseded(i) ==
  \E k \in i + 1 .. done :
    SameOn(uniqueIndex(type), ops[i].value, ops[k].value)

\* Of the rows written that agree on the unique index, exactly the last is in
\* the collection: no upsert lands on a document of another key, and none is
\* refused by the index.  The key is that of the schema in the code; the
\* documents name others.
LastRowOfAKeyIsStored ==
  docs = {ops[i].value : i \in {i \in 1 .. done : ~Superseded(i)}}

\* What the author of a cell means by it, where it is in plain format: a date
\* as Excel shows it, a number without separator or currency sign.
PlainMeaning(c) == CASE c = "1/15/24" -> 15
                     [] c \in {"0", "2", "3", "-2", "1.5", "2024"} -> parseFloat(c)
                     [] OTHER -> Null

\* Wherever the server runs, a valid row's plain dates and numbers are stored
\* as they are meant.
PlainCellsKeepTheirValue ==
  \A i \in DOMAIN ops :
    \A f \in (DOMAIN ops[i].row) \cap (dateFields \cup numberFields) :
      LET meaning == PlainMeaning(ops[i].row[f]) IN
      meaning # Null => ops[i].value[f] = meaning

=============================================================================
