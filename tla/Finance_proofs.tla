--------------------------- MODULE Finance_proofs ---------------------------
(***************************************************************************)
(* What holds of the books and of everything read out of them, for any     *)
(* number of advocates, clients, days, amounts, runs and stops; and of the *)
(* requests that read and write them over the API, for any number of       *)
(* logins, keys, chats and requests.                                       *)
(*                                                                         *)
(* The first part is the inductive invariant LedgerInv: tables as opaque   *)
(* edits (Written, TableFollows), then sums, then a lemma for each action  *)
(* that the books stand after it (StepOK), then the passes. The second     *)
(* part is the pages: totals as sums over the tables, months side by side. *)
(* The third part is identities and requests (ViewInv).                    *)
(***************************************************************************)
EXTENDS LedgerRuns, AdvocateView, Sums

-----------------------------------------------------------------------------
(* Tables: what putting, editing and dropping a row does to one.           *)

LEMMA IdsFinite ==
  ASSUME NEW n \in Nat
  PROVE  IsFiniteSet(0 .. n) /\ IsFiniteSet(1 .. n)
BY FS_Interval

\* Table r is table t with one row more.
OneMore(r, t, m, e) ==
    /\ m \notin DOMAIN t /\ DOMAIN r = DOMAIN t \cup {m} /\ r[m] = e
    /\ \A i \in DOMAIN t : r[i] = t[i]

LEMMA PutRow ==
  ASSUME NEW t, NEW n \in Nat, NEW Row, TableOK(t, n, Row),
         NEW m \in Nat, m > n, NEW e \in Row, ~RefTaken(t, e.ref)
  PROVE  TableOK(Put(t, m, e), m, Row) /\ OneMore(Put(t, m, e), t, m, e)
<1> DEFINE r == Put(t, m, e)
<1>1. DOMAIN t \subseteq 1 .. n /\ \A i \in DOMAIN t : t[i] \in Row
  BY DEF TableOK
<1>2. m \notin DOMAIN t
  BY <1>1
<1>3. DOMAIN r = DOMAIN t \cup {m} /\ r[m] = e /\ \A i \in DOMAIN t : r[i] = t[i]
  BY <1>2 DEF Put
<1>4. r \in [DOMAIN r -> Row]
  <2>1. r = [i \in DOMAIN r |-> r[i]]
    BY DEF Put
  <2>2. \A i \in DOMAIN r : r[i] \in Row
    BY <1>1, <1>3
  <2>3. QED
    BY <2>1, <2>2
<1>5. DOMAIN r \subseteq 1 .. m
  BY <1>1, <1>3
<1>6. RefsUnique(r)
  <2> SUFFICES ASSUME NEW i \in DOMAIN r, NEW j \in DOMAIN r,
                      r[i].ref # NoRef, r[i].ref = r[j].ref
               PROVE  i = j
    BY DEF RefsUnique
  <2>1. CASE i \in DOMAIN t /\ j \in DOMAIN t
    BY <1>3, <2>1 DEF TableOK, RefsUnique
  <2>2. CASE i = m \/ j = m
    BY <1>3, <2>2 DEF RefTaken
  <2>3. QED
    BY <1>3, <2>1, <2>2
<1>7. QED
  BY <1>2, <1>3, <1>4, <1>5, <1>6 DEF TableOK, OneMore

LEMMA SetRow ==
  ASSUME NEW t, NEW n, NEW Row, TableOK(t, n, Row),
         NEW i \in DOMAIN t, NEW e \in Row, e.ref = t[i].ref, NEW r, r = [t EXCEPT ![i] = e]
  PROVE  /\ TableOK(r, n, Row) /\ DOMAIN r = DOMAIN t /\ r[i] = e
         /\ \A j \in DOMAIN t : j # i => r[j] = t[j]
<1>1. DOMAIN r = DOMAIN t /\ r[i] = e /\ \A j \in DOMAIN t : j # i => r[j] = t[j]
  OBVIOUS
<1>2. r \in [DOMAIN r -> Row]
  BY DEF TableOK
<1>3. RefsUnique(r)
  <2>1. \A j \in DOMAIN t : r[j].ref = t[j].ref
    BY <1>1
  <2>2. QED
    BY <1>1, <2>1 DEF TableOK, RefsUnique
<1>4. QED
  BY <1>1, <1>2, <1>3 DEF TableOK

LEMMA DropRows ==
  ASSUME NEW t, NEW n, NEW Row, TableOK(t, n, Row), NEW i
  PROVE  /\ TableOK(Drop(t, i), n, Row) /\ DOMAIN Drop(t, i) = DOMAIN t \ {i}
         /\ \A j \in DOMAIN t : j # i => Drop(t, i)[j] = t[j]
<1> DEFINE r == Drop(t, i)
<1>1. DOMAIN r = DOMAIN t \ {i} /\ \A j \in DOMAIN t : j # i => r[j] = t[j]
  BY DEF Drop
<1>2. r \in [DOMAIN r -> Row]
  <2>1. r = [j \in DOMAIN r |-> r[j]]
    BY DEF Drop
  <2>2. \A j \in DOMAIN r : r[j] \in Row
    BY <1>1 DEF TableOK
  <2>3. QED
    BY <2>1, <2>2
<1>3. RefsUnique(r)
  BY <1>1 DEF TableOK, RefsUnique
<1>4. QED
  BY <1>1, <1>2, <1>3 DEF TableOK

\* A table whose rows are replaced by others of the same references.
LEMMA EachRow ==
  ASSUME NEW t, NEW n, NEW Row, TableOK(t, n, Row), NEW r, r = [i \in DOMAIN t |-> r[i]],
         \A i \in DOMAIN t : r[i] \in Row /\ r[i].ref = t[i].ref
  PROVE  TableOK(r, n, Row) /\ DOMAIN r = DOMAIN t
<1>1. DOMAIN r = DOMAIN t
  OBVIOUS
<1>2. r \in [DOMAIN r -> Row]
  BY <1>1
<1>3. RefsUnique(r)
  BY <1>1 DEF TableOK, RefsUnique
<1>4. QED
  BY <1>1, <1>2, <1>3 DEF TableOK

LEMMA LaterRow ==
  ASSUME NEW t, NEW n \in Nat, NEW m \in {n, n + 1}, NEW Row, TableOK(t, n, Row)
  PROVE  TableOK(t, m, Row)
  BY DEF TableOK

-----------------------------------------------------------------------------
(* What a step does to the expenses: every row is one there was, with its  *)
(* reference and, if it was removed, still removed, or a new one of N.     *)

RowFollows(x, y) ==
    /\ y.ref = x.ref /\ y.base \in {x.base, 0}
    /\ x.status = "void" => y.status = "void"

TableFollows(t, r, N) ==
    /\ \A i \in DOMAIN r : (i \in DOMAIN t /\ RowFollows(t[i], r[i])) \/ (i \notin DOMAIN t /\ r[i] \in N)
    /\ \A i \in DOMAIN t : t[i].ref # NoRef => i \in DOMAIN r

LEMMA SameRowFollows ==
  ASSUME NEW x PROVE RowFollows(x, x)
  BY DEF RowFollows

\* A row with one more of its fields written, whatever its values.
LEMMA RowsEdited ==
  ASSUME NEW e \in ExpenseRow
  PROVE  /\ \A s \in Statuses : /\ [e EXCEPT !.status = s] \in ExpenseRow
                                /\ [e EXCEPT !.status = s].ref = e.ref
                                /\ [e EXCEPT !.status = s].cat = e.cat
                                /\ [e EXCEPT !.status = s].base = e.base
                                /\ [e EXCEPT !.status = s].status = s
         /\ /\ [e EXCEPT !.rule = 0] \in ExpenseRow
            /\ [e EXCEPT !.rule = 0].ref = e.ref
            /\ [e EXCEPT !.rule = 0].cat = e.cat
            /\ [e EXCEPT !.rule = 0].base = e.base
            /\ [e EXCEPT !.rule = 0].status = e.status
<1>1. /\ \A s \in Statuses : [e EXCEPT !.status = s] \in ExpenseRow
      /\ [e EXCEPT !.rule = 0] \in ExpenseRow
  BY DEF ExpenseRow
<1>2. QED
  BY <1>1 DEF ExpenseRow

LEMMA PersonsRow ==
  ASSUME NEW e \in ExpenseRow, NEW d \in Int, NEW a \in Nat \ {0}, NEW x, x = EditedRow(e, d, a, e.cat)
  PROVE  x \in ExpenseRow /\ RowFollows(e, x) /\ x.ref = e.ref /\ x.cat = e.cat
<1>1. x \in ExpenseRow
  BY DEF ExpenseRow, EditedRow
<1>2. x.ref = e.ref /\ x.cat = e.cat /\ x.base = 0 /\ x.status = e.status
  BY DEF ExpenseRow, EditedRow
<1>3. QED
  BY <1>1, <1>2 DEF RowFollows

-----------------------------------------------------------------------------
LEMMA KeptRows ==
  ASSUME RowsOK, ids \in Nat, ids' \in {ids, ids + 1}, DOMAIN cats \subseteq DOMAIN cats',
         rows' = rows, NEW N
  PROVE  RowsOK' /\ TableFollows(rows, rows', N)
<1>1. TableOK(rows, ids, ExpenseRow) /\ \A i \in DOMAIN rows : rows[i].cat \in DOMAIN cats
  BY DEF RowsOK
<1>2. TableOK(rows, ids', ExpenseRow)
  BY <1>1, LaterRow
<1>3. RowsOK'
  BY <1>1, <1>2 DEF RowsOK
<1>4. TableFollows(rows, rows', N)
  BY SameRowFollows DEF TableFollows
<1>5. QED
  BY <1>3, <1>4

LEMMA InsertedRow ==
  ASSUME RowsOK, ids \in Nat, cats' = cats,
         NEW e \in ExpenseRow, ~RefTaken(rows, e.ref), InsertExpense(e), NEW N, e \in N
  PROVE  RowsOK' /\ TableFollows(rows, rows', N) /\ ids' = ids + 1
<1>1. TableOK(rows, ids, ExpenseRow) /\ \A i \in DOMAIN rows : rows[i].cat \in DOMAIN cats
  BY DEF RowsOK
<1>3. PICK m \in Nat : m = ids + 1
  OBVIOUS
<1> DEFINE r == Put(rows, m, e)
<1>2. ids' = m /\ rows' = r /\ e.cat \in DOMAIN cats
  BY <1>3 DEF InsertExpense, TakeId, FreshId, Storable
<1>4. /\ TableOK(r, m, ExpenseRow) /\ m \notin DOMAIN rows
      /\ DOMAIN r = DOMAIN rows \cup {m} /\ r[m] = e
      /\ \A i \in DOMAIN rows : r[i] = rows[i]
  <2>1. m \in Nat /\ m > ids
    BY <1>3
  <2>2. TableOK(r, m, ExpenseRow) /\ OneMore(r, rows, m, e)
    BY <1>1, <2>1, PutRow
  <2>3. QED
    BY <2>2 DEF OneMore
<1> HIDE DEF r
<1>5. RowsOK'
  BY <1>1, <1>2, <1>3, <1>4 DEF RowsOK
<1>6. TableFollows(rows, r, N)
  BY <1>4, SameRowFollows DEF TableFollows
<1>7. QED
  BY <1>2, <1>3, <1>5, <1>6

\* A reference that is taken is passed over, so no second row ever gets it.
LEMMA GeneratedRow ==
  ASSUME RowsOK, ids \in Nat, cats' = cats,
         NEW e \in ExpenseRow, InsertGenerated(e), NEW N, e \in N
  PROVE  RowsOK' /\ TableFollows(rows, rows', N) /\ ids' \in {ids, ids + 1}
<1>1. CASE RefTaken(rows, e.ref)
  <2>1. rows' = rows /\ ids' = ids
    BY <1>1 DEF InsertGenerated
  <2>2. QED
    BY <2>1, KeptRows
<1>2. CASE ~RefTaken(rows, e.ref)
  BY <1>2, InsertedRow DEF InsertGenerated
<1>3. QED
  BY <1>1, <1>2

LEMMA ManualRow ==
  ASSUME NEW d \in Int, NEW a \in Nat \ {0}, NEW c \in Codes
  PROVE  Manual(d, a, c) \in ExpenseRow /\ Manual(d, a, c).ref = NoRef
  BY DEF Manual, Expense, ExpenseRow, Refs, Statuses

LEMMA EditedRows ==
  ASSUME RowsOK, cats' = cats, ids' = ids,
         NEW i \in DOMAIN rows, NEW e \in ExpenseRow, RowFollows(rows[i], e),
         e.cat \in DOMAIN cats, rows' = [rows EXCEPT ![i] = e], NEW N
  PROVE  RowsOK' /\ TableFollows(rows, rows', N)
<1>1. TableOK(rows, ids, ExpenseRow) /\ \A k \in DOMAIN rows : rows[k].cat \in DOMAIN cats
  BY DEF RowsOK
<1>2. PICK r : r = rows'
  OBVIOUS
<1>3. /\ TableOK(r, ids, ExpenseRow) /\ DOMAIN r = DOMAIN rows /\ r[i] = e
      /\ \A j \in DOMAIN rows : j # i => r[j] = rows[j]
  <2>1. e.ref = rows[i].ref
    BY DEF RowFollows
  <2>2. QED
    BY <1>1, <1>2, <2>1, SetRow
<1>4. RowsOK'
  BY <1>1, <1>2, <1>3 DEF RowsOK
<1>5. TableFollows(rows, r, N)
  BY <1>3, SameRowFollows DEF TableFollows
<1>6. QED
  BY <1>2, <1>4, <1>5

LEMMA DeletedRows ==
  ASSUME RowsOK, cats' = cats, ids' = ids,
         NEW i \in DOMAIN rows, rows[i].ref = NoRef, rows' = Drop(rows, i), NEW N
  PROVE  RowsOK' /\ TableFollows(rows, rows', N)
<1>1. TableOK(rows, ids, ExpenseRow) /\ \A k \in DOMAIN rows : rows[k].cat \in DOMAIN cats
  BY DEF RowsOK
<1> DEFINE r == Drop(rows, i)
<1>2. r = rows'
  OBVIOUS
<1>3. /\ TableOK(r, ids, ExpenseRow) /\ DOMAIN r = DOMAIN rows \ {i}
      /\ \A j \in DOMAIN rows : j # i => r[j] = rows[j]
  BY <1>1, DropRows
<1> HIDE DEF r
<1>4. RowsOK'
  BY <1>1, <1>2, <1>3 DEF RowsOK
<1>5. TableFollows(rows, r, N)
  BY <1>3, SameRowFollows DEF TableFollows
<1>6. QED
  BY <1>2, <1>4, <1>5

LEMMA UnruledRows ==
  ASSUME RowsOK, cats' = cats, ids' = ids, NEW i, DropRule(i), NEW N
  PROVE  RowsOK' /\ TableFollows(rows, rows', N)
<1>1. TableOK(rows, ids, ExpenseRow) /\ \A k \in DOMAIN rows : rows[k].cat \in DOMAIN cats
  BY DEF RowsOK
<1>2. PICK r : r = rows'
  OBVIOUS
<1>3. r = [k \in DOMAIN rows |-> IF rows[k].rule = i THEN [rows[k] EXCEPT !.rule = 0] ELSE rows[k]]
  BY <1>2 DEF DropRule
<1>4. r = [k \in DOMAIN rows |-> r[k]] /\ DOMAIN r = DOMAIN rows
  BY <1>3
<1>5. \A k \in DOMAIN rows : rows[k] \in ExpenseRow
  BY <1>1 DEF TableOK
<1>6. \A k \in DOMAIN rows : /\ r[k] \in ExpenseRow /\ r[k].ref = rows[k].ref
                             /\ r[k].cat = rows[k].cat /\ RowFollows(rows[k], r[k])
  <2> SUFFICES ASSUME NEW k \in DOMAIN rows
               PROVE  /\ r[k] \in ExpenseRow /\ r[k].ref = rows[k].ref
                      /\ r[k].cat = rows[k].cat /\ RowFollows(rows[k], r[k])
    OBVIOUS
  <2>1. PICK e \in ExpenseRow : e = rows[k]
    BY <1>5
  <2>2. r[k] = e \/ r[k] = [e EXCEPT !.rule = 0]
    BY <1>3, <2>1
  <2>3. QED
    BY <2>1, <2>2, RowsEdited DEF RowFollows
<1>7. TableOK(r, ids, ExpenseRow)
  BY <1>1, <1>4, <1>6, EachRow
<1>8. RowsOK'
  BY <1>1, <1>2, <1>4, <1>6, <1>7 DEF RowsOK
<1>9. TableFollows(rows, r, N)
  BY <1>4, <1>6 DEF TableFollows
<1>10. QED
  BY <1>2, <1>8, <1>9

-----------------------------------------------------------------------------
(* The other tables, of which only the types and the links matter.         *)

IsTable(t, Row) == t \in [DOMAIN t -> Row]

\* Table r is table t with entry m written, new or not.
Written(r, t, m, e) ==
    /\ DOMAIN r = DOMAIN t \cup {m} /\ r[m] = e
    /\ \A i \in DOMAIN t : i # m => r[i] = t[i]

LEMMA PutEntry ==
  ASSUME NEW t, NEW Row, IsTable(t, Row), NEW m, NEW e \in Row
  PROVE  IsTable(Put(t, m, e), Row) /\ Written(Put(t, m, e), t, m, e)
<1> DEFINE r == Put(t, m, e)
<1>1. Written(r, t, m, e)
  BY DEF Put, Written
<1>2. r = [i \in DOMAIN r |-> r[i]]
  BY DEF Put
<1>3. \A i \in DOMAIN r : r[i] \in Row
  BY <1>1 DEF IsTable, Written
<1>4. r \in [DOMAIN r -> Row]
  <2> HIDE DEF r
  <2>1. QED
    BY <1>2, <1>3
<1>5. QED
  BY <1>1, <1>4 DEF IsTable

LEMMA SetEntry ==
  ASSUME NEW t, NEW Row, IsTable(t, Row), NEW m \in DOMAIN t, NEW e \in Row,
         NEW r, r = [t EXCEPT ![m] = e]
  PROVE  IsTable(r, Row) /\ Written(r, t, m, e) /\ DOMAIN r = DOMAIN t
<1>1. DOMAIN r = DOMAIN t /\ r[m] = e /\ \A i \in DOMAIN t : i # m => r[i] = t[i]
  OBVIOUS
<1>2. IsTable(r, Row)
  BY DEF IsTable
<1>3. QED
  BY <1>1, <1>2 DEF Written

LEMMA DropEntry ==
  ASSUME NEW t, NEW Row, IsTable(t, Row), NEW m
  PROVE  /\ IsTable(Drop(t, m), Row) /\ DOMAIN Drop(t, m) = DOMAIN t \ {m}
         /\ \A i \in DOMAIN t : i # m => Drop(t, m)[i] = t[i]
<1> DEFINE r == Drop(t, m)
<1>1. DOMAIN r = DOMAIN t \ {m} /\ \A i \in DOMAIN t : i # m => r[i] = t[i]
  BY DEF Drop
<1>2. r = [i \in DOMAIN r |-> r[i]]
  BY DEF Drop
<1>3. \A i \in DOMAIN r : r[i] \in Row
  BY <1>1 DEF IsTable
<1>4. IsTable(r, Row)
  <2> HIDE DEF r
  <2>1. QED
    BY <1>2, <1>3 DEF IsTable
<1>5. QED
  BY <1>1, <1>4

LEMMA KeptRules ==
  ASSUME RulesOK, ids \in Nat, ids' \in {ids, ids + 1}, DOMAIN cats \subseteq DOMAIN cats',
         rules' = rules
  PROVE  RulesOK'
  BY DEF RulesOK

LEMMA InsertedRule ==
  ASSUME RulesOK, ids \in Nat, cats' = cats, NEW r \in RuleRow, InsertRule(r)
  PROVE  RulesOK' /\ ids' = ids + 1
<1>1. PICK m : m = ids + 1
  OBVIOUS
<1> DEFINE t == Put(rules, m, r)
<1>2. IsTable(rules, RuleRow) /\ DOMAIN rules \subseteq 1 .. ids
      /\ \A i \in DOMAIN rules : rules[i].cat \in DOMAIN cats
  BY DEF RulesOK, IsTable
<1>3. ids' = m /\ rules' = t /\ r.cat \in DOMAIN cats
  BY <1>1 DEF InsertRule, TakeId, FreshId
<1>4. IsTable(t, RuleRow) /\ Written(t, rules, m, r)
  BY <1>2, PutEntry
<1> HIDE DEF t
<1>5. DOMAIN t \subseteq 1 .. m
  BY <1>1, <1>2, <1>4 DEF Written
<1>6. \A i \in DOMAIN t : t[i].cat \in DOMAIN cats
  BY <1>2, <1>3, <1>4 DEF Written
<1>7. RulesOK'
  BY <1>3, <1>4, <1>5, <1>6 DEF RulesOK, IsTable
<1>8. QED
  BY <1>1, <1>3, <1>7

LEMMA StoredRule ==
  ASSUME RulesOK, cats' = cats, ids' = ids, NEW i \in DOMAIN rules, NEW r \in RuleRow,
         r.cat = rules[i].cat, rules' = [rules EXCEPT ![i] = r]
  PROVE  RulesOK'
<1>1. IsTable(rules, RuleRow) /\ DOMAIN rules \subseteq 1 .. ids
      /\ \A k \in DOMAIN rules : rules[k].cat \in DOMAIN cats
  BY DEF RulesOK, IsTable
<1>2. PICK t : t = rules'
  OBVIOUS
<1>3. IsTable(t, RuleRow) /\ Written(t, rules, i, r) /\ DOMAIN t = DOMAIN rules
  BY <1>1, <1>2, SetEntry
<1>4. \A k \in DOMAIN t : t[k].cat \in DOMAIN cats
  BY <1>1, <1>3 DEF Written
<1>5. QED
  BY <1>1, <1>2, <1>3, <1>4 DEF RulesOK, IsTable

LEMMA DroppedRule ==
  ASSUME RulesOK, cats' = cats, ids' = ids, NEW i, rules' = Drop(rules, i)
  PROVE  RulesOK'
<1> DEFINE t == Drop(rules, i)
<1>1. IsTable(rules, RuleRow) /\ DOMAIN rules \subseteq 1 .. ids
      /\ \A k \in DOMAIN rules : rules[k].cat \in DOMAIN cats
  BY DEF RulesOK, IsTable
<1>2. /\ IsTable(t, RuleRow) /\ DOMAIN t = DOMAIN rules \ {i}
      /\ \A k \in DOMAIN rules : k # i => t[k] = rules[k]
  BY <1>1, DropEntry
<1> HIDE DEF t
<1>3. rules' = t
  BY DEF t
<1>4. QED
  BY <1>1, <1>2, <1>3 DEF RulesOK, IsTable

-----------------------------------------------------------------------------
(* Other income. *)

WithinRecorded(e) == \A m \in DOMAIN Recorded : e.ref = IncomeTopUpRef(m) => e.amount <= Recorded[m]

LEMMA IncomeAsRows ==
  IncomeOK <=> TableOK(income, ids, IncomeRow) /\ \A i \in DOMAIN income : WithinRecorded(income[i])
  BY DEF IncomeOK, WithinRecorded

LEMMA IncomeAsRowsNext ==
  IncomeOK' <=> TableOK(income', ids', IncomeRow) /\ \A i \in DOMAIN income' : WithinRecorded(income'[i])
  BY DEF IncomeOK, WithinRecorded

LEMMA KeptIncome ==
  ASSUME IncomeOK, ids \in Nat, ids' \in {ids, ids + 1}, income' = income
  PROVE  IncomeOK'
<1>1. TableOK(income, ids', IncomeRow)
  BY LaterRow, IncomeAsRows
<1>2. QED
  BY <1>1, IncomeAsRows, IncomeAsRowsNext

LEMMA InsertedIncome ==
  ASSUME IncomeOK, ids \in Nat, NEW e \in IncomeRow, ~RefTaken(income, e.ref),
         WithinRecorded(e), InsertIncome(e)
  PROVE  IncomeOK' /\ ids' = ids + 1
<1>1. PICK m \in Nat : m = ids + 1
  OBVIOUS
<1> DEFINE r == Put(income, m, e)
<1>2. TableOK(income, ids, IncomeRow) /\ \A i \in DOMAIN income : WithinRecorded(income[i])
  BY IncomeAsRows
<1>3. ids' = m /\ income' = r
  BY <1>1 DEF InsertIncome, TakeId, FreshId
<1>4. m \in Nat /\ m > ids
  BY <1>1
<1>5. TableOK(r, m, IncomeRow) /\ OneMore(r, income, m, e)
  BY <1>2, <1>4, PutRow
<1> HIDE DEF r
<1>6. \A i \in DOMAIN r : WithinRecorded(r[i])
  BY <1>2, <1>5 DEF OneMore
<1>7. QED
  BY <1>1, <1>3, <1>5, <1>6, IncomeAsRowsNext

LEMMA DroppedIncome ==
  ASSUME IncomeOK, ids' = ids, NEW i, income' = Drop(income, i)
  PROVE  IncomeOK'
<1> DEFINE r == Drop(income, i)
<1>1. TableOK(income, ids, IncomeRow) /\ \A k \in DOMAIN income : WithinRecorded(income[k])
  BY IncomeAsRows
<1>2. /\ TableOK(r, ids, IncomeRow) /\ DOMAIN r = DOMAIN income \ {i}
      /\ \A k \in DOMAIN income : k # i => r[k] = income[k]
  BY <1>1, DropRows
<1> HIDE DEF r
<1>3. income' = r
  BY DEF r
<1>4. QED
  BY <1>1, <1>2, <1>3, IncomeAsRowsNext

-----------------------------------------------------------------------------
(* Sums of payments. *)

AmountSum(T) == SumOf([p \in T |-> p.amount], T)

LEMMA TotalOfAmounts ==
  ASSUME NEW T, IsFiniteSet(T)
  PROVE  Total(AmountOf, T) = AmountSum(T)
<1> DEFINE f == [p \in T |-> p.amount]
<1>1. Total(AmountOf, T) = SumFunction(f)
  BY DEF Total, AmountOf
<1>2. DOMAIN f = T
  OBVIOUS
<1> HIDE DEF f
<1>3. SumFunction(f) = SumOf(f, T)
  BY <1>2, SumFunctionIs
<1>4. QED
  BY <1>1, <1>3 DEF AmountSum, f

LEMMA AmountSumNat ==
  ASSUME NEW T, IsFiniteSet(T), T \subseteq PaymentRow
  PROVE  AmountSum(T) \in Nat
<1> DEFINE f == [p \in T |-> p.amount]
<1>1. \A p \in T : f[p] \in Nat
  BY DEF PaymentRow
<1> HIDE DEF f
<1>2. SumOf(f, T) \in Nat
  BY <1>1, SumNat
<1>3. QED
  BY <1>2 DEF AmountSum, f

LEMMA AmountOver ==
  ASSUME NEW U, NEW T, IsFiniteSet(U), T \subseteq U, U \subseteq PaymentRow
  PROVE  AmountSum(T) = SumOf([p \in U |-> p.amount], T)
<1> DEFINE f == [p \in T |-> p.amount]
           g == [p \in U |-> p.amount]
<1>1. \A p \in T : f[p] \in Int /\ f[p] = g[p]
  BY DEF PaymentRow
<1>2. IsFiniteSet(T)
  BY FS_Subset
<1> HIDE DEF f, g
<1>3. SumOf(f, T) = SumOf(g, T)
  BY <1>1, <1>2, SumsEqual
<1>4. QED
  BY <1>3 DEF AmountSum, f, g

LEMMA AmountUnion ==
  ASSUME NEW T, NEW U, IsFiniteSet(T), IsFiniteSet(U), T \subseteq PaymentRow,
         U \subseteq PaymentRow, T \cap U = {}
  PROVE  AmountSum(T \cup U) = AmountSum(T) + AmountSum(U)
<1> DEFINE W == T \cup U
           g == [p \in W |-> p.amount]
<1>1. \A p \in W : g[p] \in Int
  BY DEF PaymentRow
<1>2. IsFiniteSet(W)
  BY FS_Union
<1>3. /\ AmountSum(T) = SumOf(g, T) /\ AmountSum(U) = SumOf(g, U)
      /\ AmountSum(W) = SumOf(g, W)
  BY <1>2, AmountOver
<1> HIDE DEF g
<1>4. SumOf(g, W) = SumOf(g, T) + SumOf(g, U)
  BY <1>1, SumUnion
<1>5. QED
  BY <1>3, <1>4

LEMMA AmountMore ==
  ASSUME NEW U, NEW T, IsFiniteSet(U), T \subseteq U, U \subseteq PaymentRow
  PROVE  AmountSum(T) <= AmountSum(U)
<1>1. PICK V : V = U \ T
  OBVIOUS
<1>2. /\ IsFiniteSet(T) /\ IsFiniteSet(V) /\ T \subseteq PaymentRow /\ V \subseteq PaymentRow
      /\ T \cap V = {} /\ T \cup V = U
  BY <1>1, FS_Subset
<1>3. AmountSum(U) = AmountSum(T) + AmountSum(V)
  BY <1>2, AmountUnion
<1>4. QED
  BY <1>2, <1>3, AmountSumNat

LEMMA AmountOfOne ==
  ASSUME NEW p \in PaymentRow
  PROVE  AmountSum({p}) = p.amount
<1> DEFINE S == {p}
           f == [q \in S |-> q.amount]
<1>1. IsFiniteSet(S)
  BY FS_Singleton
<1>2. p \in S /\ f[p] = p.amount /\ p.amount \in Int /\ \A x \in S \ {p} : f[x] = 0
  BY DEF PaymentRow
<1> HIDE DEF S, f
<1>3. SumOf(f, S) = f[p]
  BY <1>1, <1>2, SumOne
<1>4. QED
  BY <1>2, <1>3 DEF AmountSum, S, f

-----------------------------------------------------------------------------
(* A case's total is its payments. *)

PaymentsOn(c) == {p \in payments : p.case = c}

PaidLedger == \A c \in DOMAIN cases : cases[c].paid = AmountSum(PaymentsOn(c))

LEMMA PaidAsSums ==
  ASSUME IsFiniteSet(payments)
  PROVE  PaidIsLedger <=> PaidLedger
<1>1. \A c : Total(AmountOf, PaymentsOn(c)) = AmountSum(PaymentsOn(c))
  <2> TAKE c
  <2>1. IsFiniteSet(PaymentsOn(c))
    BY FS_Subset DEF PaymentsOn
  <2>2. QED
    BY <2>1, TotalOfAmounts
<1>2. PaidIsLedger <=> \A c \in DOMAIN cases : cases[c].paid = Total(AmountOf, PaymentsOn(c))
  BY DEF PaidIsLedger, PaymentsOn
<1>3. QED
  BY <1>1, <1>2 DEF PaidLedger

LEMMA PaidAsSumsNext ==
  ASSUME IsFiniteSet(payments')
  PROVE  PaidIsLedger' <=> PaidLedger'
<1>1. [](IsFiniteSet(payments) => (PaidIsLedger <=> PaidLedger))
  BY PaidAsSums, PTL
<1>2. IsFiniteSet(payments)' => (PaidIsLedger' <=> PaidLedger')
  BY <1>1, PTL
<1>3. QED
  BY <1>2

-----------------------------------------------------------------------------
(* What a step does to the money taken: payments only come to be, each     *)
(* recorded that day, and nobody's case becomes another advocate's.        *)

MoneyFollows ==
    /\ day \in Nat /\ day' \in Nat /\ day <= day'
    /\ payments \subseteq payments'
    /\ \A p \in payments' : p \in payments \/ p.made = day
    /\ \A p \in payments' : AdvocateOf(p.case)' = AdvocateOf(p.case)

CaseFollows(x, y) == y.advocate = x.advocate /\ y.name = x.name

LEMMA AdvocateStays ==
  ASSUME NEW c, CaseFollows(cases[c], cases'[c])
  PROVE  AdvocateOf(c)' = AdvocateOf(c)
  BY DEF AdvocateOf, CaseFollows

LEMMA Records ==
  RecordsOK <=> /\ IsTable(cases, CaseRow) /\ DOMAIN cases \subseteq 0 .. ids
                /\ IsTable(consults, ConsultRow) /\ DOMAIN consults \subseteq 1 .. ids
                /\ payments \subseteq PaymentRow /\ IsFiniteSet(payments)
                /\ \A p \in payments : p.id <= ids /\ p.case \in DOMAIN cases
  BY DEF RecordsOK, IsTable

LEMMA RecordsNext ==
  RecordsOK' <=> /\ IsTable(cases', CaseRow) /\ DOMAIN cases' \subseteq 0 .. ids'
                 /\ IsTable(consults', ConsultRow) /\ DOMAIN consults' \subseteq 1 .. ids'
                 /\ payments' \subseteq PaymentRow /\ IsFiniteSet(payments')
                 /\ \A p \in payments' : p.id <= ids' /\ p.case \in DOMAIN cases'
  BY DEF RecordsOK, IsTable

\* A case as it was, or a new one on which nothing was paid.
CaseKept(t, r, c) ==
    IF c \in DOMAIN t THEN r[c].paid = t[c].paid /\ CaseFollows(t[c], r[c])
    ELSE r[c].paid = 0

LEMMA CasesKept ==
  ASSUME RecordsOK, PaidIsLedger, ids \in Nat, ids' \in {ids, ids + 1},
         day \in Nat, day' \in Nat, day <= day', payments' = payments,
         IsTable(cases', CaseRow), DOMAIN cases' \subseteq 0 .. ids',
         IsTable(consults', ConsultRow), DOMAIN consults' \subseteq 1 .. ids',
         DOMAIN cases \subseteq DOMAIN cases', \A c \in DOMAIN cases' : CaseKept(cases, cases', c)
  PROVE  RecordsOK' /\ PaidIsLedger' /\ MoneyFollows
<1>1. /\ payments \subseteq PaymentRow /\ IsFiniteSet(payments)
      /\ \A p \in payments : p.id <= ids /\ p.case \in DOMAIN cases
  BY Records
<1>2. RecordsOK'
  <2>1. \A p \in payments : p.id <= ids'
    <3> TAKE p \in payments
    <3>1. p.id \in Nat /\ p.id <= ids
      BY <1>1 DEF PaymentRow
    <3>2. QED
      BY <3>1
  <2>2. QED
    BY <1>1, <2>1, RecordsNext
<1>3. PaidIsLedger'
  <2>1. \A c : PaymentsOn(c)' = PaymentsOn(c)
    BY DEF PaymentsOn
  <2>2. ASSUME NEW c \in DOMAIN cases'
        PROVE  cases'[c].paid = AmountSum(PaymentsOn(c))
    <3>1. CASE c \in DOMAIN cases
      BY <1>1, <2>2, <3>1, PaidAsSums DEF PaidLedger, CaseKept
    <3>2. CASE c \notin DOMAIN cases
      <4>1. PaymentsOn(c) = {}
        BY <1>1, <3>2 DEF PaymentsOn
      <4>2. AmountSum(PaymentsOn(c)) = 0
        BY <4>1, SumEmpty DEF AmountSum
      <4>3. QED
        BY <2>2, <3>2, <4>2 DEF CaseKept
    <3>3. QED
      BY <3>1, <3>2
  <2>3. PaidLedger'
    BY <2>1, <2>2 DEF PaidLedger
  <2>4. QED
    BY <1>1, <2>3, PaidAsSumsNext
<1>4. MoneyFollows
  <2>1. ASSUME NEW p \in payments PROVE AdvocateOf(p.case)' = AdvocateOf(p.case)
    <3>1. CaseFollows(cases[p.case], cases'[p.case])
      BY <1>1 DEF CaseKept
    <3>2. QED
      BY <3>1, AdvocateStays
  <2>2. QED
    BY <2>1 DEF MoneyFollows
<1>5. QED
  BY <1>2, <1>3, <1>4

LEMMA SameRecords ==
  ASSUME RecordsOK, PaidIsLedger, ids \in Nat, ids' \in {ids, ids + 1},
         day \in Nat, day' \in Nat, day <= day',
         payments' = payments, cases' = cases, consults' = consults
  PROVE  RecordsOK' /\ PaidIsLedger' /\ MoneyFollows
<1>1. /\ IsTable(cases, CaseRow) /\ DOMAIN cases \subseteq 0 .. ids
      /\ IsTable(consults, ConsultRow) /\ DOMAIN consults \subseteq 1 .. ids
  BY Records
<1>2. DOMAIN cases \subseteq 0 .. ids' /\ DOMAIN consults \subseteq 1 .. ids'
  BY <1>1
<1>3. \A c \in DOMAIN cases : CaseKept(cases, cases', c)
  BY DEF CaseKept, CaseFollows
<1>4. QED
  BY <1>1, <1>2, <1>3, CasesKept

LEMMA ConsultsWritten ==
  ASSUME RecordsOK, PaidIsLedger, ids \in Nat, ids' \in {ids, ids + 1}, day \in Nat, day' = day,
         payments' = payments, cases' = cases,
         IsTable(consults', ConsultRow), DOMAIN consults' \subseteq 1 .. ids'
  PROVE  RecordsOK' /\ PaidIsLedger' /\ MoneyFollows
<1>1. IsTable(cases, CaseRow) /\ DOMAIN cases \subseteq 0 .. ids
  BY Records
<1>2. DOMAIN cases \subseteq 0 .. ids'
  BY <1>1
<1>3. \A c \in DOMAIN cases : CaseKept(cases, cases', c)
  BY DEF CaseKept, CaseFollows
<1>4. QED
  BY <1>1, <1>2, <1>3, CasesKept

LEMMA NewCase ==
  ASSUME RecordsOK, PaidIsLedger, ids \in Nat, day \in Nat, day' = day,
         payments' = payments, consults' = consults,
         NEW k \in CaseRow, k.paid = 0, InsertCase(k)
  PROVE  RecordsOK' /\ PaidIsLedger' /\ MoneyFollows /\ ids' = ids + 1
<1>1. PICK m \in Nat : m = ids + 1
  OBVIOUS
<1> DEFINE r == Put(cases, m, k)
<1>2. ids' = m /\ cases' = r
  BY <1>1 DEF InsertCase, TakeId, FreshId
<1>3. /\ IsTable(cases, CaseRow) /\ DOMAIN cases \subseteq 0 .. ids
      /\ IsTable(consults, ConsultRow) /\ DOMAIN consults \subseteq 1 .. ids
  BY Records
<1>4. IsTable(r, CaseRow) /\ Written(r, cases, m, k)
  BY <1>3, PutEntry
<1>5. m \notin DOMAIN cases
  BY <1>1, <1>3
<1> HIDE DEF r
<1>6. DOMAIN r \subseteq 0 .. m /\ DOMAIN consults \subseteq 1 .. m /\ DOMAIN cases \subseteq DOMAIN r
  BY <1>1, <1>3, <1>4 DEF Written
<1>7. \A c \in DOMAIN r : CaseKept(cases, r, c)
  BY <1>4, <1>5 DEF Written, CaseKept, CaseFollows
<1>8. ids' = ids + 1 /\ ids' \in {ids, ids + 1} /\ day <= day' /\ day' \in Nat
  BY <1>1, <1>2
<1>9. QED
  BY <1>2, <1>3, <1>4, <1>6, <1>7, <1>8, CasesKept

\* The status of a case is written over, whatever it was.
LEMMA StatusWritten ==
  ASSUME RecordsOK, PaidIsLedger, ids \in Nat, ids' = ids, day \in Nat, day' = day,
         payments' = payments, consults' = consults,
         NEW c \in DOMAIN cases, NEW status \in {"in_progress", "completed"}, StoreCaseStatus(c, status)
  PROVE  RecordsOK' /\ PaidIsLedger' /\ MoneyFollows
<1>1. /\ IsTable(cases, CaseRow) /\ DOMAIN cases \subseteq 0 .. ids
      /\ IsTable(consults, ConsultRow) /\ DOMAIN consults \subseteq 1 .. ids
  BY Records
<1>2. PICK k \in CaseRow : k = cases[c]
  BY <1>1 DEF IsTable
<1>3. PICK e : e = [k EXCEPT !.status = status]
  OBVIOUS
<1>4. e \in CaseRow /\ e.paid = k.paid /\ CaseFollows(k, e)
  BY <1>3 DEF CaseRow, CaseFollows
<1>5. PICK r : r = cases'
  OBVIOUS
<1>6. r = [cases EXCEPT ![c] = e]
  BY <1>2, <1>3, <1>5 DEF StoreCaseStatus
<1>7. IsTable(r, CaseRow) /\ Written(r, cases, c, e) /\ DOMAIN r = DOMAIN cases
  BY <1>1, <1>4, <1>6, SetEntry
<1>8. \A i \in DOMAIN r : CaseKept(cases, r, i)
  BY <1>2, <1>4, <1>7 DEF Written, CaseKept, CaseFollows
<1>9. day <= day' /\ day' \in Nat
  OBVIOUS
<1>10. QED
  BY <1>1, <1>5, <1>7, <1>8, <1>9, CasesKept

\* The payment's row and the case's total, in one transaction.
LEMMA Paid ==
  ASSUME RecordsOK, PaidIsLedger, ids \in Nat, ids' = ids + 1, day \in Nat, day' = day,
         consults' = consults, NEW c \in DOMAIN cases, NEW p \in PaymentRow,
         p.id = ids + 1, p.case = c, p.made = day, AddPayment(c, p)
  PROVE  RecordsOK' /\ PaidIsLedger' /\ MoneyFollows
<1>1. /\ IsTable(cases, CaseRow) /\ DOMAIN cases \subseteq 0 .. ids
      /\ IsTable(consults, ConsultRow) /\ DOMAIN consults \subseteq 1 .. ids
      /\ payments \subseteq PaymentRow /\ IsFiniteSet(payments)
      /\ \A q \in payments : q.id <= ids /\ q.case \in DOMAIN cases
  BY Records
<1>2. PICK k \in CaseRow : k = cases[c]
  BY <1>1 DEF IsTable
<1>3. PICK e : e = [k EXCEPT !.paid = @ + p.amount]
  OBVIOUS
<1>4. e \in CaseRow /\ e.paid = k.paid + p.amount /\ CaseFollows(k, e)
  BY <1>3 DEF CaseRow, CaseFollows, PaymentRow
<1>5. PICK r : r = cases'
  OBVIOUS
<1>6. r = [cases EXCEPT ![c] = e] /\ payments' = payments \cup {p}
  BY <1>2, <1>3, <1>5 DEF AddPayment
<1>7. IsTable(r, CaseRow) /\ Written(r, cases, c, e) /\ DOMAIN r = DOMAIN cases
  BY <1>1, <1>4, <1>6, SetEntry
<1>8. p \notin payments
  BY <1>1 DEF PaymentRow
<1>9. RecordsOK'
  <2>1. payments' \subseteq PaymentRow
    BY <1>1, <1>6
  <2>2. IsFiniteSet(payments')
    BY <1>1, <1>6, FS_AddElement
  <2>3. \A q \in payments' : q.id <= ids' /\ q.case \in DOMAIN cases'
    <3> TAKE q \in payments'
    <3>1. CASE q \in payments
      <4>1. q.id \in Nat /\ q.id <= ids /\ q.case \in DOMAIN cases
        BY <1>1, <3>1 DEF PaymentRow
      <4>2. QED
        BY <1>5, <1>7, <4>1
    <3>2. CASE q = p
      BY <1>5, <1>7, <3>2
    <3>3. QED
      BY <1>6, <3>1, <3>2
  <2>4. DOMAIN r \subseteq 0 .. ids' /\ DOMAIN consults \subseteq 1 .. ids'
    BY <1>1, <1>7
  <2>5. QED
    BY <1>1, <1>5, <1>7, <2>1, <2>2, <2>3, <2>4, RecordsNext
<1>10. PaidIsLedger'
  <2>1. ASSUME NEW d \in DOMAIN r PROVE r[d].paid = AmountSum(PaymentsOn(d)')
    <3>1. PICK T : T = PaymentsOn(d)
      OBVIOUS
    <3>2. IsFiniteSet(T) /\ T \subseteq PaymentRow /\ p \notin T
      BY <1>1, <1>8, <3>1, FS_Subset DEF PaymentsOn
    <3>3. cases[d].paid = AmountSum(T)
      BY <1>1, <1>7, <3>1, PaidAsSums DEF PaidLedger
    <3>4. CASE d = c
      <4>1. PICK P : P = {p}
        OBVIOUS
      <4>2. PaymentsOn(d)' = T \cup P
        BY <1>6, <3>1, <3>4, <4>1 DEF PaymentsOn
      <4>3. IsFiniteSet(P) /\ P \subseteq PaymentRow /\ T \cap P = {}
        BY <3>2, <4>1, FS_Singleton
      <4>4. AmountSum(T \cup P) = AmountSum(T) + AmountSum(P)
        BY <3>2, <4>3, AmountUnion
      <4>5. AmountSum(P) = p.amount
        BY <4>1, AmountOfOne
      <4>6. r[d].paid = AmountSum(T) + p.amount
        BY <1>2, <1>4, <1>7, <3>3, <3>4 DEF Written
      <4>7. QED
        BY <4>2, <4>4, <4>5, <4>6
    <3>5. CASE d # c
      <4>1. PaymentsOn(d)' = T
        BY <1>6, <3>1, <3>5 DEF PaymentsOn
      <4>2. r[d].paid = cases[d].paid
        BY <1>7, <3>5 DEF Written
      <4>3. QED
        BY <3>3, <4>1, <4>2
    <3>6. QED
      BY <3>4, <3>5
  <2>2. PaidLedger'
    BY <1>5, <2>1 DEF PaidLedger
  <2>3. QED
    BY <1>9, <2>2, PaidAsSumsNext, RecordsNext
<1>11. MoneyFollows
  <2>1. ASSUME NEW q \in payments' PROVE AdvocateOf(q.case)' = AdvocateOf(q.case)
    <3>1. q.case \in DOMAIN cases
      BY <1>1, <1>6
    <3>2. CaseFollows(cases[q.case], r[q.case])
      BY <1>2, <1>4, <1>7, <3>1 DEF Written, CaseFollows
    <3>3. QED
      BY <1>5, <3>2, AdvocateStays
  <2>2. QED
    BY <1>6, <2>1 DEF MoneyFollows
<1>12. QED
  BY <1>9, <1>10, <1>11

-----------------------------------------------------------------------------
(* What a payout covers, however the tables grow after it.                 *)

TakenSet(a, m, by) == {p \in CollectedBy(a, StartOfMonth(m), EndOfMonth(m)) : p.made <= by}

LEMMA TakenAsSum ==
  ASSUME IsFiniteSet(payments), NEW a, NEW m, NEW by
  PROVE  TakenIn(a, m, by) = AmountSum(TakenSet(a, m, by))
<1>1. TakenSet(a, m, by) \subseteq payments
  BY DEF TakenSet, CollectedBy
<1>2. IsFiniteSet(TakenSet(a, m, by))
  BY <1>1, FS_Subset
<1>3. TakenIn(a, m, by) = Total(AmountOf, TakenSet(a, m, by))
  BY DEF TakenIn, TakenSet
<1>4. QED
  BY <1>2, <1>3, TotalOfAmounts

TakenSums == \A a, m, by : TakenIn(a, m, by) = AmountSum(TakenSet(a, m, by))

LEMMA TakenAsSums ==
  IsFiniteSet(payments) => TakenSums
  BY TakenAsSum DEF TakenSums

LEMMA TakenAsSumsNext ==
  ASSUME IsFiniteSet(payments')
  PROVE  TakenSums'
<1>1. [](IsFiniteSet(payments) => TakenSums)
  BY TakenAsSums, PTL
<1>2. IsFiniteSet(payments)' => TakenSums'
  BY <1>1, PTL
<1>3. QED
  BY <1>2

LEMMA CoverKept ==
  ASSUME RecordsOK, RecordsOK', MoneyFollows, NEW e \in ExpenseRow, CoversMonth(e)
  PROVE  CoversMonth(e)'
<1> SUFFICES ASSUME e.ref # NoRef, e.ref[1] = "advocate", e.base # 0
             PROVE  CoversMonth(e)'
  BY DEF CoversMonth
<1>1. PICK a, m : a = e.ref[2] /\ m = e.ref[3]
  OBVIOUS
<1>2. m \in Int
  BY <1>1 DEF ExpenseRow, Refs
<1>3. PICK z \in Int : z = EndOfMonth(m)
  BY <1>2, LedgerAssumption DEF EndOfMonth
<1>4. z < day /\ e.base \in TakenIn(a, m, z) .. TakenIn(a, m, LastDay)
  BY <1>1, <1>3 DEF CoversMonth
<1>5. /\ payments \subseteq PaymentRow /\ IsFiniteSet(payments)
      /\ payments' \subseteq PaymentRow /\ IsFiniteSet(payments')
  BY Records, RecordsNext
<1>6. day \in Nat /\ day' \in Nat /\ day <= day' /\ e.base \in Nat
  BY DEF MoneyFollows, ExpenseRow
<1>7. TakenSet(a, m, z)' = TakenSet(a, m, z)
  <2>1. \A p \in payments' : p.made \in Int /\ (p.made <= z => p \in payments)
    BY <1>3, <1>4, <1>5, <1>6 DEF MoneyFollows, PaymentRow, Days
  <2>2. \A p \in payments' : AdvocateOf(p.case)' = AdvocateOf(p.case)
    BY DEF MoneyFollows
  <2>3. payments \subseteq payments'
    BY DEF MoneyFollows
  <2>4. QED
    BY <2>1, <2>2, <2>3 DEF TakenSet, CollectedBy
<1>8. TakenSet(a, m, LastDay) \subseteq TakenSet(a, m, LastDay)'
  BY DEF MoneyFollows, TakenSet, CollectedBy
<1>9. /\ TakenIn(a, m, z) = AmountSum(TakenSet(a, m, z))
      /\ TakenIn(a, m, LastDay) = AmountSum(TakenSet(a, m, LastDay))
  BY <1>5, TakenAsSum
<1>10. /\ TakenIn(a, m, z)' = AmountSum(TakenSet(a, m, z)')
       /\ TakenIn(a, m, LastDay)' = AmountSum(TakenSet(a, m, LastDay)')
  BY <1>5, TakenAsSumsNext DEF TakenSums
<1>11. /\ TakenSet(a, m, LastDay)' \subseteq PaymentRow
       /\ IsFiniteSet(TakenSet(a, m, LastDay)')
       /\ TakenSet(a, m, LastDay) \subseteq PaymentRow /\ IsFiniteSet(TakenSet(a, m, LastDay))
       /\ TakenSet(a, m, z) \subseteq PaymentRow /\ IsFiniteSet(TakenSet(a, m, z))
  <2>1. \A by : TakenSet(a, m, by) \subseteq payments /\ TakenSet(a, m, by)' \subseteq payments'
    BY DEF TakenSet, CollectedBy
  <2>2. QED
    BY <1>5, <2>1, FS_Subset
<1>12. AmountSum(TakenSet(a, m, LastDay)) <= AmountSum(TakenSet(a, m, LastDay)')
  BY <1>8, <1>11, AmountMore
<1>13. /\ AmountSum(TakenSet(a, m, LastDay)) \in Nat /\ AmountSum(TakenSet(a, m, LastDay)') \in Nat
       /\ AmountSum(TakenSet(a, m, z)) \in Nat
  BY <1>11, AmountSumNat
<1>14. e.base \in TakenIn(a, m, z)' .. TakenIn(a, m, LastDay)'
  BY <1>4, <1>6, <1>7, <1>9, <1>10, <1>12, <1>13
<1>15. z < day'
  BY <1>3, <1>4, <1>6
<1>16. QED
  BY <1>1, <1>3, <1>14, <1>15 DEF CoversMonth

-----------------------------------------------------------------------------
(* One lemma for each thing staff do.                                      *)

Covering == {e \in ExpenseRow : CoversMonth(e)}

Books == ScalarsOK /\ RowsOK /\ RulesOK /\ IncomeOK /\ RecordsOK /\ PaidIsLedger

StepOK ==
    /\ ScalarsOK' /\ RowsOK' /\ TableFollows(rows, rows', Covering)
    /\ RulesOK' /\ IncomeOK' /\ RecordsOK' /\ PaidIsLedger' /\ MoneyFollows

\* What a step that leaves a table alone needs not argue about.
Kept ==
    /\ rows' = rows => RowsOK' /\ TableFollows(rows, rows', Covering)
    /\ rules' = rules => RulesOK'
    /\ income' = income => IncomeOK'
    /\ cases' = cases /\ payments' = payments /\ consults' = consults =>
          RecordsOK' /\ PaidIsLedger' /\ MoneyFollows

Steady == ids' \in {ids, ids + 1} /\ DOMAIN cats \subseteq DOMAIN cats' /\ day \in Nat
          /\ day' \in Nat /\ day <= day'

LEMMA LeftAlone ==
  ASSUME Books, Steady
  PROVE  Kept
<1>1. /\ ids \in Nat /\ ids' \in {ids, ids + 1} /\ DOMAIN cats \subseteq DOMAIN cats'
      /\ day \in Nat /\ day' \in Nat /\ day <= day'
  BY DEF Books, ScalarsOK, Steady
<1>2. rows' = rows => RowsOK' /\ TableFollows(rows, rows', Covering)
  BY <1>1, KeptRows DEF Books
<1>3. rules' = rules => RulesOK'
  BY <1>1, KeptRules DEF Books
<1>4. income' = income => IncomeOK'
  BY <1>1, KeptIncome DEF Books
<1>5. cases' = cases /\ payments' = payments /\ consults' = consults =>
          RecordsOK' /\ PaidIsLedger' /\ MoneyFollows
  BY <1>1, SameRecords DEF Books
<1>6. QED
  BY <1>2, <1>3, <1>4, <1>5 DEF Kept

LEMMA DayIsNat ==
  ASSUME NEW d \in Days
  PROVE  d \in Nat /\ d <= LastDay
  BY LedgerAssumption DEF Days

LEMMA AmountIsNat ==
  ASSUME NEW amount \in Amounts, amount > 0
  PROVE  amount \in Nat \ {0}
<1>1. amount \in Int
  BY LedgerAssumption
<1>2. QED
  BY <1>1

LEMMA PickedIsCode ==
  ASSUME NEW c \in Picked
  PROVE  c \in Codes
  BY LedgerAssumption DEF Codes

\* The part of a staff step that is in all of them.
LEMMA StaffSteady ==
  ASSUME Books, StaffStep, cats' = cats, rates' = rates, ids' \in {ids, ids + 1}
  PROVE  ScalarsOK' /\ Steady /\ ids \in Nat /\ day \in Nat /\ day' = day
<1>1. edits' \in 0 .. MaxEdits /\ day' = day
  BY LedgerAssumption DEF Books, ScalarsOK, StaffStep
<1>2. day \in Nat /\ ids \in Nat /\ ids' \in Nat
  BY DayIsNat DEF Books, ScalarsOK
<1>3. ScalarsOK'
  BY <1>1, <1>2 DEF Books, ScalarsOK
<1>4. QED
  BY <1>1, <1>2, <1>3 DEF Steady

LEMMA CategoriesWritten ==
  ASSUME Books, StaffStep, rates' = rates, ids' = ids,
         UNCHANGED <<rows, rules, income, cases, payments, consults>>,
         IsTable(cats', [kind: Kinds, active: BOOLEAN]), DOMAIN cats \subseteq DOMAIN cats',
         DOMAIN cats' \subseteq Codes
  PROVE  StepOK
<1>1. edits' \in 0 .. MaxEdits /\ day' = day
  BY LedgerAssumption DEF Books, ScalarsOK, StaffStep
<1>2. day \in Nat /\ ids \in Nat /\ ids' \in Nat
  BY DayIsNat DEF Books, ScalarsOK
<1>3. ScalarsOK'
  BY <1>1, <1>2 DEF Books, ScalarsOK, IsTable
<1>4. Kept
  BY <1>1, <1>2, LeftAlone DEF Steady
<1>5. QED
  BY <1>3, <1>4 DEF Kept, StepOK

LEMMA CreateCategoryStep ==
  ASSUME Books, CreateCategory
  PROVE  StepOK
<1>1. PICK kind \in {"infra"} : ValidCategory(kind) /\ InsertCategory("tools", kind)
  BY DEF CreateCategory
<1>2. PICK e : e = [kind |-> kind, active |-> TRUE]
  OBVIOUS
<1>3. e \in [kind: Kinds, active: BOOLEAN]
  BY <1>1, <1>2 DEF ValidCategory
<1> DEFINE r == Put(cats, "tools", e)
<1>4. cats' = r
  BY <1>1, <1>2 DEF InsertCategory
<1>5. IsTable(cats, [kind: Kinds, active: BOOLEAN])
  BY DEF Books, ScalarsOK, IsTable
<1>6. IsTable(r, [kind: Kinds, active: BOOLEAN]) /\ Written(r, cats, "tools", e)
  BY <1>3, <1>5, PutEntry
<1> HIDE DEF r
<1>7. DOMAIN cats \subseteq DOMAIN r /\ DOMAIN r \subseteq Codes
  BY <1>6 DEF Written, Books, ScalarsOK, Codes
<1>8. /\ StaffStep /\ rates' = rates /\ ids' = ids
      /\ UNCHANGED <<rows, rules, income, cases, payments, consults>>
  BY DEF CreateCategory
<1>9. QED
  BY <1>4, <1>6, <1>7, <1>8, CategoriesWritten

LEMMA UpdateCategoryStep ==
  ASSUME Books, UpdateCategory
  PROVE  StepOK
<1>1. PICK code \in Picked, live \in BOOLEAN : \E kind \in {cats[code].kind, "direct"} :
          ValidCategory(kind) /\ StoreCategory(code, kind, live)
  BY DEF UpdateCategory
<1>2. PICK kind \in {cats[code].kind, "direct"} :
          ValidCategory(kind) /\ StoreCategory(code, kind, live)
  BY <1>1
<1>3. PICK e : e = [kind |-> kind, active |-> live]
  OBVIOUS
<1>4. e \in [kind: Kinds, active: BOOLEAN]
  BY <1>2, <1>3 DEF ValidCategory
<1>5. PICK r : r = cats'
  OBVIOUS
<1>6. r = [cats EXCEPT ![code] = e] /\ code \in DOMAIN cats
  BY <1>2, <1>3, <1>5 DEF StoreCategory
<1>7. IsTable(cats, [kind: Kinds, active: BOOLEAN])
  BY DEF Books, ScalarsOK, IsTable
<1>8. IsTable(r, [kind: Kinds, active: BOOLEAN]) /\ DOMAIN r = DOMAIN cats
  BY <1>4, <1>6, <1>7, SetEntry
<1>9. /\ StaffStep /\ rates' = rates /\ ids' = ids
      /\ UNCHANGED <<rows, rules, income, cases, payments, consults>>
  BY DEF UpdateCategory
<1>10. DOMAIN r \subseteq Codes
  BY <1>8 DEF Books, ScalarsOK
<1>11. QED
  BY <1>5, <1>8, <1>9, <1>10, CategoriesWritten

\* A step on the expenses alone.
LEMMA RowsStep ==
  ASSUME Books, StaffStep, cats' = cats, rates' = rates, ids' \in {ids, ids + 1},
         UNCHANGED <<rules, income, cases, payments, consults>>,
         RowsOK' /\ TableFollows(rows, rows', Covering)
  PROVE  StepOK
<1>1. ScalarsOK' /\ Steady
  BY StaffSteady
<1>2. Kept
  BY <1>1, LeftAlone
<1>3. QED
  BY <1>1, <1>2 DEF Kept, StepOK

LEMMA NewCovers ==
  ASSUME NEW e \in ExpenseRow, e.ref = NoRef \/ e.base = 0
  PROVE  e \in Covering
  BY DEF Covering, CoversMonth

LEMMA CreateExpenseStep ==
  ASSUME Books, CreateExpense
  PROVE  StepOK
<1>1. PICK d \in Days, amount \in Amounts, cat \in Picked :
          ValidExpense(amount, cat) /\ InsertExpense(Manual(d, amount, cat))
  BY DEF CreateExpense
<1>2. d \in Int /\ amount \in Nat \ {0} /\ cat \in Codes
  <2>1. amount > 0
    BY <1>1 DEF ValidExpense
  <2>2. amount \in Nat \ {0}
    BY <2>1, AmountIsNat
  <2>3. d \in Nat
    BY DayIsNat
  <2>4. cat \in Codes
    BY PickedIsCode
  <2>5. QED
    BY <2>2, <2>3, <2>4
<1>3. PICK e : e = Manual(d, amount, cat)
  OBVIOUS
<1>4. e \in ExpenseRow /\ e.ref = NoRef
  BY <1>2, <1>3, ManualRow
<1>5. e \in Covering /\ ~RefTaken(rows, e.ref)
  BY <1>4, NewCovers DEF RefTaken
<1>6. RowsOK /\ ids \in Nat /\ cats' = cats /\ InsertExpense(e)
  BY <1>1, <1>3 DEF Books, ScalarsOK, CreateExpense
<1>7. RowsOK' /\ TableFollows(rows, rows', Covering) /\ ids' = ids + 1
  BY <1>4, <1>5, <1>6, InsertedRow
<1>8. /\ StaffStep /\ cats' = cats /\ rates' = rates
      /\ UNCHANGED <<rules, income, cases, payments, consults>>
  BY DEF CreateExpense
<1>9. QED
  BY <1>7, <1>8, RowsStep

LEMMA RowTyped ==
  ASSUME RowsOK, NEW i \in DOMAIN rows
  PROVE  rows[i] \in ExpenseRow /\ rows[i].cat \in DOMAIN cats
  BY DEF RowsOK, TableOK

LEMMA UpdateExpenseStep ==
  ASSUME Books, UpdateExpense
  PROVE  StepOK
<1>1. PICK i \in DOMAIN rows, d \in Days, amount \in Amounts :
          /\ ValidExpense(amount, rows[i].cat)
          /\ StoreExpense(i, EditedRow(rows[i], d, amount, rows[i].cat))
  BY DEF UpdateExpense
<1>2. d \in Int /\ amount \in Nat \ {0}
  <2>1. amount > 0
    BY <1>1 DEF ValidExpense
  <2>2. amount \in Nat \ {0}
    BY <2>1, AmountIsNat
  <2>3. d \in Nat
    BY DayIsNat
  <2>4. QED
    BY <2>2, <2>3
<1>3. PICK x \in ExpenseRow : x = rows[i] /\ x.cat \in DOMAIN cats
  BY RowTyped DEF Books
<1>4. PICK e : e = EditedRow(x, d, amount, x.cat)
  OBVIOUS
<1>5. e \in ExpenseRow /\ RowFollows(x, e) /\ e.cat = x.cat
  BY <1>2, <1>4, PersonsRow
<1>6. rows' = [rows EXCEPT ![i] = e]
  BY <1>1, <1>3, <1>4 DEF StoreExpense
<1>7. RowsOK /\ cats' = cats /\ ids' = ids
  BY DEF Books, UpdateExpense
<1>8. RowsOK' /\ TableFollows(rows, rows', Covering)
  BY <1>3, <1>5, <1>6, <1>7, EditedRows
<1>9. /\ StaffStep /\ cats' = cats /\ rates' = rates /\ ids' = ids
      /\ UNCHANGED <<rules, income, cases, payments, consults>>
  BY DEF UpdateExpense
<1>10. QED
  BY <1>8, <1>9, RowsStep

LEMMA StatusSet ==
  ASSUME RowsOK, cats' = cats, ids' = ids, NEW i \in DOMAIN rows, NEW s \in Statuses,
         rows[i].status = "void" => s = "void", rows' = [rows EXCEPT ![i].status = s]
  PROVE  RowsOK' /\ TableFollows(rows, rows', Covering)
<1>1. PICK x \in ExpenseRow : x = rows[i] /\ x.cat \in DOMAIN cats
  BY RowTyped
<1>2. PICK e : e = [x EXCEPT !.status = s]
  OBVIOUS
<1>3. e \in ExpenseRow /\ e.cat = x.cat /\ e.ref = x.ref /\ e.base = x.base /\ e.status = s
  BY <1>2, RowsEdited
<1>4. rows' = [rows EXCEPT ![i] = e]
  BY <1>1, <1>2
<1>5. RowFollows(rows[i], e)
  BY <1>1, <1>3 DEF RowFollows
<1>6. QED
  BY <1>1, <1>3, <1>4, <1>5, EditedRows

LEMMA ConfirmExpenseStep ==
  ASSUME Books, ConfirmExpense
  PROVE  StepOK
<1>1. PICK i \in DOMAIN rows : ConfirmRow(i)
  BY DEF ConfirmExpense
<1>2. rows[i].status = "draft" /\ rows' = [rows EXCEPT ![i].status = "posted"]
  BY <1>1 DEF ConfirmRow
<1>3. RowsOK /\ cats' = cats /\ ids' = ids /\ "posted" \in Statuses
  BY DEF Books, ConfirmExpense, Statuses
<1>4. RowsOK' /\ TableFollows(rows, rows', Covering)
  BY <1>2, <1>3, StatusSet
<1>5. /\ StaffStep /\ cats' = cats /\ rates' = rates /\ ids' = ids
      /\ UNCHANGED <<rules, income, cases, payments, consults>>
  BY DEF ConfirmExpense
<1>6. QED
  BY <1>4, <1>5, RowsStep

LEMMA DeleteExpenseStep ==
  ASSUME Books, DeleteExpense
  PROVE  StepOK
<1>1. PICK i \in DOMAIN rows : rows' = WithoutExpense(i)
  BY DEF DeleteExpense
<1>2. RowsOK /\ cats' = cats /\ ids' = ids /\ "void" \in Statuses
  BY DEF Books, DeleteExpense, Statuses
<1>3. RowsOK' /\ TableFollows(rows, rows', Covering)
  <2>1. CASE rows[i].ref # NoRef
    <3>1. rows' = [rows EXCEPT ![i].status = "void"]
      BY <1>1, <2>1 DEF WithoutExpense, VoidRow
    <3>2. QED
      BY <1>2, <3>1, StatusSet
  <2>2. CASE rows[i].ref = NoRef
    <3>1. rows' = Drop(rows, i)
      BY <1>1, <2>2 DEF WithoutExpense, DeleteRow
    <3>2. QED
      BY <1>2, <2>2, <3>1, DeletedRows
  <2>3. QED
    BY <2>1, <2>2
<1>4. /\ StaffStep /\ cats' = cats /\ rates' = rates /\ ids' = ids
      /\ UNCHANGED <<rules, income, cases, payments, consults>>
  BY DEF DeleteExpense
<1>5. QED
  BY <1>3, <1>4, RowsStep

-----------------------------------------------------------------------------
LEMMA CreateRuleStep ==
  ASSUME Books, CreateRule
  PROVE  StepOK
<1>1. PICK dom \in 1 .. DaysPerMonth, amount \in Amounts, auto \in BOOLEAN, from \in Froms :
          LET r == Rule(from, LastDay, dom, amount, auto, "rent", TRUE)
          IN  ValidRule(r) /\ InsertRule(r)
  BY DEF CreateRule
<1>2. PICK r : r = Rule(from, LastDay, dom, amount, auto, "rent", TRUE)
  OBVIOUS
<1>3. ValidRule(r) /\ InsertRule(r)
  BY <1>1, <1>2
<1>4. r \in RuleRow
  <2>1. amount > 0
    BY <1>2, <1>3 DEF ValidRule, Rule
  <2>2. amount \in Nat \ {0}
    BY <2>1, AmountIsNat
  <2>3. from \in Int /\ LastDay \in Int
    BY LedgerAssumption, DayIsNat
  <2>4. "rent" \in Codes
    BY DEF Codes
  <2>5. QED
    BY <1>2, <2>2, <2>3, <2>4 DEF Rule, RuleRow
<1>5. RulesOK /\ ids \in Nat /\ cats' = cats
  BY DEF Books, ScalarsOK, CreateRule
<1>6. RulesOK' /\ ids' = ids + 1
  BY <1>3, <1>4, <1>5, InsertedRule
<1>7. /\ StaffStep /\ cats' = cats /\ rates' = rates
      /\ UNCHANGED <<rows, income, cases, payments, consults>>
  BY DEF CreateRule
<1>8. ScalarsOK' /\ Steady
  BY <1>6, <1>7, StaffSteady
<1>9. Kept
  BY <1>8, LeftAlone
<1>10. QED
  BY <1>6, <1>7, <1>8, <1>9 DEF Kept, StepOK

LEMMA UpdateRuleStep ==
  ASSUME Books, UpdateRule
  PROVE  StepOK
<1>1. PICK i \in DOMAIN rules : \E live \in BOOLEAN, to \in {day, rules[i].to} :
          LET r == [rules[i] EXCEPT !.active = live, !.to = to]
          IN  ValidRule(r) /\ StoreRule(i, r)
  BY DEF UpdateRule
<1>2. PICK live \in BOOLEAN, to \in {day, rules[i].to} :
          LET r == [rules[i] EXCEPT !.active = live, !.to = to]
          IN  ValidRule(r) /\ StoreRule(i, r)
  BY <1>1
<1>3. PICK x \in RuleRow : x = rules[i]
  BY DEF Books, RulesOK
<1>4. PICK r : r = [x EXCEPT !.active = live, !.to = to]
  OBVIOUS
<1>5. to \in Int
  BY <1>3, DayIsNat DEF Books, ScalarsOK, RuleRow
<1>6. r \in RuleRow /\ r.cat = x.cat
  BY <1>4, <1>5 DEF RuleRow
<1>7. rules' = [rules EXCEPT ![i] = r]
  BY <1>2, <1>3, <1>4 DEF StoreRule
<1>8. RulesOK /\ cats' = cats /\ ids' = ids
  BY DEF Books, UpdateRule
<1>9. RulesOK'
  BY <1>3, <1>6, <1>7, <1>8, StoredRule
<1>10. /\ StaffStep /\ rates' = rates /\ cats' = cats /\ ids' = ids
       /\ UNCHANGED <<rows, income, cases, payments, consults>>
  BY DEF UpdateRule
<1>11. ScalarsOK' /\ Steady
  BY <1>10, StaffSteady
<1>12. Kept
  BY <1>11, LeftAlone
<1>13. QED
  BY <1>9, <1>10, <1>11, <1>12 DEF Kept, StepOK

LEMMA DeleteRuleStep ==
  ASSUME Books, DeleteRule
  PROVE  StepOK
<1>1. PICK i \in DOMAIN rules : DropRule(i)
  BY DEF DeleteRule
<1>2. RulesOK /\ RowsOK /\ cats' = cats /\ ids' = ids
  BY DEF Books, DeleteRule
<1>3. RowsOK' /\ TableFollows(rows, rows', Covering)
  BY <1>1, <1>2, UnruledRows
<1>4. rules' = Drop(rules, i)
  BY <1>1 DEF DropRule
<1>5. RulesOK'
  BY <1>2, <1>4, DroppedRule
<1>6. /\ StaffStep /\ rates' = rates /\ cats' = cats /\ ids' = ids
      /\ UNCHANGED <<income, cases, payments, consults>>
  BY DEF DeleteRule
<1>7. ScalarsOK' /\ Steady
  BY <1>6, StaffSteady
<1>8. Kept
  BY <1>7, LeftAlone
<1>9. QED
  BY <1>3, <1>5, <1>6, <1>7, <1>8 DEF Kept, StepOK

\* A step on the other income alone.
LEMMA IncomeStep ==
  ASSUME Books, StaffStep, cats' = cats, rates' = rates, ids' \in {ids, ids + 1},
         UNCHANGED <<rows, rules, cases, payments, consults>>, IncomeOK'
  PROVE  StepOK
<1>1. ScalarsOK' /\ Steady
  BY StaffSteady
<1>2. Kept
  BY <1>1, LeftAlone
<1>3. QED
  BY <1>1, <1>2 DEF Kept, StepOK

LEMMA CreateOtherIncomeStep ==
  ASSUME Books, CreateOtherIncome
  PROVE  StepOK
<1>1. PICK amount \in Amounts : ValidIncome(amount) /\ InsertIncome(Income(day, amount, NoRef))
  BY DEF CreateOtherIncome
<1>2. PICK e : e = Income(day, amount, NoRef)
  OBVIOUS
<1>3. e \in IncomeRow /\ e.ref = NoRef
  <2>1. amount > 0
    BY <1>1 DEF ValidIncome
  <2>2. amount \in Nat \ {0}
    BY <2>1, AmountIsNat
  <2>3. day \in Int
    BY DayIsNat DEF Books, ScalarsOK
  <2>4. QED
    BY <1>2, <2>2, <2>3 DEF Income, IncomeRow
<1>4. ~RefTaken(income, e.ref)
  BY <1>3 DEF RefTaken
<1>5. WithinRecorded(e)
  BY <1>3 DEF WithinRecorded, NoRef, IncomeTopUpRef
<1>6. IncomeOK /\ ids \in Nat /\ InsertIncome(e)
  BY <1>1, <1>2 DEF Books, ScalarsOK
<1>7. IncomeOK' /\ ids' = ids + 1
  BY <1>3, <1>4, <1>5, <1>6, InsertedIncome
<1>8. /\ StaffStep /\ rates' = rates /\ cats' = cats
      /\ UNCHANGED <<rows, rules, cases, payments, consults>>
  BY DEF CreateOtherIncome
<1>9. QED
  BY <1>7, <1>8, IncomeStep

LEMMA DeleteOtherIncomeStep ==
  ASSUME Books, DeleteOtherIncome
  PROVE  StepOK
<1>1. PICK i \in DOMAIN income : DropIncome(i)
  BY DEF DeleteOtherIncome
<1>2. IncomeOK /\ ids' = ids /\ income' = Drop(income, i)
  BY <1>1 DEF Books, DeleteOtherIncome, DropIncome
<1>3. IncomeOK'
  BY <1>2, DroppedIncome
<1>4. /\ StaffStep /\ rates' = rates /\ cats' = cats /\ ids' = ids
      /\ UNCHANGED <<rows, rules, cases, payments, consults>>
  BY DEF DeleteOtherIncome
<1>5. QED
  BY <1>3, <1>4, IncomeStep

LEMMA SetAdvocateRateStep ==
  ASSUME Books, SetAdvocateRate
  PROVE  StepOK
<1>1. PICK a \in Advocates, percent \in Percents : ValidRate(percent) /\ StoreRate(a, percent)
  BY DEF SetAdvocateRate
<1>2. rates' \in [Advocates -> 0 .. 100]
  BY <1>1 DEF Books, ScalarsOK, ValidRate, StoreRate
<1>3. edits' \in 0 .. MaxEdits /\ day' = day
  BY LedgerAssumption DEF Books, ScalarsOK, StaffStep, SetAdvocateRate
<1>4. day \in Nat /\ ids \in Nat
  BY DayIsNat DEF Books, ScalarsOK
<1>5. UNCHANGED <<cats, rows, rules, income, cases, payments, consults, ids>>
  BY DEF SetAdvocateRate
<1>6. ScalarsOK'
  BY <1>2, <1>3, <1>5 DEF Books, ScalarsOK
<1>7. Kept
  BY <1>3, <1>4, <1>5, LeftAlone DEF Steady
<1>8. QED
  BY <1>5, <1>6, <1>7 DEF Kept, StepOK

-----------------------------------------------------------------------------
\* A step on the cases and consultations alone.
LEMMA RecordsStep ==
  ASSUME Books, StaffStep, cats' = cats, rates' = rates, ids' \in {ids, ids + 1},
         UNCHANGED <<rows, rules, income>>, RecordsOK' /\ PaidIsLedger' /\ MoneyFollows
  PROVE  StepOK
<1>1. ScalarsOK' /\ Steady
  BY StaffSteady
<1>2. Kept
  BY <1>1, LeftAlone
<1>3. QED
  BY <1>1, <1>2 DEF Kept, StepOK

\* The latest consultation of a client is one of those there are.
LEMMA GreatestOf ==
  ASSUME NEW n \in Nat, NEW S, S \subseteq 1 .. n, S # {}
  PROVE  \E i \in S : \A j \in S : j <= i
<1> DEFINE Gaps == {n - i : i \in S}
<1>1. Gaps \subseteq Nat /\ Gaps # {}
  <2>1. \A i \in S : n - i \in Nat
    OBVIOUS
  <2>2. PICK i \in S : TRUE
    OBVIOUS
  <2>3. n - i \in Gaps
    OBVIOUS
  <2>4. QED
    BY <2>1, <2>3
<1> HIDE DEF Gaps
<1>2. PICK g \in Gaps : \A h \in Gaps : ~(<<h, g>> \in OpToRel(<, Nat))
  BY <1>1, NatLessThanWellFounded, WFMin
<1>3. \A h \in Gaps : ~(h < g)
  BY <1>1, <1>2 DEF OpToRel
<1> USE DEF Gaps
<1>4. PICK i \in S : g = n - i
  OBVIOUS
<1>5. \A j \in S : j <= i
  BY <1>3, <1>4
<1>6. QED
  BY <1>5

LEMMA LatestIsNat ==
  ASSUME RecordsOK, ids \in Nat, NEW c
  PROVE  LatestConsult(c) \in Nat
<1> DEFINE own == {i \in DOMAIN consults : consults[i].client = c}
<1>1. own \subseteq 1 .. ids
  BY Records
<1>2. LatestConsult(c) = IF own = {} THEN 0 ELSE CHOOSE i \in own : \A j \in own : j <= i
  BY DEF LatestConsult
<1> HIDE DEF own
<1>3. own # {} => (CHOOSE i \in own : \A j \in own : j <= i) \in own
  BY <1>1, GreatestOf
<1>4. CASE own = {}
  BY <1>2, <1>4
<1>5. CASE own # {}
  <2>1. LatestConsult(c) \in own
    BY <1>2, <1>3, <1>5
  <2>2. \A i \in own : i \in 1 .. ids
    BY <1>1
  <2>3. LatestConsult(c) \in 1 .. ids
    BY <2>1, <2>2
  <2>4. QED
    BY <2>3
<1>6. QED
  BY <1>4, <1>5

LEMMA SaveCaseStep ==
  ASSUME Books, SaveCase
  PROVE  StepOK
<1>1. PICK c \in Clients, a \in Advocates :
          InsertCase([client |-> c, advocate |-> a, name |-> a, fee |-> Fee, paid |-> 0,
                      status |-> "in_progress", consult |-> LatestConsult(c)])
  BY DEF SaveCase
<1>2. PICK n \in Nat : n = LatestConsult(c)
  BY LatestIsNat DEF Books, ScalarsOK
<1>3. PICK k : k = [client |-> c, advocate |-> a, name |-> a, fee |-> Fee, paid |-> 0,
                    status |-> "in_progress", consult |-> n]
  OBVIOUS
<1>4. k \in CaseRow /\ k.paid = 0
  BY <1>3, LedgerAssumption DEF CaseRow
<1>5. InsertCase(k)
  BY <1>1, <1>2, <1>3
<1>6. /\ RecordsOK /\ PaidIsLedger /\ ids \in Nat /\ day \in Nat /\ day' = day
      /\ payments' = payments /\ consults' = consults
  BY DayIsNat DEF Books, ScalarsOK, SaveCase, StaffStep
<1>7. RecordsOK' /\ PaidIsLedger' /\ MoneyFollows /\ ids' = ids + 1
  BY <1>4, <1>5, <1>6, NewCase
<1>8. /\ StaffStep /\ rates' = rates /\ cats' = cats
      /\ UNCHANGED <<rows, rules, income>>
  BY DEF SaveCase
<1>9. QED
  BY <1>7, <1>8, RecordsStep

LEMMA PayStep ==
  ASSUME Books, Pay
  PROVE  StepOK
<1>1. PICK c \in DOMAIN cases, amount \in Amounts, paidAt \in Days :
          /\ amount > 0
          /\ AddPayment(c, [id |-> FreshId, case |-> c, amount |-> amount,
                            paidAt |-> paidAt, made |-> day])
  BY DEF Pay
<1>2. PICK p : p = [id |-> FreshId, case |-> c, amount |-> amount, paidAt |-> paidAt, made |-> day]
  OBVIOUS
<1>3. /\ RecordsOK /\ PaidIsLedger /\ ids \in Nat /\ day \in Nat /\ day' = day
      /\ ids' = ids + 1 /\ consults' = consults /\ day \in Days
  BY DayIsNat DEF Books, ScalarsOK, Pay, StaffStep, TakeId
<1>4. c \in Nat
  BY <1>3, Records
<1>5. amount \in Nat \ {0}
  BY <1>1, AmountIsNat
<1>6. p \in PaymentRow /\ p.id = ids + 1 /\ p.case = c /\ p.made = day
  BY <1>2, <1>3, <1>4, <1>5 DEF PaymentRow, FreshId
<1>7. AddPayment(c, p)
  BY <1>1, <1>2
<1>8. RecordsOK' /\ PaidIsLedger' /\ MoneyFollows
  BY <1>3, <1>6, <1>7, Paid
<1>9. /\ StaffStep /\ rates' = rates /\ cats' = cats
      /\ UNCHANGED <<rows, rules, income>>
  BY DEF Pay
<1>10. QED
  BY <1>3, <1>8, <1>9, RecordsStep

LEMMA CloseCaseStep ==
  ASSUME Books, CloseCase
  PROVE  StepOK
<1>1. PICK c \in DOMAIN cases : StoreCaseStatus(c, "completed")
  BY DEF CloseCase
<1>2. /\ RecordsOK /\ PaidIsLedger /\ ids \in Nat /\ day \in Nat /\ day' = day /\ ids' = ids
      /\ payments' = payments /\ consults' = consults
  BY DayIsNat DEF Books, ScalarsOK, CloseCase, StaffStep
<1>3. RecordsOK' /\ PaidIsLedger' /\ MoneyFollows
  BY <1>1, <1>2, StatusWritten
<1>4. /\ StaffStep /\ rates' = rates /\ cats' = cats /\ ids' = ids
      /\ UNCHANGED <<rows, rules, income>>
  BY DEF CloseCase
<1>5. QED
  BY <1>3, <1>4, RecordsStep

LEMMA ConsultsStep ==
  ASSUME Books, StaffStep, cats' = cats, rates' = rates, ids' \in {ids, ids + 1},
         UNCHANGED <<rows, rules, income, cases, payments>>,
         IsTable(consults', ConsultRow), DOMAIN consults' \subseteq 1 .. ids'
  PROVE  StepOK
<1>1. /\ RecordsOK /\ PaidIsLedger /\ ids \in Nat /\ day \in Nat /\ day' = day
  BY DayIsNat DEF Books, ScalarsOK, StaffStep
<1>2. RecordsOK' /\ PaidIsLedger' /\ MoneyFollows
  BY <1>1, ConsultsWritten
<1>3. QED
  BY <1>2, RecordsStep

LEMMA SaveConsultationStep ==
  ASSUME Books, SaveConsultation
  PROVE  StepOK
<1>1. PICK c \in Clients, d \in Days :
          consults' = Put(consults, FreshId,
                          [client |-> c, day |-> d, price |-> Price, status |-> "scheduled",
                           paid |-> "unasked", paidAt |-> 0])
  BY DEF SaveConsultation
<1>2. PICK k : k = [client |-> c, day |-> d, price |-> Price, status |-> "scheduled",
                    paid |-> "unasked", paidAt |-> 0]
  OBVIOUS
<1>3. k \in ConsultRow
  BY <1>2, LedgerAssumption DEF ConsultRow
<1>4. PICK m \in Nat : m = ids + 1
  BY DEF Books, ScalarsOK
<1> DEFINE r == Put(consults, m, k)
<1>5. consults' = r /\ ids' = m
  BY <1>1, <1>2, <1>4 DEF FreshId, TakeId, SaveConsultation
<1>6. IsTable(consults, ConsultRow) /\ DOMAIN consults \subseteq 1 .. ids /\ ids \in Nat
  BY Records DEF Books, ScalarsOK
<1>7. IsTable(r, ConsultRow) /\ Written(r, consults, m, k)
  BY <1>3, <1>6, PutEntry
<1> HIDE DEF r
<1>8. DOMAIN r \subseteq 1 .. m
  BY <1>4, <1>6, <1>7 DEF Written
<1>9. /\ StaffStep /\ rates' = rates /\ cats' = cats /\ ids' \in {ids, ids + 1}
      /\ UNCHANGED <<rows, rules, income, cases, payments>>
  BY <1>4, <1>5 DEF SaveConsultation
<1>10. QED
  BY <1>5, <1>7, <1>8, <1>9, ConsultsStep

LEMMA StatusTapped ==
  ASSUME NEW x \in ConsultRow, day \in Days
  PROVE  /\ MarkCompleted(x, TRUE) \in ConsultRow /\ MarkCompleted(x, FALSE) \in ConsultRow
         /\ \A s \in {"cancelled", "no_show"} : [x EXCEPT !.status = s] \in ConsultRow
<1>1. day \in 0 .. LastDay /\ 0 \in 0 .. LastDay
  BY LedgerAssumption DEF Days
<1>2. QED
  BY <1>1 DEF MarkCompleted, ConsultRow

LEMMA TapStatusStep ==
  ASSUME Books, TapStatus
  PROVE  StepOK
<1>1. PICK i \in DOMAIN consults :
          consults' = [consults EXCEPT ![i] = MarkCompleted(@, TRUE)]
          \/ consults' = [consults EXCEPT ![i] = MarkCompleted(@, FALSE)]
          \/ \E s \in {"cancelled", "no_show"} : consults' = [consults EXCEPT ![i].status = s]
  BY DEF TapStatus
<1>2. IsTable(consults, ConsultRow) /\ DOMAIN consults \subseteq 1 .. ids /\ day \in Days
  BY Records DEF Books, ScalarsOK
<1>3. PICK x \in ConsultRow : x = consults[i]
  BY <1>2 DEF IsTable
<1>4. PICK e \in ConsultRow : consults' = [consults EXCEPT ![i] = e]
  <2>1. /\ MarkCompleted(x, TRUE) \in ConsultRow /\ MarkCompleted(x, FALSE) \in ConsultRow
        /\ \A s \in {"cancelled", "no_show"} : [x EXCEPT !.status = s] \in ConsultRow
    BY <1>2, StatusTapped
  <2>2. CASE consults' = [consults EXCEPT ![i] = MarkCompleted(@, TRUE)]
    BY <1>3, <2>1, <2>2
  <2>3. CASE consults' = [consults EXCEPT ![i] = MarkCompleted(@, FALSE)]
    BY <1>3, <2>1, <2>3
  <2>4. CASE \E s \in {"cancelled", "no_show"} : consults' = [consults EXCEPT ![i].status = s]
    <3>1. PICK s \in {"cancelled", "no_show"} : consults' = [consults EXCEPT ![i].status = s]
      BY <2>4
    <3>2. PICK e : e = [x EXCEPT !.status = s]
      OBVIOUS
    <3>3. e \in ConsultRow
      BY <2>1, <3>2
    <3>4. consults' = [consults EXCEPT ![i] = e]
      BY <1>3, <3>1, <3>2
    <3>5. QED
      BY <3>3, <3>4
  <2>5. QED
    BY <1>1, <2>2, <2>3, <2>4
<1>5. PICK r : r = consults'
  OBVIOUS
<1>6. IsTable(r, ConsultRow) /\ DOMAIN r = DOMAIN consults
  BY <1>2, <1>4, <1>5, SetEntry
<1>7. /\ StaffStep /\ rates' = rates /\ cats' = cats /\ ids' = ids
      /\ UNCHANGED <<rows, rules, income, cases, payments>>
  BY DEF TapStatus
<1>8. QED
  BY <1>2, <1>5, <1>6, <1>7, ConsultsStep

LEMMA StaffFollows ==
  ASSUME Books, Staff
  PROVE  StepOK
<1>1. \/ CreateCategory \/ UpdateCategory \/ CreateExpense \/ UpdateExpense
      \/ ConfirmExpense \/ DeleteExpense \/ CreateRule \/ UpdateRule \/ DeleteRule
      \/ CreateOtherIncome \/ DeleteOtherIncome \/ SetAdvocateRate
      \/ SaveCase \/ Pay \/ CloseCase \/ SaveConsultation \/ TapStatus
  BY DEF Staff
<1>2. CASE CreateCategory \/ UpdateCategory
  BY <1>2, CreateCategoryStep, UpdateCategoryStep
<1>3. CASE CreateExpense \/ UpdateExpense \/ ConfirmExpense \/ DeleteExpense
  BY <1>3, CreateExpenseStep, UpdateExpenseStep, ConfirmExpenseStep, DeleteExpenseStep
<1>4. CASE CreateRule \/ UpdateRule \/ DeleteRule
  BY <1>4, CreateRuleStep, UpdateRuleStep, DeleteRuleStep
<1>5. CASE CreateOtherIncome \/ DeleteOtherIncome \/ SetAdvocateRate
  BY <1>5, CreateOtherIncomeStep, DeleteOtherIncomeStep, SetAdvocateRateStep
<1>6. CASE SaveCase \/ Pay \/ CloseCase \/ SaveConsultation \/ TapStatus
  BY <1>6, SaveCaseStep, PayStep, CloseCaseStep, SaveConsultationStep, TapStatusStep
<1>7. QED
  BY <1>1, <1>2, <1>3, <1>4, <1>5, <1>6

-----------------------------------------------------------------------------
(* The invariant after a step, from what the step did to the books and to  *)
(* the passes.                                                             *)

LEMMA RowCovers ==
  ASSUME NEW x \in ExpenseRow, NEW y, RowFollows(x, y), CoversMonth(x)'
  PROVE  CoversMonth(y)'
<1>1. y.ref = x.ref /\ (y.base = x.base \/ y.base = 0)
  BY DEF RowFollows
<1>2. QED
  BY <1>1 DEF CoversMonth

Planned == \A g \in Generators : gen'[g].todo \subseteq Covering

\* The invariant holds again, and the expenses are the ones there were or covering.
Followed == LedgerInv' /\ TableFollows(rows, rows', Covering)

LEMMA InvFollows ==
  ASSUME LedgerInv, StepOK, RunsOK', Planned
  PROVE  Followed
<1>1. RecordsOK /\ RecordsOK' /\ MoneyFollows /\ RowsOK
  BY DEF LedgerInv, StepOK
<1>2. ASSUME NEW e \in Covering PROVE CoversMonth(e)'
  BY <1>1, CoverKept DEF Covering
<1>3. ASSUME NEW e \in Noted' PROVE CoversMonth(e)'
  <2>1. CASE e \in Covering
    BY <1>2, <2>1
  <2>2. CASE e \notin Covering
    <3>1. PICK i \in DOMAIN rows' : e = rows'[i]
      BY <1>3, <2>2 DEF Noted, Planned
    <3>2. i \in DOMAIN rows /\ RowFollows(rows[i], e)
      BY <2>2, <3>1 DEF StepOK, TableFollows
    <3>3. PICK x \in ExpenseRow : x = rows[i]
      BY <1>1, <3>2, RowTyped
    <3>4. CoversMonth(x)
      BY <3>2, <3>3 DEF LedgerInv, PayoutsCover, Noted
    <3>5. CoversMonth(x)'
      BY <1>1, <3>4, CoverKept
    <3>6. QED
      BY <3>2, <3>3, <3>5, RowCovers
  <2>3. QED
    BY <2>1, <2>2
<1>4. PayoutsCover'
  BY <1>3 DEF PayoutsCover
<1>5. QED
  BY <1>4 DEF LedgerInv, StepOK, Followed

-----------------------------------------------------------------------------
(* Sums of the report are natural numbers. *)

LEMMA TotalsNat ==
  ASSUME Books
  PROVE  /\ \A S : S \subseteq payments => Total(AmountOf, S) \in Nat
         /\ \A S : S \subseteq DOMAIN consults => Total(PriceOf, S) \in Nat
         /\ \A S : S \subseteq DOMAIN income => Total(IncomeAmount, S) \in Nat
<1>1. /\ payments \subseteq PaymentRow /\ IsFiniteSet(payments)
      /\ IsTable(consults, ConsultRow) /\ DOMAIN consults \subseteq 1 .. ids /\ ids \in Nat
      /\ IsTable(income, IncomeRow) /\ DOMAIN income \subseteq 1 .. ids
  BY Records, IncomeAsRows DEF Books, ScalarsOK, TableOK, IsTable
<1>2. ASSUME NEW S, S \subseteq payments
      PROVE  Total(AmountOf, S) \in Nat
  <2>1. IsFiniteSet(S) /\ S \subseteq PaymentRow
    BY <1>1, <1>2, FS_Subset
  <2>2. QED
    BY <2>1, TotalOfAmounts, AmountSumNat
<1>3. IsFiniteSet(1 .. ids)
  <2>1. ids \in Nat
    BY <1>1
  <2>2. QED
    BY <2>1, IdsFinite
<1>4. ASSUME NEW S, S \subseteq DOMAIN consults
      PROVE  Total(PriceOf, S) \in Nat
  <2> DEFINE f == [x \in S |-> PriceOf(x)]
  <2>1. S \subseteq 1 .. ids
    BY <1>1, <1>4
  <2>2. IsFiniteSet(S)
    BY <1>3, <2>1, FS_Subset
  <2>3. \A x \in S : f[x] \in Nat
    BY <1>1, <1>4 DEF PriceOf, IsTable, ConsultRow
  <2>4. DOMAIN f = S /\ Total(PriceOf, S) = SumFunction(f)
    BY DEF Total
  <2> HIDE DEF f
  <2>5. QED
    BY <2>2, <2>3, <2>4, SumFunctionIs, SumNat
<1>5. ASSUME NEW S, S \subseteq DOMAIN income
      PROVE  Total(IncomeAmount, S) \in Nat
  <2> DEFINE f == [x \in S |-> IncomeAmount(x)]
  <2>1. S \subseteq 1 .. ids
    BY <1>1, <1>5
  <2>2. IsFiniteSet(S)
    BY <1>3, <2>1, FS_Subset
  <2>3. \A x \in S : f[x] \in Nat
    BY <1>1, <1>5 DEF IncomeAmount, IsTable, IncomeRow
  <2>4. DOMAIN f = S /\ Total(IncomeAmount, S) = SumFunction(f)
    BY DEF Total
  <2> HIDE DEF f
  <2>5. QED
    BY <2>2, <2>3, <2>4, SumFunctionIs, SumNat
<1>6. QED
  BY <1>2, <1>4, <1>5

LEMMA CrmTotalNat ==
  ASSUME Books, NEW m
  PROVE  CrmTotal(m) \in Nat
<1>1. PICK A : A = {i \in Earned : MonthOf(ConsultDay(consults[i])) = m}
  OBVIOUS
<1>2. PICK B : B = {p \in payments : MonthOf(p.paidAt) = m}
  OBVIOUS
<1>3. PICK C : C = {i \in DOMAIN income : MonthOf(income[i].day) = m}
  OBVIOUS
<1>4. A \subseteq DOMAIN consults /\ B \subseteq payments /\ C \subseteq DOMAIN income
  BY <1>1, <1>2, <1>3 DEF Earned, Held
<1>5. CrmTotal(m) = Total(PriceOf, A) + Total(AmountOf, B) + Total(IncomeAmount, C)
  BY <1>1, <1>2, <1>3 DEF CrmTotal, FactsOf
<1>6. QED
  BY <1>4, <1>5, TotalsNat

-----------------------------------------------------------------------------
(* What the passes plan is typed, referenced, and covers its month.        *)

LEMMA MonthIsInt ==
  ASSUME NEW d \in Int
  PROVE  MonthOf(d) \in Int
<1>1. PICK n \in Nat \ {0} : n = DaysPerMonth
  BY LedgerAssumption
<1>2. (d - 1) \div n \in Int
  OBVIOUS
<1>3. QED
  BY <1>1, <1>2 DEF MonthOf

LEMMA MonthBounds ==
  ASSUME NEW m \in Int
  PROVE  StartOfMonth(m) \in Int /\ EndOfMonth(m) \in Int
<1>1. DaysPerMonth \in Int
  BY LedgerAssumption
<1>2. QED
  BY <1>1 DEF StartOfMonth, EndOfMonth

LEMMA RecurringRefTyped ==
  ASSUME NEW i \in Nat, NEW month \in Int
  PROVE  RecurringRef(i, month) \in Refs /\ RecurringRef(i, month) # NoRef
<1>1. RecurringRef(i, month) \in {"rule"} \X Nat \X Int
  BY DEF RecurringRef
<1>2. RecurringRef(i, month) # NoRef
  BY DEF RecurringRef, NoRef
<1>3. QED
  BY <1>1, <1>2 DEF Refs

LEMMA PayoutRefTyped ==
  ASSUME NEW a \in Advocates, NEW month \in Int
  PROVE  /\ AdvocatePayoutRef(a, month) \in Refs /\ AdvocatePayoutRef(a, month) # NoRef
         /\ AdvocatePayoutRef(a, month)[2] = a /\ AdvocatePayoutRef(a, month)[3] = month
<1>1. AdvocatePayoutRef(a, month) \in {"advocate"} \X Advocates \X Int
  BY DEF AdvocatePayoutRef
<1>2. AdvocatePayoutRef(a, month) # NoRef
  BY DEF AdvocatePayoutRef, NoRef
<1>3. AdvocatePayoutRef(a, month)[2] = a /\ AdvocatePayoutRef(a, month)[3] = month
  BY DEF AdvocatePayoutRef
<1>4. QED
  BY <1>1, <1>2, <1>3 DEF Refs

LEMMA ImportRefTyped ==
  ASSUME NEW i \in Nat, NEW j \in Nat
  PROVE  ImportRef(i, j) \in Refs /\ ImportRef(i, j) # NoRef
<1>1. ImportRef(i, j) \in {"sheet"} \X Nat \X Nat
  BY DEF ImportRef
<1>2. ImportRef(i, j) # NoRef
  BY DEF ImportRef, NoRef
<1>3. QED
  BY <1>1, <1>2 DEF Refs

LEMMA RecurringPlanned ==
  ASSUME Books, NEW month \in Int, NEW now, NEW e \in PlanRecurring(month, now)
  PROVE  e \in Covering /\ e.ref # NoRef /\ e.day <= now
<1>1. PICK i \in ActiveRules :
        /\ Due(rules[i], month, now)
        /\ e = Expense(DueDate(rules[i], month), rules[i].amount, rules[i].cat,
                       IF rules[i].auto THEN "posted" ELSE "draft",
                       RecurringRef(i, month), i, 0)
  BY DEF PlanRecurring
<1>2. PICK x \in RuleRow : x = rules[i] /\ i \in Nat
  BY DEF Books, ScalarsOK, RulesOK, ActiveRules
<1>3. PICK s \in Statuses : s = IF x.auto THEN "posted" ELSE "draft"
  BY DEF Statuses
<1>4. e = Expense(DueDate(x, month), x.amount, x.cat, s, RecurringRef(i, month), i, 0)
      /\ DueDate(x, month) <= now
  BY <1>1, <1>2, <1>3 DEF Due
<1>5. PICK d \in Int : d = DueDate(x, month)
  BY MonthBounds DEF DueDate, RuleRow
<1>6. PICK r \in Refs : r = RecurringRef(i, month) /\ r # NoRef
  BY <1>2, RecurringRefTyped
<1>7. e = [day |-> d, amount |-> x.amount, cat |-> x.cat, status |-> s, ref |-> r,
           rule |-> i, base |-> 0]
  BY <1>4, <1>5, <1>6 DEF Expense
<1>8. e \in ExpenseRow /\ e.ref = r /\ e.day = d /\ e.base = 0
  BY <1>2, <1>7 DEF ExpenseRow, RuleRow
<1>9. QED
  BY <1>4, <1>5, <1>6, <1>8, NewCovers

LEMMA PayoutPlanned ==
  ASSUME Books, NEW month \in Int, NEW now \in Nat, now <= day,
         NEW e \in PlanAdvocatePayouts(AdvocateCollections(StartOfMonth(month), EndOfMonth(month)),
                                       month, now)
  PROVE  e \in Covering /\ e.ref # NoRef /\ e.day <= now
<1>1. PICK z \in Int : z = EndOfMonth(month)
  BY MonthBounds
<1>2. z < now
  BY <1>1 DEF PlanAdvocatePayouts, Ended
<1>3. PICK c \in AdvocateCollections(StartOfMonth(month), EndOfMonth(month)) :
        /\ RoundedPercent(c.collected, c.percent) > 0
        /\ e = Expense(EndOfMonth(month), RoundedPercent(c.collected, c.percent), "advocates",
                       "draft", AdvocatePayoutRef(c.advocate, month), 0, c.collected)
  BY <1>1, <1>2 DEF PlanAdvocatePayouts, Ended
<1>4. PICK a \in Advocates :
        c = [advocate |-> a,
             collected |-> Total(AmountOf, CollectedBy(a, StartOfMonth(month), EndOfMonth(month))),
             percent |-> rates[a]]
  BY DEF AdvocateCollections
<1>5. PICK T : T = CollectedBy(a, StartOfMonth(month), EndOfMonth(month))
  OBVIOUS
<1>6. /\ payments \subseteq PaymentRow /\ IsFiniteSet(payments) /\ rates[a] \in 0 .. 100
      /\ day \in Nat
  BY Records, DayIsNat DEF Books, ScalarsOK
<1>7. T \subseteq payments
  BY <1>5 DEF CollectedBy
<1>8. IsFiniteSet(T) /\ T \subseteq PaymentRow
  BY <1>6, <1>7, FS_Subset
<1>9. PICK b \in Nat : b = AmountSum(T) /\ c.collected = b /\ c.advocate = a /\ c.percent = rates[a]
  <2>1. AmountSum(T) \in Nat
    BY <1>8, AmountSumNat
  <2>2. Total(AmountOf, T) = AmountSum(T)
    BY <1>8, TotalOfAmounts
  <2>3. QED
    BY <1>4, <1>5, <2>1, <2>2
<1>10. PICK n : n = RoundedPercent(b, c.percent)
  OBVIOUS
<1>11. n \in Nat \ {0}
  <2>1. n > 0
    BY <1>3, <1>9, <1>10
  <2>2. PICK k \in Int : k = b * c.percent
    BY <1>6, <1>9
  <2>3. 2 * b * c.percent = 2 * k
    BY <1>6, <1>9, <2>2
  <2>4. n = (2 * k + 100) \div 200
    BY <1>10, <2>3 DEF RoundedPercent
  <2>5. n \in Int
    BY <2>4
  <2>6. QED
    BY <2>1, <2>5
<1>12. PICK r \in Refs : r = AdvocatePayoutRef(a, month) /\ r # NoRef /\ r[2] = a /\ r[3] = month
  BY PayoutRefTyped
<1>13. e = [day |-> z, amount |-> n, cat |-> "advocates", status |-> "draft", ref |-> r,
            rule |-> 0, base |-> b]
  BY <1>1, <1>3, <1>9, <1>10, <1>12 DEF Expense
<1>14. e \in ExpenseRow /\ e.ref = r /\ e.day = z /\ e.base = b
  <2>1. "advocates" \in Codes /\ "draft" \in Statuses
    BY DEF Codes, Statuses
  <2>2. QED
    BY <1>11, <1>13, <2>1 DEF ExpenseRow
<1>15. /\ TakenIn(a, month, z) = AmountSum(TakenSet(a, month, z))
       /\ TakenIn(a, month, LastDay) = AmountSum(TakenSet(a, month, LastDay))
  BY <1>6, TakenAsSum
<1>16. TakenSet(a, month, LastDay) = T
  <2>1. \A p \in T : p.made <= LastDay
    BY <1>8, DayIsNat DEF PaymentRow
  <2>2. QED
    BY <1>5, <2>1 DEF TakenSet
<1>17. TakenSet(a, month, z) \subseteq T
  BY <1>5 DEF TakenSet
<1>18. AmountSum(TakenSet(a, month, z)) <= b
  BY <1>8, <1>9, <1>17, AmountMore
<1>19. AmountSum(TakenSet(a, month, z)) \in Nat
  <2>1. IsFiniteSet(TakenSet(a, month, z)) /\ TakenSet(a, month, z) \subseteq PaymentRow
    BY <1>8, <1>17, FS_Subset
  <2>2. QED
    BY <2>1, AmountSumNat
<1>20. b \in TakenIn(a, month, z) .. TakenIn(a, month, LastDay)
  BY <1>9, <1>15, <1>16, <1>18, <1>19
<1>21. z < day
  BY <1>1, <1>2, <1>6
<1>22. CoversMonth(e)
  BY <1>1, <1>12, <1>14, <1>20, <1>21 DEF CoversMonth
<1>23. QED
  BY <1>1, <1>2, <1>12, <1>14, <1>22 DEF Covering

-----------------------------------------------------------------------------
(* The passes and the commands, statement by statement.                    *)

LEMMA InvHas ==
  ASSUME LedgerInv
  PROVE  /\ Books /\ RunsOK /\ day \in Nat /\ day \in Days /\ ids \in Nat
         /\ \A g \in Generators : /\ gen[g] \in RunRecord /\ PassOK(gen[g])
                                  /\ gen[g].todo \subseteq Covering
<1>1. Books /\ RunsOK /\ day \in Nat /\ day \in Days /\ ids \in Nat
  BY DayIsNat DEF LedgerInv, Books, ScalarsOK
<1>2. ASSUME NEW g \in Generators
      PROVE  /\ gen[g] \in RunRecord /\ PassOK(gen[g]) /\ gen[g].todo \subseteq Covering
  <2>1. gen[g] \in RunRecord /\ PassOK(gen[g])
    BY <1>1 DEF RunsOK
  <2>2. gen[g].todo \subseteq ExpenseRow
    BY <2>1 DEF RunRecord
  <2>3. gen[g].todo \subseteq Noted
    BY DEF Noted
  <2>4. QED
    BY <2>1, <2>2, <2>3 DEF LedgerInv, PayoutsCover, Covering
<1>3. QED
  BY <1>1, <1>2

LEMMA QuietStep ==
  ASSUME Books, UNCHANGED <<day, cats, rates, edits>>, ids' \in {ids, ids + 1}
  PROVE  ScalarsOK' /\ Steady
<1>1. day \in Nat /\ ids \in Nat /\ ids' \in Nat
  BY DayIsNat DEF Books, ScalarsOK
<1>2. QED
  BY <1>1 DEF Books, ScalarsOK, Steady

\* A statement that writes no table.
LEMMA NothingWritten ==
  ASSUME Books, ScalarsOK', Steady, UNCHANGED <<rows, rules, income, cases, payments, consults>>
  PROVE  StepOK
<1>1. Kept
  BY LeftAlone
<1>2. QED
  BY <1>1 DEF Kept, StepOK

PassIsOK(r) == r \in RunRecord /\ PassOK(r) /\ r.todo \subseteq Covering

LEMMA PassWritten ==
  ASSUME LedgerInv, StepOK, day' = day, NEW g \in Generators, NEW r, PassIsOK(r),
         gen' = [gen EXCEPT ![g] = r], imp' = imp, topup' = topup, beside' = beside,
         stops' \in 0 .. MaxStops
  PROVE  Followed
<1>1. gen \in [Generators -> RunRecord] /\ RunsOK
  BY DEF LedgerInv, RunsOK
<1>2. PICK t : t = gen'
  OBVIOUS
<1>3. t \in [Generators -> RunRecord] /\ t[g] = r /\ \A h \in Generators : h # g => t[h] = gen[h]
  BY <1>1, <1>2 DEF PassIsOK
<1>4. ASSUME NEW h \in Generators
      PROVE  t[h].todo \subseteq Covering /\ t[h].now <= day'
             /\ \A e \in t[h].todo : e.ref # NoRef /\ e.day <= t[h].now
  <2>1. PassIsOK(t[h])
    BY <1>3, InvHas DEF PassIsOK
  <2>2. QED
    BY <2>1 DEF PassIsOK, PassOK
<1>5. Planned
  BY <1>2, <1>4 DEF Planned
<1>6. \A h \in Generators : PassOK(gen[h])'
  BY <1>2, <1>4 DEF PassOK
<1>7. RunsOK'
  BY <1>1, <1>2, <1>3, <1>6 DEF RunsOK
<1>8. QED
  BY <1>5, <1>7, InvFollows

LEMMA IdleIsOK ==
  ASSUME LedgerInv
  PROVE  PassIsOK(IdleRun)
<1>1. day \in Nat
  BY InvHas
<1>2. IdleRun \in RunRecord
  BY LedgerAssumption DEF IdleRun, RunRecord
<1>3. PassOK(IdleRun) /\ IdleRun.todo \subseteq Covering
  BY <1>1 DEF IdleRun, PassOK
<1>4. QED
  BY <1>2, <1>3 DEF PassIsOK

LEMMA NewPassIsOK ==
  ASSUME LedgerInv, NEW m \in Int, NEW last \in BOOLEAN
  PROVE  PassIsOK(Pass(m, last))
<1>1. PICK r : r = Pass(m, last)
  OBVIOUS
<1>2. Books /\ day \in Days /\ day \in Nat
  BY InvHas
<1>3. PICK T : T = PlanRecurring(m, day)
  OBVIOUS
<1>4. \A e \in T : e \in Covering /\ e.ref # NoRef /\ e.day <= day
  BY <1>2, <1>3, RecurringPlanned
<1>5. T \in SUBSET ExpenseRow /\ T \subseteq Covering
  BY <1>4 DEF Covering
<1>6. day \in 0 .. LastDay
  BY <1>2, DayIsNat, LedgerAssumption
<1>7. r = [pc |-> "charges", month |-> m, now |-> day, last |-> last, todo |-> T]
  BY <1>1, <1>3 DEF Pass
<1>8. r \in RunRecord
  BY <1>5, <1>6, <1>7 DEF RunRecord
<1>9. PassOK(r) /\ r.todo \subseteq Covering
  BY <1>2, <1>4, <1>5, <1>7 DEF PassOK
<1>10. QED
  BY <1>1, <1>8, <1>9 DEF PassIsOK

LEMMA StartCronStep ==
  ASSUME LedgerInv, StartCron, beside' = beside
  PROVE  Followed
<1>1. Books /\ day \in Nat /\ stops \in 0 .. MaxStops
  BY InvHas DEF RunsOK
<1>2. StepOK
  BY <1>1, QuietStep, NothingWritten DEF StartCron, NoRows, RestUnchanged
<1>3. PICK r : r = Pass(MonthOf(day), FALSE)
  OBVIOUS
<1>4. PassIsOK(r)
  <2>1. MonthOf(day) \in Int
    BY <1>1, MonthIsInt
  <2>2. QED
    BY <1>3, <2>1, NewPassIsOK
<1>5. gen' = [gen EXCEPT !["cron"] = r] /\ "cron" \in Generators
  BY <1>3 DEF StartCron, Generators
<1>6. day' = day /\ imp' = imp /\ topup' = topup /\ stops' = stops
  BY DEF StartCron, RestUnchanged
<1>7. QED
  BY <1>1, <1>2, <1>4, <1>5, <1>6, PassWritten

LEMMA StartPageStep ==
  ASSUME LedgerInv, StartPage, beside' = beside
  PROVE  Followed
<1>1. Books /\ day \in Nat /\ stops \in 0 .. MaxStops
  BY InvHas DEF RunsOK
<1>2. StepOK
  <2>1. StaffStep /\ UNCHANGED <<cats, rows, rules, income, cases, payments, consults, rates, ids>>
    BY DEF StartPage, NoRows
  <2>2. ScalarsOK' /\ Steady
    BY <1>1, <2>1, StaffSteady
  <2>3. QED
    BY <1>1, <2>1, <2>2, NothingWritten
<1>3. PICK m \in 1 .. MonthOf(LastDay) : gen' = [gen EXCEPT !["page"] = Pass(m, TRUE)]
  BY DEF StartPage
<1>4. PICK r : r = Pass(m, TRUE)
  OBVIOUS
<1>5. PassIsOK(r)
  <2>1. m \in Int
    OBVIOUS
  <2>2. QED
    BY <1>4, <2>1, NewPassIsOK
<1>6. gen' = [gen EXCEPT !["page"] = r] /\ "page" \in Generators
  BY <1>3, <1>4 DEF Generators
<1>7. day' = day /\ imp' = imp /\ topup' = topup /\ stops' = stops
  BY DEF StartPage, StaffStep
<1>8. QED
  BY <1>1, <1>2, <1>5, <1>6, <1>7, PassWritten

LEMMA InsertStep ==
  ASSUME LedgerInv, NEW g \in Generators, Insert(g), beside' = beside
  PROVE  Followed
<1>1. Books /\ ids \in Nat /\ stops \in 0 .. MaxStops /\ PassIsOK(gen[g])
  BY InvHas DEF RunsOK, PassIsOK
<1>2. PICK e \in gen[g].todo : InsertGenerated(e) /\ gen' = [gen EXCEPT ![g].todo = @ \ {e}]
  BY DEF Insert
<1>3. e \in ExpenseRow /\ e \in Covering
  BY <1>1 DEF PassIsOK, Covering
<1>4. RowsOK /\ cats' = cats
  BY <1>1 DEF Books, Insert, RestUnchanged
<1>5. RowsOK' /\ TableFollows(rows, rows', Covering) /\ ids' \in {ids, ids + 1}
  BY <1>1, <1>2, <1>3, <1>4, GeneratedRow
<1>6. UNCHANGED <<day, cats, rules, income, cases, payments, consults, rates, edits, imp, topup, stops>>
  BY DEF Insert, RestUnchanged
<1>7. ScalarsOK' /\ Steady
  BY <1>1, <1>5, <1>6, QuietStep
<1>8. Kept
  BY <1>1, <1>7, LeftAlone
<1>9. StepOK
  BY <1>5, <1>6, <1>7, <1>8 DEF Kept, StepOK
<1>10. PICK x : x = gen[g]
  OBVIOUS
<1>11. PICK r : r = [x EXCEPT !.todo = x.todo \ {e}]
  OBVIOUS
<1>12. PassIsOK(r)
  <2>1. x \in RunRecord /\ PassOK(x) /\ x.todo \subseteq Covering
    BY <1>1, <1>10 DEF PassIsOK
  <2>2. r \in RunRecord /\ r.now = x.now /\ r.todo = x.todo \ {e}
    BY <1>11, <2>1 DEF RunRecord
  <2>3. QED
    BY <2>1, <2>2 DEF PassIsOK, PassOK
<1>13. gen' = [gen EXCEPT ![g] = r]
  BY <1>2, <1>10, <1>11
<1>14. QED
  BY <1>1, <1>6, <1>9, <1>12, <1>13, PassWritten

LEMMA EndedStep ==
  ASSUME LedgerInv, NEW g \in Generators, gen' = [gen EXCEPT ![g] = IdleRun],
         NoRows, RestUnchanged, stops' \in 0 .. MaxStops, beside' = beside
  PROVE  Followed
<1>1. Books /\ PassIsOK(IdleRun)
  BY InvHas, IdleIsOK
<1>2. StepOK
  BY <1>1, QuietStep, NothingWritten DEF NoRows, RestUnchanged
<1>3. day' = day /\ imp' = imp /\ topup' = topup
  BY DEF RestUnchanged
<1>4. QED
  BY <1>1, <1>2, <1>3, PassWritten

LEMMA RefusedStep ==
  ASSUME LedgerInv, NEW g \in Generators, Refused(g), beside' = beside
  PROVE  Followed
<1>1. stops' \in 0 .. MaxStops
  BY InvHas DEF RunsOK, Refused
<1>2. QED
  BY <1>1, EndedStep DEF Refused

LEMMA FailStep ==
  ASSUME LedgerInv, NEW g \in Generators, Fail(g), beside' = beside
  PROVE  Followed
<1>1. stops' \in 0 .. MaxStops
  BY InvHas, LedgerRunsAssumption DEF RunsOK, Fail
<1>2. QED
  BY <1>1, EndedStep DEF Fail

LEMMA CollectStep ==
  ASSUME LedgerInv, NEW g \in Generators, Collect(g), beside' = beside
  PROVE  Followed
<1>1. /\ Books /\ stops \in 0 .. MaxStops /\ day \in Nat
      /\ gen[g] \in RunRecord /\ PassOK(gen[g])
  BY InvHas DEF RunsOK
<1>2. StepOK
  BY <1>1, QuietStep, NothingWritten DEF Collect, NoRows, RestUnchanged
<1>3. PICK x \in RunRecord : x = gen[g]
  BY <1>1
<1>4. x.month \in Int /\ x.now \in Nat /\ x.now <= day
  BY <1>1, <1>3, LedgerAssumption DEF RunRecord, PassOK
<1>5. PICK T : T = PlanAdvocatePayouts(AdvocateCollections(StartOfMonth(x.month), EndOfMonth(x.month)),
                                       x.month, x.now)
  OBVIOUS
<1>6. \A e \in T : e \in Covering /\ e.ref # NoRef /\ e.day <= x.now
  BY <1>1, <1>4, <1>5, PayoutPlanned
<1>7. PICK r : r = [x EXCEPT !.pc = "payouts", !.todo = T]
  OBVIOUS
<1>8. gen' = [gen EXCEPT ![g] = r]
  BY <1>3, <1>5, <1>7 DEF Collect
<1>9. PassIsOK(r)
  <2>1. T \in SUBSET ExpenseRow /\ T \subseteq Covering
    BY <1>6 DEF Covering
  <2>2. r \in RunRecord /\ r.now = x.now /\ r.todo = T
    BY <1>7, <2>1 DEF RunRecord
  <2>3. QED
    BY <1>4, <1>6, <2>1, <2>2 DEF PassIsOK, PassOK
<1>10. day' = day /\ imp' = imp /\ topup' = topup /\ stops' = stops
  BY DEF Collect, RestUnchanged
<1>11. QED
  BY <1>1, <1>2, <1>8, <1>9, <1>10, PassWritten

LEMMA PayoutsDoneStep ==
  ASSUME LedgerInv, NEW g \in Generators, PayoutsDone(g), beside' = beside
  PROVE  Followed
<1>1. /\ Books /\ stops \in 0 .. MaxStops /\ day \in Nat /\ gen[g] \in RunRecord
  BY InvHas DEF RunsOK
<1>2. StepOK
  BY <1>1, QuietStep, NothingWritten DEF PayoutsDone, NoRows, RestUnchanged
<1>3. PICK r : r = AfterPass(g)
  OBVIOUS
<1>4. PassIsOK(r)
  <2>1. gen[g].now \in Int
    BY <1>1, LedgerAssumption DEF RunRecord
  <2>2. MonthOf(gen[g].now) - 1 \in Int
    BY <2>1, MonthIsInt
  <2>3. CASE gen[g].last
    BY <1>3, <2>3, IdleIsOK DEF AfterPass
  <2>4. CASE ~gen[g].last
    BY <1>3, <2>2, <2>4, NewPassIsOK DEF AfterPass
  <2>5. QED
    BY <2>3, <2>4
<1>5. gen' = [gen EXCEPT ![g] = r]
  BY <1>3 DEF PayoutsDone
<1>6. day' = day /\ imp' = imp /\ topup' = topup /\ stops' = stops
  BY DEF PayoutsDone, RestUnchanged
<1>7. QED
  BY <1>1, <1>2, <1>4, <1>5, <1>6, PassWritten

-----------------------------------------------------------------------------
\* A statement of a command: the passes stand still.
LEMMA CommandStep ==
  ASSUME LedgerInv, StepOK, day' = day, gen' = gen, beside' = beside,
         imp' \subseteq SheetLines,
         topup' \subseteq [month: DOMAIN Recorded, amount: Nat \ {0}],
         \A t \in topup' : t.amount <= Recorded[t.month],
         stops' \in 0 .. MaxStops
  PROVE  Followed
<1>1. /\ gen \in [Generators -> RunRecord] /\ beside \in Beside
      /\ \A g \in Generators : PassOK(gen[g]) /\ gen[g].todo \subseteq Covering
  BY InvHas DEF RunsOK
<1>2. Planned
  BY <1>1 DEF Planned
<1>3. \A g \in Generators : PassOK(gen[g])'
  BY <1>1 DEF PassOK
<1>4. RunsOK'
  BY <1>1, <1>3 DEF RunsOK
<1>5. QED
  BY <1>2, <1>4, InvFollows

LEMMA CommandsHold ==
  ASSUME LedgerInv
  PROVE  /\ imp \subseteq SheetLines /\ topup \subseteq [month: DOMAIN Recorded, amount: Nat \ {0}]
         /\ \A t \in topup : t.amount <= Recorded[t.month]
         /\ stops \in 0 .. MaxStops
  BY InvHas DEF RunsOK

LEMMA NothingBooked ==
  ASSUME LedgerInv, NoRows, OthersUnchanged, UNCHANGED income
  PROVE  StepOK /\ day' = day /\ gen' = gen
<1>1. Books
  BY InvHas
<1>2. StepOK
  BY <1>1, QuietStep, NothingWritten DEF NoRows, OthersUnchanged
<1>3. QED
  BY <1>2 DEF OthersUnchanged

LEMMA StartImportStep ==
  ASSUME LedgerInv, NEW force \in BOOLEAN, StartImport(force), beside' = beside
  PROVE  Followed
<1>1. StepOK /\ day' = day /\ gen' = gen
  BY NothingBooked DEF StartImport
<1>2. imp' \subseteq SheetLines
  BY DEF StartImport
<1>3. topup' = topup /\ stops' = stops
  BY DEF StartImport
<1>4. QED
  BY <1>1, <1>2, <1>3, CommandsHold, CommandStep

LEMMA SheetRowTyped ==
  ASSUME NEW l \in SheetLines
  PROVE  SheetRow(l) \in ExpenseRow /\ SheetRow(l) \in Covering
<1>1. l.tab \in Nat /\ l.line \in Nat /\ l.day \in Days /\ l.amount \in Nat \ {0}
  BY LedgerRunsAssumption
<1>2. l.day \in Int
  BY <1>1, DayIsNat
<1>3. PICK r \in Refs : r = ImportRef(l.tab, l.line)
  BY <1>1, ImportRefTyped
<1>4. PICK e : e = SheetRow(l)
  OBVIOUS
<1>5. "rent" \in Codes /\ "posted" \in Statuses
  BY DEF Codes, Statuses
<1>6. e = [day |-> l.day, amount |-> l.amount, cat |-> "rent", status |-> "posted", ref |-> r,
           rule |-> 0, base |-> 0]
  BY <1>3, <1>4 DEF SheetRow, Expense
<1>7. e \in ExpenseRow /\ e.base = 0
  BY <1>1, <1>2, <1>5, <1>6 DEF ExpenseRow
<1>8. QED
  BY <1>4, <1>7, NewCovers

LEMMA BookLineStep ==
  ASSUME LedgerInv, BookLine, beside' = beside
  PROVE  Followed
<1>1. Books /\ ids \in Nat
  BY InvHas
<1>2. PICK l \in imp : InsertGenerated(SheetRow(l)) /\ imp' = imp \ {l}
  BY DEF BookLine
<1>3. l \in SheetLines /\ imp' \subseteq SheetLines
  BY <1>2, CommandsHold
<1>4. PICK e \in ExpenseRow : e = SheetRow(l) /\ e \in Covering
  BY <1>3, SheetRowTyped
<1>5. RowsOK /\ cats' = cats /\ InsertGenerated(e)
  BY <1>1, <1>2, <1>4 DEF Books, BookLine, OthersUnchanged
<1>6. RowsOK' /\ TableFollows(rows, rows', Covering) /\ ids' \in {ids, ids + 1}
  BY <1>1, <1>4, <1>5, GeneratedRow
<1>7. UNCHANGED <<day, cats, rules, income, cases, payments, consults, rates, edits, gen, topup, stops>>
  BY DEF BookLine, OthersUnchanged
<1>8. ScalarsOK' /\ Steady
  BY <1>1, <1>6, <1>7, QuietStep
<1>9. Kept
  BY <1>1, <1>8, LeftAlone
<1>10. StepOK
  BY <1>6, <1>7, <1>8, <1>9 DEF Kept, StepOK
<1>11. QED
  BY <1>3, <1>7, <1>10, CommandsHold, CommandStep

LEMMA StartTopUpStep ==
  ASSUME LedgerInv, StartTopUp, beside' = beside
  PROVE  Followed
<1>1. StepOK /\ day' = day /\ gen' = gen
  BY NothingBooked DEF StartTopUp
<1>2. Books
  BY InvHas
<1>3. ASSUME NEW t \in topup'
      PROVE  t \in [month: DOMAIN Recorded, amount: Nat \ {0}] /\ t.amount <= Recorded[t.month]
  <2>1. PICK m \in DOMAIN Recorded :
          Recorded[m] > CrmTotal(m) /\ t = [month |-> m, amount |-> Recorded[m] - CrmTotal(m)]
    BY <1>3 DEF StartTopUp, PlanIncomeTopUps
  <2>2. CrmTotal(m) \in Nat /\ Recorded[m] \in Nat
    BY <1>2, CrmTotalNat, LedgerRunsAssumption
  <2>3. PICK n : n = Recorded[m] - CrmTotal(m)
    OBVIOUS
  <2>4. n \in Nat \ {0} /\ n <= Recorded[m]
    BY <2>1, <2>2, <2>3
  <2>5. t = [month |-> m, amount |-> n]
    BY <2>1, <2>3
  <2>6. QED
    BY <2>4, <2>5
<1>4. imp' = imp /\ stops' = stops
  BY DEF StartTopUp
<1>5. /\ topup' \subseteq [month: DOMAIN Recorded, amount: Nat \ {0}]
      /\ \A t \in topup' : t.amount <= Recorded[t.month]
  BY <1>3
<1>6. QED
  BY <1>1, <1>4, <1>5, CommandsHold, CommandStep

LEMMA TopUpRowTyped ==
  ASSUME NEW t \in [month: DOMAIN Recorded, amount: Nat \ {0}], t.amount <= Recorded[t.month]
  PROVE  TopUpRow(t) \in IncomeRow /\ WithinRecorded(TopUpRow(t))
<1>1. t.month \in DOMAIN Recorded /\ t.month \in Nat /\ t.amount \in Nat \ {0}
  BY LedgerRunsAssumption
<1>2. PICK z \in Int : z = EndOfMonth(t.month)
  BY <1>1, MonthBounds
<1>3. PICK e : e = TopUpRow(t)
  OBVIOUS
<1>4. PICK r : r = IncomeTopUpRef(t.month)
  OBVIOUS
<1>5. r \in {"topup"} \X Nat /\ r[2] = t.month
  BY <1>1, <1>4 DEF IncomeTopUpRef
<1>6. e = [day |-> z, amount |-> t.amount, ref |-> r]
  BY <1>2, <1>3, <1>4 DEF TopUpRow, Income
<1>7. e \in IncomeRow /\ e.ref = r /\ e.amount = t.amount
  BY <1>1, <1>5, <1>6 DEF IncomeRow
<1>8. ASSUME NEW m \in DOMAIN Recorded, r = IncomeTopUpRef(m)
      PROVE  m = t.month
  <2>1. IncomeTopUpRef(m)[2] = m
    BY DEF IncomeTopUpRef
  <2>2. QED
    BY <1>5, <1>8, <2>1
<1>9. WithinRecorded(e)
  BY <1>7, <1>8 DEF WithinRecorded
<1>10. QED
  BY <1>3, <1>7, <1>9

LEMMA BookTopUpStep ==
  ASSUME LedgerInv, BookTopUp, beside' = beside
  PROVE  Followed
<1>1. Books /\ ids \in Nat /\ IncomeOK
  BY InvHas DEF Books
<1>2. PICK t \in topup : InsertOtherIncomeGenerated(TopUpRow(t)) /\ topup' = topup \ {t}
  BY DEF BookTopUp
<1>3. t \in [month: DOMAIN Recorded, amount: Nat \ {0}] /\ t.amount <= Recorded[t.month]
  BY <1>2, CommandsHold
<1>4. PICK e \in IncomeRow : e = TopUpRow(t) /\ WithinRecorded(e)
  BY <1>3, TopUpRowTyped
<1>5. IncomeOK' /\ ids' \in {ids, ids + 1}
  <2>1. CASE RefTaken(income, e.ref)
    <3>1. income' = income /\ ids' = ids
      BY <1>2, <1>4, <2>1 DEF InsertOtherIncomeGenerated
    <3>2. QED
      BY <1>1, <3>1, KeptIncome
  <2>2. CASE ~RefTaken(income, e.ref)
    <3>1. InsertIncome(e)
      BY <1>2, <1>4, <2>2 DEF InsertOtherIncomeGenerated
    <3>2. QED
      BY <1>1, <1>4, <2>2, <3>1, InsertedIncome
  <2>3. QED
    BY <2>1, <2>2
<1>6. UNCHANGED <<day, cats, rows, rules, cases, payments, consults, rates, edits, gen, imp, stops>>
  BY DEF BookTopUp, OthersUnchanged
<1>7. ScalarsOK' /\ Steady
  BY <1>1, <1>5, <1>6, QuietStep
<1>8. Kept
  BY <1>1, <1>7, LeftAlone
<1>9. StepOK
  BY <1>5, <1>6, <1>7, <1>8 DEF Kept, StepOK
<1>10. /\ topup' \subseteq [month: DOMAIN Recorded, amount: Nat \ {0}]
       /\ \A u \in topup' : u.amount <= Recorded[u.month]
  BY <1>2, CommandsHold
<1>11. QED
  BY <1>6, <1>9, <1>10, CommandsHold, CommandStep

LEMMA CommandDiesStep ==
  ASSUME LedgerInv, CommandDies, beside' = beside
  PROVE  Followed
<1>1. StepOK /\ day' = day /\ gen' = gen
  BY NothingBooked DEF CommandDies
<1>2. imp' \in {imp, Idle} /\ topup' \in {topup, Idle}
  BY DEF CommandDies
<1>3. imp' \subseteq SheetLines
  BY <1>2, CommandsHold DEF Idle
<1>4. /\ topup' \subseteq [month: DOMAIN Recorded, amount: Nat \ {0}]
      /\ \A t \in topup' : t.amount <= Recorded[t.month]
  BY <1>2, CommandsHold DEF Idle
<1>5. stops' \in 0 .. MaxStops
  BY CommandsHold, LedgerRunsAssumption DEF CommandDies
<1>6. QED
  BY <1>1, <1>3, <1>4, <1>5, CommandStep

LEMMA TickStep ==
  ASSUME LedgerInv, Tick, beside' = beside
  PROVE  Followed
<1>1. /\ Books /\ day \in Nat /\ day \in Days /\ ids \in Nat /\ RunsOK
      /\ \A g \in Generators : /\ gen[g] \in RunRecord /\ PassOK(gen[g])
                               /\ gen[g].todo \subseteq Covering
  BY InvHas
<1>2. /\ day < LastDay /\ day' = day + 1
      /\ UNCHANGED <<cats, rows, rules, income, cases, payments, consults, rates, ids>>
      /\ UNCHANGED <<edits, gen, imp, topup, stops>>
  BY DEF Tick, tables
<1>3. day' \in Days /\ day' \in Nat /\ day <= day'
  BY <1>1, <1>2, LedgerAssumption DEF Days
<1>4. ScalarsOK' /\ Steady
  BY <1>1, <1>2, <1>3 DEF Books, ScalarsOK, Steady
<1>5. StepOK
  BY <1>1, <1>2, <1>4, NothingWritten
<1>6. Planned
  BY <1>1, <1>2 DEF Planned
<1>7. \A g \in Generators : PassOK(gen[g])'
  <2> TAKE g \in Generators
  <2>1. gen[g].now \in Int /\ gen[g].now <= day
    BY <1>1, LedgerAssumption DEF RunRecord, PassOK
  <2>2. gen[g].now <= day'
    BY <1>1, <1>3, <2>1
  <2>3. QED
    BY <1>1, <1>2, <2>2 DEF PassOK
<1>8. RunsOK'
  BY <1>1, <1>2, <1>7 DEF RunsOK
<1>9. QED
  BY <1>5, <1>6, <1>8, InvFollows

LEMMA StaffFollowsInv ==
  ASSUME LedgerInv, Staff, UNCHANGED <<gen, imp, topup, stops>>, beside' = beside
  PROVE  Followed
<1>1. Books
  BY InvHas
<1>2. StepOK
  BY <1>1, StaffFollows
<1>3. day' = day
  BY DEF Staff, StaffStep, CreateCategory, UpdateCategory, CreateExpense, UpdateExpense,
         ConfirmExpense, DeleteExpense, CreateRule, UpdateRule, DeleteRule, CreateOtherIncome,
         DeleteOtherIncome, SetAdvocateRate, SaveCase, Pay, CloseCase, SaveConsultation, TapStatus
<1>4. QED
  BY <1>2, <1>3, CommandsHold, CommandStep

-----------------------------------------------------------------------------
LEMMA InvStep ==
  ASSUME LedgerInv, LedgerNext
  PROVE  Followed
<1>1. beside' = beside
  BY DEF LedgerNext
<1>2. \/ Tick \/ CommandDies \/ (Staff /\ UNCHANGED <<gen, imp, topup, stops>>)
      \/ Server \/ ImportExpenses \/ IncomeTopUp
  BY DEF LedgerNext
<1>3. CASE Tick
  BY <1>1, <1>3, TickStep
<1>4. CASE CommandDies
  BY <1>1, <1>4, CommandDiesStep
<1>5. CASE Staff /\ UNCHANGED <<gen, imp, topup, stops>>
  BY <1>1, <1>5, StaffFollowsInv
<1>6. CASE Server
  <2>1. \/ StartPage \/ StartCron
        \/ \E g \in Generators :
              Insert(g) \/ Refused(g) \/ Collect(g) \/ PayoutsDone(g) \/ Fail(g)
    BY <1>6 DEF Server, Cron, PassStep, Generators
  <2>2. CASE StartPage
    BY <1>1, <2>2, StartPageStep
  <2>3. CASE StartCron
    BY <1>1, <2>3, StartCronStep
  <2>4. ASSUME NEW g \in Generators,
               Insert(g) \/ Refused(g) \/ Collect(g) \/ PayoutsDone(g) \/ Fail(g)
        PROVE  Followed
    BY <1>1, <2>4, InsertStep, RefusedStep, CollectStep, PayoutsDoneStep, FailStep
  <2>5. QED
    BY <2>1, <2>2, <2>3, <2>4
<1>7. CASE ImportExpenses
  BY <1>1, <1>7, StartImportStep, BookLineStep DEF ImportExpenses
<1>8. CASE IncomeTopUp
  BY <1>1, <1>8, StartTopUpStep, BookTopUpStep DEF IncomeTopUp
<1>9. QED
  BY <1>2, <1>3, <1>4, <1>5, <1>6, <1>7, <1>8

LEMMA InvStutters ==
  ASSUME LedgerInv, UNCHANGED ledgerVars
  PROVE  Followed
<1>1. /\ UNCHANGED <<day, cats, rates, edits>> /\ ids' = ids
      /\ UNCHANGED <<rows, rules, income, cases, payments, consults>>
      /\ UNCHANGED <<gen, imp, topup, beside, stops>>
  BY DEF ledgerVars, tables
<1>2. Books
  BY InvHas
<1>3. StepOK
  BY <1>1, <1>2, QuietStep, NothingWritten
<1>4. QED
  BY <1>1, <1>3, CommandsHold, CommandStep

LEMMA InvBegins ==
  ASSUME LedgerInit
  PROVE  LedgerInv
<1>1. /\ day = 1 /\ rows = NoTable /\ rules = NoTable /\ income = NoTable /\ payments = {}
      /\ consults = NoTable /\ rates = [a \in Advocates |-> StartPercent] /\ ids = 0 /\ edits = 0
      /\ gen = [g \in Generators |-> IdleRun] /\ imp = Idle /\ topup = Idle
      /\ beside \in Beside /\ stops = 0
  BY DEF LedgerInit, Init, RunsInit
<1>2. ScalarsOK
  <2>1. cats \in [DOMAIN cats -> [kind: Kinds, active: BOOLEAN]] /\ DOMAIN cats \subseteq Codes
    <3>1. PICK f : f = cats
      OBVIOUS
    <3>2. f = [c \in {"advocates", "ads", "rent"} |->
                  [kind |-> CASE c = "advocates" -> "direct"
                              [] c = "ads" -> "marketing"
                              [] OTHER -> "admin",
                   active |-> TRUE]]
      BY <3>1 DEF LedgerInit, Init
    <3>3. \A c \in {"advocates", "ads", "rent"} : f[c] \in [kind: Kinds, active: BOOLEAN]
      BY <3>2 DEF Kinds
    <3>4. f \in [DOMAIN f -> [kind: Kinds, active: BOOLEAN]]
      BY <3>2, <3>3
    <3>5. QED
      BY <3>1, <3>2, <3>4 DEF Codes
  <2>2. day \in Days /\ ids \in Nat /\ edits \in 0 .. MaxEdits /\ rates \in [Advocates -> 0 .. 100]
    BY <1>1, LedgerAssumption DEF Days
  <2>3. QED
    BY <2>1, <2>2 DEF ScalarsOK
<1>3. DOMAIN NoTable = {} /\ \A S : NoTable \in [{} -> S]
  BY DEF NoTable
<1>4. \A Row : TableOK(NoTable, 0, Row)
  BY <1>3 DEF TableOK, RefsUnique
<1>5. RowsOK /\ RulesOK /\ IncomeOK
  BY <1>1, <1>3, <1>4 DEF RowsOK, RulesOK, IncomeOK
<1>6. PICK c \in Clients, a \in Advocates :
          cases = [k \in {0} |-> [client |-> c, advocate |-> None, name |-> a, fee |-> Fee,
                                  paid |-> 0, status |-> "in_progress", consult |-> 0]]
  BY DEF LedgerInit, Init
<1>7. DOMAIN cases = {0} /\ cases[0].paid = 0
  BY <1>6
<1>8. RecordsOK
  <2>1. PICK k : k = [client |-> c, advocate |-> None, name |-> a, fee |-> Fee,
                      paid |-> 0, status |-> "in_progress", consult |-> 0]
    OBVIOUS
  <2>2. k \in CaseRow
    BY <2>1, LedgerAssumption DEF CaseRow
  <2>3. cases = [j \in {0} |-> k]
    BY <1>6, <2>1
  <2>4. cases \in [DOMAIN cases -> CaseRow]
    BY <2>2, <2>3
  <2>5. IsFiniteSet(payments)
    BY <1>1, FS_EmptySet
  <2>6. QED
    BY <1>1, <1>3, <1>7, <2>4, <2>5 DEF RecordsOK
<1>9. PaidIsLedger
  <2>1. PaymentsOn(0) = {}
    BY <1>1 DEF PaymentsOn
  <2>2. AmountSum(PaymentsOn(0)) = 0
    BY <2>1, SumEmpty DEF AmountSum
  <2>3. PaidLedger
    BY <1>7, <2>2 DEF PaidLedger
  <2>4. QED
    BY <1>1, <2>3, FS_EmptySet, PaidAsSums
<1>10. IdleRun \in RunRecord /\ IdleRun.todo = {} /\ IdleRun.now = 0
  BY LedgerAssumption DEF IdleRun, RunRecord
<1>11. RunsOK
  <2>1. gen \in [Generators -> RunRecord]
    BY <1>1, <1>10
  <2>2. \A g \in Generators : PassOK(gen[g])
    BY <1>1, <1>10 DEF PassOK
  <2>3. QED
    BY <1>1, <2>1, <2>2, LedgerRunsAssumption DEF RunsOK, Idle
<1>12. PayoutsCover
  <2>1. Noted = {}
    BY <1>1, <1>3, <1>10 DEF Noted
  <2>2. QED
    BY <2>1 DEF PayoutsCover
<1>13. QED
  BY <1>2, <1>5, <1>8, <1>9, <1>11, <1>12 DEF LedgerInv

\* The tables are typed and agree, references stand once, cases add up, and a
\* payout covers its month, in every reachable state.
THEOREM LedgerCorrect == Spec => []LedgerInv
<1>1. LedgerInit => LedgerInv
  BY InvBegins
<1>2. LedgerInv /\ [LedgerNext]_ledgerVars => LedgerInv'
  BY InvStep, InvStutters DEF Followed
<1>3. QED
  BY <1>1, <1>2, PTL DEF Spec

-----------------------------------------------------------------------------
(* What the invariant gives. *)

\* A reference is for life: no second row is written under it and what staff
\* removed stays removed, whatever passes and commands overlap, fail or repeat.
THEOREM RemovedForGood == Spec => RemovedStaysRemoved
<1>1. LedgerInv /\ LedgerInv' /\ [LedgerNext]_ledgerVars =>
        [\A i \in DOMAIN rows : rows[i].ref # NoRef =>
          /\ i \in DOMAIN rows' /\ rows'[i].ref = rows[i].ref
          /\ rows[i].status = "void" => rows'[i].status = "void"
          /\ \A j \in DOMAIN rows' : rows'[j].ref = rows[i].ref => j = i]_ledgerVars
  <2> SUFFICES ASSUME LedgerInv, LedgerInv', LedgerNext, NEW i \in DOMAIN rows, rows[i].ref # NoRef
               PROVE  /\ i \in DOMAIN rows' /\ rows'[i].ref = rows[i].ref
                      /\ rows[i].status = "void" => rows'[i].status = "void"
                      /\ \A j \in DOMAIN rows' : rows'[j].ref = rows[i].ref => j = i
    OBVIOUS
  <2>1. TableFollows(rows, rows', Covering)
    BY InvStep DEF Followed
  <2>2. i \in DOMAIN rows'
    BY <2>1 DEF TableFollows
  <2>3. RowFollows(rows[i], rows'[i])
    BY <2>1, <2>2 DEF TableFollows
  <2>4. RefsUnique(rows')
    BY DEF LedgerInv, RowsOK, TableOK
  <2>5. QED
    BY <2>2, <2>3, <2>4 DEF RowFollows, RefsUnique
<1>2. QED
  BY <1>1, LedgerCorrect, PTL DEF Spec, RemovedStaysRemoved

\* A payout names what was collected in the whole of its month, however late it is
\* looked at.
THEOREM PayoutsCorrect == Spec => []PayoutCoversMonth
<1>1. LedgerInv => PayoutCoversMonth
  <2> SUFFICES ASSUME LedgerInv, NEW i \in DOMAIN rows, Attributed(i), rows[i].base # 0
               PROVE  rows[i].base \in TakenIn(rows[i].ref[2], rows[i].ref[3], EndOfMonth(rows[i].ref[3]))
                                       .. TakenIn(rows[i].ref[2], rows[i].ref[3], LastDay)
    BY DEF PayoutCoversMonth
  <2>1. PICK e : e = rows[i]
    OBVIOUS
  <2>2. CoversMonth(e)
    BY <2>1 DEF LedgerInv, PayoutsCover, Noted
  <2>3. e.ref # NoRef /\ e.ref[1] = "advocate" /\ e.base # 0
    BY <2>1 DEF Attributed
  <2>4. QED
    BY <2>1, <2>2, <2>3 DEF CoversMonth
<1>2. QED
  BY <1>1, LedgerCorrect, PTL

-----------------------------------------------------------------------------
(* BooksTie, part by part. *)

LEMMA TypesHold ==
  ASSUME LedgerInv
  PROVE  TypeOK
<1>1. /\ Books /\ RunsOK /\ ids \in Nat
      /\ \A g \in Generators : /\ gen[g] \in RunRecord /\ PassOK(gen[g])
                               /\ gen[g].todo \subseteq Covering
  BY InvHas
<1>2. \A i \in DOMAIN rows : /\ rows[i].status \in Statuses /\ rows[i].amount > 0
                             /\ rows[i].cat \in DOMAIN cats
  <2> TAKE i \in DOMAIN rows
  <2>1. rows[i] \in ExpenseRow /\ rows[i].cat \in DOMAIN cats
    BY <1>1, RowTyped DEF Books
  <2>2. QED
    BY <2>1 DEF ExpenseRow
<1>3. \A i \in DOMAIN rules : rules[i].amount > 0 /\ rules[i].cat \in DOMAIN cats
  <2> TAKE i \in DOMAIN rules
  <2>1. rules[i] \in RuleRow /\ rules[i].cat \in DOMAIN cats
    BY <1>1 DEF Books, RulesOK
  <2>2. QED
    BY <2>1 DEF RuleRow
<1>4. \A i \in DOMAIN income : income[i].amount > 0
  <2> TAKE i \in DOMAIN income
  <2>1. income[i] \in IncomeRow
    BY <1>1, IncomeAsRows DEF Books, TableOK
  <2>2. QED
    BY <2>1 DEF IncomeRow
<1>5. DOMAIN rows \subseteq 1 .. ids /\ DOMAIN rules \subseteq 1 .. ids /\ DOMAIN income \subseteq 1 .. ids
  BY <1>1 DEF Books, RowsOK, RulesOK, IncomeOK, TableOK
<1>6. \A p \in payments : p.case \in DOMAIN cases
  BY <1>1, Records DEF Books
<1>7. \A c \in DOMAIN cats : cats[c].kind \in Kinds /\ cats[c].active \in BOOLEAN
  <2> TAKE c \in DOMAIN cats
  <2>1. cats[c] \in [kind: Kinds, active: BOOLEAN]
    BY <1>1 DEF Books, ScalarsOK
  <2>2. QED
    BY <2>1
<1>8. LedgerTypeOK
  BY <1>1, <1>2, <1>3, <1>4, <1>5, <1>6, <1>7 DEF LedgerTypeOK, Books, ScalarsOK
<1>9. \A g \in Generators : /\ gen[g].pc \in {"idle", "charges", "payouts"}
                            /\ \A p \in gen[g].todo : p.amount > 0 /\ p.day <= gen[g].now
  <2> TAKE g \in Generators
  <2>1. gen[g].pc \in {"idle", "charges", "payouts"}
    BY <1>1 DEF RunRecord
  <2>2. \A p \in gen[g].todo : p.amount \in Nat \ {0} /\ p.day <= gen[g].now
    BY <1>1 DEF Covering, ExpenseRow, PassOK
  <2>3. QED
    BY <2>1, <2>2
<1>10. \A t \in topup : t.amount > 0
  BY CommandsHold
<1>11. QED
  BY <1>1, <1>8, <1>9, <1>10 DEF TypeOK, RunsOK

LEMMA ConsultsExplained ==
  ASSUME LedgerInv
  PROVE  ConsultMoneyExplained
<1>1. ~(LastDay < 1)
  BY LedgerAssumption
<1> DEFINE A == Dropped("scheduled", 1, LastDay)
           B == Dropped("cancelled", 1, LastDay)
           C == Dropped("no_show", 1, LastDay)
           D == UnpaidCompleted(1, LastDay)
           gaps == <<A, B, C, D>>
<1>2. GapsPage(1, LastDay) = [unresolved |-> A, cancelled |-> B, noShow |-> C, unpaid |-> D]
  BY <1>1 DEF GapsPage
<1>3. <<GapsPage(1, LastDay).unresolved, GapsPage(1, LastDay).cancelled,
        GapsPage(1, LastDay).noShow, GapsPage(1, LastDay).unpaid>> = gaps
  BY <1>2
<1>4. ASSUME NEW i \in Within(1, LastDay)
      PROVE  /\ i \in Earned => i \notin A /\ i \notin B /\ i \notin C /\ i \notin D
             /\ i \notin Earned => BehindACase(i) \/ i \in A \/ i \in B \/ i \in C \/ i \in D
             /\ ~(i \in A /\ i \in B) /\ ~(i \in A /\ i \in C) /\ ~(i \in A /\ i \in D)
             /\ ~(i \in B /\ i \in C) /\ ~(i \in B /\ i \in D) /\ ~(i \in C /\ i \in D)
  <2>1. i \in DOMAIN consults /\ consults[i].price > 0
    BY DEF Within
  <2>2. consults[i] \in ConsultRow
    BY <2>1, InvHas, Records DEF Books, IsTable
  <2>3. consults[i].status \in {"scheduled", "completed", "cancelled", "no_show"}
    BY <2>2 DEF ConsultRow
  <2>4. QED
    BY <2>1, <2>3 DEF Dropped, UnpaidCompleted, Earned, Held
<1>5. gaps[1] = A /\ gaps[2] = B /\ gaps[3] = C /\ gaps[4] = D
  OBVIOUS
<1> HIDE DEF A, B, C, D, gaps
<1>6. ASSUME NEW i \in Within(1, LastDay)
      PROVE  /\ i \in Earned => \A k \in 1 .. 4 : i \notin gaps[k]
             /\ i \notin Earned => BehindACase(i) \/ \E k \in 1 .. 4 : i \in gaps[k]
             /\ \A k, l \in 1 .. 4 : i \in gaps[k] /\ i \in gaps[l] => k = l
  <2>1. \A k \in 1 .. 4 : k = 1 \/ k = 2 \/ k = 3 \/ k = 4
    OBVIOUS
  <2>2. 1 \in 1 .. 4 /\ 2 \in 1 .. 4 /\ 3 \in 1 .. 4 /\ 4 \in 1 .. 4
    OBVIOUS
  <2>3. QED
    BY <1>4, <1>5, <2>1, <2>2
<1>7. QED
  BY <1>3, <1>6 DEF ConsultMoneyExplained

\* What all the cases were paid is what all the payments come to.
LEMMA PaidInAll ==
  ASSUME LedgerInv, NEW paid, \A c \in DOMAIN cases : paid[c] = cases[c].paid
  PROVE  AmountSum(payments) = SumOf(paid, DOMAIN cases)
<1>1. /\ payments \subseteq PaymentRow /\ IsFiniteSet(payments)
      /\ DOMAIN cases \subseteq 0 .. ids /\ ids \in Nat
      /\ \A p \in payments : p.case \in DOMAIN cases
  BY InvHas, Records DEF Books
<1>2. IsFiniteSet(DOMAIN cases)
  <2>1. IsFiniteSet(0 .. ids)
    <3>1. ids \in Nat
      BY <1>1
    <3>2. QED
      BY <3>1, IdsFinite
  <2>2. QED
    BY <1>1, <2>1, FS_Subset
<1> DEFINE f == [p \in payments |-> p.amount]
           h == [p \in payments |-> p.case]
<1>3. \A p \in payments : f[p] \in Int /\ h[p] \in DOMAIN cases
  BY <1>1 DEF PaymentRow
<1>4. \A c : Having(payments, h, c) = PaymentsOn(c)
  BY DEF Having, PaymentsOn
<1>5. \A c : PaymentsOn(c) \subseteq payments
  BY DEF PaymentsOn
<1>6. \A c : AmountSum(PaymentsOn(c)) = SumOf(f, PaymentsOn(c))
  BY <1>1, <1>5, AmountOver
<1> HIDE DEF f, h
<1>7. \A c \in DOMAIN cases : paid[c] = SumOf(f, Having(payments, h, c))
  BY <1>1, <1>4, <1>6, PaidAsSums DEF LedgerInv, PaidLedger
<1>8. PICK D : D = DOMAIN cases
  OBVIOUS
<1>9. IsFiniteSet(payments) /\ IsFiniteSet(D)
  BY <1>1, <1>2, <1>8
<1>10. \A x \in payments : f[x] \in Int /\ h[x] \in D
  BY <1>3, <1>8
<1>11. \A d \in D : paid[d] = SumOf(f, Having(payments, h, d))
  BY <1>7, <1>8
<1>12. SumOf(f, payments) = SumOf(paid, D)
  BY <1>9, <1>10, <1>11, SumOfParts
<1>13. QED
  BY <1>8, <1>12 DEF AmountSum, f

LEMMA CasesTie ==
  ASSUME LedgerInv
  PROVE  CaseBooksTie
<1>1. /\ payments \subseteq PaymentRow /\ IsFiniteSet(payments) /\ IsTable(cases, CaseRow)
      /\ DOMAIN cases \subseteq 0 .. ids /\ ids \in Nat
  BY InvHas, Records DEF Books
<1>2. PICK S : S = DOMAIN cases
  OBVIOUS
<1>3. IsFiniteSet(S)
  <2>1. IsFiniteSet(0 .. ids)
    <3>1. ids \in Nat
      BY <1>1
    <3>2. QED
      BY <3>1, IdsFinite
  <2>2. QED
    BY <1>1, <1>2, <2>1, FS_Subset
<1>4. \A c \in S : cases[c].fee \in Nat /\ cases[c].paid \in Nat
                   /\ cases[c].status \in {"in_progress", "completed"}
  <2> TAKE c \in S
  <2>1. cases[c] \in CaseRow
    BY <1>1, <1>2 DEF IsTable
  <2>2. QED
    BY <2>1 DEF CaseRow
<1>5. ASSUME \A c \in DOMAIN cases : cases[c].paid <= cases[c].fee
      PROVE  ReportPage(1, LastDay).receivable + Total(AmountOf, payments)
                = Total(LAMBDA c : cases[c].fee, DOMAIN cases)
  <2> DEFINE owed == [c \in S |-> Owed(c)]
             paid == [c \in S |-> cases[c].paid]
             fee == [c \in S |-> cases[c].fee]
  <2>1. \A c \in S : owed[c] \in Int /\ paid[c] \in Int /\ fee[c] = owed[c] + paid[c]
    BY <1>2, <1>4, <1>5 DEF Owed
  <2>2. DOMAIN owed = S /\ DOMAIN fee = S /\ \A c \in DOMAIN cases : paid[c] = cases[c].paid
    BY <1>2
  <2>3. {c \in DOMAIN cases : cases[c].status # "cancelled"} = S
    BY <1>2, <1>4
  <2>4. ReportPage(1, LastDay).receivable = Receivable
    BY LedgerAssumption DEF ReportPage
  <2>5. Receivable = SumFunction(owed)
    BY <2>3 DEF Receivable, Total
  <2>6. Total(LAMBDA c : cases[c].fee, DOMAIN cases) = SumFunction(fee)
    BY <1>2 DEF Total
  <2>7. Total(AmountOf, payments) = AmountSum(payments)
    BY <1>1, TotalOfAmounts
  <2> HIDE DEF owed, paid, fee
  <2>8. SumFunction(owed) = SumOf(owed, S) /\ SumFunction(fee) = SumOf(fee, S)
    BY <1>3, <2>2, SumFunctionIs
  <2>9. SumOf(fee, S) = SumOf(owed, S) + SumOf(paid, S)
    BY <1>3, <2>1, SumsAdd
  <2>10. AmountSum(payments) = SumOf(paid, S)
    BY <1>2, <2>2, PaidInAll
  <2>11. QED
    BY <2>4, <2>5, <2>6, <2>7, <2>8, <2>9, <2>10
<1>6. QED
  BY <1>5 DEF CaseBooksTie, LedgerInv, PaidIsLedger

LEMMA ToppedUpOnce ==
  ASSUME LedgerInv
  PROVE  TopUpsBounded
<1> SUFFICES ASSUME NEW m \in DOMAIN Recorded
             PROVE  /\ Cardinality(ToppedUp(m)) <= 1
                    /\ Total(IncomeAmount, ToppedUp(m)) <= Recorded[m]
  BY DEF TopUpsBounded
<1>1. TableOK(income, ids, IncomeRow) /\ \A i \in DOMAIN income : WithinRecorded(income[i])
  BY InvHas, IncomeAsRows DEF Books
<1>2. Recorded[m] \in Nat
  BY LedgerRunsAssumption
<1>3. PICK S : S = ToppedUp(m)
  OBVIOUS
<1> DEFINE f == [i \in S |-> IncomeAmount(i)]
<1>4. Total(IncomeAmount, S) = SumFunction(f) /\ DOMAIN f = S
  BY DEF Total
<1>5. CASE S = {}
  <2>1. SumFunction(f) = 0
    <3>1. SumOf(f, S) = 0
      BY <1>5, SumEmpty
    <3> HIDE DEF f
    <3>2. QED
      BY <1>4, <1>5, <3>1, FS_EmptySet, SumFunctionIs
  <2>2. Cardinality(S) = 0
    BY <1>5, FS_EmptySet
  <2>3. QED
    BY <1>2, <1>3, <1>4, <2>1, <2>2
<1>6. CASE S # {}
  <2>1. PICK i : i \in S
    BY <1>6
  <2>2. i \in DOMAIN income /\ income[i].ref = IncomeTopUpRef(m)
    BY <1>3, <2>1 DEF ToppedUp
  <2>3. IncomeTopUpRef(m) # NoRef
    BY DEF IncomeTopUpRef, NoRef
  <2>4. S = {i}
    BY <1>1, <1>3, <2>2, <2>3 DEF ToppedUp, TableOK, RefsUnique
  <2>5. income[i].amount <= Recorded[m] /\ income[i].amount \in Int
    BY <1>1, <2>2 DEF WithinRecorded, TableOK, IncomeRow
  <2>6. f[i] = income[i].amount /\ \A x \in S \ {i} : f[x] = 0
    BY <2>1, <2>4 DEF IncomeAmount
  <2>7. IsFiniteSet(S) /\ Cardinality(S) = 1
    BY <2>4, FS_Singleton
  <2> HIDE DEF f
  <2>8. SumFunction(f) = f[i]
    <3>1. SumOf(f, S) = f[i]
      BY <2>1, <2>5, <2>6, <2>7, SumOne
    <3>2. QED
      BY <1>4, <2>7, <3>1, SumFunctionIs
  <2>9. QED
    BY <1>3, <1>4, <2>5, <2>6, <2>7, <2>8
<1>7. QED
  BY <1>5, <1>6

\* The tables are well formed, every consultation's money has an explanation, a
\* case's total is its payments, and a month is topped up once and never over.
THEOREM BooksCorrect == Spec => []BooksTie
<1>1. LedgerInv => BooksTie
  BY TypesHold, ConsultsExplained, CasesTie, ToppedUpOnce DEF BooksTie
<1>2. QED
  BY <1>1, LedgerCorrect, PTL

-----------------------------------------------------------------------------
(* The calendar: a month is the days from its first to its last.           *)

LEMMA MonthAt ==
  ASSUME NEW d \in Int, NEW m \in Int
  PROVE  MonthOf(d) = m <=> StartOfMonth(m) <= d /\ d <= EndOfMonth(m)
<1>1. PICK n \in Nat \ {0} : n = DaysPerMonth
  BY LedgerAssumption
<1>2. PICK q \in Int : q = (d - 1) \div n
  OBVIOUS
<1>3. n * q <= d - 1 /\ d - 1 < n * q + n
  BY <1>2
<1>4. ASSUME q = m - 1
      PROVE  (m - 1) * n + 1 <= d /\ d <= m * n
  <2>1. n * q + n = m * n /\ n * q = (m - 1) * n
    BY <1>4
  <2>2. QED
    BY <1>3, <2>1
<1>5. ASSUME (m - 1) * n + 1 <= d, d <= m * n
      PROVE  q = m - 1
  <2>1. CASE q < m - 1
    <3>1. n * (q + 1) <= n * (m - 1)
      BY <2>1
    <3>2. n * (q + 1) = n * q + n /\ n * (m - 1) = (m - 1) * n
      OBVIOUS
    <3>3. QED
      BY <1>3, <1>5, <3>1, <3>2
  <2>2. CASE m - 1 < q
    <3>1. n * m <= n * q
      BY <2>2
    <3>2. QED
      BY <1>3, <1>5, <3>1
  <2>3. QED
    BY <2>1, <2>2
<1>6. MonthOf(d) = q + 1 /\ StartOfMonth(m) = (m - 1) * n + 1 /\ EndOfMonth(m) = m * n
  BY <1>1, <1>2 DEF MonthOf, StartOfMonth, EndOfMonth
<1>7. QED
  BY <1>4, <1>5, <1>6

LEMMA MonthsFollow ==
  ASSUME NEW m \in Int
  PROVE  /\ StartOfMonth(m + 1) = EndOfMonth(m) + 1
         /\ StartOfMonth(m) <= EndOfMonth(m)
         /\ StartOfMonth(m) \in Int /\ EndOfMonth(m) \in Int
<1>1. PICK n \in Nat \ {0} : n = DaysPerMonth
  BY LedgerAssumption
<1>2. StartOfMonth(m) = (m - 1) * n + 1 /\ EndOfMonth(m) = m * n /\ StartOfMonth(m + 1) = m * n + 1
  BY <1>1 DEF StartOfMonth, EndOfMonth
<1>3. (m - 1) * n = m * n - n
  OBVIOUS
<1>4. QED
  BY <1>2, <1>3

LEMMA MonthEdges ==
  ASSUME NEW m \in Int
  PROVE  MonthOf(StartOfMonth(m)) = m /\ MonthOf(EndOfMonth(m)) = m
  BY MonthAt, MonthsFollow

LEMMA MonthsInOrder ==
  ASSUME NEW c \in Int, NEW d \in Int, c <= d
  PROVE  MonthOf(c) <= MonthOf(d)
<1>1. PICK n \in Nat \ {0} : n = DaysPerMonth
  BY LedgerAssumption
<1>2. PICK p \in Int, q \in Int : p = (c - 1) \div n /\ q = (d - 1) \div n
  OBVIOUS
<1>3. n * p <= c - 1 /\ d - 1 < n * q + n
  BY <1>2
<1>4. CASE q < p
  <2>1. n * (q + 1) <= n * p
    BY <1>4
  <2>2. n * (q + 1) = n * q + n
    OBVIOUS
  <2>3. QED
    BY <1>3, <2>1, <2>2
<1>5. MonthOf(c) = p + 1 /\ MonthOf(d) = q + 1
  BY <1>1, <1>2 DEF MonthOf
<1>6. QED
  BY <1>4, <1>5

-----------------------------------------------------------------------------
(* Dated amounts: what lies before a month, in it, and before the next.    *)

Earlier(U, days, d) == {x \in U : days[x] < d}

InMonth(U, days, m) == {x \in U : MonthOf(days[x]) = m}

LEMMA MonthByMonth ==
  ASSUME NEW U, IsFiniteSet(U), NEW f, NEW days, \A x \in U : f[x] \in Int /\ days[x] \in Int,
         NEW m \in Int
  PROVE  SumOf(f, Earlier(U, days, StartOfMonth(m + 1)))
            = SumOf(f, Earlier(U, days, StartOfMonth(m))) + SumOf(f, InMonth(U, days, m))
<1>1. PICK A, B, C : /\ A = Earlier(U, days, StartOfMonth(m)) /\ B = InMonth(U, days, m)
                     /\ C = Earlier(U, days, StartOfMonth(m + 1))
  OBVIOUS
<1>2. \A x \in U : /\ x \in C <=> x \in A \/ x \in B
                   /\ ~(x \in A /\ x \in B)
  <2> TAKE x \in U
  <2>1. PICK d \in Int : d = days[x]
    OBVIOUS
  <2>2. MonthOf(d) = m <=> StartOfMonth(m) <= d /\ d <= EndOfMonth(m)
    BY MonthAt
  <2>3. /\ StartOfMonth(m + 1) = EndOfMonth(m) + 1 /\ StartOfMonth(m) <= EndOfMonth(m)
        /\ StartOfMonth(m) \in Int /\ EndOfMonth(m) \in Int
    BY MonthsFollow
  <2>4. /\ x \in A <=> d < StartOfMonth(m)
        /\ x \in B <=> MonthOf(d) = m
        /\ x \in C <=> d < StartOfMonth(m + 1)
    BY <1>1, <2>1 DEF Earlier, InMonth
  <2>5. QED
    BY <2>2, <2>3, <2>4
<1>3. A \subseteq U /\ B \subseteq U /\ C \subseteq U
  BY <1>1 DEF Earlier, InMonth
<1>4. C = A \cup B /\ A \cap B = {}
  BY <1>2, <1>3
<1>5. IsFiniteSet(A) /\ IsFiniteSet(B) /\ \A x \in A \cup B : f[x] \in Int
  BY <1>3, FS_Subset
<1>6. SumOf(f, A \cup B) = SumOf(f, A) + SumOf(f, B)
  BY <1>4, <1>5, SumUnion
<1>7. QED
  BY <1>1, <1>4, <1>6

-----------------------------------------------------------------------------
(* The totals of the report as sums over the tables.                       *)

Prices == [i \in DOMAIN consults |-> consults[i].price]

PaymentAmounts == [p \in payments |-> p.amount]

IncomeAmounts == [i \in DOMAIN income |-> income[i].amount]

RowAmounts == [i \in DOMAIN rows |-> rows[i].amount]

LEMMA TablesFinite ==
  ASSUME Books
  PROVE  /\ IsFiniteSet(DOMAIN consults) /\ IsFiniteSet(payments) /\ IsFiniteSet(DOMAIN income)
         /\ IsFiniteSet(DOMAIN rows) /\ IsFiniteSet(DOMAIN cats)
<1>1. /\ DOMAIN consults \subseteq 1 .. ids /\ DOMAIN income \subseteq 1 .. ids
      /\ DOMAIN rows \subseteq 1 .. ids /\ ids \in Nat /\ IsFiniteSet(payments)
      /\ DOMAIN cats \subseteq Codes
  BY DEF Books, RecordsOK, IncomeOK, RowsOK, ScalarsOK, TableOK
<1>2. IsFiniteSet(1 .. ids)
  <2>1. ids \in Nat
    BY <1>1
  <2>2. QED
    BY <2>1, IdsFinite
<1>3. IsFiniteSet(Codes)
  <2>1. IsFiniteSet({"advocates"})
    BY FS_Singleton
  <2>2. IsFiniteSet({"advocates"} \cup {"ads"})
    BY <2>1, FS_AddElement
  <2>3. IsFiniteSet(({"advocates"} \cup {"ads"}) \cup {"rent"})
    BY <2>2, FS_AddElement
  <2>4. IsFiniteSet((({"advocates"} \cup {"ads"}) \cup {"rent"}) \cup {"tools"})
    BY <2>3, FS_AddElement
  <2>5. Codes = (({"advocates"} \cup {"ads"}) \cup {"rent"}) \cup {"tools"}
    BY DEF Codes
  <2>6. QED
    BY <2>4, <2>5
<1>4. QED
  BY <1>1, <1>2, <1>3, FS_Subset

LEMMA TablesTyped ==
  ASSUME Books
  PROVE  /\ \A i \in DOMAIN consults : /\ consults[i] \in ConsultRow
                                       /\ Prices[i] \in Nat /\ Prices[i] = PriceOf(i)
         /\ \A p \in payments : /\ p \in PaymentRow
                                /\ PaymentAmounts[p] \in Nat /\ PaymentAmounts[p] = AmountOf(p)
         /\ \A i \in DOMAIN income : /\ income[i] \in IncomeRow
                                     /\ IncomeAmounts[i] \in Nat /\ IncomeAmounts[i] = IncomeAmount(i)
         /\ \A i \in DOMAIN rows : /\ rows[i] \in ExpenseRow /\ rows[i].cat \in DOMAIN cats
                                   /\ RowAmounts[i] \in Nat /\ RowAmounts[i] = RowAmount(i)
<1>1. \A i \in DOMAIN consults : consults[i] \in ConsultRow
  BY Records DEF Books, IsTable
<1>2. \A p \in payments : p \in PaymentRow
  BY Records DEF Books
<1>3. \A i \in DOMAIN income : income[i] \in IncomeRow
  BY IncomeAsRows DEF Books, TableOK
<1>4. \A i \in DOMAIN rows : rows[i] \in ExpenseRow /\ rows[i].cat \in DOMAIN cats
  BY RowTyped DEF Books, RowsOK
<1>5. \A i \in DOMAIN consults : Prices[i] \in Nat /\ Prices[i] = PriceOf(i)
  BY <1>1 DEF ConsultRow, Prices, PriceOf
<1>6. \A p \in payments : PaymentAmounts[p] \in Nat /\ PaymentAmounts[p] = AmountOf(p)
  BY <1>2 DEF PaymentRow, PaymentAmounts, AmountOf
<1>7. \A i \in DOMAIN income : IncomeAmounts[i] \in Nat /\ IncomeAmounts[i] = IncomeAmount(i)
  BY <1>3 DEF IncomeRow, IncomeAmounts, IncomeAmount
<1>8. \A i \in DOMAIN rows : RowAmounts[i] \in Nat /\ RowAmounts[i] = RowAmount(i)
  BY <1>4 DEF ExpenseRow, RowAmounts, RowAmount
<1>9. QED
  BY <1>1, <1>2, <1>3, <1>4, <1>5, <1>6, <1>7, <1>8

LEMMA TotalOfPrices ==
  ASSUME Books, NEW S, S \subseteq DOMAIN consults
  PROVE  Total(PriceOf, S) = SumOf(Prices, S)
<1> DEFINE f == [x \in S |-> PriceOf(x)]
<1>1. IsFiniteSet(S) /\ \A x \in S : f[x] \in Int /\ f[x] = Prices[x]
  BY TablesFinite, TablesTyped, FS_Subset
<1>2. DOMAIN f = S /\ Total(PriceOf, S) = SumFunction(f)
  BY DEF Total
<1> HIDE DEF f
<1>3. QED
  BY <1>1, <1>2, TermsSum

LEMMA TotalOfPayments ==
  ASSUME Books, NEW S, S \subseteq payments
  PROVE  Total(AmountOf, S) = SumOf(PaymentAmounts, S)
<1> DEFINE f == [x \in S |-> AmountOf(x)]
<1>1. IsFiniteSet(S) /\ \A x \in S : f[x] \in Int /\ f[x] = PaymentAmounts[x]
  BY TablesFinite, TablesTyped, FS_Subset
<1>2. DOMAIN f = S /\ Total(AmountOf, S) = SumFunction(f)
  BY DEF Total
<1> HIDE DEF f
<1>3. QED
  BY <1>1, <1>2, TermsSum

LEMMA TotalOfIncome ==
  ASSUME Books, NEW S, S \subseteq DOMAIN income
  PROVE  Total(IncomeAmount, S) = SumOf(IncomeAmounts, S)
<1> DEFINE f == [x \in S |-> IncomeAmount(x)]
<1>1. IsFiniteSet(S) /\ \A x \in S : f[x] \in Int /\ f[x] = IncomeAmounts[x]
  BY TablesFinite, TablesTyped, FS_Subset
<1>2. DOMAIN f = S /\ Total(IncomeAmount, S) = SumFunction(f)
  BY DEF Total
<1> HIDE DEF f
<1>3. QED
  BY <1>1, <1>2, TermsSum

LEMMA TotalOfRows ==
  ASSUME Books, NEW S, S \subseteq DOMAIN rows
  PROVE  Total(RowAmount, S) = SumOf(RowAmounts, S)
<1> DEFINE f == [x \in S |-> RowAmount(x)]
<1>1. IsFiniteSet(S) /\ \A x \in S : f[x] \in Int /\ f[x] = RowAmounts[x]
  BY TablesFinite, TablesTyped, FS_Subset
<1>2. DOMAIN f = S /\ Total(RowAmount, S) = SumFunction(f)
  BY DEF Total
<1> HIDE DEF f
<1>3. QED
  BY <1>1, <1>2, TermsSum

-----------------------------------------------------------------------------
(* A month's balance is what the balance before it lacks to the next.      *)

ConsultDays == [i \in DOMAIN consults |-> ConsultDay(consults[i])]

PaidDays == [p \in payments |-> p.paidAt]

IncomeDays == [i \in DOMAIN income |-> income[i].day]

RowDays == [i \in DOMAIN rows |-> rows[i].day]

LEMMA DaysTyped ==
  ASSUME Books
  PROVE  /\ \A i \in DOMAIN consults : ConsultDays[i] \in Int /\ ConsultDays[i] = ConsultDay(consults[i])
         /\ \A p \in payments : PaidDays[p] \in Int /\ PaidDays[p] = p.paidAt
         /\ \A i \in DOMAIN income : IncomeDays[i] \in Int /\ IncomeDays[i] = income[i].day
         /\ \A i \in DOMAIN rows : RowDays[i] \in Int /\ RowDays[i] = rows[i].day
<1>1. LastDay \in Int
  BY LedgerAssumption
<1>2. \A i \in DOMAIN consults : ConsultDays[i] \in Int /\ ConsultDays[i] = ConsultDay(consults[i])
  BY <1>1, TablesTyped DEF ConsultRow, Days, ConsultDay, ConsultDays
<1>3. \A p \in payments : PaidDays[p] \in Int /\ PaidDays[p] = p.paidAt
  BY <1>1, TablesTyped DEF PaymentRow, Days, PaidDays
<1>4. \A i \in DOMAIN income : IncomeDays[i] \in Int /\ IncomeDays[i] = income[i].day
  BY TablesTyped DEF IncomeRow, IncomeDays
<1>5. \A i \in DOMAIN rows : RowDays[i] \in Int /\ RowDays[i] = rows[i].day
  BY TablesTyped DEF ExpenseRow, RowDays
<1>6. QED
  BY <1>2, <1>3, <1>4, <1>5

LEMMA EarnedRows ==
  /\ Earned \subseteq DOMAIN consults /\ Posted \subseteq DOMAIN rows
  BY DEF Earned, Held, Posted

LEMMA MoneyFinite ==
  ASSUME Books
  PROVE  /\ IsFiniteSet(Earned) /\ IsFiniteSet(Posted)
         /\ \A x \in Earned : Prices[x] \in Int /\ ConsultDays[x] \in Int
         /\ \A x \in payments : PaymentAmounts[x] \in Int /\ PaidDays[x] \in Int
         /\ \A x \in DOMAIN income : IncomeAmounts[x] \in Int /\ IncomeDays[x] \in Int
         /\ \A x \in Posted : RowAmounts[x] \in Int /\ RowDays[x] \in Int
<1>1. IsFiniteSet(Earned) /\ IsFiniteSet(Posted)
  BY EarnedRows, TablesFinite, FS_Subset
<1>2. QED
  BY <1>1, EarnedRows, TablesTyped, DaysTyped

LEMMA BalanceSums ==
  ASSUME Books, NEW d
  PROVE  BalanceBefore(d) = SumOf(Prices, Earlier(Earned, ConsultDays, d))
                            + SumOf(PaymentAmounts, Earlier(payments, PaidDays, d))
                            + SumOf(IncomeAmounts, Earlier(DOMAIN income, IncomeDays, d))
                            - SumOf(RowAmounts, Earlier(Posted, RowDays, d))
<1>1. PICK A, B, C, D : /\ A = {i \in Earned : ConsultDay(consults[i]) < d}
                        /\ B = {p \in payments : p.paidAt < d}
                        /\ C = {i \in DOMAIN income : income[i].day < d}
                        /\ D = {i \in Posted : rows[i].day < d}
  OBVIOUS
<1>2. BalanceBefore(d) = Total(PriceOf, A) + Total(AmountOf, B) + Total(IncomeAmount, C)
                         - Total(RowAmount, D)
  BY <1>1 DEF BalanceBefore
<1>3. /\ A = Earlier(Earned, ConsultDays, d) /\ B = Earlier(payments, PaidDays, d)
      /\ C = Earlier(DOMAIN income, IncomeDays, d) /\ D = Earlier(Posted, RowDays, d)
  BY <1>1, EarnedRows, DaysTyped DEF Earlier
<1>4. A \subseteq DOMAIN consults /\ B \subseteq payments /\ C \subseteq DOMAIN income /\ D \subseteq DOMAIN rows
  BY <1>1, EarnedRows
<1>5. /\ Total(PriceOf, A) = SumOf(Prices, A) /\ Total(AmountOf, B) = SumOf(PaymentAmounts, B)
      /\ Total(IncomeAmount, C) = SumOf(IncomeAmounts, C) /\ Total(RowAmount, D) = SumOf(RowAmounts, D)
  BY <1>4, TotalOfPrices, TotalOfPayments, TotalOfIncome, TotalOfRows
<1>6. QED
  BY <1>2, <1>3, <1>5

LEMMA EarningsSum ==
  ASSUME Books, NEW m
  PROVE  Earnings(FactsOf(m)) = SumOf(Prices, InMonth(Earned, ConsultDays, m))
                                + SumOf(PaymentAmounts, InMonth(payments, PaidDays, m))
                                + SumOf(IncomeAmounts, InMonth(DOMAIN income, IncomeDays, m))
<1>1. PICK A, B, C : /\ A = {i \in Earned : MonthOf(ConsultDay(consults[i])) = m}
                     /\ B = {p \in payments : MonthOf(p.paidAt) = m}
                     /\ C = {i \in DOMAIN income : MonthOf(income[i].day) = m}
  OBVIOUS
<1>2. Earnings(FactsOf(m)) = Total(PriceOf, A) + Total(AmountOf, B) + Total(IncomeAmount, C)
  BY <1>1 DEF Earnings, FactsOf
<1>3. /\ A = InMonth(Earned, ConsultDays, m) /\ B = InMonth(payments, PaidDays, m)
      /\ C = InMonth(DOMAIN income, IncomeDays, m)
  BY <1>1, EarnedRows, DaysTyped DEF InMonth
<1>4. A \subseteq DOMAIN consults /\ B \subseteq payments /\ C \subseteq DOMAIN income
  BY <1>1, EarnedRows
<1>5. /\ Total(PriceOf, A) = SumOf(Prices, A) /\ Total(AmountOf, B) = SumOf(PaymentAmounts, B)
      /\ Total(IncomeAmount, C) = SumOf(IncomeAmounts, C)
  BY <1>4, TotalOfPrices, TotalOfPayments, TotalOfIncome
<1>6. QED
  BY <1>2, <1>3, <1>5

\* By category and then in all is once over all the month's rows.
LEMMA SpentSum ==
  ASSUME Books, NEW m
  PROVE  /\ FactsOf(m).byCat = [c \in DOMAIN cats |-> Total(RowAmount, SpentOn(c, m))]
         /\ \A c \in DOMAIN cats : FactsOf(m).byCat[c] \in Int
         /\ SpentIn(FactsOf(m)) = SumOf(FactsOf(m).byCat, DOMAIN cats)
         /\ SpentIn(FactsOf(m)) = SumOf(RowAmounts, InMonth(Posted, RowDays, m))
<1>1. PICK S, D, b : S = InMonth(Posted, RowDays, m) /\ D = DOMAIN cats /\ b = FactsOf(m).byCat
  OBVIOUS
<1>2. b = [c \in D |-> Total(RowAmount, SpentOn(c, m))]
  BY <1>1 DEF FactsOf
<1>3. S \subseteq DOMAIN rows /\ IsFiniteSet(S) /\ IsFiniteSet(D)
  BY <1>1, EarnedRows, TablesFinite, FS_Subset DEF InMonth
<1> DEFINE h == [i \in S |-> rows[i].cat]
<1>4. \A i \in S : RowAmounts[i] \in Int /\ h[i] \in D
  BY <1>1, <1>3, TablesTyped
<1>5. \A c : Having(S, h, c) = SpentOn(c, m) /\ SpentOn(c, m) \subseteq S
  BY <1>1, EarnedRows, DaysTyped DEF Having, SpentOn, InMonth
<1> HIDE DEF h
<1>6. \A c \in D : b[c] = SumOf(RowAmounts, Having(S, h, c)) /\ b[c] \in Int
  <2> TAKE c \in D
  <2>1. PICK T : T = SpentOn(c, m)
    OBVIOUS
  <2>2. T \subseteq DOMAIN rows /\ IsFiniteSet(T) /\ \A i \in T : RowAmounts[i] \in Int
    BY <1>3, <1>4, <1>5, <2>1, FS_Subset
  <2>3. Total(RowAmount, T) = SumOf(RowAmounts, T) /\ SumOf(RowAmounts, T) \in Int
    BY <2>2, TotalOfRows, SumType
  <2>4. QED
    BY <1>2, <1>5, <2>1, <2>3
<1>7. SumOf(RowAmounts, S) = SumOf(b, D)
  BY <1>3, <1>4, <1>6, SumOfParts
<1> DEFINE g == [c \in D |-> b[c]]
<1>8. SpentIn(FactsOf(m)) = SumFunction(g)
  BY <1>1, <1>2 DEF SpentIn, Total
<1>9. DOMAIN g = D /\ \A c \in D : g[c] \in Int /\ g[c] = b[c]
  BY <1>6
<1> HIDE DEF g
<1>10. SumFunction(g) = SumOf(b, D)
  BY <1>3, <1>9, TermsSum
<1>11. QED
  BY <1>1, <1>2, <1>6, <1>7, <1>8, <1>10

LEMMA BalanceIsInt ==
  ASSUME Books, NEW m
  PROVE  /\ Earnings(FactsOf(m)) \in Int /\ SpentIn(FactsOf(m)) \in Int
         /\ Balance(FactsOf(m)) = Earnings(FactsOf(m)) - SpentIn(FactsOf(m))
         /\ Balance(FactsOf(m)) \in Int
<1>1. /\ IsFiniteSet(InMonth(Earned, ConsultDays, m)) /\ IsFiniteSet(InMonth(payments, PaidDays, m))
      /\ IsFiniteSet(InMonth(DOMAIN income, IncomeDays, m)) /\ IsFiniteSet(InMonth(Posted, RowDays, m))
  BY MoneyFinite, TablesFinite, FS_Subset DEF InMonth
<1>2. /\ SumOf(Prices, InMonth(Earned, ConsultDays, m)) \in Int
      /\ SumOf(PaymentAmounts, InMonth(payments, PaidDays, m)) \in Int
      /\ SumOf(IncomeAmounts, InMonth(DOMAIN income, IncomeDays, m)) \in Int
      /\ SumOf(RowAmounts, InMonth(Posted, RowDays, m)) \in Int
  BY <1>1, MoneyFinite, SumType DEF InMonth
<1>3. Earnings(FactsOf(m)) \in Int
  BY <1>2, EarningsSum
<1>4. SpentIn(FactsOf(m)) \in Int
  BY <1>2, SpentSum
<1>5. Balance(FactsOf(m)) = Earnings(FactsOf(m)) - SpentIn(FactsOf(m))
  BY DEF Balance
<1>6. QED
  BY <1>3, <1>4, <1>5

LEMMA BalanceGoesOn ==
  ASSUME Books, NEW m \in Int
  PROVE  /\ BalanceBefore(StartOfMonth(m + 1)) = BalanceBefore(StartOfMonth(m)) + Balance(FactsOf(m))
         /\ BalanceBefore(StartOfMonth(m)) \in Int
<1> DEFINE d == StartOfMonth(m)
           e == StartOfMonth(m + 1)
           Sa == Earlier(Earned, ConsultDays, d)
           Sb == Earlier(payments, PaidDays, d)
           Sc == Earlier(DOMAIN income, IncomeDays, d)
           Sd == Earlier(Posted, RowDays, d)
<1>1. PICK a, b, c, x : /\ a = SumOf(Prices, Sa) /\ b = SumOf(PaymentAmounts, Sb)
                        /\ c = SumOf(IncomeAmounts, Sc) /\ x = SumOf(RowAmounts, Sd)
  OBVIOUS
<1>2. PICK A, B, C, X : /\ A = SumOf(Prices, InMonth(Earned, ConsultDays, m))
                        /\ B = SumOf(PaymentAmounts, InMonth(payments, PaidDays, m))
                        /\ C = SumOf(IncomeAmounts, InMonth(DOMAIN income, IncomeDays, m))
                        /\ X = SumOf(RowAmounts, InMonth(Posted, RowDays, m))
  OBVIOUS
<1>3. a \in Int /\ b \in Int /\ c \in Int /\ x \in Int
  <2>1. IsFiniteSet(Sa) /\ IsFiniteSet(Sb) /\ IsFiniteSet(Sc) /\ IsFiniteSet(Sd)
    BY MoneyFinite, TablesFinite, FS_Subset DEF Earlier
  <2>2. QED
    BY <1>1, <2>1, MoneyFinite, SumType DEF Earlier
<1>4. A \in Int /\ B \in Int /\ C \in Int /\ X \in Int
  <2>1. /\ IsFiniteSet(InMonth(Earned, ConsultDays, m)) /\ IsFiniteSet(InMonth(payments, PaidDays, m))
        /\ IsFiniteSet(InMonth(DOMAIN income, IncomeDays, m)) /\ IsFiniteSet(InMonth(Posted, RowDays, m))
    BY MoneyFinite, TablesFinite, FS_Subset DEF InMonth
  <2>2. QED
    BY <1>2, <2>1, MoneyFinite, SumType DEF InMonth
<1>5. BalanceBefore(d) = a + b + c - x
  BY <1>1, BalanceSums
<1>6. BalanceBefore(e) = (a + A) + (b + B) + (c + C) - (x + X)
  <2>1. /\ SumOf(Prices, Earlier(Earned, ConsultDays, e)) = a + A
        /\ SumOf(PaymentAmounts, Earlier(payments, PaidDays, e)) = b + B
        /\ SumOf(IncomeAmounts, Earlier(DOMAIN income, IncomeDays, e)) = c + C
        /\ SumOf(RowAmounts, Earlier(Posted, RowDays, e)) = x + X
    BY <1>1, <1>2, MoneyFinite, TablesFinite, MonthByMonth
  <2>2. QED
    BY <2>1, BalanceSums
<1>7. Balance(FactsOf(m)) = (A + B + C) - X
  BY <1>2, EarningsSum, SpentSum, BalanceIsInt
<1> HIDE DEF d, e
<1>8. (a + A) + (b + B) + (c + C) - (x + X) = (a + b + c - x) + ((A + B + C) - X)
  BY <1>3, <1>4
<1>9. BalanceBefore(e) = BalanceBefore(d) + Balance(FactsOf(m)) /\ BalanceBefore(d) \in Int
  BY <1>3, <1>5, <1>6, <1>7, <1>8
<1>10. QED
  BY <1>9 DEF d, e

-----------------------------------------------------------------------------
(* What a loop carries.                                                    *)

LEMMA CarriedIs ==
  ASSUME NEW n \in Nat, NEW start \in Int, NEW terms, Len(terms) = n, NEW g,
         g[0] = start, \A k \in 1 .. n : g[k] = g[k - 1] + terms[k]
  PROVE  /\ DOMAIN Carried(start, terms) = 0 .. n
         /\ \A k \in 0 .. n : Carried(start, terms)[k] = g[k]
<1> DEFINE P(r) == r = [k \in 0 .. n |-> IF k = 0 THEN start ELSE r[k - 1] + terms[k]]
           c == CHOOSE r : P(r)
           h == [k \in 0 .. n |-> g[k]]
<1>1. Carried(start, terms) = c
  BY DEF Carried
<1>2. P(h)
  <2>1. ASSUME NEW k \in 0 .. n
        PROVE  h[k] = IF k = 0 THEN start ELSE h[k - 1] + terms[k]
    <3>1. CASE k = 0
      BY <3>1
    <3>2. CASE k # 0
      <4>1. k \in 1 .. n /\ k - 1 \in 0 .. n
        BY <3>2
      <4>2. QED
        BY <3>2, <4>1
    <3>3. QED
      BY <3>1, <3>2
  <2>2. QED
    BY <2>1
<1>3. P(c)
  <2> HIDE DEF P, h
  <2>1. QED
    BY <1>2
<1>4. DOMAIN c = 0 .. n /\ \A k \in 0 .. n : c[k] = IF k = 0 THEN start ELSE c[k - 1] + terms[k]
  <2> HIDE DEF c
  <2>1. QED
    BY <1>3
<1> DEFINE Off == {k \in 0 .. n : c[k] # g[k]}
<1> HIDE DEF c
<1>5. CASE Off = {}
  BY <1>1, <1>4, <1>5
<1>6. CASE Off # {}
  <2>1. Off \subseteq Nat
    OBVIOUS
  <2> HIDE DEF Off
  <2>2. PICK k \in Off : \A l \in Off : ~(<<l, k>> \in OpToRel(<, Nat))
    BY <1>6, <2>1, NatLessThanWellFounded, WFMin
  <2>3. \A l \in Off : ~(l < k)
    BY <2>1, <2>2 DEF OpToRel
  <2> USE DEF Off
  <2>4. k # 0
    BY <1>4
  <2>5. k \in 1 .. n /\ k - 1 \in 0 .. n /\ k - 1 < k
    BY <2>4
  <2>6. c[k - 1] = g[k - 1]
    BY <2>3, <2>5
  <2>7. c[k] = c[k - 1] + terms[k] /\ g[k] = g[k - 1] + terms[k]
    BY <1>4, <2>4, <2>5
  <2>8. QED
    BY <2>6, <2>7
<1>7. QED
  BY <1>5, <1>6

\* What it began with, and the sum of the terms.
LEMMA CarriedSum ==
  ASSUME NEW n \in Nat, NEW start \in Int, NEW terms, Len(terms) = n,
         \A k \in 1 .. n : terms[k] \in Int
  PROVE  Carried(start, terms)[n] = start + SumOf(terms, 1 .. n)
<1> DEFINE g == [k \in 0 .. n |-> start + SumOf(terms, 1 .. k)]
<1>1. g[0] = start
  <2>1. 1 .. 0 = {}
    OBVIOUS
  <2>2. SumOf(terms, 1 .. 0) = 0
    BY <2>1, SumEmpty
  <2>3. g[0] = start + 0
    BY <2>2
  <2>4. QED
    BY <2>3
<1>2. ASSUME NEW k \in 1 .. n
      PROVE  g[k] = g[k - 1] + terms[k]
  <2>1. PICK S, T : S = 1 .. k /\ T = 1 .. k - 1
    OBVIOUS
  <2>2. IsFiniteSet(S) /\ k \in S /\ S \ {k} = T /\ IsFiniteSet(T)
    <3>1. IsFiniteSet(1 .. k) /\ IsFiniteSet(1 .. k - 1)
      BY FS_Interval
    <3>2. QED
      BY <2>1, <3>1
  <2>3. (\A x \in S : terms[x] \in Int) /\ \A x \in T : terms[x] \in Int
    BY <2>1
  <2>4. SumOf(terms, S) = terms[k] + SumOf(terms, T)
    BY <2>2, <2>3, SumTakes
  <2>5. SumOf(terms, T) \in Int /\ terms[k] \in Int
    BY <2>2, <2>3, SumType
  <2>6. g[k] = start + SumOf(terms, S) /\ g[k - 1] = start + SumOf(terms, T)
    BY <2>1
  <2>7. QED
    BY <2>4, <2>5, <2>6
<1>3. g[n] = start + SumOf(terms, 1 .. n)
  OBVIOUS
<1> HIDE DEF g
<1>4. \A k \in 1 .. n : g[k] = g[k - 1] + terms[k]
  BY <1>2
<1>5. \A k \in 0 .. n : Carried(start, terms)[k] = g[k]
  BY <1>1, <1>4, CarriedIs
<1>6. QED
  BY <1>3, <1>5

-----------------------------------------------------------------------------
(* The running total.                                                      *)

LEMMA MonthsOfWindow ==
  ASSUME NEW from \in Int, NEW to \in Int, from <= to
  PROVE  /\ MonthOf(from) \in Int /\ MonthOf(to) - MonthOf(from) + 1 \in Nat \ {0}
         /\ Len(MonthlyFacts(from, to)) = MonthOf(to) - MonthOf(from) + 1
         /\ \A k \in 1 .. MonthOf(to) - MonthOf(from) + 1 :
                MonthlyFacts(from, to)[k] = FactsOf(MonthOf(from) + k - 1)
<1>1. MonthOf(from) \in Int /\ MonthOf(to) \in Int /\ MonthOf(from) <= MonthOf(to)
  BY MonthIsInt, MonthsInOrder
<1>2. PICK n \in Nat \ {0} : n = MonthOf(to) - MonthOf(from) + 1
  BY <1>1
<1>3. MonthlyFacts(from, to) = [k \in 1 .. n |-> FactsOf(MonthOf(from) + k - 1)]
  BY <1>2 DEF MonthlyFacts
<1>4. QED
  BY <1>1, <1>2, <1>3

LEMMA RunningIs ==
  ASSUME Books, NEW from \in Int, NEW to \in Int, from <= to
  PROVE  /\ DOMAIN Report(from, to).running = 0 .. MonthOf(to) - MonthOf(from) + 1
         /\ \A k \in 0 .. MonthOf(to) - MonthOf(from) + 1 :
                Report(from, to).running[k] = BalanceBefore(StartOfMonth(MonthOf(from) + k))
<1>1. PICK M, n, F : M = MonthOf(from) /\ n = MonthOf(to) - M + 1 /\ F = MonthlyFacts(from, to)
  OBVIOUS
<1>2. M \in Int /\ n \in Nat /\ Len(F) = n /\ \A k \in 1 .. n : F[k] = FactsOf(M + k - 1)
  BY <1>1, MonthsOfWindow
<1>3. PICK start : start = BalanceBefore(StartOfMonth(M))
  OBVIOUS
<1>4. PICK terms : terms = OfMonths(F, Balance)
  OBVIOUS
<1>5. Len(terms) = n /\ \A k \in 1 .. n : terms[k] = Balance(FactsOf(M + k - 1))
  BY <1>2, <1>4 DEF OfMonths
<1> DEFINE g == [k \in 0 .. n |-> BalanceBefore(StartOfMonth(M + k))]
<1>6. g[0] = start /\ start \in Int
  <2>1. M + 0 = M
    BY <1>2
  <2>2. QED
    BY <1>2, <1>3, <2>1, BalanceGoesOn
<1>7. ASSUME NEW k \in 1 .. n
      PROVE  g[k] = g[k - 1] + terms[k]
  <2>1. PICK m \in Int : m = M + k - 1
    BY <1>2
  <2>2. m + 1 = M + k /\ M + (k - 1) = m /\ k - 1 \in 0 .. n
    BY <1>2, <2>1
  <2>3. BalanceBefore(StartOfMonth(m + 1)) = BalanceBefore(StartOfMonth(m)) + Balance(FactsOf(m))
    BY BalanceGoesOn
  <2>4. g[k] = BalanceBefore(StartOfMonth(m + 1)) /\ g[k - 1] = BalanceBefore(StartOfMonth(m))
    BY <2>2
  <2>5. QED
    BY <1>5, <2>1, <2>3, <2>4
<1>8. Report(from, to).running = Carried(start, terms)
  BY <1>1, <1>3, <1>4 DEF Report, BuildReport, ReportStart
<1>9. \A k \in 0 .. n : g[k] = BalanceBefore(StartOfMonth(M + k))
  OBVIOUS
<1> HIDE DEF g
<1>10. DOMAIN Carried(start, terms) = 0 .. n /\ \A k \in 0 .. n : Carried(start, terms)[k] = g[k]
  <2>1. n \in Nat /\ start \in Int /\ Len(terms) = n /\ g[0] = start
    BY <1>2, <1>5, <1>6
  <2>2. \A k \in 1 .. n : g[k] = g[k - 1] + terms[k]
    BY <1>7
  <2>3. QED
    BY <2>1, <2>2, CarriedIs
<1>11. QED
  BY <1>1, <1>8, <1>9, <1>10

LEMMA Running ==
  ASSUME Books
  PROVE  RunningTotal
<1> SUFFICES ASSUME NEW from \in Days
             PROVE  LET r == ReportPage(from, LastDay).report.running
                    IN  \A k \in DOMAIN r : r[k] = BalanceBefore(StartOfMonth(MonthOf(from) + k))
  BY DEF RunningTotal
<1>1. from \in Int /\ LastDay \in Int /\ from <= LastDay
  BY LedgerAssumption DEF Days
<1>2. ReportPage(from, LastDay).report = Report(from, LastDay)
  BY <1>1 DEF ReportPage
<1>3. PICK r : r = Report(from, LastDay).running
  OBVIOUS
<1>4. ReportPage(from, LastDay).report.running = r
  BY <1>2, <1>3
<1>5. \A k \in DOMAIN r : r[k] = BalanceBefore(StartOfMonth(MonthOf(from) + k))
  <2>1. /\ DOMAIN r = 0 .. MonthOf(LastDay) - MonthOf(from) + 1
        /\ \A k \in 0 .. MonthOf(LastDay) - MonthOf(from) + 1 :
               r[k] = BalanceBefore(StartOfMonth(MonthOf(from) + k))
    BY <1>1, <1>3, RunningIs
  <2>2. QED
    BY <2>1
<1>6. QED
  BY <1>4, <1>5

-----------------------------------------------------------------------------
(* The lists.                                                              *)

LEMMA ListsHold ==
  ASSUME Books
  PROVE  ListsTie
<1>1. LastDay \in Int
  BY LedgerAssumption
<1> SUFFICES ASSUME NEW d \in Int
             PROVE  LET m == MonthOf(d)
                        f == FactsOf(m)
                    IN  /\ \A c \in DOMAIN cats :
                              ListExpenses(StartOfMonth(m), EndOfMonth(m), c).sum = f.byCat[c]
                        /\ ListOtherIncome(StartOfMonth(m), EndOfMonth(m)) = f.other
  BY <1>1 DEF ListsTie, Days
<1>2. PICK m \in Int : m = MonthOf(d)
  BY MonthIsInt
<1>3. StartOfMonth(m) \in Int /\ EndOfMonth(m) \in Int
  BY MonthsFollow
<1>4. \A e \in Int : e \in StartOfMonth(m) .. EndOfMonth(m) <=> MonthOf(e) = m
  BY <1>3, MonthAt
<1>5. ASSUME NEW c \in DOMAIN cats
      PROVE  ListExpenses(StartOfMonth(m), EndOfMonth(m), c).sum = FactsOf(m).byCat[c]
  <2>1. PICK L, S : L = FilteredExpenses(StartOfMonth(m), EndOfMonth(m), c) /\ S = SpentOn(c, m)
    OBVIOUS
  <2>2. \A i \in DOMAIN rows : rows[i].day \in Int
    BY TablesTyped DEF ExpenseRow
  <2>3. L \cap Posted = S
    BY <1>4, <2>1, <2>2 DEF FilteredExpenses, SpentOn, Posted
  <2>4. FactsOf(m).byCat[c] = Total(RowAmount, S)
    BY <2>1, SpentSum
  <2>5. ListExpenses(StartOfMonth(m), EndOfMonth(m), c).sum = Total(RowAmount, L \cap Posted)
    BY <2>1 DEF ListExpenses, Summed
  <2>6. QED
    BY <2>3, <2>4, <2>5
<1>6. ListOtherIncome(StartOfMonth(m), EndOfMonth(m)) = FactsOf(m).other
  <2>1. PICK T : T = {i \in DOMAIN income : MonthOf(income[i].day) = m}
    OBVIOUS
  <2>2. \A i \in DOMAIN income : income[i].day \in Int
    BY TablesTyped DEF IncomeRow
  <2>3. IncomeWithin(StartOfMonth(m), EndOfMonth(m)) = T
    BY <1>4, <2>1, <2>2 DEF IncomeWithin
  <2>4. FactsOf(m).other = Total(IncomeAmount, T)
    BY <2>1 DEF FactsOf
  <2>5. QED
    BY <2>3, <2>4 DEF ListOtherIncome
<1>7. QED
  BY <1>2, <1>5, <1>6

-----------------------------------------------------------------------------
(* Nothing is left out.                                                    *)

LEMMA KindsFinite == IsFiniteSet(Kinds)
<1>1. IsFiniteSet({"marketing"})
  BY FS_Singleton
<1>2. IsFiniteSet({"marketing"} \cup {"direct"})
  BY <1>1, FS_AddElement
<1>3. IsFiniteSet(({"marketing"} \cup {"direct"}) \cup {"payroll"})
  BY <1>2, FS_AddElement
<1>4. IsFiniteSet({"development"})
  BY FS_Singleton
<1>5. IsFiniteSet({"development"} \cup {"infra"})
  BY <1>4, FS_AddElement
<1>6. IsFiniteSet(({"development"} \cup {"infra"}) \cup {"admin"})
  BY <1>5, FS_AddElement
<1>7. Kinds = (({"marketing"} \cup {"direct"}) \cup {"payroll"})
              \cup (({"development"} \cup {"infra"}) \cup {"admin"})
  BY DEF Kinds
<1>8. QED
  BY <1>3, <1>6, <1>7, FS_Union

\* A month by kind comes to the month.
LEMMA KindsSum ==
  ASSUME Books, NEW m, NEW byKind,
         \A k \in Kinds : byKind[k] = ByKind(FactsOf(m).byCat, KindsOf(ReportCategories), k)
  PROVE  /\ \A k \in Kinds : byKind[k] \in Int
         /\ SumOf(byKind, Kinds) = SpentIn(FactsOf(m))
<1>1. PICK D, b, h : /\ D = DOMAIN cats /\ b = FactsOf(m).byCat /\ h = KindsOf(ReportCategories)
  OBVIOUS
<1>2. /\ IsFiniteSet(D) /\ \A c \in D : b[c] \in Int
      /\ SpentIn(FactsOf(m)) = SumOf(b, D) /\ DOMAIN b = D
  BY <1>1, SpentSum, TablesFinite
<1>3. DOMAIN h = D /\ \A c \in D : h[c] \in Kinds
  <2>1. h = [c \in D |-> cats[c].kind]
    BY <1>1 DEF KindsOf, ReportCategories
  <2>2. \A c \in D : cats[c] \in [kind: Kinds, active: BOOLEAN]
    BY <1>1 DEF Books, ScalarsOK
  <2>3. QED
    BY <2>1, <2>2
<1>4. IsFiniteSet(Kinds)
  BY KindsFinite
<1>5. ASSUME NEW k \in Kinds
      PROVE  byKind[k] = SumOf(b, Having(D, h, k)) /\ byKind[k] \in Int
  <2>1. PICK S : S = {c \in DOMAIN b : c \in DOMAIN h /\ h[c] = k}
    OBVIOUS
  <2>2. S = Having(D, h, k) /\ S \subseteq D
    BY <1>2, <1>3, <2>1 DEF Having
  <2> DEFINE f == [c \in S |-> b[c]]
  <2>3. byKind[k] = SumFunction(f)
    BY <1>1, <2>1 DEF ByKind, Total
  <2>4. IsFiniteSet(S) /\ DOMAIN f = S /\ \A c \in S : f[c] \in Int /\ f[c] = b[c]
    BY <1>2, <2>2, FS_Subset
  <2> HIDE DEF f
  <2>5. SumFunction(f) = SumOf(b, S) /\ SumOf(b, S) \in Int
    <3>1. SumFunction(f) = SumOf(b, S)
      BY <2>4, TermsSum
    <3>2. \A c \in S : b[c] \in Int
      BY <1>2, <2>2
    <3>3. SumOf(b, S) \in Int
      BY <2>4, <3>2, SumType
    <3>4. QED
      BY <3>1, <3>3
  <2>6. QED
    BY <2>2, <2>3, <2>5
<1>6. SumOf(b, D) = SumOf(byKind, Kinds)
  <2>1. \A c \in D : b[c] \in Int /\ h[c] \in Kinds
    BY <1>2, <1>3
  <2>2. \A k \in Kinds : byKind[k] = SumOf(b, Having(D, h, k))
    BY <1>5
  <2>3. QED
    BY <1>2, <1>4, <2>1, <2>2, SumOfParts
<1>7. QED
  BY <1>2, <1>5, <1>6, <1>4

\* The report's columns are sums over its months.
LEMMA ReportSums ==
  ASSUME Books, NEW from \in Int, NEW to \in Int, from <= to
  PROVE  LET r == Report(from, to)
         IN  /\ Total(LAMBDA k : r.byKind[k], Kinds) = r.expense
             /\ r.running[MonthOf(to) - MonthOf(from) + 1] = BalanceBefore(StartOfMonth(MonthOf(from))) + r.balance
             /\ r.balance \in Int
<1>1. PICK M, n, F, r : /\ M = MonthOf(from) /\ n = MonthOf(to) - M + 1
                        /\ F = MonthlyFacts(from, to) /\ r = Report(from, to)
  OBVIOUS
<1>2. M \in Int /\ n \in Nat /\ Len(F) = n /\ \A i \in 1 .. n : F[i] = FactsOf(M + i - 1)
  BY <1>1, MonthsOfWindow
<1>3. PICK I : I = 1 .. n
  OBVIOUS
<1>4. IsFiniteSet(I)
  BY <1>2, <1>3, FS_Interval
<1> DEFINE kinds == KindsOf(ReportCategories)
           spent == OfMonths(F, SpentIn)
           earned == OfMonths(F, Earnings)
           balances == OfMonths(F, Balance)
           a == [k \in Kinds |-> OfMonths(F, LAMBDA f : ByKind(f.byCat, kinds, k))]
           b == [i \in I |-> [k \in Kinds |-> ByKind(F[i].byCat, kinds, k)]]
           row == [k \in Kinds |-> Carried(0, a[k])[n]]
<1>5. /\ r.expense = Carried(0, spent)[n]
      /\ r.byKind = row
      /\ r.balance = Carried(0, earned)[n] - Carried(0, spent)[n]
      /\ r.running = Carried(BalanceBefore(StartOfMonth(M)), balances)
  BY <1>1, <1>2 DEF Report, BuildReport, ReportStart
<1>6. /\ Len(spent) = n /\ Len(earned) = n /\ Len(balances) = n
      /\ \A i \in I : /\ spent[i] = SpentIn(FactsOf(M + i - 1))
                      /\ earned[i] = Earnings(FactsOf(M + i - 1))
                      /\ balances[i] = Balance(FactsOf(M + i - 1))
  BY <1>2, <1>3 DEF OfMonths
<1>7. \A k \in Kinds : Len(a[k]) = n /\ \A i \in I : a[k][i] = b[i][k]
  BY <1>2, <1>3 DEF OfMonths
<1>8. \A i \in I, k \in Kinds : b[i][k] = ByKind(FactsOf(M + i - 1).byCat, kinds, k)
  BY <1>2, <1>3
<1>9. DOMAIN row = Kinds /\ \A k \in Kinds : row[k] = Carried(0, a[k])[n]
  OBVIOUS
<1>10. Total(LAMBDA k : r.byKind[k], Kinds) = SumFunction([k \in Kinds |-> r.byKind[k]])
  BY DEF Total
<1>11. Total(LAMBDA k : r.byKind[k], Kinds) = SumFunction(row)
  BY <1>5, <1>10
<1> HIDE DEF spent, earned, balances, a, b, row
<1>12. \A i \in I : /\ spent[i] \in Int /\ earned[i] \in Int /\ balances[i] \in Int
                    /\ earned[i] = balances[i] + spent[i]
  BY <1>6, BalanceIsInt
<1>13. ASSUME NEW i \in I
       PROVE  (\A k \in Kinds : b[i][k] \in Int) /\ SumOf(b[i], Kinds) = spent[i]
  <2>1. PICK byKind, m : byKind = b[i] /\ m = M + i - 1
    OBVIOUS
  <2>2. \A k \in Kinds : byKind[k] = ByKind(FactsOf(m).byCat, kinds, k)
    BY <1>8, <2>1
  <2>3. (\A k \in Kinds : byKind[k] \in Int) /\ SumOf(byKind, Kinds) = SpentIn(FactsOf(m))
    BY <2>2, KindsSum
  <2>4. QED
    BY <1>6, <2>1, <2>3
<1>14. \A k \in Kinds : row[k] = SumOf(a[k], I) /\ row[k] \in Int
  <2> TAKE k \in Kinds
  <2>1. PICK terms : terms = a[k]
    OBVIOUS
  <2>2. Len(terms) = n /\ \A i \in 1 .. n : terms[i] \in Int
    BY <1>3, <1>7, <1>13, <2>1
  <2>3. Carried(0, terms)[n] = 0 + SumOf(terms, 1 .. n)
    BY <1>2, <2>2, CarriedSum
  <2>4. SumOf(terms, 1 .. n) \in Int
    BY <1>3, <1>4, <2>2, SumType
  <2>5. QED
    BY <1>3, <1>9, <2>1, <2>3, <2>4
<1>15. SumOf(row, Kinds) = SumOf(spent, I)
  <2>1. Transposed(a, b, Kinds, I)
    BY <1>7, <1>13 DEF Transposed
  <2>2. SumsAcross(spent, b, I, Kinds)
    BY <1>13 DEF SumsAcross
  <2>3. SumsAcross(row, a, Kinds, I)
    BY <1>14 DEF SumsAcross
  <2>4. QED
    BY <1>4, KindsFinite, <2>1, <2>2, <2>3, SumsSwap
<1>16. SumFunction(row) = SumOf(row, Kinds)
  BY <1>9, KindsFinite, SumFunctionIs
<1>17. Carried(0, spent)[n] = SumOf(spent, I) /\ Carried(0, earned)[n] = SumOf(earned, I)
  <2>1. (\A i \in 1 .. n : spent[i] \in Int) /\ \A i \in 1 .. n : earned[i] \in Int
    BY <1>3, <1>12
  <2>2. /\ Carried(0, spent)[n] = 0 + SumOf(spent, 1 .. n)
        /\ Carried(0, earned)[n] = 0 + SumOf(earned, 1 .. n)
    BY <1>2, <1>6, <2>1, CarriedSum
  <2>3. SumOf(spent, I) \in Int /\ SumOf(earned, I) \in Int
    BY <1>4, <1>12, SumType
  <2>4. QED
    BY <1>3, <2>2, <2>3
<1>18. SumOf(earned, I) = SumOf(balances, I) + SumOf(spent, I)
  BY <1>4, <1>12, SumsAdd
<1>19. SumOf(balances, I) \in Int /\ SumOf(spent, I) \in Int
  BY <1>4, <1>12, SumType
<1>20. r.balance = SumOf(balances, I)
  BY <1>5, <1>17, <1>18, <1>19
<1>21. r.running[n] = BalanceBefore(StartOfMonth(M)) + SumOf(balances, I)
  <2>1. PICK start \in Int : start = BalanceBefore(StartOfMonth(M))
    BY <1>2, BalanceGoesOn
  <2>2. \A i \in 1 .. n : balances[i] \in Int
    BY <1>3, <1>12
  <2>3. Carried(start, balances)[n] = start + SumOf(balances, 1 .. n)
    BY <1>2, <1>6, <2>2, CarriedSum
  <2>4. QED
    BY <1>3, <1>5, <2>1, <2>3
<1>22. QED
  BY <1>1, <1>5, <1>11, <1>15, <1>16, <1>17, <1>19, <1>20, <1>21

LEMMA MoneyDaysFinite ==
  ASSUME Books
  PROVE  MoneyDays \subseteq Int /\ IsFiniteSet(MoneyDays)
<1>1. PICK A, B, C, D : /\ A = {RowDays[i] : i \in Posted} /\ B = {ConsultDays[i] : i \in Earned}
                        /\ C = {PaidDays[p] : p \in payments} /\ D = {IncomeDays[i] : i \in DOMAIN income}
  OBVIOUS
<1>2. IsFiniteSet(A) /\ IsFiniteSet(B) /\ IsFiniteSet(C) /\ IsFiniteSet(D)
  BY <1>1, MoneyFinite, TablesFinite, ImageFinite
<1>3. A \subseteq Int /\ B \subseteq Int /\ C \subseteq Int /\ D \subseteq Int
  BY <1>1, MoneyFinite
<1>4. MoneyDays = ((A \cup B) \cup C) \cup D
  <2>1. A = {rows[i].day : i \in Posted} /\ B = {ConsultDay(consults[i]) : i \in Earned}
    BY <1>1, EarnedRows, DaysTyped
  <2>2. C = {p.paidAt : p \in payments} /\ D = {income[i].day : i \in DOMAIN income}
    BY <1>1, DaysTyped
  <2>3. QED
    BY <2>1, <2>2 DEF MoneyDays
<1>5. IsFiniteSet(A \cup B) /\ IsFiniteSet((A \cup B) \cup C) /\ IsFiniteSet(((A \cup B) \cup C) \cup D)
  BY <1>2, FS_Union
<1>6. QED
  BY <1>3, <1>4, <1>5

LEMMA NoneBefore ==
  ASSUME Books, NEW d \in Int, \A e \in MoneyDays : d <= e
  PROVE  BalanceBefore(d) = 0
<1>1. /\ \A i \in Posted : RowDays[i] \in MoneyDays
      /\ \A i \in Earned : ConsultDays[i] \in MoneyDays
      /\ \A p \in payments : PaidDays[p] \in MoneyDays
      /\ \A i \in DOMAIN income : IncomeDays[i] \in MoneyDays
  BY EarnedRows, DaysTyped DEF MoneyDays
<1>2. /\ Earlier(Earned, ConsultDays, d) = {} /\ Earlier(payments, PaidDays, d) = {}
      /\ Earlier(DOMAIN income, IncomeDays, d) = {} /\ Earlier(Posted, RowDays, d) = {}
  BY <1>1, MoneyFinite DEF Earlier
<1>3. BalanceBefore(d) = 0 + 0 + 0 - 0
  BY <1>2, BalanceSums, SumEmpty
<1>4. QED
  BY <1>3

LEMMA LeftOut ==
  ASSUME Books
  PROVE  NothingLeftOut
<1> SUFFICES ASSUME Period # <<>>
             PROVE  LET r == Report(StartOfMonth(Period[1]), EndOfMonth(Period[2]))
                    IN  /\ Total(LAMBDA k : r.byKind[k], Kinds) = r.expense
                        /\ r.running[Period[2] - Period[1] + 1] = r.balance
  BY DEF NothingLeftOut
<1>1. MoneyDays # {} /\ Period = <<MonthOf(Min(MoneyDays)), MonthOf(Max(MoneyDays))>>
  BY DEF Period
<1>2. PICK S : S = MoneyDays
  OBVIOUS
<1>3. S \subseteq Int /\ IsFiniteSet(S) /\ S # {}
  BY <1>1, <1>2, MoneyDaysFinite
<1>4. PICK lo, hi : lo = Min(S) /\ hi = Max(S)
  OBVIOUS
<1>5. lo \in S /\ \A e \in S : lo <= e
  <2>1. \E x \in S : \A y \in S : x <= y
    BY <1>3, FiniteEnds
  <2>2. QED
    BY <1>4, <2>1 DEF Min
<1>6. hi \in S /\ \A e \in S : e <= hi
  <2>1. \E x \in S : \A y \in S : y <= x
    BY <1>3, FiniteEnds
  <2>2. \E x \in S : \A y \in S : x >= y
    BY <1>3, <2>1
  <2>3. hi \in S /\ \A y \in S : hi >= y
    BY <1>4, <2>2 DEF Max
  <2>4. QED
    BY <1>3, <2>3
<1>7. lo \in Int /\ hi \in Int /\ lo <= hi
  BY <1>3, <1>5, <1>6
<1>8. PICK P \in Int, Q \in Int : P = MonthOf(lo) /\ Q = MonthOf(hi)
  BY <1>7, MonthIsInt
<1>9. Period[1] = P /\ Period[2] = Q
  BY <1>1, <1>2, <1>4, <1>8
<1>10. PICK from, to : from = StartOfMonth(P) /\ to = EndOfMonth(Q)
  OBVIOUS
<1>11. from \in Int /\ to \in Int /\ from <= lo /\ hi <= to
  <2>1. from \in Int /\ to \in Int
    BY <1>10, MonthsFollow
  <2>2. from <= lo
    BY <1>7, <1>8, <1>10, MonthAt
  <2>3. hi <= to
    BY <1>7, <1>8, <1>10, MonthAt
  <2>4. QED
    BY <2>1, <2>2, <2>3
<1>12. from <= to
  BY <1>7, <1>11
<1>13. MonthOf(from) = P /\ MonthOf(to) = Q
  BY <1>10, MonthEdges
<1>14. BalanceBefore(from) = 0
  <2>1. \A e \in MoneyDays : from <= e
    BY <1>2, <1>3, <1>5, <1>7, <1>11
  <2>2. QED
    BY <1>11, <2>1, NoneBefore
<1> DEFINE r == Report(from, to)
<1>15. /\ Total(LAMBDA k : r.byKind[k], Kinds) = r.expense
       /\ r.running[MonthOf(to) - MonthOf(from) + 1] = BalanceBefore(StartOfMonth(MonthOf(from))) + r.balance
       /\ r.balance \in Int
  BY <1>11, <1>12, ReportSums
<1>16. r.running[Q - P + 1] = 0 + r.balance
  BY <1>10, <1>13, <1>14, <1>15
<1>17. QED
  BY <1>9, <1>10, <1>15, <1>16

-----------------------------------------------------------------------------
(* The settlement.                                                         *)

\* Each advocate has one row, and it says what was paid to that advocate.
LEMMA SettlementRowsAre ==
  ASSUME NEW from, NEW to, Books
  PROVE  /\ \A x \in SettlementRows(from, to) :
                x.advocate \in Advocates /\ x.paid = PaidTo(x.advocate, from, to)
         /\ \A x, y \in SettlementRows(from, to) : x.advocate = y.advocate => x = y
         /\ \A a \in Advocates : (\A x \in SettlementRows(from, to) : x.advocate # a)
                                    => PaidTo(a, from, to) = 0
<1> DEFINE of(a) == [advocate |-> a, collected |-> Total(AmountOf, CollectedBy(a, from, to)),
                     percent |-> rates[a]]
           row(a) == AdvocateSettlement(of(a), PaidTo(a, from, to))
           only(a) == [advocate |-> a, accrued |-> 0, paid |-> PaidTo(a, from, to),
                       outstanding |-> -PaidTo(a, from, to)]
           A == {b \in Advocates : CollectedBy(b, from, to) # {}}
           B == PaidOnly(from, to)
           S == SettlementRows(from, to)
<1>1. \A a : of(a).advocate = a
  OBVIOUS
<1>2. \A c, p : AdvocateSettlement(c, p).advocate = c.advocate /\ AdvocateSettlement(c, p).paid = p
  BY DEF AdvocateSettlement
<1>3. \A a : row(a).advocate = a /\ row(a).paid = PaidTo(a, from, to)
  <2> HIDE DEF of
  <2>1. QED
    BY <1>1, <1>2
<1>4. \A a : only(a).advocate = a /\ only(a).paid = PaidTo(a, from, to)
  OBVIOUS
<1>5. \A x : x \in S <=> (\E a \in A : x = row(a)) \/ (\E a \in B : x = only(a))
  <2>1. \A c : c \in AdvocateCollections(from, to) <=> \E a \in A : c = of(a)
    BY DEF AdvocateCollections
  <2>2. \A x : x \in S <=> \/ \E c \in AdvocateCollections(from, to) :
                                  x = AdvocateSettlement(c, PaidTo(c.advocate, from, to))
                           \/ \E a \in B : x = only(a)
    BY DEF SettlementRows
  <2> HIDE DEF of, only, A, B, S
  <2>3. QED
    BY <1>1, <2>1, <2>2
<1>6. A \subseteq Advocates /\ B \subseteq Advocates /\ A \cap B = {}
  BY DEF PaidOnly
<1>7. \A a \in Advocates : a \notin A /\ a \notin B => PaidTo(a, from, to) = 0
  BY DEF PaidOnly
<1> HIDE DEF of, row, only, A, B, S
<1>8. \A x \in S : x.advocate \in Advocates /\ x.paid = PaidTo(x.advocate, from, to)
  BY <1>3, <1>4, <1>5, <1>6
<1>9. \A x, y \in S : x.advocate = y.advocate => x = y
  BY <1>3, <1>4, <1>5, <1>6
<1>10. \A a \in Advocates : (\A x \in S : x.advocate # a) => PaidTo(a, from, to) = 0
  BY <1>3, <1>4, <1>5, <1>7
<1>11. QED
  BY <1>8, <1>9, <1>10 DEF S

LEMMA PeopleOfMonths ==
  ASSUME Books, NEW from, NEW to
  PROVE  /\ PeopleRows(from, to) \subseteq DOMAIN rows /\ IsFiniteSet(PeopleRows(from, to))
         /\ \A i \in PeopleRows(from, to) : /\ RowAmounts[i] \in Int
                                            /\ Attributed(i) => rows[i].ref[2] \in Advocates
<1>1. PeopleRows(from, to) \subseteq DOMAIN rows
  BY DEF PeopleRows, Posted
<1>2. IsFiniteSet(PeopleRows(from, to))
  BY <1>1, TablesFinite, FS_Subset
<1>3. ASSUME NEW i \in DOMAIN rows, Attributed(i)
      PROVE  rows[i].ref[2] \in Advocates
  <2>1. PICK ref : ref = rows[i].ref
    OBVIOUS
  <2>2. ref \in Refs /\ ref # NoRef /\ ref[1] = "advocate"
    BY <1>3, <2>1, TablesTyped DEF ExpenseRow, Attributed
  <2>3. ref \in ({"rule"} \X Nat \X Int) \/ ref \in ({"advocate"} \X Advocates \X Int)
        \/ ref \in ({"sheet"} \X Nat \X Nat)
    BY <2>2 DEF Refs
  <2>4. ref \in {"advocate"} \X Advocates \X Int
    BY <2>2, <2>3
  <2>5. QED
    BY <2>1, <2>4
<1>4. QED
  BY <1>1, <1>2, <1>3, TablesTyped

\* What the advocates were paid one by one is every row that names one.
LEMMA PaidByName ==
  ASSUME Books, NEW from, NEW to, NEW g, \A a \in Advocates : g[a] = PaidTo(a, from, to)
  PROVE  /\ \A a \in Advocates : g[a] \in Int
         /\ SumOf(g, Advocates) = SumOf(RowAmounts, {i \in PeopleRows(from, to) : Attributed(i)})
<1>1. PICK S : S = {i \in PeopleRows(from, to) : Attributed(i)}
  OBVIOUS
<1>2. S \subseteq DOMAIN rows /\ IsFiniteSet(S) /\ IsFiniteSet(Advocates)
  BY <1>1, PeopleOfMonths, FS_Subset, LedgerAssumption
<1> DEFINE h == [i \in S |-> rows[i].ref[2]]
<1>3. \A i \in S : RowAmounts[i] \in Int /\ h[i] \in Advocates
  BY <1>1, PeopleOfMonths
<1>4. \A a : Having(S, h, a) = {i \in PeopleRows(from, to) : Attributed(i) /\ rows[i].ref[2] = a}
  BY <1>1 DEF Having
<1> HIDE DEF h
<1>5. ASSUME NEW a \in Advocates
      PROVE  g[a] = SumOf(RowAmounts, Having(S, h, a)) /\ g[a] \in Int
  <2>1. PICK T : T = Having(S, h, a)
    OBVIOUS
  <2>2. g[a] = Total(RowAmount, T)
    BY <1>4, <2>1 DEF PaidTo
  <2>3. T \subseteq DOMAIN rows /\ IsFiniteSet(T) /\ \A i \in T : RowAmounts[i] \in Int
    BY <1>2, <1>3, <2>1, FS_Subset DEF Having
  <2>4. Total(RowAmount, T) = SumOf(RowAmounts, T) /\ SumOf(RowAmounts, T) \in Int
    BY <2>3, TotalOfRows, SumType
  <2>5. QED
    BY <2>1, <2>2, <2>4
<1>6. \A a \in Advocates : g[a] = SumOf(RowAmounts, Having(S, h, a))
  BY <1>5
<1>7. SumOf(RowAmounts, S) = SumOf(g, Advocates)
  BY <1>2, <1>3, <1>6, SumOfParts
<1>8. QED
  BY <1>1, <1>5, <1>7

LEMMA SettlementHolds ==
  ASSUME Books
  PROVE  SettlementTies
<1> SUFFICES ASSUME NEW from \in Days, NEW to \in Days, ~(to < from)
             PROVE  LET s == Settlement(from, to)
                    IN  Total(LAMBDA a : a.paid, s.advocates) + s.unattributed
                           = Total(RowAmount, PeopleRows(from, to))
  BY DEF SettlementTies, Settlement
<1>1. PICK S, P : S = SettlementRows(from, to) /\ P = PeopleRows(from, to)
  OBVIOUS
<1> DEFINE f == [x \in S |-> x.paid]
           h == [x \in S |-> x.advocate]
           g == [a \in Advocates |-> PaidTo(a, from, to)]
<1>2. Settlement(from, to).advocates = S /\ Settlement(from, to).unattributed = UnattributedPaid(from, to)
  BY <1>1 DEF Settlement
<1>3. Total(LAMBDA a : a.paid, S) = SumFunction(f) /\ DOMAIN f = S
  BY DEF Total
<1>4. \A a \in Advocates : g[a] = PaidTo(a, from, to)
  OBVIOUS
<1>5. /\ \A x \in S : h[x] \in Advocates /\ h[x] = x.advocate /\ f[x] = x.paid /\ f[x] = g[h[x]]
      /\ \A x, y \in S : h[x] = h[y] => x = y
      /\ \A a \in Advocates : (\A x \in S : h[x] # a) => g[a] = 0
  BY <1>1, SettlementRowsAre
<1> HIDE DEF f, g, h
<1>6. /\ \A a \in Advocates : g[a] \in Int
      /\ SumOf(g, Advocates) = SumOf(RowAmounts, {i \in P : Attributed(i)})
  BY <1>1, <1>4, PaidByName
<1>7. IsFiniteSet(S)
  <2>1. PICK row : row = [a \in Advocates |-> CHOOSE x \in S : h[x] = a]
    OBVIOUS
  <2>2. \A x \in S : row[h[x]] = x
    BY <1>5, <2>1
  <2>3. PICK T : T = {h[x] : x \in S}
    OBVIOUS
  <2>4. T \subseteq Advocates /\ S = {row[a] : a \in T}
    BY <1>5, <2>2, <2>3
  <2>5. IsFiniteSet(T)
    BY <2>4, LedgerAssumption, FS_Subset
  <2>6. QED
    BY <2>4, <2>5, ImageFinite
<1>8. ASSUME NEW a \in Advocates
      PROVE  g[a] = SumOf(f, Having(S, h, a))
  <2>1. CASE \A x \in S : h[x] # a
    <3>1. Having(S, h, a) = {}
      BY <2>1 DEF Having
    <3>2. QED
      BY <1>5, <2>1, <3>1, SumEmpty
  <2>2. CASE \E x \in S : h[x] = a
    <3>1. PICK x \in S : h[x] = a
      BY <2>2
    <3>2. PICK H : H = Having(S, h, a)
      OBVIOUS
    <3>3. x \in H /\ H \subseteq S /\ \A y \in H : y = x
      BY <1>5, <3>1, <3>2 DEF Having
    <3>4. IsFiniteSet(H) /\ f[x] \in Int /\ \A y \in H \ {x} : f[y] = 0
      BY <1>5, <1>6, <1>7, <3>3, FS_Subset
    <3>5. SumOf(f, H) = f[x]
      BY <3>3, <3>4, SumOne
    <3>6. QED
      BY <1>5, <3>1, <3>2, <3>5
  <2>3. QED
    BY <2>1, <2>2
<1>9. SumFunction(f) = SumOf(RowAmounts, {i \in P : Attributed(i)})
  <2>1. IsFiniteSet(Advocates)
    BY LedgerAssumption
  <2>2. \A x \in S : f[x] \in Int /\ h[x] \in Advocates
    BY <1>5, <1>6
  <2>3. \A a \in Advocates : g[a] = SumOf(f, Having(S, h, a))
    BY <1>8
  <2>4. SumOf(f, S) = SumOf(g, Advocates)
    BY <1>7, <2>1, <2>2, <2>3, SumOfParts
  <2>5. SumFunction(f) = SumOf(f, S)
    BY <1>3, <1>7, SumFunctionIs
  <2>6. QED
    BY <1>6, <2>4, <2>5
<1>10. PICK A, B : A = {i \in P : Attributed(i)} /\ B = {i \in P : ~Attributed(i)}
  OBVIOUS
<1>11. /\ P \subseteq DOMAIN rows /\ IsFiniteSet(P) /\ \A i \in P : RowAmounts[i] \in Int
       /\ A \cup B = P /\ A \cap B = {} /\ A \subseteq P /\ B \subseteq P
  BY <1>1, <1>10, PeopleOfMonths
<1>12. IsFiniteSet(A) /\ IsFiniteSet(B) /\ B \subseteq DOMAIN rows
  BY <1>11, FS_Subset
<1>13. SumOf(RowAmounts, P) = SumOf(RowAmounts, A) + SumOf(RowAmounts, B)
  BY <1>11, <1>12, SumUnion
<1>14. Total(RowAmount, B) = SumOf(RowAmounts, B) /\ Total(RowAmount, P) = SumOf(RowAmounts, P)
  BY <1>11, <1>12, TotalOfRows
<1>15. UnattributedPaid(from, to) = Total(RowAmount, B)
  BY <1>1, <1>10 DEF UnattributedPaid
<1>16. QED
  BY <1>1, <1>2, <1>3, <1>9, <1>10, <1>13, <1>14, <1>15

\* The running total of any report is the balance at its months' ends, kinds and
\* lists and settlements come to the ledger's own rows: for every reachable state.
THEOREM ReportsCorrect == Spec => []ReportsTie
<1>1. LedgerInv => ReportsTie
  <2>1. LedgerInv => Books
    BY InvHas
  <2>2. Books => ReportsTie
    BY Running, LeftOut, ListsHold, SettlementHolds DEF ReportsTie
  <2>3. QED
    BY <2>1, <2>2
<1>2. QED
  BY <1>1, LedgerCorrect, PTL
-----------------------------------------------------------------------------
(* What the identity rows alone give.                                      *)

LEMMA AtMostOne ==
  ASSUME NEW T, \A i, j \in T : i = j
  PROVE  Cardinality(T) <= 1
<1>1. CASE T = {}
  BY <1>1, FS_EmptySet
<1>2. CASE T # {}
  <2>1. PICK i \in T : TRUE
    BY <1>2
  <2>2. T = {i}
    BY <2>1
  <2>3. Cardinality({i}) = 1
    BY FS_Singleton
  <2>4. Cardinality(T) = 1
    BY <2>2, <2>3
  <2>5. QED
    BY <2>4
<1>3. QED
  BY <1>1, <1>2

LEMMA IdentityInvSuffices ==
  ASSUME IdentityInv
  PROVE  IdentityOK
<1>1. OneRowPerChat
  <2> SUFFICES ASSUME NEW x \in Chats
               PROVE  /\ Cardinality({c \in Clients : cliChat[c] = x}) <= 1
                      /\ Cardinality(AnyWithChat(x)) <= 1
    BY DEF OneRowPerChat
  <2>1. x # None /\ ChatsApart(Clients, cliChat) /\ ChatsApart(Advocates, advChat)
    BY IdentityAssumption DEF IdentityInv
  <2>2. Cardinality({c \in Clients : cliChat[c] = x}) <= 1
    <3> DEFINE T == {c \in Clients : cliChat[c] = x}
    <3>1. \A i, j \in T : i = j
      BY <2>1 DEF ChatsApart
    <3> HIDE DEF T
    <3>2. Cardinality(T) <= 1
      BY <3>1, AtMostOne
    <3>3. QED
      BY <3>2 DEF T
  <2>3. Cardinality({a \in Advocates : advChat[a] = x}) <= 1
    <3> DEFINE T == {a \in Advocates : advChat[a] = x}
    <3>1. \A i, j \in T : i = j
      BY <2>1 DEF ChatsApart
    <3> HIDE DEF T
    <3>2. Cardinality(T) <= 1
      BY <3>1, AtMostOne
    <3>3. QED
      BY <3>2 DEF T
  <2>4. QED
    BY <2>2, <2>3 DEF AnyWithChat
<1>2. NothingHidden
  <2>1. ASSUME NEW u \in DOMAIN users
        PROVE  ListByUser(u) = {k \in DOMAIN keys : AuthenticateKey(k) = u}
    <3>1. u # None
      BY IdentityAssumption DEF IdentityInv
    <3>2. QED
      BY <3>1 DEF ListByUser, AuthenticateKey, UserByHash
  <2>2. ASSUME NEW x \in Chats, FindByTelegramID(x).client # None
        PROVE  cliChat[FindByTelegramID(x).client] # None
    <3> DEFINE clients == {c \in Clients : cliChat[c] = x}
    <3>1. FindByTelegramID(x).client \in clients
      BY <2>2 DEF FindByTelegramID, Principal
    <3>2. QED
      BY <3>1, IdentityAssumption
  <2>3. QED
    BY <2>1, <2>2 DEF NothingHidden, Profile
<1>3. QED
  BY <1>1, <1>2 DEF IdentityOK, IdentityInv

-----------------------------------------------------------------------------
(* The writers of the identity rows.                                       *)

\* What no writer undoes: that a login is there.
LoginsKept == \A u \in DOMAIN users : u \in DOMAIN users'

LEMMA CreateUserKeeps ==
  ASSUME IdentityInv, NEW u \in Logins, NEW a \in Advocates \cup {None},
         NEW role \in {"admin", "advocate"}, CreateUser(u, role, a)
  PROVE  IdentityInv' /\ LoginsKept
<1> DEFINE row == [role |-> role, advocate |-> a]
<1>1. /\ DOMAIN users' = DOMAIN users \cup {u}
      /\ users'[u] = row
      /\ \A v \in DOMAIN users : users'[v] = users[v]
  BY DEF CreateUser, Put
<1>2. LoginsKept
  BY <1>1 DEF LoginsKept
<1>3. UNCHANGED <<keys, active, advChat, cliChat, stale>>
  BY DEF CreateUser
<1>4. Issued \subseteq Issued'
  BY <1>1, <1>3 DEF Issued, Sessions
<1>5. IdentityTypeOK'
  BY <1>1, <1>3, <1>4 DEF IdentityInv, IdentityTypeOK
<1>6. (\A v \in DOMAIN users : users[v].role = "advocate" => users[v].advocate # None)'
  BY <1>1 DEF IdentityInv, CreateUser
<1>7. (keys \in [DOMAIN keys -> [user : DOMAIN users, revoked : BOOLEAN]])'
  BY <1>1, <1>3 DEF IdentityInv
<1>8. (ChatsApart(Advocates, advChat) /\ ChatsApart(Clients, cliChat))'
  BY <1>3 DEF IdentityInv, ChatsApart
<1>9. QED
  BY <1>1, <1>2, <1>3, <1>5, <1>6, <1>7, <1>8 DEF IdentityInv

LEMMA ChangeRoleKeeps ==
  ASSUME IdentityInv, NEW u \in Logins, NEW a \in Advocates \cup {None},
         NEW role \in {"admin", "advocate"}, ChangeRole(u, role, a)
  PROVE  IdentityInv' /\ LoginsKept
<1>1. PICK row : row = [role |-> role, advocate |-> a]
  OBVIOUS
<1>2. /\ u \in DOMAIN users /\ users' = [users EXCEPT ![u] = row]
      /\ UNCHANGED <<keys, active, advChat, cliChat, stale>>
  BY <1>1 DEF ChangeRole
<1>3. /\ DOMAIN users' = DOMAIN users
      /\ \A v \in DOMAIN users : users'[v] = row \/ users'[v] = users[v]
  BY <1>2
<1>4. row.role \in {"admin", "advocate"} /\ row.advocate \in Advocates \cup {None}
      /\ (row.role = "advocate" => row.advocate # None)
  BY <1>1 DEF ChangeRole
<1>5. Issued' = Issued
  BY <1>2, <1>3 DEF Issued, Sessions
<1>6. IdentityTypeOK'
  BY <1>2, <1>3, <1>4, <1>5 DEF IdentityInv, IdentityTypeOK
<1>7. (\A v \in DOMAIN users : users[v].role = "advocate" => users[v].advocate # None)'
  BY <1>3, <1>4 DEF IdentityInv
<1>8. (ChatsApart(Advocates, advChat) /\ ChatsApart(Clients, cliChat))'
  BY <1>2 DEF IdentityInv, ChatsApart
<1>9. QED
  BY <1>2, <1>3, <1>6, <1>7, <1>8 DEF IdentityInv, LoginsKept

LEMMA DeactivateKeeps ==
  ASSUME IdentityInv, NEW a \in Advocates, DeactivateAdvocate(a)
  PROVE  IdentityInv' /\ LoginsKept
<1>1. UNCHANGED <<users, keys, advChat, cliChat, stale>> /\ active' \in [Advocates -> BOOLEAN]
  BY DEF DeactivateAdvocate, IdentityInv, IdentityTypeOK
<1>2. IdentityTypeOK'
  BY <1>1 DEF IdentityInv, IdentityTypeOK, Issued, Sessions
<1>3. QED
  BY <1>1, <1>2 DEF IdentityInv, LoginsKept, ChatsApart

LEMMA AdvocateTelegramKeeps ==
  ASSUME IdentityInv, NEW a \in Advocates, NEW x \in Chats, SetAdvocateTelegram(a, x)
  PROVE  IdentityInv' /\ LoginsKept
<1>1. UNCHANGED <<users, keys, active, cliChat, stale>> /\ advChat' \in [Advocates -> Chats \cup {None}]
  BY DEF SetAdvocateTelegram, IdentityInv, IdentityTypeOK
<1>2. IdentityTypeOK'
  BY <1>1 DEF IdentityInv, IdentityTypeOK, Issued, Sessions
<1>3. ChatsApart(Advocates, advChat)'
  <2>1. \A b \in Advocates : advChat'[b] = IF b = a THEN x ELSE advChat[b]
    BY DEF SetAdvocateTelegram, IdentityInv, IdentityTypeOK
  <2>2. \A b \in Advocates \ {a} : advChat[b] # x
    BY DEF SetAdvocateTelegram
  <2>3. QED
    BY <2>1, <2>2 DEF ChatsApart, IdentityInv
<1>4. QED
  BY <1>1, <1>2, <1>3 DEF IdentityInv, LoginsKept, ChatsApart

LEMMA ClientTelegramKeeps ==
  ASSUME IdentityInv, NEW c, NEW x \in Chats \cup {None}, SetClientTelegram(c, x)
  PROVE  IdentityInv' /\ LoginsKept
<1>1. UNCHANGED <<users, keys, active, advChat, stale>>
  BY DEF SetClientTelegram
<1>2. \A d \in Clients : cliChat'[d] = IF d = c THEN x ELSE IF cliChat[d] = x THEN None ELSE cliChat[d]
  BY DEF SetClientTelegram, ChatMoved
<1>3. cliChat' \in [Clients -> Chats \cup {None}]
  BY DEF SetClientTelegram, ChatMoved, IdentityInv, IdentityTypeOK
<1>4. IdentityTypeOK'
  BY <1>1, <1>3 DEF IdentityInv, IdentityTypeOK, Issued, Sessions
<1>5. ChatsApart(Clients, cliChat)'
  BY <1>2 DEF ChatsApart, IdentityInv
<1>6. QED
  BY <1>1, <1>4, <1>5 DEF IdentityInv, LoginsKept, ChatsApart

LEMMA GrowStaleKeeps ==
  ASSUME IdentityInv, GrowStale
  PROVE  IdentityInv' /\ LoginsKept
<1>1. UNCHANGED <<users, keys, active, advChat, cliChat>>
  BY DEF GrowStale
<1>2. PICK cred \in {y \in Issued : y.kind # "key"} \ stale : stale' = stale \cup {cred}
  BY DEF GrowStale
<1>3. Issued' = Issued
  BY <1>1 DEF Issued, Sessions
<1>4. IdentityTypeOK'
  BY <1>1, <1>2, <1>3 DEF IdentityInv, IdentityTypeOK
<1>5. QED
  BY <1>1, <1>2, <1>4 DEF IdentityInv, LoginsKept, ChatsApart

LEMMA InsertKeyKeeps ==
  ASSUME IdentityInv, NEW k, NEW u \in DOMAIN users, InsertKey(k, u),
         UNCHANGED <<users, active, advChat, cliChat, stale>>
  PROVE  IdentityInv' /\ LoginsKept
<1>1. keys' = [j \in DOMAIN keys \cup {k} |->
                 IF j = k THEN [user |-> u, revoked |-> FALSE] ELSE keys[j]]
  BY DEF InsertKey, Put
<1>2. keys' \in [DOMAIN keys' -> [user : DOMAIN users', revoked : BOOLEAN]]
  BY <1>1 DEF IdentityInv
<1>3. Issued \subseteq Issued'
  BY <1>1 DEF Issued, Sessions
<1>4. IdentityTypeOK'
  BY <1>2, <1>3 DEF IdentityInv, IdentityTypeOK
<1>5. QED
  BY <1>2, <1>4 DEF IdentityInv, LoginsKept, ChatsApart

LEMMA RevokeKeyKeeps ==
  ASSUME IdentityInv, NEW k, NEW u, RevokeKey(k, u),
         UNCHANGED <<users, active, advChat, cliChat, stale>>
  PROVE  IdentityInv' /\ LoginsKept
<1>1. keys' = [keys EXCEPT ![k].revoked = TRUE] /\ k \in DOMAIN keys
  BY DEF RevokeKey
<1>2. DOMAIN keys' = DOMAIN keys
  BY <1>1
<1>3. keys' \in [DOMAIN keys -> [user : DOMAIN users, revoked : BOOLEAN]]
  BY <1>1 DEF IdentityInv
<1>4. Issued' = Issued
  BY <1>2 DEF Issued, Sessions
<1>5. IdentityTypeOK'
  BY <1>2, <1>3, <1>4 DEF IdentityInv, IdentityTypeOK
<1>6. QED
  BY <1>2, <1>3, <1>5 DEF IdentityInv, LoginsKept, ChatsApart

-----------------------------------------------------------------------------
(* Whom a credential stands for, and what a request remembers of it.       *)

LEMMA IssuedKinds ==
  ASSUME NEW cred \in Issued
  PROVE  \/ cred.kind = "session" /\ cred.of \in DOMAIN users
         \/ cred.kind = "key" /\ cred.of \in DOMAIN keys
         \/ cred.kind = "launch" /\ cred.of \in Chats
  BY DEF Issued, Sessions, Session, Key, Launch

\* A credential that is verified is fresh and bears what it names.
LEMMA VerifiedStands ==
  ASSUME IdentityInv, NEW cred \in Issued, Verified(cred) # None
  PROVE  Fresh \in Bears(cred) /\ VerifiedOK(cred, Verified(cred), Bears(cred))
<1>1. CASE cred.kind = "launch"
  <2>1. PICK x \in Chats : cred = Launch(x)
    BY <1>1 DEF Issued, Sessions, Session, Key, Launch
  <2>2. Verified(cred) = x /\ cred \notin stale
    BY <1>1, <2>1 DEF Verified, VerifyLaunch, Launch
  <2>3. Fresh \in Bears(cred)
    BY <2>2 DEF Bears
  <2>4. QED
    BY <1>1, <2>1, <2>2, <2>3 DEF VerifiedOK
<1>2. CASE cred.kind = "session" /\ cred.of \in DOMAIN users
  <2>1. Verified(cred) = cred.of /\ cred \notin stale
    BY <1>2 DEF Verified, VerifyToken, ParseToken
  <2>2. Fresh \in Bears(cred)
    BY <2>1 DEF Bears
  <2>3. <<"user", cred.of>> \in Bears(cred)
    BY <1>2 DEF Bears
  <2>4. QED
    BY <1>2, <2>1, <2>2, <2>3 DEF VerifiedOK
<1>3. CASE cred.kind = "key" /\ cred.of \in DOMAIN keys
  <2>1. PICK k \in DOMAIN keys : cred = Key(k) /\ cred.of = k
    BY <1>3 DEF Issued, Sessions, Session, Key, Launch
  <2>2. PICK u : u = keys[k].user
    OBVIOUS
  <2>3. Verified(cred) = u /\ ~keys[k].revoked
    BY <1>3, <2>1, <2>2 DEF Verified, VerifyToken, AuthenticateKey, UserByHash
  <2>4. u \in DOMAIN users /\ cred \notin stale
    BY <1>3, <2>2 DEF IdentityInv
  <2>5. Fresh \in Bears(cred)
    BY <2>4 DEF Bears
  <2>6. <<"user", u>> \in Bears(cred)
    BY <2>1, <2>2, <2>3 DEF Bears
  <2>7. QED
    BY <1>3, <2>3, <2>4, <2>5, <2>6 DEF VerifiedOK
<1>4. QED
  BY <1>1, <1>2, <1>3, IssuedKinds

\* Every identity looked up is one the rows say, or one the credential bears.
LEMMA FoundStands ==
  ASSUME IdentityInv, NEW cred, NEW who, NEW s, VerifiedOK(cred, who, s),
         NEW t, s \subseteq t, StandsFor(cred, s) \subseteq t
  PROVE  CallerOK(IF cred.kind = "launch" THEN FromLaunch(who) ELSE FromToken(who), t)
<1>1. CASE cred.kind = "launch"
  <2> DEFINE p == FindByTelegramID(who)
             advocates == ActiveWithChat(who)
             clients == {c \in Clients : cliChat[c] = who}
  <2>1. cred = Launch(who) /\ who \in Chats
    BY <1>1 DEF VerifiedOK
  <2>2. CASE advocates # {}
    <3>1. PICK a \in advocates : p = Principal(None, "advocate", a, None, who)
      BY <2>2 DEF FindByTelegramID
    <3>2. <<"advocate", a>> \in StandsFor(cred, s)
      BY <2>1, <3>1 DEF StandsFor, ActiveWithChat
    <3>3. CallerOK(p, t)
      BY <2>1, <3>1, <3>2 DEF CallerOK, Principal
    <3>4. QED
      BY <1>1, <3>3 DEF FromLaunch
  <2>3. CASE advocates = {} /\ clients # {}
    <3>1. PICK c \in clients : p = Principal(None, "client", None, c, who)
      BY <2>3 DEF FindByTelegramID
    <3>2. <<"client", c>> \in StandsFor(cred, s)
      BY <2>1, <3>1 DEF StandsFor
    <3>3. CallerOK(p, t)
      BY <2>1, <3>1, <3>2 DEF CallerOK, Principal
    <3>4. QED
      BY <1>1, <3>3 DEF FromLaunch
  <2>4. CASE advocates = {} /\ clients = {}
    <3>1. p = Principal(None, "guest", None, None, who)
      BY <2>4 DEF FindByTelegramID
    <3>2. CallerOK(p, t)
      BY <2>1, <3>1 DEF CallerOK, Principal
    <3>3. QED
      BY <1>1, <3>2 DEF FromLaunch
  <2>5. QED
    BY <2>2, <2>3, <2>4
<1>2. CASE cred.kind # "launch"
  <2> DEFINE p == FindByID(who)
  <2>1. who \in DOMAIN users /\ <<"user", who>> \in s /\ who # None
    BY <1>2, IdentityAssumption DEF VerifiedOK, IdentityInv
  <2>2. users[who].role = "admin" => <<"admin", who>> \in StandsFor(cred, s)
    BY <2>1 DEF StandsFor
  <2>3. users[who].advocate # None => <<"advocate", users[who].advocate>> \in StandsFor(cred, s)
    BY <2>1 DEF StandsFor
  <2>4. CallerOK(p, t)
    BY <2>1, <2>2, <2>3 DEF CallerOK, FindByID, Principal
  <2>5. QED
    BY <1>2, <2>4 DEF FromToken
<1>3. QED
  BY <1>1, <1>2

LEMMA Remembered ==
  ASSUME Remember, NEW r \in Requests
  PROVE  /\ reqs'[r] = reqs[r] /\ reqs[r].at \in {"verified", "known"} => stood'[r] = stood[r]
         /\ reqs[r].at = "idle" /\ reqs'[r].at = "verified" => stood'[r] = Bears(reqs'[r].cred)
         /\ reqs[r].at = "verified" /\ reqs'[r].at = "known" =>
               stood'[r] = stood[r] \cup StandsFor(reqs[r].cred, stood[r])
  BY DEF Remember

\* What holds of a request goes on holding while what stood for it stays.
LEMMA RequestKeeps ==
  ASSUME NEW q, NEW s, LoginsKept, RequestOK(q, s)
  PROVE  RequestOK(q, s)'
<1>1. CASE q.at = "idle"
  BY <1>1 DEF RequestOK
<1>2. CASE q.at = "verified" /\ Fresh \in s /\ VerifiedOK(q.cred, q.who, s)
  <2>1. VerifiedOK(q.cred, q.who, s)'
    BY <1>2 DEF VerifiedOK, LoginsKept
  <2>2. QED
    BY <1>2, <2>1 DEF RequestOK
<1>3. CASE /\ q.at = "known" /\ Fresh \in s /\ CallerOK(q.caller, s)
           /\ AllowedByScopes(q.caller.role, Scopes(q.ask))
  <2>1. CallerOK(q.caller, s)'
    BY <1>3 DEF CallerOK, LoginsKept
  <2>2. QED
    BY <1>3, <2>1 DEF RequestOK
<1>4. QED
  BY <1>1, <1>2, <1>3 DEF RequestOK

LEMMA RequestNext ==
  ASSUME NEW r \in Requests, NEW q, NEW t, q = reqs'[r], t = stood'[r], RequestOK(q, t)'
  PROVE  RequestOK(reqs[r], stood[r])'
  BY DEF RequestOK, VerifiedOK, CallerOK

-----------------------------------------------------------------------------
(* The writers of cases.                                                   *)

\* A status is stored on the one case named, and nothing else of it changes.
LEMMA StatusStored ==
  ASSUME CasesOK, NEW c, NEW v, StoreCaseStatus(c, v)
  PROVE  /\ CasesOK'
         /\ \A k \in DOMAIN cases : cases'[k].status # cases[k].status => k = c /\ cases'[k].status = v
<1>1. cases' = [cases EXCEPT ![c].status = v]
  BY DEF StoreCaseStatus
<1>2. /\ DOMAIN cases' = DOMAIN cases
      /\ \A k \in DOMAIN cases : cases'[k] = IF k = c THEN [cases[k] EXCEPT !.status = v] ELSE cases[k]
      /\ cases' = [k \in DOMAIN cases |-> cases'[k]]
  BY <1>1 DEF CasesOK
<1>3. \A k \in DOMAIN cases : cases[k] = CaseFields(cases[k])
  BY DEF CasesOK
<1>4. ASSUME NEW k \in DOMAIN cases
      PROVE  /\ cases'[k] = CaseFields(cases'[k])
             /\ cases'[k].advocate = cases[k].advocate /\ cases'[k].name = cases[k].name
             /\ cases'[k].status # cases[k].status => k = c /\ cases'[k].status = v
  <2>1. CASE k # c
    BY <1>2, <1>3, <2>1
  <2>2. CASE k = c
    <3>0. PICK old : old = cases[k]
      OBVIOUS
    <3> DEFINE new == [old EXCEPT !.status = v]
    <3>1. /\ new = CaseFields(new) /\ new.status = v
          /\ new.advocate = cases[k].advocate /\ new.name = cases[k].name
      <4>1. old = CaseFields(old)
        BY <1>3, <3>0
      <4>2. QED
        BY <3>0, <4>1 DEF CaseFields
    <3>2. cases'[k] = new
      BY <1>2, <2>2, <3>0
    <3> HIDE DEF new
    <3>3. QED
      BY <2>2, <3>1, <3>2
  <2>3. QED
    BY <2>1, <2>2
<1>5. cases' = [k \in DOMAIN cases' |-> CaseFields(cases'[k])]
  BY <1>2, <1>4
<1>6. CasesOK'
  BY <1>2, <1>4, <1>5 DEF CasesOK, CaseFields
<1>7. QED
  BY <1>4, <1>6

LEMMA PaymentStored ==
  ASSUME CasesOK, NEW c, NEW p, AddPayment(c, p)
  PROVE  CasesOK'
<1>1. cases' = [cases EXCEPT ![c].paid = @ + p.amount]
  BY DEF AddPayment
<1>2. /\ DOMAIN cases' = DOMAIN cases
      /\ \A k \in DOMAIN cases :
            cases'[k] = IF k = c THEN [cases[k] EXCEPT !.paid = cases[k].paid + p.amount] ELSE cases[k]
      /\ cases' = [k \in DOMAIN cases |-> cases'[k]]
  BY <1>1 DEF CasesOK
<1>3. \A k \in DOMAIN cases : cases[k] = CaseFields(cases[k])
  BY DEF CasesOK
<1>4. ASSUME NEW k \in DOMAIN cases
      PROVE  /\ cases'[k] = CaseFields(cases'[k])
             /\ cases'[k].advocate = cases[k].advocate /\ cases'[k].name = cases[k].name
  <2>1. CASE k # c
    BY <1>2, <1>3, <2>1
  <2>2. CASE k = c
    <3>0. PICK old : old = cases[k]
      OBVIOUS
    <3> DEFINE new == [old EXCEPT !.paid = cases[k].paid + p.amount]
    <3>1. /\ new = CaseFields(new)
          /\ new.advocate = cases[k].advocate /\ new.name = cases[k].name
      <4>1. old = CaseFields(old)
        BY <1>3, <3>0
      <4>2. QED
        BY <3>0, <4>1 DEF CaseFields
    <3>2. cases'[k] = new
      BY <1>2, <2>2, <3>0
    <3> HIDE DEF new
    <3>3. QED
      BY <3>1, <3>2
  <2>3. QED
    BY <2>1, <2>2
<1>5. cases' = [k \in DOMAIN cases' |-> CaseFields(cases'[k])]
  BY <1>2, <1>4
<1>6. QED
  BY <1>2, <1>4, <1>5 DEF CasesOK, CaseFields

LEMMA CaseSaved ==
  ASSUME CasesOK, SaveCase
  PROVE  CasesOK'
<1>1. PICK c \in Clients, a \in Advocates :
        cases' = Put(cases, FreshId, [client |-> c, advocate |-> a, name |-> a, fee |-> Fee, paid |-> 0,
                                      status |-> "in_progress", consult |-> LatestConsult(c)])
  BY DEF SaveCase, InsertCase
<1> DEFINE new == [client |-> c, advocate |-> a, name |-> a, fee |-> Fee, paid |-> 0,
                   status |-> "in_progress", consult |-> LatestConsult(c)]
<1>2. new = CaseFields(new) /\ new.advocate = a /\ new.name = a
  BY DEF CaseFields
<1> HIDE DEF new
<1>3. /\ DOMAIN cases' = DOMAIN cases \cup {FreshId}
      /\ \A k \in DOMAIN cases' : cases'[k] = IF k = FreshId THEN new ELSE cases[k]
      /\ cases' = [k \in DOMAIN cases' |-> cases'[k]]
  BY <1>1 DEF Put, new
<1>4. \A k \in DOMAIN cases : cases[k] = CaseFields(cases[k])
  BY DEF CasesOK
<1>5. \A k \in DOMAIN cases' : cases'[k] = CaseFields(cases'[k])
  BY <1>2, <1>3, <1>4
<1>6. cases' = [k \in DOMAIN cases' |-> CaseFields(cases'[k])]
  BY <1>3, <1>5
<1>7. \A k \in DOMAIN cases' : cases'[k].advocate \in Advocates \cup {None} /\ cases'[k].name \in Advocates
  BY <1>2, <1>3 DEF CasesOK
<1>8. QED
  BY <1>6, <1>7 DEF CasesOK, CaseFields

-----------------------------------------------------------------------------
(* What a handler does.                                                    *)

\* A caller an admin's operation was let through for is a login the rows called one.
LEMMA OnlyAdmins ==
  ASSUME NEW p, NEW s, NEW ask, CallerOK(p, s), AllowedByScopes(p.role, Scopes(ask)),
         ask.op \in {"createKey", "revokeKey", "rate"}
  PROVE  p.user \in DOMAIN users /\ <<"admin", p.user>> \in s
<1>1. Scopes(ask) = {"admin"}
  BY DEF Scopes
<1>2. p.role = "admin"
  BY <1>1 DEF AllowedByScopes
<1>3. QED
  BY <1>2 DEF CallerOK

LEMMA OwnersAdvocate ==
  ASSUME CasesOK, NEW c \in DOMAIN cases, NEW a, a # None, OwnedCase(a, c)
  PROVE  AdvocateOf(c) = a
  BY DEF OwnedCase, AdvocateOf, CasesOK

LEMMA HandledKeeps ==
  ASSUME ViewInv, NEW r \in Requests, reqs[r].at = "known", Handled(r)
  PROVE  IdentityInv' /\ LoginsKept /\ CasesOK'
<1> DEFINE p == reqs[r].caller
           ask == reqs[r].ask
<1>1. /\ IdentityInv /\ CasesOK /\ CallerOK(p, stood[r])
      /\ AllowedByScopes(p.role, Scopes(ask))
  BY DEF ViewInv, RequestOK
<1>2. UNCHANGED identity => IdentityInv' /\ LoginsKept
  BY <1>1 DEF identity, IdentityInv, IdentityTypeOK, ChatsApart, LoginsKept, Issued, Sessions
<1>3. UNCHANGED cases => CasesOK'
  BY <1>1 DEF CasesOK, CaseFields
<1>4. CASE SetMyCaseStatus(r)
  <2>1. UNCHANGED identity /\ StoreCaseStatus(ask.case, ask.to)
    BY <1>4 DEF SetMyCaseStatus, SetCaseStatus, UpdateCaseStatus
  <2>2. QED
    BY <1>1, <1>2, <2>1, StatusStored
<1>5. CASE AddMyClientNote(r)
  BY <1>2, <1>3, <1>5 DEF AddMyClientNote, AddNote, InsertNote, tables
<1>6. CASE CreateApiToken(r)
  <2>1. p.user \in DOMAIN users
    BY <1>1, <1>6 DEF CreateApiToken, CallerOK
  <2>2. InsertKey(ask.key, p.user) /\ UNCHANGED <<tables, users, active, advChat, cliChat, stale>>
    BY <1>6 DEF CreateApiToken
  <2>3. IdentityInv' /\ LoginsKept
    BY <1>1, <2>1, <2>2, InsertKeyKeeps
  <2>4. QED
    BY <1>3, <2>2, <2>3 DEF tables
<1>7. CASE DeleteApiToken(r)
  <2>1. RevokeKey(ask.key, p.user) /\ UNCHANGED <<tables, users, active, advChat, cliChat, stale>>
    BY <1>7 DEF DeleteApiToken
  <2>2. IdentityInv' /\ LoginsKept
    BY <1>1, <2>1, RevokeKeyKeeps
  <2>3. QED
    BY <1>3, <2>1, <2>2 DEF tables
<1>8. CASE PutAdvocateRate(r)
  BY <1>2, <1>3, <1>8 DEF PutAdvocateRate
<1>9. CASE SubmitClientRequest(r)
  <2>1. p.chat \in Chats \cup {None}
    BY <1>1 DEF CallerOK
  <2>2. SetClientTelegram(ask.client, p.chat) /\ UNCHANGED tables
    BY <1>9 DEF SubmitClientRequest
  <2>3. IdentityInv' /\ LoginsKept
    BY <1>1, <2>1, <2>2, ClientTelegramKeeps
  <2>4. QED
    BY <1>3, <2>2, <2>3 DEF tables
<1>10. QED
  BY <1>4, <1>5, <1>6, <1>7, <1>8, <1>9 DEF Handled

\* What a handler writes, it writes as someone the credential stood for.
LEMMA HandledAsItself ==
  ASSUME ViewInv, NEW r \in Requests, reqs[r].at = "known", Handled(r)
  PROVE  /\ \A c \in DOMAIN cases :
               cases'[c].status # cases[c].status =>
                   cases'[c].status # "cancelled" /\ <<"advocate", AdvocateOf(c)>> \in stood[r]
         /\ \A n \in notes' \ notes :
               /\ n.by \in stood[r]
               /\ \E c \in DOMAIN cases :
                     cases[c].client = n.client /\ <<"advocate", AdvocateOf(c)>> \in stood[r]
         /\ \A k \in DOMAIN keys' :
               k \notin DOMAIN keys \/ keys'[k] # keys[k] => <<"admin", keys'[k].user>> \in stood[r]
         /\ rates' # rates => \E u \in DOMAIN users : <<"admin", u>> \in stood[r]
<1> DEFINE p == reqs[r].caller
           ask == reqs[r].ask
<1>1. /\ IdentityInv /\ CasesOK /\ CallerOK(p, stood[r])
      /\ AllowedByScopes(p.role, Scopes(ask))
  BY DEF ViewInv, RequestOK
<1>2. CASE SetMyCaseStatus(r)
  <2>1. /\ p.advocate # None /\ AllowedStatus(ask.to) /\ OwnedCase(p.advocate, ask.case)
        /\ StoreCaseStatus(ask.case, ask.to)
        /\ UNCHANGED <<keys, rates, notes>>
    BY <1>2 DEF SetMyCaseStatus, SetCaseStatus, UpdateCaseStatus, identity
  <2>2. ASSUME NEW c \in DOMAIN cases, cases'[c].status # cases[c].status
        PROVE  cases'[c].status # "cancelled" /\ <<"advocate", AdvocateOf(c)>> \in stood[r]
    <3>1. c = ask.case /\ cases'[c].status = ask.to
      BY <1>1, <2>1, <2>2, StatusStored
    <3>2. AdvocateOf(c) = p.advocate
      BY <1>1, <2>1, <3>1, OwnersAdvocate
    <3>3. QED
      BY <1>1, <2>1, <3>1, <3>2 DEF AllowedStatus, CallerOK
  <2>3. QED
    BY <2>1, <2>2
<1>3. CASE AddMyClientNote(r)
  <2>1. /\ p.advocate # None /\ InsertNote(p.advocate, ask.client, Subject(p))
        /\ UNCHANGED <<keys, rates, cases>>
    BY <1>3 DEF AddMyClientNote, AddNote, InsertNote, identity, tables
  <2>2. Subject(p) \in stood[r]
    BY <1>1, <2>1 DEF Subject, CallerOK
  <2>3. PICK k \in DOMAIN cases : cases[k].client = ask.client /\ OwnedCase(p.advocate, k)
    BY <2>1 DEF InsertNote
  <2>4. <<"advocate", AdvocateOf(k)>> \in stood[r]
    BY <1>1, <2>1, <2>3, OwnersAdvocate DEF CallerOK
  <2>5. notes' = notes \cup {[client |-> ask.client, by |-> Subject(p)]}
    BY <2>1 DEF InsertNote
  <2>6. \A n \in notes' \ notes : n.by = Subject(p) /\ n.client = ask.client
    BY <2>5
  <2>7. QED
    BY <2>1, <2>2, <2>3, <2>4, <2>6
<1>4. CASE CreateApiToken(r)
  <2>1. ask.op = "createKey" /\ InsertKey(ask.key, p.user) /\ UNCHANGED <<cases, notes, rates>>
    BY <1>4 DEF CreateApiToken, tables
  <2>2. <<"admin", p.user>> \in stood[r]
    BY <1>1, <2>1, OnlyAdmins
  <2>3. PICK new : new = [user |-> p.user, revoked |-> FALSE]
    OBVIOUS
  <2>4. keys' = [j \in DOMAIN keys \cup {ask.key} |-> IF j = ask.key THEN new ELSE keys[j]]
    BY <2>1, <2>3 DEF InsertKey, Put
  <2>5. \A k \in DOMAIN keys' : keys'[k] = new \/ (k \in DOMAIN keys /\ keys'[k] = keys[k])
    BY <2>4
  <2>6. new.user = p.user
    BY <2>3
  <2>7. QED
    BY <2>1, <2>2, <2>5, <2>6
<1>5. CASE DeleteApiToken(r)
  <2>1. ask.op = "revokeKey" /\ RevokeKey(ask.key, p.user) /\ UNCHANGED <<cases, notes, rates>>
    BY <1>5 DEF DeleteApiToken, tables
  <2>2. <<"admin", p.user>> \in stood[r]
    BY <1>1, <2>1, OnlyAdmins
  <2>3. keys' = [keys EXCEPT ![ask.key].revoked = TRUE] /\ keys[ask.key].user = p.user
    BY <2>1 DEF RevokeKey
  <2>4. \A k \in DOMAIN keys : keys[k] \in [user : DOMAIN users, revoked : BOOLEAN]
    BY <1>1 DEF IdentityInv
  <2>5. /\ DOMAIN keys' = DOMAIN keys
        /\ \A k \in DOMAIN keys : keys'[k].user = keys[k].user /\ (k = ask.key \/ keys'[k] = keys[k])
    BY <2>3, <2>4
  <2>6. QED
    BY <2>1, <2>2, <2>3, <2>5
<1>6. CASE PutAdvocateRate(r)
  <2>1. ask.op = "rate" /\ UNCHANGED <<cases, notes, keys>>
    BY <1>6 DEF PutAdvocateRate, identity
  <2>2. QED
    BY <1>1, <2>1, OnlyAdmins
<1>7. CASE SubmitClientRequest(r)
  BY <1>7 DEF SubmitClientRequest, SetClientTelegram, tables
<1>8. QED
  BY <1>2, <1>3, <1>4, <1>5, <1>6, <1>7 DEF Handled

-----------------------------------------------------------------------------
(* The invariant.                                                          *)

LEMMA ViewInvInit ==
  ASSUME ViewInit
  PROVE  ViewInv
<1>1. /\ active = [a \in Advocates |-> TRUE]
      /\ advChat = [a \in Advocates |-> None] /\ cliChat = [c \in Clients |-> None]
      /\ stale = {} /\ keys = NoTable
      /\ reqs = [r \in Requests |-> NoRequest]
  BY DEF ViewInit
<1>2. PICK L \in SUBSET Logins : users = [v \in L |-> [role |-> "admin", advocate |-> None]]
  <2>1. PICK u \in Logins :
          users = [v \in IF scene = "overlap" THEN Logins ELSE {u} |-> [role |-> "admin", advocate |-> None]]
    BY DEF ViewInit
  <2>2. QED
    BY <2>1
<1>3. IdentityTypeOK
  BY <1>1, <1>2 DEF IdentityTypeOK, NoTable
<1>4. IdentityInv
  BY <1>1, <1>2, <1>3 DEF IdentityInv, NoTable, ChatsApart
<1>5. CasesOK
  <2>1. PICK c \in Clients, a \in Advocates, amount \in Amounts :
          cases = [k \in {0} |-> [client |-> c, advocate |-> None, name |-> a, fee |-> Fee,
                                  paid |-> amount, status |-> "in_progress", consult |-> 0]]
    BY DEF ViewInit
  <2>2. QED
    BY <2>1 DEF CasesOK, CaseFields
<1>6. \A r \in Requests : RequestOK(reqs[r], stood[r])
  BY <1>1 DEF RequestOK, NoRequest
<1>7. QED
  BY <1>1, <1>4, <1>5, <1>6 DEF ViewInv

\* The rows after a step, whoever takes it.
LEMMA NextRows ==
  ASSUME ViewInv, Next
  PROVE  IdentityInv' /\ LoginsKept /\ CasesOK'
<1>1. IdentityInv /\ CasesOK
  BY DEF ViewInv
<1>2. UNCHANGED identity => IdentityInv' /\ LoginsKept
  BY <1>1 DEF identity, IdentityInv, IdentityTypeOK, ChatsApart, LoginsKept, Issued, Sessions
<1>3. UNCHANGED cases => CasesOK'
  BY <1>1 DEF CasesOK, CaseFields
<1>4. ASSUME NEW r \in Requests, Present(r) \/ Identify(r) \/ Answer(r)
      PROVE  IdentityInv' /\ LoginsKept /\ CasesOK'
  BY <1>2, <1>3, <1>4 DEF Present, Identify, Answer, tables
<1>5. ASSUME NEW r \in Requests, Perform(r)
      PROVE  IdentityInv' /\ LoginsKept /\ CasesOK'
  BY <1>5, HandledKeeps DEF Perform
<1>6. CASE People
  <2>1. CASE \E u \in Logins, a \in Advocates \cup {None}, role \in {"admin", "advocate"} : CreateUser(u, role, a)
    BY <1>1, <1>3, <1>6, <2>1, CreateUserKeeps DEF People, tables
  <2>2. CASE \E a \in Advocates : DeactivateAdvocate(a)
    BY <1>1, <1>3, <1>6, <2>2, DeactivateKeeps DEF People, tables
  <2>3. CASE \E a \in Advocates, x \in Chats : SetAdvocateTelegram(a, x)
    BY <1>1, <1>3, <1>6, <2>3, AdvocateTelegramKeeps DEF People, tables
  <2>4. CASE \E c \in Clients, x \in Chats : SetClientTelegram(c, x)
    BY <1>1, <1>3, <1>6, <2>4, ClientTelegramKeeps DEF People, tables
  <2>5. CASE GrowStale
    BY <1>1, <1>3, <1>6, <2>5, GrowStaleKeeps DEF People, tables
  <2>6. CASE \E u \in Logins, a \in Advocates \cup {None}, role \in {"admin", "advocate"} : ChangeRole(u, role, a)
    BY <1>1, <1>3, <1>6, <2>6, ChangeRoleKeeps DEF People, tables
  <2>7. QED
    BY <1>6, <2>1, <2>2, <2>3, <2>4, <2>5, <2>6 DEF People
<1>7. CASE Money
  <2>1. IdentityInv' /\ LoginsKept
    BY <1>2, <1>7 DEF Money
  <2>2. CASE SaveCase
    BY <1>1, <2>1, <2>2, CaseSaved
  <2>3. CASE Pay
    BY <1>1, <2>1, <2>3, PaymentStored DEF Pay
  <2>4. CASE SetAdvocateRate \/ CreateExpense \/ ConfirmExpense \/ DeleteExpense
    BY <1>3, <2>1, <2>4 DEF SetAdvocateRate, CreateExpense, ConfirmExpense, DeleteExpense
  <2>5. QED
    BY <1>7, <2>2, <2>3, <2>4 DEF Money
<1>8. QED
  BY <1>4, <1>5, <1>6, <1>7 DEF Next

\* A request no step is of goes on as it was.
LEMMA OtherRequests ==
  ASSUME ViewInv, Next, NEW r \in Requests, reqs'[r] = reqs[r]
  PROVE  RequestOK(reqs[r], stood[r])'
<1>1. PICK q, s, t : q = reqs[r] /\ s = stood[r] /\ t = stood'[r]
  OBVIOUS
<1>2. CASE q.at = "idle"
  BY <1>1, <1>2 DEF RequestOK
<1>3. CASE q.at # "idle"
  <2>1. RequestOK(q, s) /\ LoginsKept
    BY <1>1, NextRows DEF ViewInv
  <2>2. q.at \in {"verified", "known"}
    BY <1>3, <2>1 DEF RequestOK
  <2>3. t = s
    BY <1>1, <2>2, Remembered DEF Next
  <2>4. RequestOK(q, s)'
    BY <2>1, RequestKeeps
  <2>5. QED
    BY <1>1, <2>3, <2>4, RequestNext
<1>4. QED
  BY <1>2, <1>3

\* A request that is ended holds nothing.
LEMMA EndedRequest ==
  ASSUME ViewInv, NEW r \in Requests, End(r)
  PROVE  /\ RequestOK(reqs[r], stood[r])'
         /\ \A v \in Requests \ {r} : reqs'[v] = reqs[v]
         /\ reqs' = [v \in Requests |-> reqs'[v]]
<1>1. reqs' = [reqs EXCEPT ![r] = NoRequest] /\ reqs = [v \in Requests |-> reqs[v]]
  BY DEF End, ViewInv
<1>2. reqs'[r] = NoRequest
  BY <1>1
<1>3. QED
  BY <1>1, <1>2 DEF RequestOK, NoRequest

LEMMA PresentedRequest ==
  ASSUME ViewInv, Next, NEW r \in Requests, Present(r)
  PROVE  /\ RequestOK(reqs[r], stood[r])'
         /\ \A v \in Requests \ {r} : reqs'[v] = reqs[v]
         /\ reqs' = [v \in Requests |-> reqs'[v]]
<1>0. PICK cred \in Issued : \E ask :
        /\ Verified(cred) # None
        /\ reqs' = [reqs EXCEPT ![r] =
                      [at |-> "verified", cred |-> cred, who |-> Verified(cred), ask |-> ask]]
  BY DEF Present
<1>1. PICK ask :
        /\ Verified(cred) # None
        /\ reqs' = [reqs EXCEPT ![r] =
                      [at |-> "verified", cred |-> cred, who |-> Verified(cred), ask |-> ask]]
  BY <1>0
<1>2. PICK who, s, t : who = Verified(cred) /\ s = Bears(cred) /\ t = stood'[r]
  OBVIOUS
<1> DEFINE q == [at |-> "verified", cred |-> cred, who |-> who, ask |-> ask]
<1>3. reqs = [v \in Requests |-> reqs[v]]
  BY DEF ViewInv
<1>4. /\ reqs'[r] = q
      /\ \A v \in Requests \ {r} : reqs'[v] = reqs[v]
      /\ reqs' = [v \in Requests |-> reqs'[v]]
  BY <1>1, <1>2, <1>3
<1>5. Fresh \in s /\ VerifiedOK(cred, who, s)
  BY <1>1, <1>2, VerifiedStands DEF ViewInv
<1>6. reqs[r].at = "idle"
  BY DEF Present
<1>7. reqs'[r].at = "verified" /\ reqs'[r].cred = cred
  BY <1>4
<1>8. t = s
  BY <1>2, <1>6, <1>7, Remembered DEF Next
<1>9. RequestOK(q, s) /\ LoginsKept
  BY <1>5, NextRows DEF RequestOK
<1>10. RequestOK(q, t)'
  BY <1>8, <1>9, RequestKeeps
<1>11. RequestOK(reqs[r], stood[r])'
  BY <1>2, <1>4, <1>10, RequestNext
<1>12. QED
  BY <1>4, <1>11

LEMMA IdentifiedRequest ==
  ASSUME ViewInv, Next, NEW r \in Requests, Identify(r)
  PROVE  /\ RequestOK(reqs[r], stood[r])'
         /\ \A v \in Requests \ {r} : reqs'[v] = reqs[v]
         /\ reqs' = [v \in Requests |-> reqs'[v]]
<1>1. PICK o, s, t, p : /\ o = reqs[r] /\ s = stood[r] /\ t = stood'[r]
                        /\ p = IF o.cred.kind = "launch" THEN FromLaunch(o.who) ELSE FromToken(o.who)
  OBVIOUS
<1>2. CASE End(r)
  BY <1>2, EndedRequest
<1>3. CASE ~End(r)
  <2> DEFINE q == [at |-> "known", cred |-> o.cred, caller |-> p, ask |-> o.ask]
  <2>1. /\ AllowedByScopes(p.role, Scopes(o.ask))
        /\ reqs' = [reqs EXCEPT ![r] = q]
        /\ o.at = "verified"
    BY <1>1, <1>3 DEF Identify
  <2>2. reqs = [v \in Requests |-> reqs[v]]
    BY DEF ViewInv
  <2>3. /\ reqs'[r] = q
        /\ \A v \in Requests \ {r} : reqs'[v] = reqs[v]
        /\ reqs' = [v \in Requests |-> reqs'[v]]
    BY <2>1, <2>2
  <2>4. Fresh \in s /\ VerifiedOK(o.cred, o.who, s)
    BY <1>1, <2>1 DEF ViewInv, RequestOK
  <2>5. reqs'[r].at = "known"
    BY <2>3
  <2>6. t = s \cup StandsFor(o.cred, s)
    BY <1>1, <2>1, <2>5, Remembered DEF Next
  <2>7. s \subseteq t /\ StandsFor(o.cred, s) \subseteq t
    BY <2>6
  <2>8. CallerOK(p, t)
    BY <1>1, <2>4, <2>7, FoundStands, ZenonT(40) DEF ViewInv
  <2>9. RequestOK(q, t)
    BY <2>1, <2>4, <2>6, <2>8 DEF RequestOK
  <2>10. RequestOK(q, t)'
    BY <2>9, NextRows, RequestKeeps
  <2>11. RequestOK(reqs[r], stood[r])'
    BY <1>1, <2>3, <2>10, RequestNext
  <2>12. QED
    BY <2>3, <2>11
<1>4. QED
  BY <1>2, <1>3

LEMMA ViewInvNext ==
  ASSUME ViewInv, [Next]_vars
  PROVE  ViewInv'
<1>1. CASE UNCHANGED vars
  <2>1. UNCHANGED <<users, keys, active, advChat, cliChat, stale, cases, reqs, stood>>
    BY <1>1 DEF vars, identity, view, tables
  <2>2. IdentityInv'
    BY <2>1 DEF ViewInv, IdentityInv, IdentityTypeOK, ChatsApart, Issued, Sessions
  <2>3. CasesOK'
    BY <2>1 DEF ViewInv, CasesOK, CaseFields
  <2>4. ASSUME NEW r \in Requests
        PROVE  RequestOK(reqs[r], stood[r])'
    BY <2>1 DEF ViewInv, RequestOK, VerifiedOK, CallerOK
  <2>5. QED
    BY <2>1, <2>2, <2>3, <2>4 DEF ViewInv
<1>2. CASE Next
  <2>1. IdentityInv' /\ CasesOK'
    BY <1>2, NextRows
  <2>2. ASSUME NEW r \in Requests, Present(r) \/ Identify(r) \/ Perform(r) \/ Answer(r)
        PROVE  /\ (\A v \in Requests : RequestOK(reqs[v], stood[v]))'
               /\ reqs' = [v \in Requests |-> reqs'[v]]
    <3>1. /\ RequestOK(reqs[r], stood[r])'
          /\ \A v \in Requests \ {r} : reqs'[v] = reqs[v]
          /\ reqs' = [v \in Requests |-> reqs'[v]]
      BY <1>2, <2>2, PresentedRequest, IdentifiedRequest, EndedRequest DEF Perform, Answer
    <3>2. \A v \in Requests \ {r} : RequestOK(reqs[v], stood[v])'
      BY <1>2, <3>1, OtherRequests
    <3>3. QED
      BY <3>1, <3>2
  <2>3. CASE People \/ Money
    <3>1. UNCHANGED reqs
      BY <2>3 DEF People, Money
    <3>2. \A v \in Requests : RequestOK(reqs[v], stood[v])'
      BY <1>2, <3>1, OtherRequests
    <3>3. QED
      BY <2>1, <3>1, <3>2 DEF ViewInv
  <2>4. QED
    BY <1>2, <2>1, <2>2, <2>3 DEF Next, ViewInv
<1>3. QED
  BY <1>1, <1>2

\* Only its own handler, or its caller's giving up, ends a request that is known.
LEMMA WritesAsItself ==
  ASSUME ViewInv, Next, NEW r \in Requests, reqs[r].at = "known", reqs'[r].at = "idle"
  PROVE  WritesAs(r)
<1>1. Fresh \in stood[r]
  BY DEF ViewInv, RequestOK
<1>2. PICK w \in Requests : Present(w) \/ Identify(w) \/ Perform(w) \/ Answer(w)
  BY DEF Next, People, Money
<1>3. w = r
  <2>1. \A v \in Requests \ {w} : reqs'[v] = reqs[v]
    BY <1>2, PresentedRequest, IdentifiedRequest, EndedRequest DEF Perform, Answer
  <2>2. QED
    BY <2>1
<1>4. CASE Perform(r)
  BY <1>1, <1>4, HandledAsItself DEF Perform, WritesAs
<1>5. CASE Answer(r)
  <2>1. UNCHANGED <<cases, rates, keys, notes>>
    BY <1>5 DEF Answer, tables, identity
  <2>2. QED
    BY <2>1 DEF WritesAs
<1>6. QED
  BY <1>2, <1>3, <1>4, <1>5 DEF Present, Identify

-----------------------------------------------------------------------------
(* The invariant holds in every reachable state. *)
THEOREM ViewCorrect == ViewSpec => []ViewInv
<1>1. QED
  BY ViewInvInit, ViewInvNext, PTL DEF ViewSpec

\* Whatever requests, staff and the bot do at once, a chat stays one client's and
\* one advocate's at most, every working key is one its owner sees and can
\* revoke, and a client let into the app is one reminders reach (SetClientTelegram,
\* SetAdvocateTelegram, ListByUser, Me).
THEOREM IdentityHolds == ViewSpec => []IdentityOK
<1>1. ViewInv => IdentityOK
  BY IdentityInvSuffices DEF ViewInv
<1>2. QED
  BY <1>1, ViewCorrect, PTL

\* The handler acts under the identity read before it, which is what the credential
\* said when the request came and the rows said at the lookup, not earlier; what is
\* the request's own is asked again at the write (Authenticate, UpdateCaseStatus,
\* AddNote, api tokens, rates).
THEOREM RequestsWriteOnlyOwn == ViewSpec => WritesOnlyOwn
<1> DEFINE Own == \A r \in Requests : reqs[r].at = "known" /\ reqs'[r].at = "idle" => WritesAs(r)
<1>1. ViewInv /\ Next => Own
  BY WritesAsItself
<1>2. (ViewSpec => [][Own]_vars) => (ViewSpec => WritesOnlyOwn)
  BY DEF WritesOnlyOwn
<1> HIDE DEF Own
<1>3. ViewInv /\ [Next]_vars => [Own]_vars
  BY <1>1
<1>4. ViewSpec => [][Own]_vars
  BY <1>3, ViewCorrect, PTL DEF ViewSpec
<1>5. QED
  BY <1>2, <1>4

-----------------------------------------------------------------------------
(* The books the pages of an advocate read are the ledger's, and every row *)
(* is dated a day there is.                                                *)

DatedRows == \A i \in DOMAIN rows : rows[i].day \in Days

ViewBooks == Books /\ DatedRows

\* The tables that no request and nobody of a scene writes.
Untouched == UNCHANGED <<day, cats, rules, income, consults, ids>>

LEMMA UntouchedSteady ==
  ASSUME Books, Untouched, edits' \in 0 .. MaxEdits, rates' \in [Advocates -> 0 .. 100]
  PROVE  /\ ScalarsOK' /\ Steady /\ ids \in Nat /\ day \in Nat
         /\ RecordsOK /\ PaidIsLedger
<1>1. day \in Nat /\ ids \in Nat
  BY DayIsNat DEF Books, ScalarsOK
<1>2. ScalarsOK'
  BY DEF Books, ScalarsOK, Untouched
<1>3. QED
  BY <1>1, <1>2 DEF Books, Steady, Untouched

\* Neither rows nor cases.
LEMMA RatesWritten ==
  ASSUME ViewBooks, Untouched, edits' \in 0 .. MaxEdits, rates' \in [Advocates -> 0 .. 100],
         UNCHANGED <<rows, cases, payments>>
  PROVE  ViewBooks'
<1>1. ScalarsOK' /\ Steady
  BY UntouchedSteady DEF ViewBooks
<1>2. Kept
  BY <1>1, LeftAlone DEF ViewBooks
<1>3. Books'
  BY <1>1, <1>2 DEF Kept, Books, Untouched
<1>4. DatedRows'
  BY DEF ViewBooks, DatedRows
<1>5. QED
  BY <1>3, <1>4 DEF ViewBooks

LEMMA NothingTouched ==
  ASSUME ViewBooks, UNCHANGED <<day, tables>>, edits' \in 0 .. MaxEdits
  PROVE  ViewBooks'
<1>1. Untouched /\ rates' = rates /\ UNCHANGED <<rows, cases, payments>>
  BY DEF tables, Untouched
<1>2. rates' \in [Advocates -> 0 .. 100]
  BY <1>1 DEF ViewBooks, Books, ScalarsOK
<1>3. QED
  BY <1>1, <1>2, RatesWritten

\* A status an advocate may set is one a case may have.
LEMMA OwnStatusStored ==
  ASSUME ViewBooks, UNCHANGED <<day, edits>>, NEW a, NEW c, NEW status, SetCaseStatus(a, c, status)
  PROVE  ViewBooks'
<1>1. /\ StoreCaseStatus(c, status) /\ status \in {"in_progress", "completed"}
      /\ UNCHANGED <<cats, rows, rules, income, payments, consults, rates, ids>>
  BY DEF SetCaseStatus, AllowedStatus, UpdateCaseStatus
<1>2. Untouched /\ edits' \in 0 .. MaxEdits /\ rates' \in [Advocates -> 0 .. 100]
  BY <1>1 DEF Untouched, ViewBooks, Books, ScalarsOK
<1>3. CASE c \notin DOMAIN cases
  <2>1. cases' = cases
    <3>1. cases \in [DOMAIN cases -> CaseRow]
      BY DEF ViewBooks, Books, RecordsOK
    <3>2. QED
      BY <1>1, <1>3, <3>1 DEF StoreCaseStatus
  <2>2. QED
    BY <1>1, <1>2, <2>1, RatesWritten
<1>4. CASE c \in DOMAIN cases
  <2>1. ScalarsOK' /\ Steady /\ ids \in Nat /\ day \in Nat /\ RecordsOK /\ PaidIsLedger
    BY <1>2, UntouchedSteady DEF ViewBooks
  <2>2. RecordsOK' /\ PaidIsLedger' /\ MoneyFollows
    BY <1>1, <1>2, <1>4, <2>1, StatusWritten DEF Untouched
  <2>3. Kept
    BY <2>1, LeftAlone DEF ViewBooks
  <2>4. Books'
    BY <1>1, <2>1, <2>2, <2>3 DEF Kept, Books
  <2>5. DatedRows'
    BY <1>1 DEF ViewBooks, DatedRows
  <2>6. QED
    BY <2>4, <2>5 DEF ViewBooks
<1>5. QED
  BY <1>3, <1>4

LEMMA HandledBooks ==
  ASSUME ViewBooks, UNCHANGED <<day, edits>>, NEW r, Handled(r)
  PROVE  ViewBooks'
<1>1. edits' \in 0 .. MaxEdits
  BY DEF ViewBooks, Books, ScalarsOK
<1>2. CASE SetMyCaseStatus(r)
  BY <1>2, OwnStatusStored DEF SetMyCaseStatus
<1>3. CASE AddMyClientNote(r) \/ CreateApiToken(r) \/ DeleteApiToken(r) \/ SubmitClientRequest(r)
  <2>1. UNCHANGED tables
    BY <1>3 DEF AddMyClientNote, AddNote, InsertNote, CreateApiToken, DeleteApiToken, SubmitClientRequest
  <2>2. QED
    BY <1>1, <2>1, NothingTouched
<1>4. CASE PutAdvocateRate(r)
  <2>1. PICK a, percent : ValidRate(percent) /\ StoreRate(a, percent)
    BY <1>4 DEF PutAdvocateRate
  <2>2. rates' \in [Advocates -> 0 .. 100]
    BY <2>1 DEF ViewBooks, Books, ScalarsOK, ValidRate, StoreRate
  <2>3. Untouched /\ UNCHANGED <<rows, cases, payments>>
    BY <1>4 DEF PutAdvocateRate, Untouched
  <2>4. QED
    BY <1>1, <2>2, <2>3, RatesWritten
<1>5. QED
  BY <1>2, <1>3, <1>4 DEF Handled

LEMMA MoneyBooks ==
  ASSUME ViewBooks, Money
  PROVE  ViewBooks'
<1>1. StepOK
  BY SaveCaseStep, PayStep, SetAdvocateRateStep, CreateExpenseStep, ConfirmExpenseStep,
     DeleteExpenseStep DEF Money, ViewBooks
<1>2. Books'
  BY <1>1 DEF StepOK, Books
<1>3. DatedRows'
  <2>1. CASE SaveCase \/ Pay \/ SetAdvocateRate
    BY <2>1 DEF SaveCase, Pay, SetAdvocateRate, ViewBooks, DatedRows
  <2>2. CASE CreateExpense
    <3>1. PICK d \in Days, amount \in Amounts, cat \in Picked : InsertExpense(Manual(d, amount, cat))
      BY <2>2 DEF CreateExpense
    <3>2. PICK e : e = Manual(d, amount, cat)
      OBVIOUS
    <3>3. e.day = d
      BY <3>2 DEF Manual, Expense
    <3>4. rows' = Put(rows, FreshId, e)
      BY <3>1, <3>2 DEF InsertExpense
    <3>5. QED
      BY <3>3, <3>4 DEF Put, ViewBooks, DatedRows
  <2>3. CASE ConfirmExpense
    <3>1. PICK i \in DOMAIN rows : rows' = [rows EXCEPT ![i].status = "posted"]
      BY <2>3 DEF ConfirmExpense, ConfirmRow
    <3>2. \A k \in DOMAIN rows' : k \in DOMAIN rows /\ rows'[k].day = rows[k].day
      BY <3>1, RowTyped DEF ViewBooks, Books, RowsOK, ExpenseRow
    <3>3. QED
      BY <3>2 DEF ViewBooks, DatedRows
  <2>4. CASE DeleteExpense
    <3>1. PICK i \in DOMAIN rows : rows' = WithoutExpense(i)
      BY <2>4 DEF DeleteExpense
    <3>2. rows' = [rows EXCEPT ![i].status = "void"] \/ rows' = [k \in DOMAIN rows \ {i} |-> rows[k]]
      BY <3>1 DEF WithoutExpense, VoidRow, DeleteRow, Drop
    <3>3. \A k \in DOMAIN rows' : k \in DOMAIN rows /\ rows'[k].day = rows[k].day
      BY <3>2, RowTyped DEF ViewBooks, Books, RowsOK, ExpenseRow
    <3>4. QED
      BY <3>3 DEF ViewBooks, DatedRows
  <2>5. QED
    BY <2>1, <2>2, <2>3, <2>4 DEF Money
<1>4. QED
  BY <1>2, <1>3 DEF ViewBooks

LEMMA ViewBooksNext ==
  ASSUME ViewBooks, [Next]_vars
  PROVE  ViewBooks'
<1>1. edits \in 0 .. MaxEdits
  BY DEF ViewBooks, Books, ScalarsOK
<1>2. CASE UNCHANGED vars
  BY <1>1, <1>2, NothingTouched DEF vars
<1>3. ASSUME NEW r \in Requests, Present(r) \/ Identify(r) \/ Answer(r)
      PROVE  ViewBooks'
  BY <1>1, <1>3, NothingTouched DEF Present, Identify, Answer
<1>4. ASSUME NEW r \in Requests, Perform(r)
      PROVE  ViewBooks'
  BY <1>4, HandledBooks DEF Perform
<1>5. CASE People
  <2>1. UNCHANGED <<day, tables>>
    BY <1>5 DEF People, StaffStep
  <2>2. edits' \in 0 .. MaxEdits
    BY <1>1, <1>5, LedgerAssumption DEF People, StaffStep
  <2>3. QED
    BY <2>1, <2>2, NothingTouched
<1>6. CASE Money
  BY <1>6, MoneyBooks
<1>7. QED
  BY <1>2, <1>3, <1>4, <1>5, <1>6 DEF Next

\* The books of the second month are books the ledger can be in.
LEMMA ViewBooksInit ==
  ASSUME ViewInit
  PROVE  ViewBooks
<1>1. /\ day = LastDay /\ rules = NoTable /\ income = NoTable /\ consults = NoTable
      /\ cats = [c \in Picked |-> [kind |-> "direct", active |-> TRUE]]
      /\ rates = [a \in Advocates |-> StartPercent] /\ ids = 2 /\ edits \in 0 .. MaxEdits
  BY LedgerAssumption, ViewAssumption DEF ViewInit
<1>2. PICK c \in Clients, a \in Advocates, amount \in Amounts :
          /\ amount > 0 /\ RoundedPercent(amount, StartPercent) > 0
          /\ cases = [k \in {0} |-> [client |-> c, advocate |-> None, name |-> a, fee |-> Fee,
                                    paid |-> amount, status |-> "in_progress", consult |-> 0]]
          /\ payments = {[id |-> 1, case |-> 0, amount |-> amount, paidAt |-> 1, made |-> 1]}
          /\ rows = [i \in {2} |-> Expense(EndOfMonth(1), RoundedPercent(amount, StartPercent), "advocates",
                                           "draft", AdvocatePayoutRef(a, 1), 0, amount)]
  BY DEF ViewInit
<1>3. PICK p, k, e :
          /\ p = [id |-> 1, case |-> 0, amount |-> amount, paidAt |-> 1, made |-> 1]
          /\ k = [client |-> c, advocate |-> None, name |-> a, fee |-> Fee,
                  paid |-> amount, status |-> "in_progress", consult |-> 0]
          /\ e = Expense(EndOfMonth(1), RoundedPercent(amount, StartPercent), "advocates",
                         "draft", AdvocatePayoutRef(a, 1), 0, amount)
  OBVIOUS
<1>4. payments = {p} /\ cases = [j \in {0} |-> k] /\ rows = [i \in {2} |-> e]
  BY <1>2, <1>3
<1>5. amount \in Nat \ {0} /\ 1 \in Days /\ DaysPerMonth \in Days
  <2>1. amount \in Nat \ {0}
    BY <1>2, AmountIsNat
  <2>2. QED
    BY <2>1, LedgerAssumption, ViewAssumption DEF Days
<1>6. p \in PaymentRow /\ p.case = 0 /\ p.id = 1 /\ p.amount = amount
  BY <1>3, <1>5 DEF PaymentRow
<1>7. k \in CaseRow /\ k.paid = amount
  BY <1>3, <1>5, LedgerAssumption DEF CaseRow
<1>8. e \in ExpenseRow /\ e.cat = "advocates" /\ e.day = DaysPerMonth
  <2>1. PICK n : n = RoundedPercent(amount, StartPercent)
    OBVIOUS
  <2>2. n \in Nat \ {0}
    <3>1. StartPercent \in Int /\ amount \in Int
      BY <1>5, LedgerAssumption
    <3>2. n = (2 * amount * StartPercent + 100) \div 200
      BY <2>1 DEF RoundedPercent
    <3>3. n \in Int /\ n > 0
      BY <1>2, <2>1, <3>1, <3>2
    <3>4. QED
      BY <3>3
  <2>3. AdvocatePayoutRef(a, 1) \in Refs
    BY DEF AdvocatePayoutRef, Refs
  <2>4. EndOfMonth(1) = DaysPerMonth /\ DaysPerMonth \in Int
    BY LedgerAssumption DEF EndOfMonth
  <2>5. QED
    BY <1>3, <1>5, <2>1, <2>2, <2>3, <2>4 DEF ExpenseRow, Expense, Codes, Statuses
<1>9. ScalarsOK
  <2>1. cats \in [DOMAIN cats -> [kind: Kinds, active: BOOLEAN]] /\ DOMAIN cats \subseteq Codes
    BY <1>1, PickedIsCode DEF Kinds
  <2>2. rates \in [Advocates -> 0 .. 100] /\ day \in Days /\ ids \in Nat /\ edits \in 0 .. MaxEdits
    BY <1>1, LedgerAssumption DEF Days
  <2>3. QED
    BY <2>1, <2>2 DEF ScalarsOK
<1>10. DOMAIN NoTable = {} /\ \A S : NoTable \in [{} -> S]
  BY DEF NoTable
<1>11. RowsOK /\ DatedRows
  <2>1. rows \in [DOMAIN rows -> ExpenseRow] /\ DOMAIN rows = {2} /\ rows[2] = e
    BY <1>4, <1>8
  <2>2. RefsUnique(rows)
    BY <2>1 DEF RefsUnique
  <2>3. "advocates" \in DOMAIN cats
    BY <1>1, ViewAssumption
  <2>4. DOMAIN rows \subseteq 1 .. ids
    BY <1>1, <2>1
  <2>5. QED
    BY <1>5, <1>8, <2>1, <2>2, <2>3, <2>4 DEF RowsOK, TableOK, DatedRows
<1>12. RulesOK /\ IncomeOK
  BY <1>1, <1>10 DEF RulesOK, IncomeOK, TableOK, RefsUnique
<1>13. RecordsOK
  <2>1. cases \in [DOMAIN cases -> CaseRow] /\ DOMAIN cases = {0}
    BY <1>4, <1>7
  <2>2. payments \subseteq PaymentRow /\ \A q \in payments : q.id <= ids /\ q.case \in DOMAIN cases
    BY <1>1, <1>4, <1>6, <2>1
  <2>3. IsFiniteSet(payments)
    BY <1>4, FS_Singleton
  <2>4. consults \in [DOMAIN consults -> ConsultRow] /\ DOMAIN consults \subseteq 1 .. ids
    BY <1>1, <1>10
  <2>5. DOMAIN cases \subseteq 0 .. ids
    BY <1>1, <2>1
  <2>6. QED
    BY <2>1, <2>2, <2>3, <2>4, <2>5 DEF RecordsOK
<1>14. PaidIsLedger
  <2>1. PaymentsOn(0) = {p}
    BY <1>4, <1>6 DEF PaymentsOn
  <2>2. AmountSum(PaymentsOn(0)) = amount
    BY <1>6, <2>1, AmountOfOne
  <2>3. DOMAIN cases = {0} /\ cases[0] = k
    BY <1>4
  <2>4. PaidLedger
    BY <1>7, <2>2, <2>3 DEF PaidLedger
  <2>5. QED
    BY <1>13, <2>4, PaidAsSums DEF RecordsOK
<1>15. QED
  BY <1>9, <1>11, <1>12, <1>13, <1>14 DEF ViewBooks, Books

-----------------------------------------------------------------------------
(* What is an advocate's own, in the section and in finance.               *)

LEMMA CallersAdvocate ==
  ASSUME NEW a
  PROVE  Caller(a).advocate = a
  BY DEF Caller, Principal

LEMMA CasesTyped ==
  ASSUME Books
  PROVE  /\ IsFiniteSet(DOMAIN cases) /\ \A c \in DOMAIN cases : cases[c] \in CaseRow
         /\ payments \subseteq PaymentRow /\ \A p \in payments : p.case \in DOMAIN cases
<1>1. /\ IsTable(cases, CaseRow) /\ DOMAIN cases \subseteq 0 .. ids /\ ids \in Nat
      /\ payments \subseteq PaymentRow /\ \A p \in payments : p.case \in DOMAIN cases
  BY Records DEF Books, ScalarsOK
<1>2. IsFiniteSet(0 .. ids)
  <2>1. ids \in Nat
    BY <1>1
  <2>2. QED
    BY <2>1, IdsFinite
<1>3. IsFiniteSet(DOMAIN cases)
  BY <1>1, <1>2, FS_Subset
<1>4. \A c \in DOMAIN cases : cases[c] \in CaseRow
  BY <1>1 DEF IsTable
<1>5. QED
  BY <1>1, <1>3, <1>4

\* The section's link is finance's.
LEMMA OwnedIs ==
  ASSUME Books, NEW a \in Advocates, NEW c \in DOMAIN cases
  PROVE  OwnedCase(a, c) <=> AdvocateOf(c) = a
<1>1. cases[c] \in CaseRow
  BY CasesTyped
<1>2. cases[c].advocate \in Advocates \cup {None} /\ cases[c].name \in Advocates /\ a # None
  BY <1>1, LedgerAssumption DEF CaseRow
<1>3. QED
  BY <1>2 DEF OwnedCase, AdvocateOf

LEMMA OwnCases ==
  ASSUME Books, NEW a \in Advocates
  PROVE  /\ ListCases(a) \subseteq DOMAIN cases /\ IsFiniteSet(ListCases(a))
         /\ \A c \in DOMAIN cases : c \in ListCases(a) <=> AdvocateOf(c) = a
<1>1. ListCases(a) \subseteq DOMAIN cases
  BY DEF ListCases
<1>2. IsFiniteSet(ListCases(a))
  BY <1>1, CasesTyped, FS_Subset
<1>3. \A c \in DOMAIN cases : c \in ListCases(a) <=> AdvocateOf(c) = a
  BY OwnedIs DEF ListCases
<1>4. QED
  BY <1>1, <1>2, <1>3

LEMMA OwnPayments ==
  ASSUME Books, NEW a \in Advocates
  PROVE  /\ PaymentsOf(ListCases(a)) = CollectedBy(a, 1, LastDay)
         /\ PaymentsOf(ListCases(a)) \subseteq payments /\ IsFiniteSet(PaymentsOf(ListCases(a)))
<1>1. PICK L : L = ListCases(a)
  OBVIOUS
<1>2. \A c \in DOMAIN cases : c \in L <=> AdvocateOf(c) = a
  BY <1>1, OwnCases
<1>3. \A p \in payments : p.case \in DOMAIN cases /\ p.paidAt \in 1 .. LastDay
  BY CasesTyped DEF PaymentRow, Days
<1>4. PaymentsOf(L) = CollectedBy(a, 1, LastDay)
  BY <1>2, <1>3 DEF PaymentsOf, CollectedBy
<1>5. PaymentsOf(L) \subseteq payments
  BY DEF PaymentsOf
<1>6. IsFiniteSet(PaymentsOf(L))
  BY <1>5, TablesFinite, FS_Subset
<1>7. QED
  BY <1>1, <1>4, <1>5, <1>6

\* The section has no window; the ledger's days are all in the widest one.
LEMMA OwnPayouts ==
  ASSUME ViewBooks, NEW a \in Advocates
  PROVE  PaidOut(a) = PaidTo(a, 1, LastDay)
<1>1. \A i \in Posted : rows[i].day \in 1 .. LastDay
  BY DEF Posted, ViewBooks, DatedRows, Days
<1>2. PICK S, T : /\ S = {i \in Posted : rows[i].cat = "advocates" /\ Attributed(i) /\ rows[i].ref[2] = a}
                  /\ T = {i \in PeopleRows(1, LastDay) : Attributed(i) /\ rows[i].ref[2] = a}
  OBVIOUS
<1>3. S = T
  BY <1>1, <1>2 DEF PeopleRows
<1>4. PaidOut(a) = Total(RowAmount, S) /\ PaidTo(a, 1, LastDay) = Total(RowAmount, T)
  BY <1>2 DEF PaidOut, PaidTo
<1>5. QED
  BY <1>3, <1>4

\* The months' collections, and what they come to.
LEMMA MonthsAre ==
  ASSUME Books, NEW a \in Advocates, NEW f, f = CollectionsByMonth(a)
  PROVE  /\ IsFiniteSet(DOMAIN f) /\ \A m \in DOMAIN f : f[m] \in Nat
         /\ SumOf(f, DOMAIN f) = Total(AmountOf, CollectedBy(a, 1, LastDay))
         /\ CollectedBy(a, 1, LastDay) = {} => DOMAIN f = {}
<1>1. PICK P : P = PaymentsOf(ListCases(a))
  OBVIOUS
<1>2. P = CollectedBy(a, 1, LastDay) /\ P \subseteq payments /\ IsFiniteSet(P)
  BY <1>1, OwnPayments
<1>3. PICK h : h = [p \in P |-> MonthOf(p.paidAt)]
  OBVIOUS
<1>4. PICK D : D = {h[p] : p \in P}
  OBVIOUS
<1>5. IsFiniteSet(D) /\ \A p \in P : h[p] \in D
  BY <1>2, <1>4, ImageFinite
<1>6. D = {MonthOf(p.paidAt) : p \in P} /\ \A m : Having(P, h, m) = {p \in P : MonthOf(p.paidAt) = m}
  BY <1>3, <1>4 DEF Having
<1>7. f = [m \in D |-> Total(AmountOf, Having(P, h, m))]
  BY <1>1, <1>6 DEF CollectionsByMonth
<1>8. ASSUME NEW m \in D
      PROVE  f[m] = SumOf(PaymentAmounts, Having(P, h, m)) /\ f[m] \in Nat
  <2>1. PICK H : H = Having(P, h, m)
    OBVIOUS
  <2>2. H \subseteq P
    BY <2>1 DEF Having
  <2>3. IsFiniteSet(H) /\ H \subseteq payments /\ \A p \in H : PaymentAmounts[p] \in Nat
    BY <1>2, <2>2, TablesTyped, FS_Subset
  <2>4. Total(AmountOf, H) = SumOf(PaymentAmounts, H) /\ SumOf(PaymentAmounts, H) \in Nat
    BY <2>3, TotalOfPayments, SumNat
  <2>5. QED
    BY <1>7, <2>1, <2>4
<1>9. SumOf(PaymentAmounts, P) = SumOf(f, D)
  <2>1. \A p \in P : PaymentAmounts[p] \in Int /\ h[p] \in D
    BY <1>2, <1>5, TablesTyped
  <2>2. \A m \in D : f[m] = SumOf(PaymentAmounts, Having(P, h, m))
    BY <1>8
  <2>3. QED
    BY <1>2, <1>5, <2>1, <2>2, SumOfParts
<1>10. Total(AmountOf, P) = SumOf(PaymentAmounts, P)
  BY <1>2, TotalOfPayments
<1>11. DOMAIN f = D /\ (P = {} => D = {})
  BY <1>4, <1>7
<1>12. QED
  BY <1>2, <1>5, <1>8, <1>9, <1>10, <1>11

-----------------------------------------------------------------------------
(* What rounding each month by itself may move.                            *)

Times(p, x) == p * x

\* Half away from zero is off by half a kopiyka at most.
RoundsTo(y, u) == y \in Nat /\ u \in Nat /\ 200 * y <= 2 * u + 100 /\ 2 * u + 100 < 200 * y + 200

LEMMA RoundedBounds ==
  ASSUME NEW x \in Nat, NEW p \in 0 .. 100
  PROVE  RoundsTo(RoundedPercent(x, p), Times(p, x))
<1>1. PICK n \in Nat : n = p * x
  OBVIOUS
<1>2. 2 * x * p = 2 * n
  BY <1>1
<1>3. PICK q \in Int : q = (2 * n + 100) \div 200
  OBVIOUS
<1>4. RoundedPercent(x, p) = q /\ Times(p, x) = n
  BY <1>1, <1>2, <1>3 DEF RoundedPercent, Times
<1>5. q \in Nat /\ 200 * q <= 2 * n + 100 /\ 2 * n + 100 < 200 * q + 200
  BY <1>3
<1>6. QED
  BY <1>1, <1>4, <1>5 DEF RoundsTo

\* Of a sum rounded term by term: half a kopiyka a term.
NearTo(y, u, n) == 200 * y <= 2 * u + 100 * n /\ 2 * u <= 200 * y + 100 * n

LEMMA SumRounded ==
  ASSUME NEW S, IsFiniteSet(S), NEW p \in 0 .. 100, NEW f, NEW g,
         \A x \in S : f[x] \in Nat /\ g[x] = RoundedPercent(f[x], p)
  PROVE  NearTo(SumOf(g, S), Times(p, SumOf(f, S)), Cardinality(S))
<1> DEFINE Near(T) == NearTo(SumOf(g, T), Times(p, SumOf(f, T)), Cardinality(T))
           G == {T \in SUBSET S : Near(T)}
<1>1. ASSUME NEW T \in SUBSET S, \A U \in SUBSET T : U # T => U \in G
      PROVE  T \in G
  <2>1. CASE T = {}
    <3>1. SumOf(f, T) = 0 /\ SumOf(g, T) = 0 /\ Cardinality(T) = 0 /\ Times(p, 0) = 0
      BY <2>1, SumEmpty, FS_EmptySet DEF Times
    <3>2. QED
      BY <3>1 DEF NearTo
  <2>2. CASE T # {}
    <3>1. PICK y \in T : y = Chosen(T)
      BY <2>2, ChosenIn
    <3>2. PICK U : U = T \ {y}
      OBVIOUS
    <3>3. IsFiniteSet(T) /\ IsFiniteSet(U) /\ U \in SUBSET T /\ U # T
      BY <3>1, <3>2, FS_Subset
    <3>4. Cardinality(U) = Cardinality(T) - 1 /\ Cardinality(T) \in Nat
      BY <3>1, <3>2, <3>3, FS_RemoveElement, FS_CardinalityType
    <3>5. PICK a \in Nat : a = f[y]
      BY <3>1
    <3>51. PICK u : u = Times(p, a)
      OBVIOUS
    <3>52. u \in Nat /\ g[y] \in Nat /\ 200 * g[y] <= 2 * u + 100 /\ 2 * u + 100 < 200 * g[y] + 200
      <4>1. g[y] = RoundedPercent(a, p)
        BY <3>1, <3>5
      <4>2. RoundsTo(RoundedPercent(a, p), Times(p, a))
        BY RoundedBounds
      <4>3. QED
        BY <3>51, <4>1, <4>2 DEF RoundsTo
    <3>6. SumOf(f, T) = f[y] + SumOf(f, U) /\ SumOf(g, T) = g[y] + SumOf(g, U)
      BY <2>2, <3>1, <3>2, <3>3, SumGoesOn
    <3>7. \A x \in U : f[x] \in Nat /\ g[x] \in Nat
      <4>1. ASSUME NEW x \in U PROVE g[x] \in Nat
        <5>1. PICK b \in Nat : b = f[x]
          BY <3>3
        <5>2. RoundsTo(RoundedPercent(b, p), Times(p, b))
          BY RoundedBounds
        <5>3. g[x] = RoundedPercent(b, p)
          BY <3>3, <5>1
        <5>4. QED
          BY <5>2, <5>3 DEF RoundsTo
      <4>2. QED
        BY <3>3, <4>1
    <3>8. SumOf(f, U) \in Nat /\ SumOf(g, U) \in Nat
      BY <3>3, <3>7, SumNat
    <3>9. Near(U)
      BY <1>1, <3>3
    <3>10. PICK m \in Nat, n \in Nat, b \in Nat, k \in Nat :
               m = SumOf(f, U) /\ n = SumOf(g, U) /\ b = g[y] /\ k = Cardinality(T)
      BY <3>4, <3>8, <3>52
    <3>11. PICK v : v = Times(p, m)
      OBVIOUS
    <3>12. Times(p, a + m) = u + v /\ v \in Nat
      <4>1. Times(p, a + m) = Times(p, a) + Times(p, m)
        BY <3>5, <3>10 DEF Times
      <4>2. Times(p, m) \in Nat
        <5>1. RoundsTo(RoundedPercent(m, p), Times(p, m))
          BY RoundedBounds
        <5>2. QED
          BY <5>1 DEF RoundsTo
      <4>3. QED
        BY <3>51, <3>11, <4>1, <4>2
    <3>13. /\ 200 * b <= 2 * u + 100 /\ 2 * u <= 200 * b + 100
           /\ 200 * n <= 2 * v + 100 * (k - 1) /\ 2 * v <= 200 * n + 100 * (k - 1)
      BY <3>4, <3>52, <3>9, <3>10, <3>11, <3>12 DEF NearTo
    <3>14. /\ 200 * (b + n) <= 2 * (u + v) + 100 * k
           /\ 2 * (u + v) <= 200 * (b + n) + 100 * k
      BY <3>10, <3>12, <3>52, <3>13
    <3>15. SumOf(f, T) = a + m /\ SumOf(g, T) = b + n
      BY <3>5, <3>6, <3>10
    <3>16. Near(T)
      BY <3>10, <3>12, <3>14, <3>15 DEF NearTo
    <3>17. QED
      BY <3>16
  <2>3. QED
    BY <2>1, <2>2
<1>2. S \in G
  <2> HIDE DEF G
  <2>1. \A T \in SUBSET S : T \in G
    BY <1>1, FiniteInduct
  <2>2. QED
    BY <2>1
<1>3. QED
  BY <1>2

LEMMA AccruedApart ==
  ASSUME NEW S, IsFiniteSet(S), NEW p \in 0 .. 100, NEW f, NEW g,
         \A x \in S : f[x] \in Nat /\ g[x] = RoundedPercent(f[x], p)
  PROVE  /\ SumOf(g, S) \in Nat
         /\ 2 * Apart(SumOf(g, S), RoundedPercent(SumOf(f, S), p)) <= Cardinality(S) + 1
<1>1. SumOf(f, S) \in Nat
  BY SumNat
<1>2. ASSUME NEW y \in S PROVE g[y] \in Nat
  <2>1. PICK b \in Nat : b = f[y]
    OBVIOUS
  <2>2. RoundsTo(RoundedPercent(b, p), Times(p, b))
    BY RoundedBounds
  <2>3. g[y] = RoundedPercent(b, p)
    BY <2>1
  <2>4. QED
    BY <2>2, <2>3 DEF RoundsTo
<1>3. SumOf(g, S) \in Nat /\ Cardinality(S) \in Nat
  BY <1>2, SumNat, FS_CardinalityType
<1>31. PICK n \in Nat, x \in Nat, k \in Nat : n = SumOf(f, S) /\ x = SumOf(g, S) /\ k = Cardinality(S)
  BY <1>1, <1>3
<1>32. PICK u : u = Times(p, n)
  OBVIOUS
<1>4. PICK y : y = RoundedPercent(n, p)
  OBVIOUS
<1>5. u \in Nat /\ y \in Nat /\ 200 * y <= 2 * u + 100 /\ 2 * u + 100 < 200 * y + 200
  <2>1. RoundsTo(RoundedPercent(n, p), Times(p, n))
    BY RoundedBounds
  <2>2. QED
    BY <1>32, <1>4, <2>1 DEF RoundsTo
<1>6. 200 * x <= 2 * u + 100 * k /\ 2 * u <= 200 * x + 100 * k
  <2>1. NearTo(SumOf(g, S), Times(p, SumOf(f, S)), Cardinality(S))
    BY SumRounded
  <2>2. QED
    BY <1>31, <1>32, <2>1 DEF NearTo
<1>7. 2 * Apart(x, y) <= k + 1
  BY <1>31, <1>5, <1>6 DEF Apart
<1>8. QED
  BY <1>3, <1>31, <1>4, <1>7

\* The advocate's settlement, from what the months collected.
LEMMA SettlementSums ==
  ASSUME Books, NEW a \in Advocates, NEW f, NEW paid, IsFiniteSet(DOMAIN f),
         \A m \in DOMAIN f : f[m] \in Nat
  PROVE  /\ NewSettlement(a, f, paid).collected = SumOf(f, DOMAIN f)
         /\ NewSettlement(a, f, paid).paid = paid
         /\ DOMAIN NewSettlement(a, f, paid).months = DOMAIN f
         /\ 2 * Apart(NewSettlement(a, f, paid).accrued, RoundedPercent(SumOf(f, DOMAIN f), rates[a]))
               <= Cardinality(DOMAIN f) + 1
<1>1. PICK p \in 0 .. 100 : p = rates[a]
  BY DEF Books, ScalarsOK
<1>2. PICK D : D = DOMAIN f
  OBVIOUS
<1>3. PICK w, g, k : /\ w = AccrueMonths(f, p)
                     /\ g = [m \in D |-> w[m].accrued] /\ k = [m \in D |-> w[m].collected]
  OBVIOUS
<1>4. DOMAIN w = D /\ \A m \in D : w[m].accrued = RoundedPercent(f[m], p) /\ w[m].collected = f[m]
  BY <1>2, <1>3 DEF AccrueMonths
<1>5. \A m \in D : f[m] \in Nat /\ g[m] = RoundedPercent(f[m], p) /\ k[m] \in Int /\ k[m] = f[m]
  BY <1>2, <1>3, <1>4
<1>6. PICK s : s = NewSettlement(a, f, paid)
  OBVIOUS
<1>7. /\ s.collected = SumFunction(k) /\ s.accrued = SumFunction(g) /\ s.paid = paid /\ s.months = w
  BY <1>1, <1>3, <1>4, <1>6 DEF NewSettlement, Total
<1>8. DOMAIN k = D /\ DOMAIN g = D
  BY <1>3
<1>9. SumFunction(k) = SumOf(f, D)
  BY <1>2, <1>5, <1>8, TermsSum
<1>10. SumFunction(g) = SumOf(g, D)
  BY <1>2, <1>8, SumFunctionIs
<1>11. 2 * Apart(SumOf(g, D), RoundedPercent(SumOf(f, D), p)) <= Cardinality(D) + 1
  BY <1>2, <1>5, AccruedApart
<1>12. QED
  BY <1>1, <1>2, <1>4, <1>6, <1>7, <1>9, <1>10, <1>11

-----------------------------------------------------------------------------
(* The advocate's settlement beside the firm's.                            *)

LEMMA FirmsAccrual ==
  ASSUME NEW from, NEW to
  PROVE  /\ \A x \in SettlementRows(from, to) :
                x.accrued = IF CollectedBy(x.advocate, from, to) = {} THEN 0
                            ELSE RoundedPercent(Total(AmountOf, CollectedBy(x.advocate, from, to)),
                                                rates[x.advocate])
         /\ \A a \in Advocates : CollectedBy(a, from, to) # {} \/ PaidTo(a, from, to) # 0 =>
                \E x \in SettlementRows(from, to) : x.advocate = a
<1> DEFINE of(a) == [advocate |-> a, collected |-> Total(AmountOf, CollectedBy(a, from, to)),
                     percent |-> rates[a]]
           row(a) == AdvocateSettlement(of(a), PaidTo(a, from, to))
           only(a) == [advocate |-> a, accrued |-> 0, paid |-> PaidTo(a, from, to),
                       outstanding |-> -PaidTo(a, from, to)]
           A == {b \in Advocates : CollectedBy(b, from, to) # {}}
           B == PaidOnly(from, to)
           S == SettlementRows(from, to)
<1>1. \A a : /\ of(a).advocate = a /\ of(a).percent = rates[a]
             /\ of(a).collected = Total(AmountOf, CollectedBy(a, from, to))
  OBVIOUS
<1>2. \A c, p : /\ AdvocateSettlement(c, p).advocate = c.advocate
                /\ AdvocateSettlement(c, p).accrued = RoundedPercent(c.collected, c.percent)
  BY DEF AdvocateSettlement
<1>3. \A a : /\ row(a).advocate = a
             /\ row(a).accrued = RoundedPercent(Total(AmountOf, CollectedBy(a, from, to)), rates[a])
  <2> HIDE DEF of
  <2>1. QED
    BY <1>1, <1>2
<1>4. \A a : only(a).advocate = a /\ only(a).accrued = 0
  OBVIOUS
<1>5. \A x : x \in S <=> (\E a \in A : x = row(a)) \/ (\E a \in B : x = only(a))
  <2>1. \A c : c \in AdvocateCollections(from, to) <=> \E a \in A : c = of(a)
    BY DEF AdvocateCollections
  <2>2. \A x : x \in S <=> \/ \E c \in AdvocateCollections(from, to) :
                                  x = AdvocateSettlement(c, PaidTo(c.advocate, from, to))
                           \/ \E a \in B : x = only(a)
    BY DEF SettlementRows
  <2> HIDE DEF of, only, A, B, S
  <2>3. QED
    BY <1>1, <2>1, <2>2
<1>6. /\ \A a \in A : CollectedBy(a, from, to) # {}
      /\ \A a \in B : CollectedBy(a, from, to) = {}
      /\ \A a \in Advocates : CollectedBy(a, from, to) # {} \/ PaidTo(a, from, to) # 0 => a \in A \/ a \in B
  BY DEF PaidOnly
<1> HIDE DEF of, row, only, A, B, S
<1>7. ASSUME NEW x \in S
      PROVE  x.accrued = IF CollectedBy(x.advocate, from, to) = {} THEN 0
                         ELSE RoundedPercent(Total(AmountOf, CollectedBy(x.advocate, from, to)),
                                             rates[x.advocate])
  <2>1. CASE \E a \in A : x = row(a)
    BY <1>3, <1>6, <2>1
  <2>2. CASE \E a \in B : x = only(a)
    BY <1>4, <1>6, <2>2
  <2>3. QED
    BY <1>5, <2>1, <2>2
<1>8. \A a \in Advocates : CollectedBy(a, from, to) # {} \/ PaidTo(a, from, to) # 0 =>
          \E x \in S : x.advocate = a
  BY <1>3, <1>4, <1>5, <1>6
<1>9. QED
  BY <1>7, <1>8 DEF S

LEMMA OwnSums ==
  ASSUME ViewBooks, NEW a \in Advocates, NEW own, own = GetMySettlement(Caller(a))
  PROVE  /\ own.collected = Total(AmountOf, CollectedBy(a, 1, LastDay)) /\ own.collected \in Nat
         /\ own.paid = PaidTo(a, 1, LastDay)
         /\ CollectedBy(a, 1, LastDay) = {} => own.collected = 0 /\ own.accrued = 0
         /\ 2 * Apart(own.accrued, RoundedPercent(own.collected, rates[a]))
               <= Cardinality(DOMAIN own.months) + 1
<1>1. a # None /\ Caller(a).advocate = a
  BY CallersAdvocate, LedgerAssumption
<1>2. PICK f, paid : f = CollectionsByMonth(a) /\ paid = PaidOut(a)
  OBVIOUS
<1>3. own = NewSettlement(a, f, paid)
  BY <1>1, <1>2 DEF GetMySettlement, OwnSettlement
<1>4. Books
  BY DEF ViewBooks
<1>5. /\ IsFiniteSet(DOMAIN f) /\ \A m \in DOMAIN f : f[m] \in Nat
      /\ SumOf(f, DOMAIN f) = Total(AmountOf, CollectedBy(a, 1, LastDay))
      /\ CollectedBy(a, 1, LastDay) = {} => DOMAIN f = {}
  BY <1>2, <1>4, MonthsAre
<1>6. /\ own.collected = SumOf(f, DOMAIN f) /\ own.paid = paid /\ DOMAIN own.months = DOMAIN f
      /\ 2 * Apart(own.accrued, RoundedPercent(SumOf(f, DOMAIN f), rates[a])) <= Cardinality(DOMAIN f) + 1
  BY <1>3, <1>4, <1>5, SettlementSums
<1>7. SumOf(f, DOMAIN f) \in Nat
  BY <1>5, SumNat
<1>8. paid = PaidTo(a, 1, LastDay)
  BY <1>2, OwnPayouts
<1>9. ASSUME DOMAIN f = {}
      PROVE  own.collected = 0 /\ own.accrued = 0
  <2>1. own.collected = 0
    BY <1>6, <1>9, SumEmpty
  <2>2. own.accrued = 0
    <3>1. PICK g : g = [m \in DOMAIN f |-> AccrueMonths(f, rates[a])[m].accrued]
      OBVIOUS
    <3>2. own.accrued = SumFunction(g)
      BY <1>3, <3>1 DEF NewSettlement, Total, AccrueMonths
    <3>3. DOMAIN g = {} /\ IsFiniteSet({})
      BY <1>9, <3>1, FS_EmptySet
    <3>4. QED
      BY <3>2, <3>3, SumFunctionIs, SumEmpty
  <2>3. QED
    BY <2>1, <2>2
<1>10. QED
  BY <1>5, <1>6, <1>7, <1>8, <1>9

LEMMA Agreed ==
  ASSUME ViewBooks
  PROVE  SettlementsAgree
<1> SUFFICES ASSUME NEW a \in Advocates
             PROVE  LET own == GetMySettlement(Caller(a))
                        firm == {s \in SettlementRows(1, LastDay) : s.advocate = a}
                    IN  /\ own.collected = Total(AmountOf, CollectedBy(a, 1, LastDay))
                        /\ own.paid = PaidTo(a, 1, LastDay)
                        /\ own.collected + own.paid > 0 => firm # {}
                        /\ \A s \in firm :
                              2 * Apart(own.accrued, s.accrued) <= Cardinality(DOMAIN own.months) + 1
  BY DEF SettlementsAgree
<1>1. PICK own, firm, P : /\ own = GetMySettlement(Caller(a)) /\ P = CollectedBy(a, 1, LastDay)
                          /\ firm = {s \in SettlementRows(1, LastDay) : s.advocate = a}
  OBVIOUS
<1>2. /\ own.collected = Total(AmountOf, P) /\ own.collected \in Nat
      /\ own.paid = PaidTo(a, 1, LastDay)
      /\ P = {} => own.collected = 0 /\ own.accrued = 0
      /\ 2 * Apart(own.accrued, RoundedPercent(own.collected, rates[a]))
            <= Cardinality(DOMAIN own.months) + 1
  BY <1>1, OwnSums
<1>3. own.collected + own.paid > 0 => firm # {}
  <2>1. own.collected + own.paid > 0 => P # {} \/ PaidTo(a, 1, LastDay) # 0
    BY <1>2
  <2>2. P # {} \/ PaidTo(a, 1, LastDay) # 0 => \E x \in SettlementRows(1, LastDay) : x.advocate = a
    BY <1>1, FirmsAccrual
  <2>3. QED
    BY <1>1, <2>1, <2>2
<1>4. ASSUME NEW s \in firm
      PROVE  2 * Apart(own.accrued, s.accrued) <= Cardinality(DOMAIN own.months) + 1
  <2>1. s \in SettlementRows(1, LastDay) /\ s.advocate = a
    BY <1>1
  <2>2. s.accrued = IF P = {} THEN 0 ELSE RoundedPercent(Total(AmountOf, P), rates[a])
    BY <1>1, <2>1, FirmsAccrual
  <2>3. CASE P # {}
    BY <1>2, <2>2, <2>3
  <2>4. CASE P = {}
    <3>1. RoundedPercent(0, rates[a]) = 0
      <4>1. PICK p \in 0 .. 100 : p = rates[a]
        BY DEF ViewBooks, Books, ScalarsOK
      <4>2. 2 * 0 * p + 100 = 100 /\ 100 \div 200 = 0
        BY <4>1
      <4>3. QED
        BY <4>1, <4>2 DEF RoundedPercent
    <3>2. own.accrued = 0 /\ own.collected = 0 /\ s.accrued = 0
      BY <1>2, <2>2, <2>4
    <3>3. QED
      BY <1>2, <3>1, <3>2
  <2>5. QED
    BY <2>3, <2>4
<1>5. QED
  BY <1>1, <1>2, <1>3, <1>4

-----------------------------------------------------------------------------
(* The pages of the section.                                               *)

Fees == [c \in DOMAIN cases |-> cases[c].fee]

Paids == [c \in DOMAIN cases |-> cases[c].paid]

Oweds == [c \in DOMAIN cases |-> Owed(c)]

LEMMA CaseAmounts ==
  ASSUME Books, NEW c \in DOMAIN cases
  PROVE  /\ Fees[c] \in Nat /\ Paids[c] \in Nat /\ Oweds[c] \in Nat
         /\ Fees[c] <= Paids[c] + Oweds[c]
         /\ Fees[c] = FeeOf(c) /\ Paids[c] = PaidOn(c) /\ Oweds[c] = Owed(c)
<1>1. cases[c].fee \in Nat /\ cases[c].paid \in Nat
  BY CasesTyped DEF CaseRow
<1>2. Fees[c] = FeeOf(c) /\ Paids[c] = PaidOn(c) /\ Oweds[c] = Owed(c)
  BY DEF Fees, Paids, Oweds, FeeOf, PaidOn
<1>3. QED
  BY <1>1, <1>2 DEF FeeOf, PaidOn, Owed

LEMMA TotalOfCases ==
  ASSUME Books, NEW S, S \subseteq DOMAIN cases
  PROVE  /\ Total(FeeOf, S) = SumOf(Fees, S) /\ SumOf(Fees, S) \in Nat
         /\ Total(PaidOn, S) = SumOf(Paids, S) /\ SumOf(Paids, S) \in Nat
         /\ Total(Owed, S) = SumOf(Oweds, S) /\ SumOf(Oweds, S) \in Nat
         /\ SumOf(Fees, S) <= SumOf(Paids, S) + SumOf(Oweds, S)
<1>1. IsFiniteSet(S)
  BY CasesTyped, FS_Subset
<1>2. \A c \in S : /\ Fees[c] \in Nat /\ Paids[c] \in Nat /\ Oweds[c] \in Nat
                   /\ Fees[c] <= Paids[c] + Oweds[c]
                   /\ Fees[c] = FeeOf(c) /\ Paids[c] = PaidOn(c) /\ Oweds[c] = Owed(c)
  BY CaseAmounts
<1> DEFINE fees == [c \in S |-> FeeOf(c)]
           paids == [c \in S |-> PaidOn(c)]
           oweds == [c \in S |-> Owed(c)]
<1>3. /\ Total(FeeOf, S) = SumFunction(fees) /\ Total(PaidOn, S) = SumFunction(paids)
      /\ Total(Owed, S) = SumFunction(oweds)
      /\ DOMAIN fees = S /\ DOMAIN paids = S /\ DOMAIN oweds = S
  BY DEF Total
<1>4. \A c \in S : /\ fees[c] \in Int /\ fees[c] = Fees[c] /\ paids[c] \in Int /\ paids[c] = Paids[c]
                   /\ oweds[c] \in Int /\ oweds[c] = Oweds[c]
  BY <1>2
<1> HIDE DEF fees, paids, oweds
<1>5. SumFunction(fees) = SumOf(Fees, S)
  BY <1>1, <1>3, <1>4, TermsSum
<1>6. SumFunction(paids) = SumOf(Paids, S)
  BY <1>1, <1>3, <1>4, TermsSum
<1>7. SumFunction(oweds) = SumOf(Oweds, S)
  BY <1>1, <1>3, <1>4, TermsSum
<1>8. SumOf(Fees, S) \in Nat /\ SumOf(Paids, S) \in Nat /\ SumOf(Oweds, S) \in Nat
  BY <1>1, <1>2, SumNat
<1>9. SumOf(Fees, S) <= SumOf(Paids, S) + SumOf(Oweds, S)
  <2>1. \A c \in S : Fees[c] \in Int /\ Paids[c] \in Int /\ Oweds[c] \in Int /\ Fees[c] <= Paids[c] + Oweds[c]
    BY <1>2
  <2>2. QED
    BY <1>1, <2>1, SumsFall
<1>10. QED
  BY <1>3, <1>5, <1>6, <1>7, <1>8, <1>9

\* A client's cases among some, and the line they make.
His(L, c) == {k \in L : cases[k].client = c}

LineFor(L, c) ==
    [client |-> c, cases |-> Cardinality(His(L, c)),
     fee |-> Total(FeeOf, His(L, c)), paid |-> Total(PaidOn, His(L, c))]

LinesOf(L) == {LineFor(L, cases[k].client) : k \in L}

LEMMA LinesAre ==
  ASSUME NEW a
  PROVE  ListClients(a) = LinesOf(ListCases(a))
  BY DEF ListClients, LinesOf, LineFor, His

\* The lines are apart by client, so each case is in one of them.
LEMMA LinesSum ==
  ASSUME Books, NEW L, L \subseteq DOMAIN cases, IsFiniteSet(L),
         NEW list, list = LinesOf(L)
  PROVE  /\ Total(LAMBDA l : l.fee, list) = Total(FeeOf, L)
         /\ Total(LAMBDA l : l.paid, list) = Total(PaidOn, L)
         /\ Total(LAMBDA l : l.owed, {CardOf(l) : l \in list}) <= Total(Owed, L)
<1> DEFINE h == [k \in L |-> LineFor(L, cases[k].client)]
           g == [l \in list |-> l.fee]
           w == [l \in list |-> l.paid]
<1>1. list = {h[k] : k \in L} /\ \A k \in L : h[k] \in list
  BY DEF LinesOf
<1>2. IsFiniteSet(list)
  <2>1. PICK m : m = h
    OBVIOUS
  <2>2. list = {m[k] : k \in L}
    BY <1>1, <2>1
  <2> HIDE DEF h
  <2>3. QED
    BY <2>2, ImageFinite
<1>3. \A c : /\ LineFor(L, c).client = c /\ LineFor(L, c).fee = Total(FeeOf, His(L, c))
             /\ LineFor(L, c).paid = Total(PaidOn, His(L, c))
  BY DEF LineFor
<1>4. ASSUME NEW l \in list
      PROVE  /\ l = LineFor(L, l.client) /\ Having(L, h, l) = His(L, l.client)
             /\ g[l] = SumOf(Fees, Having(L, h, l)) /\ w[l] = SumOf(Paids, Having(L, h, l))
  <2>1. PICK k \in L : l = LineFor(L, cases[k].client)
    BY DEF LinesOf
  <2>2. l.client = cases[k].client
    BY <1>3, <2>1
  <2>3. l = LineFor(L, l.client)
    BY <2>1, <2>2
  <2>4. \A j \in L : h[j] = l <=> cases[j].client = l.client
    BY <1>3, <2>3
  <2>5. PICK H : H = His(L, l.client)
    OBVIOUS
  <2>6. Having(L, h, l) = H
    BY <2>4, <2>5 DEF Having, His
  <2>7. H \subseteq DOMAIN cases
    BY <2>5 DEF His
  <2>8. g[l] = Total(FeeOf, H) /\ w[l] = Total(PaidOn, H)
    BY <1>3, <2>3, <2>5
  <2>9. g[l] = SumOf(Fees, H) /\ w[l] = SumOf(Paids, H)
    BY <2>7, <2>8, TotalOfCases
  <2>10. QED
    BY <2>3, <2>5, <2>6, <2>9
<1>5. Total(LAMBDA l : l.fee, list) = SumFunction(g) /\ Total(LAMBDA l : l.paid, list) = SumFunction(w)
  BY DEF Total
<1>6. DOMAIN g = list /\ DOMAIN w = list
  OBVIOUS
<1>7. \A k \in L : Fees[k] \in Int /\ Paids[k] \in Int /\ Oweds[k] \in Int
  BY CaseAmounts
<1> HIDE DEF h, g, w
<1>8. SumOf(Fees, L) = SumFunction(g)
  <2>1. SumFunction(g) = SumOf(g, list)
    BY <1>2, <1>6, SumFunctionIs
  <2>2. \A k \in L : Fees[k] \in Int /\ h[k] \in list
    BY <1>1, <1>7
  <2>3. \A l \in list : g[l] = SumOf(Fees, Having(L, h, l))
    BY <1>4
  <2>4. SumOf(Fees, L) = SumOf(g, list)
    BY <1>2, <2>2, <2>3, SumOfParts
  <2>5. QED
    BY <2>1, <2>4
<1>9. SumOf(Paids, L) = SumFunction(w)
  <2>1. SumFunction(w) = SumOf(w, list)
    BY <1>2, <1>6, SumFunctionIs
  <2>2. \A k \in L : Paids[k] \in Int /\ h[k] \in list
    BY <1>1, <1>7
  <2>3. \A l \in list : w[l] = SumOf(Paids, Having(L, h, l))
    BY <1>4
  <2>4. SumOf(Paids, L) = SumOf(w, list)
    BY <1>2, <2>2, <2>3, SumOfParts
  <2>5. QED
    BY <2>1, <2>4
<1>10. PICK cards : cards = {CardOf(l) : l \in list}
  OBVIOUS
<1> DEFINE e == [k \in L |-> CardOf(h[k])]
           u == [d \in cards |-> d.owed]
           v == [d \in cards |-> SumOf(Oweds, Having(L, e, d))]
<1>11. cards = {e[k] : k \in L} /\ \A k \in L : e[k] \in cards
  BY <1>1, <1>10
<1>12. IsFiniteSet(cards)
  <2> HIDE DEF e
  <2>1. QED
    BY <1>11, ImageFinite
<1>13. ASSUME NEW d \in cards
       PROVE  u[d] \in Int /\ v[d] \in Int /\ u[d] <= v[d]
  <2>1. PICK l \in list : d = CardOf(l)
    BY <1>10
  <2>2. d.client = l.client /\ d.owed = IF l.fee > l.paid THEN l.fee - l.paid ELSE 0
    BY <2>1 DEF CardOf
  <2>3. PICK H : H = His(L, l.client)
    OBVIOUS
  <2>4. l.fee = SumOf(Fees, H) /\ l.paid = SumOf(Paids, H)
    BY <1>4, <2>3 DEF g, w
  <2>5. H \subseteq DOMAIN cases
    BY <2>3 DEF His
  <2>6. /\ SumOf(Fees, H) \in Nat /\ SumOf(Paids, H) \in Nat /\ SumOf(Oweds, H) \in Nat
        /\ SumOf(Fees, H) <= SumOf(Paids, H) + SumOf(Oweds, H)
    BY <2>5, TotalOfCases
  <2>7. \A k \in L : e[k] = d <=> cases[k].client = l.client
    <3>1. \A k \in L : CardOf(h[k]).client = cases[k].client
      BY <1>3 DEF CardOf, h
    <3>2. \A k \in L : cases[k].client = l.client => h[k] = l
      BY <1>4 DEF h
    <3>3. QED
      BY <2>1, <2>2, <3>1, <3>2
  <2>8. Having(L, e, d) = H
    BY <2>3, <2>7 DEF Having, His
  <2>9. v[d] = SumOf(Oweds, H) /\ u[d] = d.owed
    BY <2>8
  <2>10. PICK x \in Nat, y \in Nat, z \in Nat : x = SumOf(Fees, H) /\ y = SumOf(Paids, H) /\ z = SumOf(Oweds, H)
    BY <2>6
  <2>11. u[d] = (IF x > y THEN x - y ELSE 0) /\ v[d] = z /\ x <= y + z
    BY <2>2, <2>4, <2>6, <2>9, <2>10
  <2>12. QED
    BY <2>10, <2>11
<1>14. Total(LAMBDA l : l.owed, cards) = SumFunction(u) /\ DOMAIN u = cards
  BY DEF Total
<1>15. \A d \in cards : v[d] = SumOf(Oweds, Having(L, e, d))
  OBVIOUS
<1> HIDE DEF e, u, v
<1>16. SumOf(Oweds, L) = SumOf(v, cards)
  <2>1. \A k \in L : Oweds[k] \in Int /\ e[k] \in cards
    BY <1>7, <1>11
  <2>2. QED
    BY <1>12, <1>15, <2>1, SumOfParts
<1>17. SumFunction(u) <= SumOf(v, cards)
  <2>1. SumFunction(u) = SumOf(u, cards)
    BY <1>12, <1>14, SumFunctionIs
  <2>2. SumOf(u, cards) <= SumOf(v, cards)
    BY <1>12, <1>13, SumsCompare
  <2>3. QED
    BY <2>1, <2>2
<1>18. Total(FeeOf, L) = SumOf(Fees, L) /\ Total(PaidOn, L) = SumOf(Paids, L) /\ Total(Owed, L) = SumOf(Oweds, L)
  BY TotalOfCases
<1>19. QED
  BY <1>5, <1>8, <1>9, <1>10, <1>14, <1>16, <1>17, <1>18

-----------------------------------------------------------------------------
(* The pages beside each other.                                            *)

\* What is paid on the cases is what was paid for them.
LEMMA PaidCollected ==
  ASSUME Books, NEW a \in Advocates
  PROVE  Total(PaidOn, ListCases(a)) = Total(AmountOf, CollectedBy(a, 1, LastDay))
<1>1. PICK L, P : L = ListCases(a) /\ P = PaymentsOf(L)
  OBVIOUS
<1>2. L \subseteq DOMAIN cases /\ IsFiniteSet(L)
  BY <1>1, OwnCases
<1>3. P = CollectedBy(a, 1, LastDay) /\ P \subseteq payments /\ IsFiniteSet(P)
  BY <1>1, OwnPayments
<1>4. PICK h : h = [p \in P |-> p.case]
  OBVIOUS
<1>5. \A p \in P : PaymentAmounts[p] \in Int /\ h[p] \in L
  <2>1. \A p \in P : h[p] = p.case /\ p.case \in L
    BY <1>1, <1>4 DEF PaymentsOf
  <2>2. \A p \in P : PaymentAmounts[p] \in Int
    BY <1>3, TablesTyped
  <2>3. QED
    BY <2>1, <2>2
<1>6. ASSUME NEW c \in L
      PROVE  Paids[c] = SumOf(PaymentAmounts, Having(P, h, c))
  <2>1. PICK H : H = PaymentsOn(c)
    OBVIOUS
  <2>2. Having(P, h, c) = H
    BY <1>1, <1>4, <2>1 DEF Having, PaymentsOn, PaymentsOf
  <2>3. H \subseteq payments /\ IsFiniteSet(payments) /\ payments \subseteq PaymentRow
    BY <2>1, TablesFinite, CasesTyped DEF PaymentsOn
  <2>4. AmountSum(H) = SumOf(PaymentAmounts, H)
    BY <2>3, AmountOver DEF PaymentAmounts
  <2>5. PaidLedger
    BY <2>3, PaidAsSums DEF Books
  <2>6. cases[c].paid = AmountSum(H) /\ Paids[c] = cases[c].paid
    BY <1>2, <2>1, <2>5 DEF PaidLedger, Paids
  <2>7. QED
    BY <2>2, <2>4, <2>6
<1>7. SumOf(PaymentAmounts, P) = SumOf(Paids, L)
  BY <1>2, <1>3, <1>5, <1>6, SumOfParts
<1>8. Total(AmountOf, P) = SumOf(PaymentAmounts, P)
  BY <1>3, TotalOfPayments
<1>9. Total(PaidOn, L) = SumOf(Paids, L)
  BY <1>2, TotalOfCases
<1>10. QED
  BY <1>1, <1>3, <1>7, <1>8, <1>9

CountedByStatus(stats) == Total(LAMBDA s : stats.byStatus[s], DOMAIN stats.byStatus)

\* Every case is counted under one status.
LEMMA StatusesSum ==
  ASSUME NEW L, IsFiniteSet(L), NEW months, NEW stats, stats = NewStats(L, months)
  PROVE  CountedByStatus(stats) = stats.cases
<1>1. PICK h : h = [c \in L |-> cases[c].status]
  OBVIOUS
<1>2. PICK D : D = {h[c] : c \in L}
  OBVIOUS
<1>3. IsFiniteSet(D) /\ \A c \in L : h[c] \in D
  BY <1>2, ImageFinite
<1>4. PICK f : f = [s \in D |-> Cardinality(Having(L, h, s))]
  OBVIOUS
<1>5. stats.byStatus = f /\ stats.cases = Cardinality(L)
  <2>1. D = {cases[c].status : c \in L}
    BY <1>1, <1>2
  <2>2. \A s : Having(L, h, s) = {c \in L : cases[c].status = s}
    BY <1>1 DEF Having
  <2>3. QED
    BY <1>4, <2>1, <2>2 DEF NewStats
<1>6. CountedByStatus(stats) = SumFunction(f)
  <2>1. DOMAIN stats.byStatus = D /\ \A s \in D : stats.byStatus[s] = f[s]
    BY <1>4, <1>5
  <2>2. [s \in D |-> stats.byStatus[s]] = f
    BY <1>4, <2>1
  <2>3. QED
    BY <2>1, <2>2 DEF Total, CountedByStatus
<1>7. DOMAIN f = D /\ \A s \in D : f[s] = Cardinality(Having(L, h, s))
  BY <1>4
<1>8. SumFunction(f) = Cardinality(L)
  BY <1>3, <1>7, PartsCount
<1>9. QED
  BY <1>5, <1>6, <1>8

\* A client opens for those who list them.
LEMMA ListedOpen ==
  ASSUME NEW a, NEW L, L = ListCases(a), NEW list, list = LinesOf(L),
         NEW cards, cards = {CardOf(l) : l \in list}, NEW c
  PROVE  GetClient(a, c) = NotFound <=> c \notin {l.client : l \in cards}
<1>1. \A d : LineFor(L, d).client = d
  BY DEF LineFor
<1>2. \A l : CardOf(l).client = l.client
  BY DEF CardOf
<1>3. c \in {l.client : l \in cards} <=> \E k \in L : cases[k].client = c
  <2>1. \A l : l \in list <=> \E k \in L : l = LineFor(L, cases[k].client)
    BY DEF LinesOf
  <2>2. \A d : d \in cards <=> \E l \in list : d = CardOf(l)
    OBVIOUS
  <2>3. c \in {l.client : l \in cards} <=> \E l \in cards : l.client = c
    OBVIOUS
  <2>4. ASSUME NEW d \in cards, d.client = c
        PROVE  \E k \in L : cases[k].client = c
    <3>1. PICK l \in list : d = CardOf(l)
      BY <2>2, <2>4
    <3>2. PICK k \in L : l = LineFor(L, cases[k].client)
      BY <2>1, <3>1
    <3>3. QED
      BY <1>1, <1>2, <2>4, <3>1, <3>2
  <2>5. ASSUME NEW k \in L, cases[k].client = c
        PROVE  \E l \in cards : l.client = c
    <3>1. PICK l : l = LineFor(L, c)
      OBVIOUS
    <3>2. l \in list /\ l.client = c
      BY <1>1, <2>1, <2>5, <3>1
    <3>3. CardOf(l) \in cards /\ CardOf(l).client = c
      BY <1>2, <2>2, <3>2
    <3>4. QED
      BY <3>3
  <2>6. QED
    BY <2>3, <2>4, <2>5
<1>4. PICK own : own = {k \in L : cases[k].client = c}
  OBVIOUS
<1>5. PICK shown : shown = [cases |-> own, payments |-> PaymentsOf(own),
                            consults |-> {i \in DOMAIN consults : consults[i].client = c},
                            notes |-> {n \in notes : n.client = c}]
  OBVIOUS
<1>6. shown # NotFound
  <2>1. DOMAIN shown = {"cases", "payments", "consults", "notes"} /\ DOMAIN NotFound = {"error"}
    BY <1>5 DEF NotFound
  <2>2. "error" \notin DOMAIN shown /\ "error" \in DOMAIN NotFound
    BY <2>1
  <2>3. QED
    BY <2>2
<1>7. GetClient(a, c) = IF own = {} THEN NotFound ELSE shown
  BY <1>4, <1>5 DEF GetClient
<1>8. own = {} <=> ~ \E k \in L : cases[k].client = c
  BY <1>4
<1>9. QED
  BY <1>3, <1>6, <1>7, <1>8

LEMMA Tied ==
  ASSUME ViewBooks
  PROVE  SectionTies
<1> SUFFICES ASSUME NEW a \in Advocates
             PROVE  LET p == Caller(a)
                        stats == GetMyStats(p)
                        page == ListMyCases(p)
                        list == ListClients(a)
                        cards == ListMyClients(p)
                    IN  /\ <<page.fee, page.paid, page.owed>> = <<stats.fee, stats.paid, stats.debt>>
                        /\ Total(LAMBDA l : l.fee, list) = page.fee
                        /\ Total(LAMBDA l : l.paid, list) = page.paid
                        /\ Total(LAMBDA l : l.owed, cards) <= page.owed
                        /\ stats.paid = GetMySettlement(p).collected
                        /\ Total(LAMBDA s : stats.byStatus[s], DOMAIN stats.byStatus) = stats.cases
                        /\ \A c \in Clients :
                              GetMyClient(p, c) = NotFound <=> c \notin {l.client : l \in cards}
                        /\ \A b \in Advocates \ {a} : page.items \cap ListCases(b) = {}
  BY DEF SectionTies
<1>1. PICK p, L : p = Caller(a) /\ L = ListCases(a)
  OBVIOUS
<1>2. p.advocate = a /\ a # None
  BY <1>1, CallersAdvocate, LedgerAssumption
<1>3. PICK stats, page, list, cards :
          /\ stats = GetMyStats(p) /\ page = ListMyCases(p)
          /\ list = ListClients(a) /\ cards = ListMyClients(p)
  OBVIOUS
<1>4. PICK months : months = AccrueMonths(CollectionsByMonth(a), rates[a])
  OBVIOUS
<1>5. stats = NewStats(L, months)
  BY <1>1, <1>2, <1>3, <1>4 DEF GetMyStats, OwnStats
<1>6. stats.fee = Total(FeeOf, L) /\ stats.paid = Total(PaidOn, L) /\ stats.debt = Total(Owed, L)
  BY <1>5 DEF NewStats
<1>7. /\ page.fee = Total(FeeOf, L) /\ page.paid = Total(PaidOn, L) /\ page.owed = Total(Owed, L)
      /\ page.items = L
  BY <1>1, <1>2, <1>3 DEF ListMyCases
<1>8. Books
  BY DEF ViewBooks
<1>9. L \subseteq DOMAIN cases /\ IsFiniteSet(L)
  BY <1>1, <1>8, OwnCases
<1>10. list = LinesOf(L)
  BY <1>1, <1>3, LinesAre
<1>11. cards = {CardOf(l) : l \in list}
  BY <1>2, <1>3 DEF ListMyClients
<1>12. /\ Total(LAMBDA l : l.fee, list) = Total(FeeOf, L)
       /\ Total(LAMBDA l : l.paid, list) = Total(PaidOn, L)
       /\ Total(LAMBDA l : l.owed, {CardOf(l) : l \in list}) <= Total(Owed, L)
  BY <1>8, <1>9, <1>10, LinesSum
<1>13. Total(LAMBDA l : l.owed, cards) <= Total(Owed, L)
  BY <1>11, <1>12
<1>14. stats.paid = GetMySettlement(p).collected
  <2>1. GetMySettlement(p).collected = Total(AmountOf, CollectedBy(a, 1, LastDay))
    BY <1>1, OwnSums
  <2>2. Total(PaidOn, L) = Total(AmountOf, CollectedBy(a, 1, LastDay))
    BY <1>1, <1>8, PaidCollected
  <2>3. QED
    BY <1>6, <2>1, <2>2
<1>15. Total(LAMBDA s : stats.byStatus[s], DOMAIN stats.byStatus) = stats.cases
  <2>1. CountedByStatus(stats) = stats.cases
    BY <1>5, <1>9, StatusesSum
  <2>2. QED
    BY <2>1 DEF CountedByStatus
<1>16. ASSUME NEW c \in Clients
       PROVE  GetMyClient(p, c) = NotFound <=> c \notin {l.client : l \in cards}
  <2>1. GetMyClient(p, c) = GetClient(a, c)
    BY <1>2 DEF GetMyClient
  <2>2. GetClient(a, c) = NotFound <=> c \notin {l.client : l \in cards}
    BY <1>1, <1>10, <1>11, ListedOpen
  <2>3. QED
    BY <2>1, <2>2
<1>17. ASSUME NEW b \in Advocates \ {a}
       PROVE  page.items \cap ListCases(b) = {}
  <2>1. \A c \in DOMAIN cases : c \in L <=> AdvocateOf(c) = a
    BY <1>1, <1>8, OwnCases
  <2>2. \A c \in DOMAIN cases : c \in ListCases(b) <=> AdvocateOf(c) = b
    BY <1>8, OwnCases
  <2>3. QED
    BY <1>7, <1>9, <2>1, <2>2
<1>18. <<page.fee, page.paid, page.owed>> = <<stats.fee, stats.paid, stats.debt>>
  BY <1>6, <1>7
<1>19. /\ Total(LAMBDA l : l.fee, list) = page.fee /\ Total(LAMBDA l : l.paid, list) = page.paid
       /\ Total(LAMBDA l : l.owed, cards) <= page.owed
  BY <1>7, <1>12, <1>13
<1>20. QED
  BY <1>1, <1>3, <1>14, <1>15, <1>16, <1>17, <1>18, <1>19

\* An advocate's pages agree with each other and with finance in every state:
\* what the section shows as collected and paid out is what the firm's settlement
\* has, the accruals are half a kopiyka a month apart at most, and the lists of
\* cases and of clients, the statistics and the client page tell one story.
THEOREM PagesAgree == ViewSpec => []ViewTies
<1>1. ViewInit => ViewBooks
  BY ViewBooksInit
<1>2. ViewBooks /\ [Next]_vars => ViewBooks'
  BY ViewBooksNext
<1>3. ViewBooks => ViewTies
  BY Agreed, Tied DEF ViewTies
<1>4. QED
  BY <1>1, <1>2, <1>3, PTL DEF ViewSpec
=============================================================================
