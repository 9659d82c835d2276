----------------------------- MODULE MCClients -----------------------------
(* Two mails and a request; tabs of two rows and their corrected versions. *)
EXTENDS HistoryImport, TLC

CONSTANTS phoneA, phoneB, asked

MailIds == (1 :> <<"mail", 1>>) @@ (2 :> <<"mail", 2>>) @@ (asked :> <<"tg", 1>>)
MailPhones == (1 :> phoneA) @@ (2 :> phoneB) @@ (asked :> phoneA)

Row(d, f, s, t, a) == [date |-> d, phone |-> f, status |-> s, at |-> t, amount |-> a]

\* Two consultations at one time, and the row above them that came later.
Tab == <<Row(0, phoneA, "completed", NoDate, 300), Row(0, phoneA, "cancelled", 0, 500)>>
Longer == <<Row(NoDate, phoneB, "completed", 1, 300), Row(1, phoneB, "later", 1, 400)>> \o Tab
Tabs == <<Tab, Longer>>

CaseLine(d, f, s, fee) == [date |-> d, phone |-> f, status |-> s, fee |-> fee]
Worked == << <<CaseLine(0, phoneA, "open", 100), CaseLine(1, phoneA, "completed", 700)>>,
             <<CaseLine(1, NoPhone, "open", 900)>> >>
Other == << <<CaseLine(0, phoneA, "open", 600)>>, <<CaseLine(0, phoneA, "completed", 200)>> >>
CaseVersions == <<Worked, Other>>

MCRanges == {<<1, 1>>}

Visits == [d \in Days |-> 10 + d]
=============================================================================
