---------------------------- MODULE StockDocuments ----------------------------
(***************************************************************************)
(* The documents that correct the stock of one variant at one branch:      *)
(* counts (counts.service.ts), adjustments (stock-adjustments.service.ts)  *)
(* and reported issues (stock-issues.service.ts), while stock is traded.   *)
(* The branch allows no negative stock and reserves nothing; roles and     *)
(* approval limits are taken as given.                                     *)
(*                                                                         *)
(* Every handler reads its document, decides, and writes it by id: a plan  *)
(* holds what it read, and a slow call is overtaken by others between its  *)
(* read and its write.                                                     *)
(***************************************************************************)
EXTENDS Integers, Sequences, Functions

CONSTANTS
    Opening,       \* quantity on hand when the run starts
    Shelf,         \* quantity that is really on the shelf then
    Quantities,    \* quantities of adjustments and issues, down or up
    Lines,         \* the statuses a person gives a counted line
    MaxOfKind,     \* bound: documents of each kind, by kind
    MaxDocuments,  \* bound: documents of any kind
    MaxTraded,     \* bound: how far trade takes the stock from Opening
    SlowDocuments  \* the operations that may be overtaken after their read

LineStatuses == {"UNCOUNTED", "COUNTED", "RECOUNT_REQUIRED"}

ASSUME QuantitiesAssumption == {Opening, Shelf} \cup Quantities \subseteq Int
ASSUME LinesAssumption == Lines \subseteq LineStatuses
ASSUME TradedAssumption == MaxTraded \in Nat

VARIABLES
    onHand,       \* the balance row's quantityOnHand
    traded,       \* history: net quantity received and sold, which also
                  \* moves what is on the shelf
    counts,       \* StockCount with its one StockCountItem
    adjustments,  \* StockAdjustment with its one item
    issues,       \* StockIssueReport
    slowDocument,      \* the plan of the overtaken call, if any
    documentOvertaken  \* history: a call wrote after what it had read was changed

documents == <<counts, adjustments, issues>>
documentRecords == <<onHand, traded, documents>>
documentVars == <<documentRecords, slowDocument, documentOvertaken>>

CountStatuses == {"DRAFT", "SCHEDULED", "IN_PROGRESS", "RECOUNT_REQUESTED", "SUBMITTED",
                  "APPROVED", "POSTED"}
AdjustmentStatuses == {"DRAFT", "SUBMITTED", "APPROVED", "REJECTED", "POSTED", "CANCELLED"}
IssueStatuses == {"SUBMITTED", "UNDER_REVIEW", "ACCEPTED", "REJECTED",
                  "CONVERTED_TO_ADJUSTMENT", "CLOSED"}

\* A quantity a person entered; late is history: the stock had been traded
\* between the making of the count and the counting.
Entered == [qty: Int, late: BOOLEAN]
NotEntered == [qty |-> -1, late |-> TRUE]

\* disturbed is history: what has happened since the quantity that the count
\* expects was read.
Counts == [status: CountStatuses, line: LineStatuses,
           expected: Int, counted: Entered, recount: Entered, final: Entered,
           disturbed: SUBSET {"trade", "correction"}]
Adjustments == [status: AdjustmentStatuses, qty: Int, issue: Nat]
Issues == [status: IssueStatuses, qty: Int, linked: Nat, conversions: Nat]

NoDocumentPlan == [op |-> "none"]

DocumentTypeOK ==
    /\ {onHand, traded} \subseteq Int
    /\ counts \in Seq(Counts)
    /\ adjustments \in Seq(Adjustments)
    /\ issues \in Seq(Issues)
    /\ slowDocument.op \in SlowDocuments \cup {"none"}
    /\ documentOvertaken \in BOOLEAN

DocumentInit ==
    /\ onHand = Opening
    /\ traded = 0
    /\ counts = <<>>
    /\ adjustments = <<>>
    /\ issues = <<>>
    /\ slowDocument = NoDocumentPlan
    /\ documentOvertaken = FALSE

-----------------------------------------------------------------------------
(***************************************************************************)
(* Plans.                                                                  *)
(***************************************************************************)
CountsIn(S) == {c \in DOMAIN counts : counts[c].status \in S}
AdjustmentsIn(S) == {a \in DOMAIN adjustments : adjustments[a].status \in S}
IssuesIn(S) == {i \in DOMAIN issues : issues[i].status \in S}

\* A new quantity may be left out, and the line's status given.
CountPlans ==
    {[op |-> "createCount", expected |-> onHand, status |-> s] : s \in {"DRAFT", "SCHEDULED"}}
    \cup {[op |-> "startCount", count |-> c] : c \in CountsIn({"DRAFT", "SCHEDULED"})}
    \cup {[op |-> "enter", count |-> c, status |-> counts[c].status, given |-> g, line |-> l] :
            c \in CountsIn(CountStatuses \ {"POSTED"}), g \in BOOLEAN, l \in Lines}
    \cup {[op |-> "submitCount", count |-> c] :
            c \in {c \in CountsIn({"DRAFT", "IN_PROGRESS", "RECOUNT_REQUESTED"}) :
                     counts[c].line = "COUNTED"}}
    \cup {[op |-> "recount", count |-> c] : c \in CountsIn({"SUBMITTED"})}
    \cup {[op |-> "approveCount", count |-> c, counted |-> counts[c].counted,
           recount |-> counts[c].recount] : c \in CountsIn({"SUBMITTED"})}
    \cup {[op |-> "postCount", count |-> c, final |-> counts[c].final] :
            c \in CountsIn({"APPROVED"})}

\* A decrease needs its quantity on hand, at every step but the approval.
InStock(qty) == onHand + qty >= 0

AdjustmentPlans ==
    {[op |-> "createAdjustment", qty |-> q, issue |-> i] :
       q \in {q \in Quantities : InStock(q)}, i \in {0} \cup DOMAIN issues}
    \cup {[op |-> "submitAdjustment", adjustment |-> a] :
            a \in {a \in AdjustmentsIn({"DRAFT"}) : InStock(adjustments[a].qty)}}
    \cup {[op |-> op, adjustment |-> a] :
            op \in {"approveAdjustment", "rejectAdjustment"}, a \in AdjustmentsIn({"SUBMITTED"})}
    \cup {[op |-> "postAdjustment", adjustment |-> a] : a \in AdjustmentsIn({"APPROVED"})}
    \cup {[op |-> "cancelAdjustment", adjustment |-> a] :
            a \in AdjustmentsIn(AdjustmentStatuses \ {"POSTED"})}

IssuePlans ==
    {[op |-> "report", qty |-> q] : q \in Quantities}
    \cup {[op |-> "review", issue |-> i, status |-> s] :
            i \in IssuesIn({"SUBMITTED", "UNDER_REVIEW"}), s \in {"UNDER_REVIEW", "ACCEPTED"}}
    \cup {[op |-> "rejectIssue", issue |-> i] :
            i \in IssuesIn({"SUBMITTED", "UNDER_REVIEW", "ACCEPTED"})}
    \cup {[op |-> "convert", issue |-> i] :
            i \in {i \in IssuesIn({"ACCEPTED"}) : issues[i].linked = 0}}

TradePlans == {[op |-> "trade", qty |-> q] : q \in {-1, 1}}

DocumentPlans == CountPlans \cup AdjustmentPlans \cup IssuePlans \cup TradePlans

-----------------------------------------------------------------------------
(***************************************************************************)
(* Writes.                                                                 *)
(***************************************************************************)
Room(docs, kind) ==
    /\ Len(docs) < MaxOfKind[kind]
    /\ Len(counts) + Len(adjustments) + Len(issues) < MaxDocuments

\* adjustStock: the row is written relatively; a deduction needs the stock.
Adjusted(qty) ==
    /\ qty < 0 => InStock(qty)
    /\ onHand' = onHand + qty

Disturb(what) == [c \in DOMAIN counts |-> [counts[c] EXCEPT !.disturbed = @ \cup {what}]]

\* Stock received or sold, by any other module.
Trade(p) ==
    /\ p.op = "trade"
    /\ traded + p.qty \in -MaxTraded..MaxTraded
    /\ Adjusted(p.qty)
    /\ traded' = traded + p.qty
    /\ counts' = Disturb("trade")
    /\ UNCHANGED <<adjustments, issues>>

CreateCount(p) ==
    /\ p.op = "createCount"
    /\ Room(counts, "count")
    /\ counts' = Append(counts, [status |-> p.status, line |-> "UNCOUNTED",
                                 expected |-> p.expected, counted |-> NotEntered,
                                 recount |-> NotEntered, final |-> NotEntered,
                                 disturbed |-> IF p.expected = onHand THEN {} ELSE {"trade"}])
    /\ UNCHANGED <<onHand, traded, adjustments, issues>>

StartCount(p) ==
    /\ p.op = "startCount"
    /\ counts' = [counts EXCEPT ![p.count].status = "IN_PROGRESS"]
    /\ UNCHANGED <<onHand, traded, adjustments, issues>>

\* What a person finds on the shelf, or nothing.
Found(c, given) ==
    IF given THEN [qty |-> Shelf + traded, late |-> "trade" \in counts[c].disturbed]
    ELSE NotEntered

\* The status written is decided on the count as it was read.
UpdateItems(p) ==
    /\ p.op = "enter"
    /\ LET entered == IF counts[p.count].line = "RECOUNT_REQUIRED"
                        THEN [counts[p.count] EXCEPT !.recount = Found(p.count, p.given),
                                                     !.line = p.line]
                        ELSE [counts[p.count] EXCEPT !.counted = Found(p.count, p.given),
                                                     !.line = p.line]
       IN  counts' = [counts EXCEPT ![p.count] =
                        IF p.status \in {"DRAFT", "SCHEDULED"}
                          THEN [entered EXCEPT !.status = "IN_PROGRESS"] ELSE entered]
    /\ UNCHANGED <<onHand, traded, adjustments, issues>>

SubmitCount(p) ==
    /\ p.op = "submitCount"
    /\ counts' = [counts EXCEPT ![p.count].status = "SUBMITTED"]
    /\ UNCHANGED <<onHand, traded, adjustments, issues>>

RequestRecount(p) ==
    /\ p.op = "recount"
    /\ counts' = [counts EXCEPT ![p.count].status = "RECOUNT_REQUESTED",
                                ![p.count].line = "RECOUNT_REQUIRED",
                                ![p.count].recount = NotEntered]
    /\ UNCHANGED <<onHand, traded, adjustments, issues>>

\* A line with no quantity at all counts as zero.
Final(p) ==
    IF p.recount # NotEntered THEN p.recount
    ELSE IF p.counted # NotEntered THEN p.counted
    ELSE [qty |-> 0, late |-> TRUE]

ApproveCount(p) ==
    /\ p.op = "approveCount"
    /\ counts' = [counts EXCEPT ![p.count].status = "APPROVED",
                                ![p.count].final = Final(p)]
    /\ UNCHANGED <<onHand, traded, adjustments, issues>>

FaultyPostCount(p) ==
    /\ p.op = "postCount"
    /\ onHand' = p.final.qty
    /\ counts' = [Disturb("correction") EXCEPT ![p.count].status = "POSTED"]
    /\ UNCHANGED <<traded, adjustments, issues>>

\* The difference to what was expected when the count was made, whatever was
\* traded since; what counts expect is then out of date.
PostCount(p) ==
    /\ p.op = "postCount"
    /\ Adjusted(p.final.qty - counts[p.count].expected)
    /\ counts' = [Disturb("correction") EXCEPT ![p.count].status = "POSTED"]
    /\ UNCHANGED <<traded, adjustments, issues>>

CreateAdjustment(p) ==
    /\ p.op = "createAdjustment"
    /\ Room(adjustments, "adjustment")
    /\ adjustments' = Append(adjustments, [status |-> "DRAFT", qty |-> p.qty,
                                           issue |-> p.issue])
    /\ UNCHANGED <<onHand, traded, counts, issues>>

MoveAdjustment(a, status) ==
    /\ adjustments' = [adjustments EXCEPT ![a].status = status]
    /\ UNCHANGED <<onHand, traded, counts, issues>>

SubmitAdjustment(p) == p.op = "submitAdjustment" /\ MoveAdjustment(p.adjustment, "SUBMITTED")
ApproveAdjustment(p) == p.op = "approveAdjustment" /\ MoveAdjustment(p.adjustment, "APPROVED")
RejectAdjustment(p) == p.op = "rejectAdjustment" /\ MoveAdjustment(p.adjustment, "REJECTED")
CancelAdjustment(p) == p.op = "cancelAdjustment" /\ MoveAdjustment(p.adjustment, "CANCELLED")

FaultyPostAdjustment(p) ==
    /\ p.op = "postAdjustment"
    /\ Adjusted(adjustments[p.adjustment].qty)
    /\ counts' = Disturb("correction")
    /\ issues' = [i \in DOMAIN issues |->
                    IF i = adjustments[p.adjustment].issue
                      THEN [issues[i] EXCEPT !.status = "CLOSED"] ELSE issues[i]]
    /\ UNCHANGED <<traded, adjustments>>

\* The issue it was made for is closed, whatever its status.
PostAdjustment(p) ==
    /\ p.op = "postAdjustment"
    /\ Adjusted(adjustments[p.adjustment].qty)
    /\ adjustments' = [adjustments EXCEPT ![p.adjustment].status = "POSTED"]
    /\ counts' = Disturb("correction")
    /\ issues' = [i \in DOMAIN issues |->
                    IF i = adjustments[p.adjustment].issue
                      THEN [issues[i] EXCEPT !.status = "CLOSED"] ELSE issues[i]]
    /\ UNCHANGED traded

ReportIssue(p) ==
    /\ p.op = "report"
    /\ Room(issues, "issue")
    /\ issues' = Append(issues, [status |-> "SUBMITTED", qty |-> p.qty, linked |-> 0,
                                 conversions |-> 0])
    /\ UNCHANGED <<onHand, traded, counts, adjustments>>

ReviewIssue(p) ==
    /\ p.op = "review"
    /\ issues' = [issues EXCEPT ![p.issue].status = p.status]
    /\ UNCHANGED <<onHand, traded, counts, adjustments>>

RejectIssue(p) ==
    /\ p.op = "rejectIssue"
    /\ issues' = [issues EXCEPT ![p.issue].status = "REJECTED"]
    /\ UNCHANGED <<onHand, traded, counts, adjustments>>

ConvertToAdjustment(p) ==
    /\ p.op = "convert"
    /\ Room(adjustments, "adjustment")
    /\ adjustments' = Append(adjustments, [status |-> "DRAFT", qty |-> issues[p.issue].qty,
                                           issue |-> p.issue])
    /\ issues' = [issues EXCEPT ![p.issue].status = "CONVERTED_TO_ADJUSTMENT",
                                ![p.issue].linked = Len(adjustments) + 1,
                                ![p.issue].conversions = @ + 1]
    /\ UNCHANGED <<onHand, traded, counts>>

DocumentWrite(p) ==
    \/ Trade(p)
    \/ CreateCount(p) \/ StartCount(p) \/ UpdateItems(p) \/ SubmitCount(p)
    \/ RequestRecount(p) \/ ApproveCount(p) \/ PostCount(p)
    \/ CreateAdjustment(p) \/ SubmitAdjustment(p) \/ ApproveAdjustment(p)
    \/ RejectAdjustment(p) \/ PostAdjustment(p) \/ CancelAdjustment(p)
    \/ ReportIssue(p) \/ ReviewIssue(p) \/ RejectIssue(p) \/ ConvertToAdjustment(p)

-----------------------------------------------------------------------------
DocumentAlone ==
    /\ \E p \in DocumentPlans : DocumentWrite(p)
    /\ UNCHANGED <<slowDocument, documentOvertaken>>

DocumentPause ==
    /\ slowDocument = NoDocumentPlan
    /\ ~documentOvertaken
    /\ slowDocument' \in {p \in DocumentPlans : p.op \in SlowDocuments}
    /\ UNCHANGED <<documentRecords, documentOvertaken>>

\* The slow call writes, or fails.
DocumentResume ==
    /\ slowDocument # NoDocumentPlan
    /\ slowDocument' = NoDocumentPlan
    /\ \/ DocumentWrite(slowDocument) /\ documentOvertaken' = (slowDocument \notin DocumentPlans)
       \/ UNCHANGED <<documentRecords, documentOvertaken>>

DocumentNext == DocumentAlone \/ DocumentPause \/ DocumentResume

DocumentSpec == DocumentInit /\ [][DocumentNext]_documentVars

-----------------------------------------------------------------------------
\* However calls overlap: posting a count leaves on hand what is on the shelf,
\* also when stock was traded between the counting and the posting, provided
\* the quantity it posts (the recount if there was one) was counted before
\* stock was traded and no document was posted since the count was made.
CountFindsShelf ==
    [][\A c \in DOMAIN counts :
         /\ counts[c].status # "POSTED" /\ counts'[c].status = "POSTED"
         /\ ~counts[c].final.late
         /\ "correction" \notin counts[c].disturbed
         => onHand' = Shelf + traded']_documentVars

Posted(docs) == {d \in DOMAIN docs : docs[d].status = "POSTED"}

\* What a posted count and a posted adjustment do to the stock.
Differences == [c \in DOMAIN counts |-> counts[c].final.qty - counts[c].expected]
Corrections == [a \in DOMAIN adjustments |-> adjustments[a].qty]

\* On records of the right type and unless a call was overtaken: stock on hand
\* is what it was when the run started, what was traded, and the quantity of
\* every POSTED document, once (the post of counts.service and of
\* stock-adjustments.service); an issue is converted once, and CLOSED only
\* when stock was corrected for it.
StockFollowsDocuments ==
    /\ DocumentTypeOK
    /\ ~documentOvertaken =>
      /\ onHand = Opening + traded + SumFunctionOnSet(Differences, Posted(counts))
                                   + SumFunctionOnSet(Corrections, Posted(adjustments))
      /\ \A i \in DOMAIN issues :
           /\ issues[i].conversions <= 1
           /\ issues[i].status = "CLOSED" =>
                \E a \in Posted(adjustments) : adjustments[a].issue = i
=============================================================================
