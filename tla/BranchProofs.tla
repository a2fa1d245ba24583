----------------------------- MODULE BranchProofs -----------------------------
(***************************************************************************)
(* Proofs about what a branch counts: about Shift, for every set of users, *)
(* any number of shifts, movements and expenses, any operations that may   *)
(* be overtaken, and movements by hand of the four types that              *)
(* recordCashMovement takes; and about StockDocuments, for any quantities, *)
(* any number of documents and any operations that may be overtaken.       *)
(*                                                                         *)
(* The totals are sums over the records of a sequence, so a write changes  *)
(* them by what it changes in one record (Sums).  Inv and DocumentInv need *)
(* no order among calls: a call writes by an id it has read, by a          *)
(* settlement that stays, and with quantities that fit the count they were *)
(* read from for ever.  Orderly and DocumentsOrderly are what holds as     *)
(* long as no call was overtaken: then each call that writes is one that   *)
(* could be planned at that moment.                                        *)
(***************************************************************************)
EXTENDS Shift, StockDocuments, Sums

-----------------------------------------------------------------------------
(***************************************************************************)
(* The totals of one drawer.                                               *)
(***************************************************************************)
LEMMA SumOfTwo ==
    ASSUME NEW f, NEW a, NEW b, a # b, f[a] \in Int, f[b] \in Int
    PROVE  SumFunctionOnSet(f, {a, b}) = f[a] + f[b]
<1>1. IsFiniteSet({a}) /\ IsFiniteSet({}) /\ {a, b} = {a} \cup {b} /\ {a} = {} \cup {a}
  BY FS_Singleton, FS_EmptySet
<1>2. SumFunctionOnSet(f, {} \cup {a}) = SumFunctionOnSet(f, {}) + f[a]
  BY <1>1, SumAdd
<1>3. SumFunctionOnSet(f, {a}) = f[a]
  BY <1>1, <1>2, SumEmpty
<1>4. SumFunctionOnSet(f, {a} \cup {b}) = SumFunctionOnSet(f, {a}) + f[b]
  BY <1>1, SumAdd
<1>5. QED
  BY <1>1, <1>3, <1>4

LEMMA SumOfFour ==
    ASSUME NEW f, NEW a, NEW b, NEW c, NEW d, a # b, c \notin {a, b}, d \notin {a, b, c},
           f[a] \in Int, f[b] \in Int, f[c] \in Int, f[d] \in Int
    PROVE  SumFunctionOnSet(f, {a, b, c, d}) = f[a] + f[b] + f[c] + f[d]
<1>1. /\ IsFiniteSet({a, b}) /\ IsFiniteSet({a, b, c})
      /\ {a, b, c} = {a, b} \cup {c} /\ {a, b, c, d} = {a, b, c} \cup {d}
  <2>1. IsFiniteSet({a}) /\ {a, b} = {a} \cup {b}
    BY FS_Singleton
  <2>2. IsFiniteSet({a, b})
    BY <2>1, FS_AddElement
  <2>3. {a, b, c} = {a, b} \cup {c} /\ {a, b, c, d} = {a, b, c} \cup {d}
    OBVIOUS
  <2>4. QED
    BY <2>2, <2>3, FS_AddElement
<1>2. SumFunctionOnSet(f, {a, b}) = f[a] + f[b]
  BY SumOfTwo
<1>3. SumFunctionOnSet(f, {a, b} \cup {c}) = SumFunctionOnSet(f, {a, b}) + f[c]
  BY <1>1, SumAdd
<1>4. SumFunctionOnSet(f, {a, b, c} \cup {d}) = SumFunctionOnSet(f, {a, b, c}) + f[d]
  BY <1>1, SumAdd
<1>5. QED
  BY <1>1, <1>2, <1>3, <1>4

\* The cash of a drawer, written out.
LEMMA DrawerIs ==
    ASSUME NEW m \in [Kinds -> Nat]
    PROVE  /\ Drawer(m) = m["OPENING_FLOAT"] + m["CASH_SALE"] + m["CASH_IN"] + m["ADJUSTMENT"]
                 - (m["CASH_REFUND"] + m["CASH_EXPENSE"] + m["CASH_OUT"] + m["BANKING"])
           /\ DayMoves(m) = m["OPENING_FLOAT"] + m["CASH_IN"]
                              - (m["CASH_OUT"] + m["BANKING"])
           /\ Expected(m) = Drawer(m)
           /\ Drawer(m) \in Int /\ DayMoves(m) \in Int
<1>1. \A k \in Kinds : m[k] \in Int /\ m[k] \in Nat
  OBVIOUS
<1>2. /\ m["OPENING_FLOAT"] \in Int /\ m["CASH_SALE"] \in Int /\ m["CASH_IN"] \in Int
      /\ m["ADJUSTMENT"] \in Int /\ m["CASH_REFUND"] \in Int /\ m["CASH_EXPENSE"] \in Int
      /\ m["CASH_OUT"] \in Int /\ m["BANKING"] \in Int
  BY <1>1 DEF Kinds, Into, OutOf
<1> DEFINE in == m["OPENING_FLOAT"] + m["CASH_SALE"] + m["CASH_IN"] + m["ADJUSTMENT"]
           out == m["CASH_REFUND"] + m["CASH_EXPENSE"] + m["CASH_OUT"] + m["BANKING"]
           dayIn == m["OPENING_FLOAT"] + m["CASH_IN"]
           dayOut == m["CASH_OUT"] + m["BANKING"]
<1>3. Total(m, Into) = in
  <2>1. /\ "OPENING_FLOAT" # "CASH_SALE" /\ "CASH_IN" \notin {"OPENING_FLOAT", "CASH_SALE"}
        /\ "ADJUSTMENT" \notin {"OPENING_FLOAT", "CASH_SALE", "CASH_IN"}
    OBVIOUS
  <2>2. QED
    BY SMTT(30), <1>2, <2>1, SumOfFour DEF Total, Into
<1>4. Total(m, OutOf) = out
  <2>1. /\ "CASH_REFUND" # "CASH_EXPENSE" /\ "CASH_OUT" \notin {"CASH_REFUND", "CASH_EXPENSE"}
        /\ "BANKING" \notin {"CASH_REFUND", "CASH_EXPENSE", "CASH_OUT"}
    OBVIOUS
  <2>2. SumFunctionOnSet(m, {"CASH_REFUND", "CASH_EXPENSE", "CASH_OUT", "BANKING"}) = out
    BY <1>2, <2>1, SumOfFour, SMTT(60)
  <2>3. QED
    BY <2>2 DEF Total, OutOf
<1>5. Total(m, {"OPENING_FLOAT", "CASH_IN"}) = dayIn
  BY <1>2, SumOfTwo DEF Total
<1>6. Total(m, {"CASH_OUT", "BANKING"}) = dayOut
  BY <1>2, SumOfTwo DEF Total
<1>7. Kinds \ OutOf = Into
  BY DEF Kinds, Into, OutOf
<1>8. Expected(m) = Drawer(m)
  BY <1>7 DEF Expected, Drawer
<1>9. Drawer(m) = in - out /\ in \in Int /\ out \in Int
  BY <1>2, <1>3, <1>4 DEF Drawer
<1>10. DayMoves(m) = dayIn - dayOut /\ dayIn \in Int /\ dayOut \in Int
  BY <1>2, <1>5, <1>6 DEF DayMoves
<1>11. Drawer(m) \in Int /\ DayMoves(m) \in Int
  <2> HIDE DEF in, out, dayIn, dayOut
  <2>1. QED
    BY <1>9, <1>10
<1>12. QED
  BY <1>2, <1>8, <1>9, <1>10, <1>11

\* A movement of kind k counts for one in the drawer, and in the daily figures
\* if it is of a kind these take from the movements.
InDrawer(k) == IF k \in Into THEN 1 ELSE -1
InDay(k) ==
    IF k \in {"OPENING_FLOAT", "CASH_IN"} THEN 1
    ELSE IF k \in {"CASH_OUT", "BANKING"} THEN -1 ELSE 0

WithMove(m, k) == [m EXCEPT ![k] = m[k] + 1]

LEMMA OneMore ==
    ASSUME NEW m \in [Kinds -> Nat], NEW k \in Kinds, NEW n, n = WithMove(m, k)
    PROVE  /\ n \in [Kinds -> Nat]
           /\ Drawer(n) = Drawer(m) + InDrawer(k)
           /\ DayMoves(n) = DayMoves(m) + InDay(k)
           /\ n["CASH_EXPENSE"] = m["CASH_EXPENSE"] + (IF k = "CASH_EXPENSE" THEN 1 ELSE 0)
<1>1. n \in [Kinds -> Nat] /\ n[k] = m[k] + 1 /\ \A j \in Kinds \ {k} : n[j] = m[j]
  BY DEF WithMove
<1>2. \A j \in Kinds : m[j] \in Nat
  OBVIOUS
<1>3. /\ "OPENING_FLOAT" \in Kinds /\ "CASH_SALE" \in Kinds /\ "CASH_IN" \in Kinds
      /\ "ADJUSTMENT" \in Kinds /\ "CASH_REFUND" \in Kinds /\ "CASH_EXPENSE" \in Kinds
      /\ "CASH_OUT" \in Kinds /\ "BANKING" \in Kinds
  BY DEF Kinds, Into, OutOf
<1>4. k \in {"OPENING_FLOAT", "CASH_SALE", "CASH_IN", "ADJUSTMENT"}
        \cup {"CASH_REFUND", "CASH_EXPENSE", "CASH_OUT", "BANKING"}
  BY DEF Kinds, Into, OutOf
<1> DEFINE D(v) == v["OPENING_FLOAT"] + v["CASH_SALE"] + v["CASH_IN"] + v["ADJUSTMENT"]
                   - (v["CASH_REFUND"] + v["CASH_EXPENSE"] + v["CASH_OUT"] + v["BANKING"])
           Y(v) == v["OPENING_FLOAT"] + v["CASH_IN"] - (v["CASH_OUT"] + v["BANKING"])
<1>5. D(n) = D(m) + InDrawer(k)
  BY <1>1, <1>2, <1>3, <1>4 DEF InDrawer, Into
<1>6. Y(n) = Y(m) + InDay(k)
  BY <1>1, <1>2, <1>3, <1>4 DEF InDay
<1>7. Drawer(n) = D(n) /\ Drawer(m) = D(m) /\ DayMoves(n) = Y(n) /\ DayMoves(m) = Y(m)
  BY <1>1, DrawerIs
<1>8. n["CASH_EXPENSE"] = m["CASH_EXPENSE"] + (IF k = "CASH_EXPENSE" THEN 1 ELSE 0)
  BY <1>1, <1>2, <1>3
<1>9. QED
  BY <1>1, <1>5, <1>6, <1>7, <1>8

LEMMA FirstMove ==
    ASSUME NEW m, m = [NoMoves EXCEPT !["OPENING_FLOAT"] = 1]
    PROVE  /\ m \in [Kinds -> Nat] /\ Drawer(m) = 1 /\ DayMoves(m) = 1
           /\ m["CASH_EXPENSE"] = 0
<1>1. m \in [Kinds -> Nat] /\ \A k \in Kinds : m[k] = IF k = "OPENING_FLOAT" THEN 1 ELSE 0
  BY DEF NoMoves
<1>2. /\ m["OPENING_FLOAT"] = 1 /\ m["CASH_SALE"] = 0 /\ m["CASH_IN"] = 0
      /\ m["ADJUSTMENT"] = 0 /\ m["CASH_REFUND"] = 0 /\ m["CASH_EXPENSE"] = 0
      /\ m["CASH_OUT"] = 0 /\ m["BANKING"] = 0
  BY <1>1 DEF Kinds, Into, OutOf
<1>3. Drawer(m) = 1 /\ DayMoves(m) = 1
  <2>1. /\ Drawer(m) = m["OPENING_FLOAT"] + m["CASH_SALE"] + m["CASH_IN"] + m["ADJUSTMENT"]
                 - (m["CASH_REFUND"] + m["CASH_EXPENSE"] + m["CASH_OUT"] + m["BANKING"])
        /\ DayMoves(m) = m["OPENING_FLOAT"] + m["CASH_IN"] - (m["CASH_OUT"] + m["BANKING"])
    BY <1>1, DrawerIs
  <2>2. QED
    BY <1>2, <2>1
<1>4. QED
  BY <1>1, <1>2, <1>3

-----------------------------------------------------------------------------
(***************************************************************************)
(* What a write to a shift does to the totals of all drawers.              *)
(***************************************************************************)
\* What a shift counts for in each of the three totals.
InDrawers == [r \in Shifts |-> Drawer(r.moves)]
InDays == [r \in Shifts |-> DayMoves(r.moves)]
InSpent == [r \in Shifts |-> r.moves["CASH_EXPENSE"]]

LEMMA CountsTyped ==
    /\ InDrawers \in [Shifts -> Int] /\ InDays \in [Shifts -> Int]
    /\ InSpent \in [Shifts -> Nat] /\ InSpent \in [Shifts -> Int]
<1>1. \A r \in Shifts : r.moves \in [Kinds -> Nat]
  BY DEF Shifts
<1>2. \A r \in Shifts : Drawer(r.moves) \in Int /\ DayMoves(r.moves) \in Int
  BY <1>1, DrawerIs
<1>3. \A r \in Shifts : r.moves["CASH_EXPENSE"] \in Nat
  BY <1>1 DEF Kinds, OutOf
<1>4. QED
  BY <1>2, <1>3 DEF InDrawers, InDays, InSpent

LEMMA TotalsAre ==
    ASSUME shifts \in Seq(Shifts)
    PROVE  /\ Drawers = SeqSum(InDrawers, shifts) /\ DayDrawers = SeqSum(InDays, shifts)
           /\ Spent = SeqSum(InSpent, shifts)
<1>1. \A s \in DOMAIN shifts : shifts[s] \in Shifts
  BY SequenceDomain
<1>2. /\ OverSeq(InDrawers, shifts) = [s \in DOMAIN shifts |-> Drawer(shifts[s].moves)]
      /\ OverSeq(InDays, shifts) = [s \in DOMAIN shifts |-> DayMoves(shifts[s].moves)]
      /\ OverSeq(InSpent, shifts) = [s \in DOMAIN shifts |-> shifts[s].moves["CASH_EXPENSE"]]
  BY <1>1 DEF OverSeq, InDrawers, InDays, InSpent
<1>3. QED
  BY <1>2 DEF SeqSum, Drawers, DayDrawers, Spent

LEMMA TotalsThen ==
    ASSUME shifts' \in Seq(Shifts)
    PROVE  /\ Drawers' = SeqSum(InDrawers, shifts') /\ DayDrawers' = SeqSum(InDays, shifts')
           /\ Spent' = SeqSum(InSpent, shifts')
<1>1. \A s \in DOMAIN shifts' : shifts'[s] \in Shifts
  BY SequenceDomain
<1>2. /\ OverSeq(InDrawers, shifts') = [s \in DOMAIN shifts' |-> Drawer(shifts'[s].moves)]
      /\ OverSeq(InDays, shifts') = [s \in DOMAIN shifts' |-> DayMoves(shifts'[s].moves)]
      /\ OverSeq(InSpent, shifts')
           = [s \in DOMAIN shifts' |-> shifts'[s].moves["CASH_EXPENSE"]]
  BY <1>1 DEF OverSeq, InDrawers, InDays, InSpent
<1>3. QED
  BY <1>2 DEF SeqSum, Drawers, DayDrawers, Spent

LEMMA TotalsTyped ==
    ASSUME shifts \in Seq(Shifts)
    PROVE  Drawers \in Int /\ DayDrawers \in Int /\ Spent \in Nat
BY TotalsAre, CountsTyped, SeqSumInt, SeqSumNat

\* A shift changes: the totals change by what it changes.
LEMMA ShiftSet ==
    ASSUME shifts \in Seq(Shifts), NEW s \in DOMAIN shifts, NEW r \in Shifts,
           shifts' = [shifts EXCEPT ![s] = r]
    PROVE  /\ shifts' \in Seq(Shifts) /\ DOMAIN shifts' = DOMAIN shifts
           /\ shifts'[s] = r /\ \A t \in DOMAIN shifts \ {s} : shifts'[t] = shifts[t]
           /\ Drawers' = Drawers + (Drawer(r.moves) - Drawer(shifts[s].moves))
           /\ DayDrawers' = DayDrawers + (DayMoves(r.moves) - DayMoves(shifts[s].moves))
           /\ Spent' = Spent + (r.moves["CASH_EXPENSE"] - shifts[s].moves["CASH_EXPENSE"])
<1>0. shifts \in Seq(Shifts) /\ s \in DOMAIN shifts
  OBVIOUS
<1>1. /\ shifts' \in Seq(Shifts) /\ DOMAIN shifts' = DOMAIN shifts
      /\ shifts'[s] = r /\ \A t \in DOMAIN shifts \ {s} : shifts'[t] = shifts[t]
  BY SequenceSet
<1>2. shifts[s] \in Shifts
  BY SequenceDomain
<1>3. /\ InDrawers \in [Shifts -> Int] /\ InDays \in [Shifts -> Int]
      /\ InSpent \in [Shifts -> Int]
  BY CountsTyped
<1>4. PICK q, p : q = shifts /\ p = shifts'
  OBVIOUS
<1>5. Replaced(Shifts, q, p, s)
  BY <1>1, <1>4 DEF Replaced
<1>6. /\ SeqSum(InDrawers, p) = SeqSum(InDrawers, q) + (InDrawers[p[s]] - InDrawers[q[s]])
      /\ SeqSum(InDays, p) = SeqSum(InDays, q) + (InDays[p[s]] - InDays[q[s]])
      /\ SeqSum(InSpent, p) = SeqSum(InSpent, q) + (InSpent[p[s]] - InSpent[q[s]])
  <2>1. SeqSum(InDrawers, p) = SeqSum(InDrawers, q) + (InDrawers[p[s]] - InDrawers[q[s]])
    BY ONLY <1>3, <1>5, SeqSumSet
  <2>2. SeqSum(InDays, p) = SeqSum(InDays, q) + (InDays[p[s]] - InDays[q[s]])
    BY ONLY <1>3, <1>5, SeqSumSet
  <2>3. SeqSum(InSpent, p) = SeqSum(InSpent, q) + (InSpent[p[s]] - InSpent[q[s]])
    BY ONLY <1>3, <1>5, SeqSumSet
  <2>4. QED
    BY <2>1, <2>2, <2>3
<1>7. /\ InDrawers[r] = Drawer(r.moves) /\ InDays[r] = DayMoves(r.moves)
      /\ InSpent[r] = r.moves["CASH_EXPENSE"]
      /\ InDrawers[shifts[s]] = Drawer(shifts[s].moves)
      /\ InDays[shifts[s]] = DayMoves(shifts[s].moves)
      /\ InSpent[shifts[s]] = shifts[s].moves["CASH_EXPENSE"]
  BY <1>2 DEF InDrawers, InDays, InSpent
<1>8. QED
  BY <1>1, <1>4, <1>6, <1>7, TotalsAre, TotalsThen

\* A shift is added: so is its opening float.
LEMMA ShiftAdd ==
    ASSUME shifts \in Seq(Shifts), NEW r \in Shifts, shifts' = Append(shifts, r),
           Drawer(r.moves) = 1, DayMoves(r.moves) = 1, r.moves["CASH_EXPENSE"] = 0
    PROVE  /\ shifts' \in Seq(Shifts)
           /\ DOMAIN shifts' = DOMAIN shifts \cup {Len(shifts) + 1}
           /\ Len(shifts) + 1 \notin DOMAIN shifts
           /\ shifts'[Len(shifts) + 1] = r
           /\ \A t \in DOMAIN shifts : shifts'[t] = shifts[t]
           /\ Drawers' = Drawers + 1 /\ DayDrawers' = DayDrawers + 1 /\ Spent' = Spent
<1>0. shifts \in Seq(Shifts)
  OBVIOUS
<1>1. /\ shifts' \in Seq(Shifts)
      /\ DOMAIN shifts' = DOMAIN shifts \cup {Len(shifts) + 1}
      /\ Len(shifts) + 1 \notin DOMAIN shifts
      /\ shifts'[Len(shifts) + 1] = r /\ \A t \in DOMAIN shifts : shifts'[t] = shifts[t]
  BY SequenceAppend
<1>2. /\ InDrawers \in [Shifts -> Int] /\ InDays \in [Shifts -> Int]
      /\ InSpent \in [Shifts -> Int]
  BY CountsTyped
<1>3. PICK q, p, n : q = shifts /\ p = shifts' /\ n = Len(shifts) + 1
  OBVIOUS
<1>4. Extended(Shifts, q, p, n)
  BY <1>1, <1>3 DEF Extended
<1>5. /\ SeqSum(InDrawers, p) = SeqSum(InDrawers, q) + InDrawers[p[n]]
      /\ SeqSum(InDays, p) = SeqSum(InDays, q) + InDays[p[n]]
      /\ SeqSum(InSpent, p) = SeqSum(InSpent, q) + InSpent[p[n]]
  <2>1. SeqSum(InDrawers, p) = SeqSum(InDrawers, q) + InDrawers[p[n]]
    BY ONLY <1>2, <1>4, SeqSumAppend
  <2>2. SeqSum(InDays, p) = SeqSum(InDays, q) + InDays[p[n]]
    BY ONLY <1>2, <1>4, SeqSumAppend
  <2>3. SeqSum(InSpent, p) = SeqSum(InSpent, q) + InSpent[p[n]]
    BY ONLY <1>2, <1>4, SeqSumAppend
  <2>4. QED
    BY <2>1, <2>2, <2>3
<1>6. InDrawers[r] = 1 /\ InDays[r] = 1 /\ InSpent[r] = 0
  BY DEF InDrawers, InDays, InSpent
<1>7. Spent \in Int /\ p[n] = r
  BY <1>1, <1>3, TotalsTyped
<1>8. /\ Drawers = SeqSum(InDrawers, shifts) /\ DayDrawers = SeqSum(InDays, shifts)
      /\ Spent = SeqSum(InSpent, shifts)
  BY TotalsAre
<1>9. /\ Drawers' = SeqSum(InDrawers, shifts') /\ DayDrawers' = SeqSum(InDays, shifts')
      /\ Spent' = SeqSum(InSpent, shifts')
  BY <1>1, TotalsThen
<1>10. QED
  BY <1>1, <1>3, <1>5, <1>6, <1>7, <1>8, <1>9

\* A movement of kind k in the drawer of shift s.
LEMMA MovedShape ==
    ASSUME shifts \in Seq(Shifts), NEW s \in DOMAIN shifts, NEW k \in Kinds, Moved(s, k)
    PROVE  /\ shifts' \in Seq(Shifts) /\ DOMAIN shifts' = DOMAIN shifts
           /\ \A t \in DOMAIN shifts \ {s} : shifts'[t] = shifts[t]
           /\ shifts'[s].user = shifts[s].user /\ shifts'[s].status = shifts[s].status
           /\ shifts'[s].expected = shifts[s].expected
           /\ Drawers' = Drawers + InDrawer(k) /\ DayDrawers' = DayDrawers + InDay(k)
           /\ Spent' = Spent + (IF k = "CASH_EXPENSE" THEN 1 ELSE 0)
<1> DEFINE a == shifts[s]
           m == a.moves
           n == WithMove(m, k)
           r == [a EXCEPT !.moves = n]
<1>0. a \in Shifts /\ k \in Kinds
  BY SequenceDomain
<1>1. a \in Shifts /\ m \in [Kinds -> Nat]
  BY <1>0 DEF Shifts
<1>2. r = [user |-> a.user, status |-> a.status, moves |-> n, expected |-> a.expected]
  BY ONLY <1>1 DEF Shifts
<1>3. shifts' = [shifts EXCEPT ![s] = r]
  BY DEF Moved, WithMove
<1>4. k \in Kinds /\ n = WithMove(m, k)
  OBVIOUS
<1>10. /\ n \in [Kinds -> Nat] /\ Drawer(n) = Drawer(m) + InDrawer(k)
      /\ DayMoves(n) = DayMoves(m) + InDay(k)
      /\ n["CASH_EXPENSE"] = m["CASH_EXPENSE"] + (IF k = "CASH_EXPENSE" THEN 1 ELSE 0)
  BY ONLY <1>1, <1>4, OneMore
<1> HIDE DEF n
<1>5. r \in Shifts /\ r.moves = n /\ r.user = a.user /\ r.status = a.status
      /\ r.expected = a.expected
  BY <1>1, <1>2, <1>10 DEF Shifts
<1> HIDE DEF r
<1>6. /\ shifts' \in Seq(Shifts) /\ DOMAIN shifts' = DOMAIN shifts
      /\ shifts'[s] = r /\ \A t \in DOMAIN shifts \ {s} : shifts'[t] = shifts[t]
      /\ Drawers' = Drawers + (Drawer(r.moves) - Drawer(a.moves))
      /\ DayDrawers' = DayDrawers + (DayMoves(r.moves) - DayMoves(a.moves))
      /\ Spent' = Spent + (r.moves["CASH_EXPENSE"] - a.moves["CASH_EXPENSE"])
  BY <1>3, <1>5, ShiftSet
<1>7. /\ Drawer(m) \in Int /\ DayMoves(m) \in Int /\ m["CASH_EXPENSE"] \in Int
      /\ InDrawer(k) \in Int /\ InDay(k) \in Int /\ (IF k = "CASH_EXPENSE" THEN 1 ELSE 0) \in Int
  <2>1. Drawer(m) \in Int /\ DayMoves(m) \in Int
    BY ONLY <1>1, DrawerIs
  <2>2. m["CASH_EXPENSE"] \in Int
    BY ONLY <1>1 DEF Kinds, OutOf
  <2>3. InDrawer(k) \in Int /\ InDay(k) \in Int /\ (IF k = "CASH_EXPENSE" THEN 1 ELSE 0) \in Int
    BY DEF InDrawer, InDay
  <2>4. QED
    BY <2>1, <2>2, <2>3
<1>8. /\ Drawer(r.moves) - Drawer(a.moves) = InDrawer(k)
      /\ DayMoves(r.moves) - DayMoves(a.moves) = InDay(k)
      /\ r.moves["CASH_EXPENSE"] - a.moves["CASH_EXPENSE"]
           = (IF k = "CASH_EXPENSE" THEN 1 ELSE 0)
  BY <1>5, <1>7, <1>10
<1>9. QED
  BY <1>5, <1>6, <1>8

\* The start of a shift, its end and its review.
LEMMA StartShape ==
    ASSUME shifts \in Seq(Shifts), NEW u \in Users,
           shifts' = Append(shifts, [user |-> u, status |-> "OPEN",
                                     moves |-> [NoMoves EXCEPT !["OPENING_FLOAT"] = 1],
                                     expected |-> 0])
    PROVE  /\ shifts' \in Seq(Shifts)
           /\ DOMAIN shifts' = DOMAIN shifts \cup {Len(shifts) + 1}
           /\ Len(shifts) + 1 \notin DOMAIN shifts
           /\ shifts'[Len(shifts) + 1].user = u /\ shifts'[Len(shifts) + 1].status = "OPEN"
           /\ \A t \in DOMAIN shifts : shifts'[t] = shifts[t]
           /\ Drawers' = Drawers + 1 /\ DayDrawers' = DayDrawers + 1 /\ Spent' = Spent
<1> DEFINE m == [NoMoves EXCEPT !["OPENING_FLOAT"] = 1]
           r == [user |-> u, status |-> "OPEN", moves |-> m, expected |-> 0]
<1>1. m \in [Kinds -> Nat] /\ Drawer(m) = 1 /\ DayMoves(m) = 1 /\ m["CASH_EXPENSE"] = 0
  BY FirstMove
<1>2. shifts' = Append(shifts, r)
  OBVIOUS
<1> HIDE DEF m
<1>3. r \in Shifts /\ r.moves = m /\ r.user = u /\ r.status = "OPEN"
  BY <1>1 DEF Shifts
<1> HIDE DEF r
<1>4. QED
  BY <1>1, <1>2, <1>3, ShiftAdd

LEMMA EndShape ==
    ASSUME shifts \in Seq(Shifts), NEW s \in DOMAIN shifts, NEW x \in Int,
           NEW st \in {"REVIEW_REQUIRED", "CLOSED"},
           shifts' = [shifts EXCEPT ![s].expected = x, ![s].status = st]
    PROVE  /\ shifts' \in Seq(Shifts) /\ DOMAIN shifts' = DOMAIN shifts
           /\ \A t \in DOMAIN shifts \ {s} : shifts'[t] = shifts[t]
           /\ shifts'[s].user = shifts[s].user /\ shifts'[s].status = st
           /\ shifts'[s].expected = x /\ shifts'[s].moves = shifts[s].moves
           /\ Drawers' = Drawers /\ DayDrawers' = DayDrawers /\ Spent' = Spent
<1> DEFINE a == shifts[s]
           r1 == [a EXCEPT !.expected = x]
           r2 == [r1 EXCEPT !.status = st]
           q == [shifts EXCEPT ![s].expected = x]
           c == [q EXCEPT ![s].status = st]
<1>0. a \in Shifts
  BY SequenceDomain
<1>1. a \in Shifts /\ a.moves \in [Kinds -> Nat]
  BY <1>0 DEF Shifts
<1>2. r2 = [user |-> a.user, status |-> st, moves |-> a.moves, expected |-> x]
  <2>1. r1 = [user |-> a.user, status |-> a.status, moves |-> a.moves, expected |-> x]
    BY ONLY <1>1 DEF Shifts
  <2>2. r1 \in Shifts
    BY <1>1, <2>1 DEF Shifts
  <2> HIDE DEF r1
  <2>3. QED
    BY ONLY <2>1, <2>2 DEF Shifts
<1>3. r2 \in Shifts /\ r2.moves = a.moves /\ r2.user = a.user /\ r2.status = st
      /\ r2.expected = x
  BY <1>1, <1>2 DEF Shifts
<1>4. shifts' = [shifts EXCEPT ![s] = r2]
  <2>1. q = [shifts EXCEPT ![s] = r1]
    OBVIOUS
  <2>2. q[s] = r1 /\ c = [q EXCEPT ![s] = r2]
    BY <2>1
  <2> HIDE DEF r1, r2
  <2>3. [q EXCEPT ![s] = r2] = [shifts EXCEPT ![s] = r2]
    BY <2>1
  <2>4. shifts' = c
    OBVIOUS
  <2>5. QED
    BY <2>2, <2>3, <2>4
<1>5. /\ Drawer(a.moves) \in Int /\ DayMoves(a.moves) \in Int
      /\ a.moves["CASH_EXPENSE"] \in Nat
  BY <1>1, DrawerIs DEF Kinds, OutOf
<1> HIDE DEF r2
<1>6. /\ Drawer(r2.moves) - Drawer(a.moves) = 0 /\ DayMoves(r2.moves) - DayMoves(a.moves) = 0
      /\ r2.moves["CASH_EXPENSE"] - a.moves["CASH_EXPENSE"] = 0
  BY <1>3, <1>5
<1>7. /\ shifts' \in Seq(Shifts) /\ DOMAIN shifts' = DOMAIN shifts
      /\ shifts'[s] = r2 /\ \A t \in DOMAIN shifts \ {s} : shifts'[t] = shifts[t]
      /\ Drawers' = Drawers + (Drawer(r2.moves) - Drawer(a.moves))
      /\ DayDrawers' = DayDrawers + (DayMoves(r2.moves) - DayMoves(a.moves))
      /\ Spent' = Spent + (r2.moves["CASH_EXPENSE"] - a.moves["CASH_EXPENSE"])
  BY <1>3, <1>4, ShiftSet
<1>8. Drawers \in Int /\ DayDrawers \in Int /\ Spent \in Int
  BY TotalsTyped
<1>9. QED
  BY <1>3, <1>6, <1>7, <1>8

LEMMA ReviewShape ==
    ASSUME shifts \in Seq(Shifts), NEW s \in DOMAIN shifts,
           shifts' = [shifts EXCEPT ![s].status = "CLOSED"]
    PROVE  /\ shifts' \in Seq(Shifts) /\ DOMAIN shifts' = DOMAIN shifts
           /\ \A t \in DOMAIN shifts \ {s} : shifts'[t] = shifts[t]
           /\ shifts'[s].user = shifts[s].user /\ shifts'[s].status = "CLOSED"
           /\ shifts'[s].expected = shifts[s].expected /\ shifts'[s].moves = shifts[s].moves
           /\ Drawers' = Drawers /\ DayDrawers' = DayDrawers /\ Spent' = Spent
<1> DEFINE a == shifts[s]
           r2 == [a EXCEPT !.status = "CLOSED"]
<1>0. a \in Shifts
  BY SequenceDomain
<1>1. a \in Shifts /\ a.moves \in [Kinds -> Nat]
  BY <1>0 DEF Shifts
<1>2. r2 = [user |-> a.user, status |-> "CLOSED", moves |-> a.moves, expected |-> a.expected]
  BY ONLY <1>1 DEF Shifts
<1>3. r2 \in Shifts /\ r2.moves = a.moves /\ r2.user = a.user /\ r2.status = "CLOSED"
      /\ r2.expected = a.expected
  BY ONLY <1>1, <1>2 DEF Shifts
<1>4. shifts' = [shifts EXCEPT ![s] = r2]
  OBVIOUS
<1>5. /\ Drawer(a.moves) \in Int /\ DayMoves(a.moves) \in Int
      /\ a.moves["CASH_EXPENSE"] \in Nat
  BY <1>1, DrawerIs DEF Kinds, OutOf
<1> HIDE DEF r2
<1>6. /\ Drawer(r2.moves) - Drawer(a.moves) = 0 /\ DayMoves(r2.moves) - DayMoves(a.moves) = 0
      /\ r2.moves["CASH_EXPENSE"] - a.moves["CASH_EXPENSE"] = 0
  BY <1>3, <1>5
<1>7. /\ shifts' \in Seq(Shifts) /\ DOMAIN shifts' = DOMAIN shifts
      /\ shifts'[s] = r2 /\ \A t \in DOMAIN shifts \ {s} : shifts'[t] = shifts[t]
      /\ Drawers' = Drawers + (Drawer(r2.moves) - Drawer(a.moves))
      /\ DayDrawers' = DayDrawers + (DayMoves(r2.moves) - DayMoves(a.moves))
      /\ Spent' = Spent + (r2.moves["CASH_EXPENSE"] - a.moves["CASH_EXPENSE"])
  BY <1>3, <1>4, ShiftSet
<1>8. Drawers \in Int /\ DayDrawers \in Int /\ Spent \in Int
  BY TotalsTyped
<1>9. QED
  BY <1>3, <1>6, <1>7, <1>8

-----------------------------------------------------------------------------
(***************************************************************************)
(* What a write to an expense does, and what holds however calls overlap.  *)
(***************************************************************************)
\* One expense changes: its method of payment never does.
ExpenseIs(e, st, se, rv) ==
    /\ expenses' \in Seq(Expenses) /\ DOMAIN expenses' = DOMAIN expenses
    /\ e \in DOMAIN expenses
    /\ expenses'[e].status = st /\ expenses'[e].settled = se /\ expenses'[e].reversals = rv
    /\ expenses'[e].cash = expenses[e].cash
    /\ \A d \in DOMAIN expenses \ {e} : expenses'[d] = expenses[d]

LEMMA ExpenseFrom ==
    ASSUME expenses \in Seq(Expenses), NEW e \in DOMAIN expenses,
           NEW st \in {"SUBMITTED", "APPROVED", "REJECTED", "PAID", "REVERSED"},
           NEW se \in {"NONE", "COMPLETED", "REVERSED"}, NEW rv \in Nat,
           expenses' = [expenses EXCEPT ![e] =
                          [status |-> st, cash |-> expenses[e].cash, settled |-> se,
                           reversals |-> rv]]
    PROVE  ExpenseIs(e, st, se, rv)
<1> DEFINE r == [status |-> st, cash |-> expenses[e].cash, settled |-> se, reversals |-> rv]
<1>1. expenses[e] \in Expenses
  BY SequenceDomain
<1>2. r \in Expenses
  BY <1>1 DEF Expenses
<1>3. /\ r.status = st /\ r.settled = se /\ r.reversals = rv /\ r.cash = expenses[e].cash
      /\ expenses' = [expenses EXCEPT ![e] = r]
  OBVIOUS
<1> HIDE DEF r
<1>4. QED
  BY <1>2, <1>3 DEF ExpenseIs

LEMMA StatusShape ==
    ASSUME expenses \in Seq(Expenses), NEW e \in DOMAIN expenses,
           NEW st \in {"SUBMITTED", "APPROVED", "REJECTED", "PAID", "REVERSED"},
           expenses' = [expenses EXCEPT ![e].status = st]
    PROVE  ExpenseIs(e, st, expenses[e].settled, expenses[e].reversals)
<1> DEFINE a == expenses[e]
           r == [a EXCEPT !.status = st]
<1>1. a \in Expenses
  BY SequenceDomain
<1>2. /\ a.settled \in {"NONE", "COMPLETED", "REVERSED"} /\ a.reversals \in Nat
      /\ r = [status |-> st, cash |-> a.cash, settled |-> a.settled,
              reversals |-> a.reversals]
  BY ONLY <1>1 DEF Expenses
<1>3. expenses' = [expenses EXCEPT ![e] = r]
  OBVIOUS
<1>4. expenses' = [expenses EXCEPT ![e] =
                     [status |-> st, cash |-> a.cash, settled |-> a.settled,
                      reversals |-> a.reversals]]
  BY ONLY <1>2, <1>3
<1>5. /\ expenses \in Seq(Expenses) /\ e \in DOMAIN expenses
      /\ st \in {"SUBMITTED", "APPROVED", "REJECTED", "PAID", "REVERSED"}
  OBVIOUS
<1>6. QED
  BY ONLY <1>2, <1>4, <1>5, ExpenseFrom

\* payExpense.
LEMMA PayShape ==
    ASSUME expenses \in Seq(Expenses), NEW e \in DOMAIN expenses,
           expenses' = [expenses EXCEPT ![e].status = "PAID", ![e].settled = "COMPLETED"]
    PROVE  ExpenseIs(e, "PAID", "COMPLETED", expenses[e].reversals)
<1> DEFINE a == expenses[e]
           r1 == [a EXCEPT !.status = "PAID"]
           r2 == [r1 EXCEPT !.settled = "COMPLETED"]
           q == [expenses EXCEPT ![e].status = "PAID"]
<1>1. a \in Expenses
  BY SequenceDomain
<1>2. r1 = [status |-> "PAID", cash |-> a.cash, settled |-> a.settled,
            reversals |-> a.reversals]
      /\ a.reversals \in Nat
  BY ONLY <1>1 DEF Expenses
<1>3. r1 \in Expenses
  BY ONLY <1>1, <1>2 DEF Expenses
<1>4. q = [expenses EXCEPT ![e] = r1]
  OBVIOUS
<1> HIDE DEF r1
<1>5. r2 = [status |-> "PAID", cash |-> a.cash, settled |-> "COMPLETED",
            reversals |-> a.reversals]
  BY ONLY <1>2, <1>3 DEF Expenses
<1>6. q[e] = r1 /\ expenses' = [q EXCEPT ![e] = r2]
  BY <1>4
<1> HIDE DEF r2
<1>7. expenses' = [expenses EXCEPT ![e] = r2]
  BY <1>4, <1>6
<1>8. QED
  BY <1>2, <1>5, <1>7, ExpenseFrom

\* reversePayment of a settlement.
LEMMA UnsettleShape ==
    ASSUME expenses \in Seq(Expenses), NEW e \in DOMAIN expenses,
           expenses' = [expenses EXCEPT ![e].settled = "REVERSED", ![e].reversals = @ + 1]
    PROVE  ExpenseIs(e, expenses[e].status, "REVERSED", expenses[e].reversals + 1)
<1> DEFINE a == expenses[e]
           r1 == [a EXCEPT !.settled = "REVERSED"]
           r2 == [r1 EXCEPT !.reversals = r1.reversals + 1]
           q == [expenses EXCEPT ![e].settled = "REVERSED"]
<1>1. a \in Expenses
  BY SequenceDomain
<1>2. r1 = [status |-> a.status, cash |-> a.cash, settled |-> "REVERSED",
            reversals |-> a.reversals]
  BY ONLY <1>1 DEF Expenses
<1>3. r1 \in Expenses /\ a.reversals + 1 \in Nat /\ r1.reversals = a.reversals
      /\ a.status \in {"SUBMITTED", "APPROVED", "REJECTED", "PAID", "REVERSED"}
  BY ONLY <1>1, <1>2 DEF Expenses
<1>4. q = [expenses EXCEPT ![e] = r1]
  OBVIOUS
<1> HIDE DEF r1
<1>5. r2 = [status |-> a.status, cash |-> a.cash, settled |-> "REVERSED",
            reversals |-> a.reversals + 1]
  BY ONLY <1>2, <1>3 DEF Expenses
<1>6. q[e] = r1 /\ expenses' = [q EXCEPT ![e] = r2]
  <2>1. expenses' = [q EXCEPT ![e] = [q[e] EXCEPT !.reversals = q[e].reversals + 1]]
    OBVIOUS
  <2>2. q[e] = r1
    BY <1>4
  <2>3. QED
    BY ONLY <2>1, <2>2
<1> HIDE DEF r2
<1>7. expenses' = [expenses EXCEPT ![e] = r2]
  BY <1>4, <1>6
<1>8. QED
  BY <1>3, <1>5, <1>7, ExpenseFrom

\* reverseExpense.
LEMMA ReverseShape ==
    ASSUME expenses \in Seq(Expenses), NEW e \in DOMAIN expenses,
           expenses' = [expenses EXCEPT ![e].status = "REVERSED", ![e].settled = "REVERSED",
                                        ![e].reversals = @ + 1]
    PROVE  ExpenseIs(e, "REVERSED", "REVERSED", expenses[e].reversals + 1)
<1> DEFINE a == expenses[e]
           r1 == [a EXCEPT !.status = "REVERSED"]
           r2 == [r1 EXCEPT !.settled = "REVERSED"]
           r3 == [r2 EXCEPT !.reversals = r2.reversals + 1]
           q == [expenses EXCEPT ![e].status = "REVERSED"]
           p == [q EXCEPT ![e].settled = "REVERSED"]
<1>1. a \in Expenses
  BY SequenceDomain
<1>2. r1 = [status |-> "REVERSED", cash |-> a.cash, settled |-> a.settled,
            reversals |-> a.reversals]
  BY ONLY <1>1 DEF Expenses
<1>3. r1 \in Expenses /\ a.reversals + 1 \in Nat
  BY ONLY <1>1, <1>2 DEF Expenses
<1>4. q = [expenses EXCEPT ![e] = r1]
  OBVIOUS
<1> HIDE DEF r1
<1>5. r2 = [status |-> "REVERSED", cash |-> a.cash, settled |-> "REVERSED",
            reversals |-> a.reversals]
  BY ONLY <1>2, <1>3 DEF Expenses
<1>6. r2 \in Expenses /\ r2.reversals = a.reversals
  BY ONLY <1>1, <1>5 DEF Expenses
<1>7. q[e] = r1 /\ p = [q EXCEPT ![e] = r2]
  BY <1>4
<1> HIDE DEF r2
<1>8. p = [expenses EXCEPT ![e] = r2]
  BY <1>4, <1>7
<1>9. r3 = [status |-> "REVERSED", cash |-> a.cash, settled |-> "REVERSED",
            reversals |-> a.reversals + 1]
  BY ONLY <1>5, <1>6 DEF Expenses
<1>10. p[e] = r2 /\ expenses' = [p EXCEPT ![e] = r3]
  <2>1. expenses' = [p EXCEPT ![e] = [p[e] EXCEPT !.reversals = p[e].reversals + 1]]
    OBVIOUS
  <2>2. p[e] = r2
    BY <1>8
  <2>3. QED
    BY ONLY <2>1, <2>2
<1> HIDE DEF r3
<1>11. expenses' = [expenses EXCEPT ![e] = r3]
  BY <1>8, <1>10
<1>12. QED
  BY <1>3, <1>9, <1>11, ExpenseFrom

-----------------------------------------------------------------------------
HandKinds == {"CASH_IN", "CASH_OUT", "BANKING", "ADJUSTMENT"}

\* What the call p is worth when it writes, whatever was committed since.
PlanOK(p) ==
    /\ p.op = "start" => p.user \in Users
    /\ p.op \in {"end", "review", "move", "sell", "unsell", "refund"}
         => p.shift \in DOMAIN shifts
    /\ p.op = "end" => p.expected \in Int
    /\ p.op = "move" => p.kind \in ByHand
    /\ p.op = "create" => p.cash \in BOOLEAN
    /\ p.op \in {"approve", "reject", "pay", "reverse", "unsettle"}
         => p.expense \in DOMAIN expenses
    /\ p.op \in {"pay", "unsettle"}
         => (expenses[p.expense].cash => p.shift \in DOMAIN shifts)
    /\ p.op \in {"reverse", "unsettle"} => expenses[p.expense].settled # "NONE"
    /\ p.op = "submit" => p.missed \in Int

PaidCash ==
    {e \in DOMAIN expenses : expenses[e].cash /\ expenses[e].settled # "NONE"}
ExpensesAgree ==
    \A e \in DOMAIN expenses :
      /\ expenses[e].status = "PAID" => expenses[e].settled # "NONE"
      /\ expenses[e].status = "REVERSED" => expenses[e].settled = "REVERSED"

Records ==
    /\ shifts \in Seq(Shifts) /\ expenses \in Seq(Expenses)
    /\ sales \in Nat /\ refunds \in Nat /\ daily \in Dailies /\ bypassed \in BOOLEAN
Core == Records /\ Spent = Cardinality(PaidCash) /\ ExpensesAgree
Inv ==
    /\ Core /\ PlanOK(slow)
    /\ slow.op \in Slow \cup {"none"} /\ overtaken \in BOOLEAN

\* Shifts and expenses are added, and a settlement stays.
Grows ==
    /\ DOMAIN shifts \subseteq DOMAIN shifts'
    /\ DOMAIN expenses \subseteq DOMAIN expenses'
    /\ \A e \in DOMAIN expenses :
         /\ expenses'[e].cash = expenses[e].cash
         /\ expenses[e].settled # "NONE" => expenses'[e].settled # "NONE"

LEMMA PlanKept ==
    ASSUME NEW p, PlanOK(p), Grows
    PROVE  PlanOK(p)'
BY DEF PlanOK, Grows

LEMMA CashSet == Core => IsFiniteSet(PaidCash) /\ Cardinality(PaidCash) \in Nat
<1> SUFFICES ASSUME Core PROVE IsFiniteSet(PaidCash) /\ Cardinality(PaidCash) \in Nat
  OBVIOUS
<1>1. IsFiniteSet(DOMAIN expenses)
  BY SequenceDomain DEF Core, Records
<1>2. PaidCash \subseteq DOMAIN expenses
  BY DEF PaidCash
<1>3. QED
  BY <1>1, <1>2, FS_Subset, FS_CardinalityType

\* Only shifts change, and no expense is paid from a drawer.
LEMMA ShiftsOnly ==
    ASSUME Core, Records', DOMAIN shifts \subseteq DOMAIN shifts',
           expenses' = expenses, Spent' = Spent
    PROVE  Core' /\ Grows
BY DEF Core, Grows, PaidCash, ExpensesAgree

\* One expense changes and stays as settled as it was.
LEMMA SameSettled ==
    ASSUME Core, Records', shifts' = shifts \/ Spent' = Spent,
           DOMAIN shifts \subseteq DOMAIN shifts',
           NEW e, NEW st, NEW se, NEW rv, ExpenseIs(e, st, se, rv),
           se # "NONE" <=> expenses[e].settled # "NONE",
           st = "PAID" => se # "NONE", st = "REVERSED" => se = "REVERSED"
    PROVE  Core' /\ Grows
<1>1. PaidCash' = PaidCash
  BY DEF PaidCash, ExpenseIs
<1>2. ExpensesAgree'
  BY DEF Core, ExpensesAgree, ExpenseIs
<1>3. Grows
  BY DEF Grows, ExpenseIs
<1>4. Spent' = Spent
  BY DEF Spent
<1>5. QED
  BY <1>1, <1>2, <1>3, <1>4 DEF Core

-----------------------------------------------------------------------------
(***************************************************************************)
(* Each write keeps it.                                                    *)
(***************************************************************************)
LEMMA PlansOK ==
    ASSUME Core, NEW p \in Plans
    PROVE  PlanOK(p)
<1>1. shifts \in Seq(Shifts) /\ \A s \in DOMAIN shifts : shifts[s] \in Shifts
  BY SequenceDomain DEF Core, Records
<1>2. CASE p \in ShiftPlans
  <2>1. CASE \E u \in Users : p = [op |-> "start", user |-> u]
    BY <2>1 DEF PlanOK
  <2>2. CASE \E s \in OpenShifts, b \in BOOLEAN :
               p = [op |-> "end", shift |-> s, expected |-> Expected(shifts[s].moves),
                    exact |-> b]
    <3>1. PICK s \in OpenShifts, b \in BOOLEAN :
               p = [op |-> "end", shift |-> s, expected |-> Expected(shifts[s].moves),
                    exact |-> b]
      BY <2>2
    <3>2. s \in DOMAIN shifts /\ shifts[s].moves \in [Kinds -> Nat]
      BY <1>1 DEF OpenShifts, Shifts
    <3>3. Expected(shifts[s].moves) \in Int
      BY ONLY <3>2, DrawerIs
    <3>4. p.op = "end" /\ p.shift \in DOMAIN shifts /\ p.expected \in Int
      BY <3>1, <3>2, <3>3
    <3>5. QED
      BY <3>4 DEF PlanOK
  <2>3. CASE \E s \in DOMAIN shifts : p = [op |-> "review", shift |-> s]
    BY <2>3 DEF PlanOK
  <2>4. QED
    BY <1>2, <2>1, <2>2, <2>3 DEF ShiftPlans
<1>3. CASE p \in CashPlans
  <2>1. CASE \E s \in OpenShifts, k \in ByHand : p = [op |-> "move", shift |-> s, kind |-> k]
    BY <2>1 DEF PlanOK, OpenShifts
  <2>2. CASE \E op \in {"sell", "invoice", "refund", "unsell"}, s \in OpenShifts :
               p = [op |-> op, shift |-> s]
    <3>1. PICK op \in {"sell", "invoice", "refund", "unsell"}, s \in OpenShifts :
               p = [op |-> op, shift |-> s]
      BY <2>2
    <3>2. p.op = op /\ p.shift = s /\ s \in DOMAIN shifts
      BY <3>1 DEF OpenShifts
    <3>3. QED
      BY <3>2 DEF PlanOK
  <2>3. QED
    BY <1>3, <2>1, <2>2 DEF CashPlans
<1>4. CASE p \in ExpensePlans
  <2>1. CASE \E b \in BOOLEAN : p = [op |-> "create", cash |-> b]
    BY <2>1 DEF PlanOK
  <2>2. CASE \E op \in {"approve", "reject"}, e \in DOMAIN expenses :
               p = [op |-> op, expense |-> e]
    BY <2>2 DEF PlanOK
  <2>3. CASE \E e \in DOMAIN expenses : \E s \in (IF expenses[e].cash THEN OpenShifts ELSE {0}) :
               p = [op |-> "pay", expense |-> e, shift |-> s]
    <3>1. PICK e, s :
            /\ e \in DOMAIN expenses
            /\ s \in (IF expenses[e].cash THEN OpenShifts ELSE {0})
            /\ p = [op |-> "pay", expense |-> e, shift |-> s]
      BY <2>3
    <3>2. p.op = "pay" /\ p.expense = e /\ p.shift = s /\ e \in DOMAIN expenses
      BY <3>1
    <3>3. expenses[e].cash => s \in DOMAIN shifts
      BY <3>1 DEF OpenShifts
    <3>4. QED
      BY <3>2, <3>3 DEF PlanOK
  <2>4. CASE \E e \in DOMAIN expenses :
               expenses[e].settled = "COMPLETED" /\ p = [op |-> "reverse", expense |-> e]
    BY <2>4 DEF PlanOK
  <2>5. CASE \E e \in DOMAIN expenses : \E s \in (IF expenses[e].cash THEN OpenShifts ELSE {0}) :
               /\ expenses[e].settled = "COMPLETED"
               /\ p = [op |-> "unsettle", expense |-> e, shift |-> s]
    BY <2>5 DEF PlanOK, OpenShifts
  <2>6. QED
    BY <1>4, <2>1, <2>2, <2>3, <2>4, <2>5 DEF ExpensePlans, ExpensesIn
<1>5. CASE p \in DailyPlans
  <2>1. DayExpected - Drawers \in Int
    <3>1. PaidOut \in Nat
      <4>1. IsFiniteSet(DOMAIN expenses)
        BY SequenceDomain DEF Core, Records
      <4>2. {e \in DOMAIN expenses : expenses[e].status = "PAID"} \subseteq DOMAIN expenses
        OBVIOUS
      <4>3. QED
        BY <4>1, <4>2, FS_Subset, FS_CardinalityType DEF PaidOut
    <3>2. Drawers \in Int /\ DayDrawers \in Int
      BY <1>1, TotalsTyped
    <3>3. sales \in Nat /\ refunds \in Nat
      BY DEF Core, Records
    <3>4. QED
      BY <3>1, <3>2, <3>3 DEF DayExpected
  <2>2. CASE \E b : p = [op |-> "submit", new |-> b, missed |-> DayExpected - Drawers]
    <3>1. p.op = "submit" /\ p.missed \in Int
      BY <2>1, <2>2
    <3>2. QED
      BY <3>1 DEF PlanOK
  <2>3. CASE \E op \in {"sign", "return"} : p = [op |-> op]
    BY <2>3 DEF PlanOK
  <2>4. QED
    BY <1>5, <2>2, <2>3 DEF DailyPlans
<1>6. QED
  BY <1>2, <1>3, <1>4, <1>5 DEF Plans

-----------------------------------------------------------------------------
\* A movement that is not an expense.
LEMMA MovedTyped ==
    ASSUME Core, NEW s \in DOMAIN shifts, NEW k \in Kinds, Moved(s, k)
    PROVE  /\ shifts' \in Seq(Shifts) /\ DOMAIN shifts' = DOMAIN shifts
           /\ k # "CASH_EXPENSE" => Spent' = Spent
           /\ k = "CASH_EXPENSE" => Spent' = Spent + 1
<1>1. shifts \in Seq(Shifts)
  BY DEF Core, Records
<1>2. Spent \in Nat
  BY <1>1, TotalsTyped
<1>3. /\ shifts' \in Seq(Shifts) /\ DOMAIN shifts' = DOMAIN shifts
      /\ Spent' = Spent + (IF k = "CASH_EXPENSE" THEN 1 ELSE 0)
  BY <1>1, MovedShape
<1>4. QED
  BY <1>2, <1>3

KindsUsed == {"CASH_SALE", "CASH_REFUND", "CASH_EXPENSE"} \cup HandKinds
LEMMA KindsAre == KindsUsed \subseteq Kinds
BY DEF KindsUsed, HandKinds, Kinds, Into, OutOf

LEMMA ShiftWrite ==
    ASSUME Core, NEW p, PlanOK(p), StartShift(p) \/ EndShift(p) \/ ReviewShift(p)
    PROVE  Core' /\ Grows
<1>1. Records /\ shifts \in Seq(Shifts)
  BY DEF Core, Records
<1>2. CASE StartShift(p)
  <2>1. p.user \in Users
    BY <1>2 DEF StartShift, PlanOK
  <2>2. /\ shifts' \in Seq(Shifts) /\ Spent' = Spent
        /\ DOMAIN shifts' = DOMAIN shifts \cup {Len(shifts) + 1}
    BY <1>1, <1>2, <2>1, StartShape DEF StartShift
  <2>3. Records' /\ expenses' = expenses
    BY <1>1, <1>2, <2>2 DEF StartShift, Records
  <2>4. QED
    BY <2>2, <2>3, ShiftsOnly
<1>3. CASE EndShift(p)
  <2>1. p.shift \in DOMAIN shifts /\ p.expected \in Int
    BY <1>3 DEF EndShift, PlanOK
  <2>2. PICK st \in {"REVIEW_REQUIRED", "CLOSED"} :
          shifts' = [shifts EXCEPT ![p.shift].expected = p.expected, ![p.shift].status = st]
    BY <1>3 DEF EndShift
  <2>3. shifts' \in Seq(Shifts) /\ Spent' = Spent /\ DOMAIN shifts' = DOMAIN shifts
    BY <1>1, <2>1, <2>2, EndShape
  <2>4. Records' /\ expenses' = expenses
    BY <1>1, <1>3, <2>3 DEF EndShift, Records
  <2>5. QED
    BY <2>3, <2>4, ShiftsOnly
<1>4. CASE ReviewShift(p)
  <2>1. p.shift \in DOMAIN shifts
    BY <1>4 DEF ReviewShift, PlanOK
  <2>2. shifts' \in Seq(Shifts) /\ Spent' = Spent /\ DOMAIN shifts' = DOMAIN shifts
    BY <1>1, <1>4, <2>1, ReviewShape DEF ReviewShift
  <2>3. Records' /\ expenses' = expenses
    BY <1>1, <1>4, <2>2 DEF ReviewShift, Records
  <2>4. QED
    BY <2>2, <2>3, ShiftsOnly
<1>5. QED
  BY <1>2, <1>3, <1>4

LEMMA CashWrite ==
    ASSUME ByHand \subseteq HandKinds, Core, NEW p, PlanOK(p),
           \/ RecordCashMovement(p) \/ SellForCash(p) \/ PayInvoiceInCash(p)
           \/ ReverseSale(p) \/ RefundInCash(p)
    PROVE  Core' /\ Grows
<1>1. Records /\ shifts \in Seq(Shifts)
  BY DEF Core, Records
<1>2. CASE PayInvoiceInCash(p)
  <2>1. shifts' = shifts /\ expenses' = expenses /\ Records'
    BY <1>1, <1>2 DEF PayInvoiceInCash, Records
  <2>2. Spent' = Spent
    BY <2>1 DEF Spent
  <2>3. QED
    BY <2>1, <2>2, ShiftsOnly
<1>3. CASE ~PayInvoiceInCash(p)
  <2>1. PICK s, k : s = p.shift /\ Moved(s, k) /\ k \in KindsUsed /\ k # "CASH_EXPENSE"
    <3>1. CASE RecordCashMovement(p)
      BY <3>1 DEF RecordCashMovement, PlanOK, KindsUsed, HandKinds
    <3>2. CASE SellForCash(p) \/ ReverseSale(p) \/ RefundInCash(p)
      BY <3>2 DEF SellForCash, ReverseSale, RefundInCash, KindsUsed
    <3>3. QED
      BY <1>3, <3>1, <3>2
  <2>2. s \in DOMAIN shifts
    BY <1>3, <2>1 DEF PlanOK, RecordCashMovement, SellForCash, ReverseSale, RefundInCash
  <2>3. shifts' \in Seq(Shifts) /\ DOMAIN shifts' = DOMAIN shifts /\ Spent' = Spent
    BY <2>1, <2>2, KindsAre, MovedTyped
  <2>4. /\ expenses' = expenses /\ sales' \in Nat /\ refunds' \in Nat
        /\ daily' = daily /\ bypassed' \in BOOLEAN
    <3>1. sales \in Nat /\ refunds \in Nat /\ bypassed \in BOOLEAN
      BY <1>1 DEF Records
    <3>2. CASE RecordCashMovement(p)
      <4>1. bypassed' \in BOOLEAN
        BY <3>1, <3>2 DEF RecordCashMovement
      <4>2. QED
        BY <3>1, <3>2, <4>1 DEF RecordCashMovement
    <3>3. CASE SellForCash(p)
      BY <3>1, <3>3 DEF SellForCash
    <3>4. CASE ReverseSale(p)
      BY <3>1, <3>4 DEF ReverseSale
    <3>5. CASE RefundInCash(p)
      BY <3>1, <3>5 DEF RefundInCash
    <3>6. QED
      BY <1>3, <3>2, <3>3, <3>4, <3>5
  <2>6. Records'
    BY <1>1, <2>3, <2>4 DEF Records
  <2>7. QED
    BY <2>3, <2>4, <2>6, ShiftsOnly
<1>4. QED
  BY <1>2, <1>3

\* A new expense has no settlement.
LEMMA CreateWrite ==
    ASSUME Core, NEW p, PlanOK(p), CreateExpense(p)
    PROVE  Core' /\ Grows
<1> DEFINE r == [status |-> "SUBMITTED", cash |-> p.cash, settled |-> "NONE", reversals |-> 0]
           n == Len(expenses) + 1
<1>1. Records /\ expenses \in Seq(Expenses)
  BY DEF Core, Records
<1>2. p.cash \in BOOLEAN
  BY DEF CreateExpense, PlanOK
<1>3. /\ r \in Expenses /\ r.settled = "NONE" /\ r.status = "SUBMITTED"
      /\ expenses' = Append(expenses, r) /\ UNCHANGED <<shifts, sales, refunds, daily, bypassed>>
  BY <1>2 DEF CreateExpense, Expenses
<1> HIDE DEF r
<1>4. /\ expenses' \in Seq(Expenses) /\ DOMAIN expenses' = DOMAIN expenses \cup {n}
      /\ n \notin DOMAIN expenses
      /\ \A i \in DOMAIN expenses : expenses'[i] = expenses[i]
      /\ expenses'[n] = r
  BY <1>1, <1>3, SequenceAppend
<1> HIDE DEF n
<1>5. PaidCash' = PaidCash
  BY <1>3, <1>4 DEF PaidCash
<1>6. ExpensesAgree'
  BY <1>3, <1>4 DEF Core, ExpensesAgree
<1>7. Grows
  BY <1>3, <1>4 DEF Grows
<1>8. Records' /\ Spent' = Spent
  BY <1>1, <1>3, <1>4 DEF Records, Spent
<1>9. QED
  BY <1>5, <1>6, <1>7, <1>8 DEF Core

LEMMA JudgeWrite ==
    ASSUME Core, NEW p, PlanOK(p), ApproveExpense(p) \/ RejectExpense(p)
    PROVE  Core' /\ Grows
<1>1. Records /\ expenses \in Seq(Expenses)
  BY DEF Core, Records
<1>2. PICK e \in DOMAIN expenses : e = p.expense
  BY DEF PlanOK, ApproveExpense, RejectExpense
<1>3. PICK st \in {"APPROVED", "REJECTED"} : expenses' = [expenses EXCEPT ![e].status = st]
  BY <1>2 DEF ApproveExpense, RejectExpense
<1>4. ExpenseIs(e, st, expenses[e].settled, expenses[e].reversals)
  BY <1>1, <1>3, StatusShape
<1>5. Records' /\ shifts' = shifts
  BY <1>1, <1>4 DEF Records, ExpenseIs, ApproveExpense, RejectExpense
<1>6. QED
  BY <1>4, <1>5, SameSettled

LEMMA PayWrite ==
    ASSUME Core, NEW p, PlanOK(p), PayExpense(p)
    PROVE  Core' /\ Grows
<1>1. Records /\ expenses \in Seq(Expenses) /\ shifts \in Seq(Shifts)
  BY DEF Core, Records
<1>2. PICK e \in DOMAIN expenses : e = p.expense
  BY DEF PlanOK, PayExpense
<1>3. ExpenseIs(e, "PAID", "COMPLETED", expenses[e].reversals) /\ expenses[e].settled = "NONE"
  BY <1>1, <1>2, PayShape DEF PayExpense
<1>4. Grows /\ ExpensesAgree' /\ Records'
      /\ Spent' = Spent + (IF expenses[e].cash THEN 1 ELSE 0)
  <2>1. CASE expenses[e].cash
    <3>1. p.shift \in DOMAIN shifts /\ Moved(p.shift, "CASH_EXPENSE")
      BY <1>2, <2>1 DEF PayExpense, PlanOK
    <3>2. "CASH_EXPENSE" \in Kinds
      BY KindsAre DEF KindsUsed
    <3>3. shifts' \in Seq(Shifts) /\ DOMAIN shifts' = DOMAIN shifts /\ Spent' = Spent + 1
      BY <3>1, <3>2, MovedTyped
    <3>4. Grows /\ ExpensesAgree'
      BY SMTT(30), <1>3, <3>3 DEF Grows, Core, ExpensesAgree, ExpenseIs
    <3>5. Records'
      BY <1>1, <1>3, <3>3 DEF Records, ExpenseIs, PayExpense
    <3>6. QED
      BY <2>1, <3>3, <3>4, <3>5
  <2>2. CASE ~expenses[e].cash
    <3>1. shifts' = shifts
      BY <1>2, <2>2 DEF PayExpense
    <3>2. Grows /\ ExpensesAgree'
      BY <1>3, <3>1 DEF Grows, Core, ExpensesAgree, ExpenseIs
    <3>3. Spent' = Spent /\ Spent \in Nat
      BY <1>1, <3>1, TotalsTyped DEF Spent
    <3>4. Records'
      BY <1>1, <1>3, <3>1 DEF Records, ExpenseIs, PayExpense
    <3>5. QED
      BY <2>2, <3>2, <3>3, <3>4
  <2>3. QED
    BY <2>1, <2>2
<1>5. IsFiniteSet(PaidCash) /\ Cardinality(PaidCash) \in Nat /\ e \notin PaidCash
  BY <1>3, CashSet DEF PaidCash
<1>6. PaidCash' = IF expenses[e].cash THEN PaidCash \cup {e} ELSE PaidCash
  BY <1>3 DEF PaidCash, ExpenseIs
<1>7. Cardinality(PaidCash') = Cardinality(PaidCash) + (IF expenses[e].cash THEN 1 ELSE 0)
  <2>1. CASE expenses[e].cash
    <3>1. PaidCash' = PaidCash \cup {e}
      BY <1>6, <2>1
    <3>2. Cardinality(PaidCash') = Cardinality(PaidCash) + 1
      BY <1>5, <3>1, FS_AddElement
    <3>3. QED
      BY <2>1, <3>2
  <2>2. CASE ~expenses[e].cash
    BY <1>5, <1>6, <2>2
  <2>3. QED
    BY <2>1, <2>2
<1>8. QED
  BY <1>4, <1>7 DEF Core

LEMMA UndoWrite ==
    ASSUME Core, NEW p, PlanOK(p), ReverseExpense(p) \/ ReverseSettlement(p)
    PROVE  Core' /\ Grows
<1>1. Records /\ expenses \in Seq(Expenses) /\ shifts \in Seq(Shifts)
  BY DEF Core, Records
<1>2. PICK e \in DOMAIN expenses : e = p.expense /\ expenses[e].settled # "NONE"
  BY DEF PlanOK, ReverseExpense, ReverseSettlement
<1>3. PICK st, rv : /\ ExpenseIs(e, st, "REVERSED", rv)
  BY <1>1, <1>2, ReverseShape, UnsettleShape DEF ReverseExpense, ReverseSettlement
<1>4. shifts' \in Seq(Shifts) /\ DOMAIN shifts' = DOMAIN shifts /\ Spent' = Spent
  <2>1. CASE ReverseSettlement(p) /\ expenses[e].cash
    <3>1. p.shift \in DOMAIN shifts /\ Moved(p.shift, "CASH_REFUND")
      BY <1>2, <2>1 DEF ReverseSettlement, PlanOK
    <3>2. "CASH_REFUND" \in Kinds
      BY KindsAre DEF KindsUsed
    <3>3. QED
      BY <3>1, <3>2, MovedTyped
  <2>2. CASE shifts' = shifts
    BY <1>1, <2>2 DEF Spent
  <2>3. QED
    BY <1>2, <2>1, <2>2 DEF ReverseExpense, ReverseSettlement
<1>5. Records'
  BY <1>1, <1>3, <1>4 DEF Records, ExpenseIs, ReverseExpense, ReverseSettlement
<1>6. QED
  BY <1>2, <1>3, <1>4, <1>5, SameSettled

LEMMA DailyWrite ==
    ASSUME Core, NEW p, PlanOK(p),
           ReconcileDailyBranch(p) \/ ApproveReconciliation(p) \/ ReturnReconciliation(p)
    PROVE  Core' /\ Grows
<1>1. Records
  BY DEF Core
<1>2. shifts' = shifts /\ expenses' = expenses /\ sales' = sales /\ refunds' = refunds
      /\ bypassed' = bypassed
  BY DEF ReconcileDailyBranch, ApproveReconciliation, ReturnReconciliation
<1>3. daily' \in Dailies
  <2>1. daily \in Dailies
    BY <1>1 DEF Records
  <2>2. CASE ReconcileDailyBranch(p)
    BY <2>2 DEF ReconcileDailyBranch, PlanOK, Dailies
  <2>3. CASE ApproveReconciliation(p) \/ ReturnReconciliation(p)
    BY <2>1, <2>3 DEF ApproveReconciliation, ReturnReconciliation, Dailies
  <2>4. QED
    BY <2>2, <2>3
<1>4. Records' /\ Spent' = Spent
  BY <1>1, <1>2, <1>3 DEF Records, Spent
<1>5. QED
  BY <1>2, <1>4, ShiftsOnly

LEMMA WriteOK ==
    ASSUME ByHand \subseteq HandKinds, Core, NEW p, PlanOK(p), Write(p)
    PROVE  Core' /\ Grows
BY ShiftWrite, CashWrite, CreateWrite, JudgeWrite, PayWrite, UndoWrite, DailyWrite
   DEF Write

-----------------------------------------------------------------------------
(***************************************************************************)
(* So does each step: expenses are settled once.                           *)
(***************************************************************************)
LEMMA NoPlanOK == PlanOK(NoPlan) /\ PlanOK(NoPlan)'
<1>1. NoPlan.op = "none"
  BY DEF NoPlan
<1>2. QED
  BY <1>1 DEF PlanOK

LEMMA InitOK == Init => Inv
<1> SUFFICES ASSUME Init PROVE Inv
  OBVIOUS
<1>1. shifts = <<>> /\ expenses = <<>> /\ slow = NoPlan
  BY DEF Init
<1>2. Records
  <2>1. shifts \in Seq(Shifts) /\ expenses \in Seq(Expenses)
    BY ONLY <1>1
  <2>2. daily \in Dailies
    BY DEF Init, Dailies
  <2>3. QED
    BY <2>1, <2>2 DEF Init, Records
<1>3. Spent = 0
  BY <1>1, <1>2, TotalsAre, SeqSumEmpty DEF Records
<1>4. PaidCash = {} /\ ExpensesAgree
  BY <1>1 DEF PaidCash, ExpensesAgree
<1>5. PlanOK(slow) /\ slow.op = "none" /\ overtaken \in BOOLEAN
  <2>1. slow.op = "none" /\ overtaken \in BOOLEAN
    BY DEF Init, NoPlan
  <2>2. QED
    BY <2>1 DEF PlanOK
<1>6. QED
  BY <1>2, <1>3, <1>4, <1>5, FS_EmptySet DEF Inv, Core

\* What a step of each kind keeps.
LEMMA AloneOK ==
    ASSUME ByHand \subseteq HandKinds, Inv, Alone
    PROVE  Inv'
<1>1. PICK p \in Plans : Write(p)
  BY DEF Alone
<1>2. Core /\ PlanOK(p)
  BY PlansOK DEF Inv
<1>3. Core' /\ Grows
  BY <1>1, <1>2, WriteOK
<1>4. PICK q : q = slow
  OBVIOUS
<1>5. PlanOK(q)'
  BY <1>3, <1>4, PlanKept DEF Inv
<1>6. QED
  BY <1>3, <1>4, <1>5 DEF Inv, Alone, PlanOK

LEMMA PauseOK ==
    ASSUME Inv, Pause
    PROVE  Inv'
<1>1. PICK p \in Plans : slow' = p /\ p.op \in Slow
  BY DEF Pause
<1>2. Core /\ PlanOK(p)
  BY PlansOK DEF Inv
<1>3. UNCHANGED <<records, overtaken>>
  BY DEF Pause
<1>4. Core' /\ PlanOK(slow)'
  BY <1>1, <1>2, <1>3
     DEF Core, Records, Spent, PaidCash, ExpensesAgree, PlanOK, records
<1>5. QED
  BY <1>1, <1>3, <1>4 DEF Inv

LEMMA ResumeOK ==
    ASSUME ByHand \subseteq HandKinds, Inv, Resume
    PROVE  Inv'
<1>1. slow' = NoPlan /\ NoPlan.op = "none"
  BY DEF Resume, NoPlan
<1>2. PlanOK(slow)'
  BY <1>1 DEF PlanOK
<1>3. Core' /\ overtaken' \in BOOLEAN
  <2>1. CASE Write(slow) /\ overtaken' = (slow \notin Plans)
    <3>1. PICK q : q = slow
      OBVIOUS
    <3>2. Write(q) /\ PlanOK(q) /\ Core
      BY <2>1, <3>1 DEF Inv
    <3>3. Core'
      BY <3>2, WriteOK
    <3>4. QED
      BY <2>1, <3>3
  <2>2. CASE UNCHANGED <<records, overtaken>>
    BY <2>2 DEF Inv, Core, Records, Spent, PaidCash, ExpensesAgree, records
  <2>3. QED
    BY <2>1, <2>2 DEF Resume
<1>4. QED
  BY <1>1, <1>2, <1>3 DEF Inv

LEMMA NextOK == ByHand \subseteq HandKinds /\ Inv /\ [Next]_vars => Inv'
<1> SUFFICES ASSUME ByHand \subseteq HandKinds, Inv, [Next]_vars PROVE Inv'
  OBVIOUS
<1>1. CASE UNCHANGED vars
  BY <1>1 DEF vars, records, Inv, Core, Records, Spent, PaidCash, ExpensesAgree, PlanOK
<1>2. QED
  BY <1>1, AloneOK, PauseOK, ResumeOK DEF Next

\* However calls overlap: records are typed, the drawers have paid the cash
\* expenses that were settled, and what a paused call holds is good to write.
THEOREM InvHolds ==
    ASSUME ByHand \subseteq HandKinds
    PROVE  Spec => []Inv
<1>1. Inv /\ [Next]_vars => Inv'
  BY NextOK
<1>2. QED
  BY <1>1, InitOK, PTL DEF Spec

\* However calls overlap, the drawers have paid each cash expense that was
\* settled once, an expense is PAID only with a settlement and REVERSED only
\* after the settlement was.
THEOREM ExpensesAreSettledOnce ==
    ASSUME ByHand \subseteq HandKinds
    PROVE  Spec => []ExpensesSettledOnce
<1>1. Inv => ExpensesSettledOnce
  <2>1. Inv => TypeOK
    BY DEF Inv, Core, Records, TypeOK
  <2>2. QED
    BY <2>1 DEF Inv, Core, PaidCash, ExpensesAgree, ExpensesSettledOnce
<1>2. QED
  BY <1>1, InvHolds, PTL

-----------------------------------------------------------------------------
(***************************************************************************)
(* Calls that are not overtaken: what they have read, and the shifts.      *)
(***************************************************************************)
\* What a call that is not overtaken has read still holds when it writes.
PlanFresh(p) ==
    /\ p.op = "start" =>
         \A s \in DOMAIN shifts : shifts[s].user = p.user => shifts[s].status = "CLOSED"
    /\ p.op = "end" =>
         p.shift \in OpenShifts /\ p.expected = Expected(shifts[p.shift].moves)
    /\ p.op = "review" =>
         p.shift \in DOMAIN shifts /\ shifts[p.shift].status = "REVIEW_REQUIRED"
    /\ p.op \in {"move", "sell", "unsell", "refund"} => p.shift \in OpenShifts
    /\ p.op \in {"pay", "unsettle"} =>
         (expenses[p.expense].cash => p.shift \in OpenShifts)
    /\ p.op = "approve" => expenses[p.expense].status = "SUBMITTED"
    /\ p.op \in {"reverse", "unsettle"} => expenses[p.expense].settled = "COMPLETED"
    /\ p.op = "submit" => p.missed = DayExpected - Drawers
    /\ p.op \in {"sign", "return"} => daily.status = "SUBMITTED"

LEMMA PlansFresh ==
    ASSUME NEW p \in Plans
    PROVE  PlanFresh(p)
<1>2. CASE p \in ShiftPlans
  <2>1. CASE \E u \in Users :
               /\ \A s \in DOMAIN shifts : shifts[s].user = u => shifts[s].status = "CLOSED"
               /\ p = [op |-> "start", user |-> u]
    <3>1. /\ p.op = "start"
          /\ \A s \in DOMAIN shifts : shifts[s].user = p.user => shifts[s].status = "CLOSED"
      BY <2>1
    <3>2. QED
      BY <3>1 DEF PlanFresh
  <2>2. CASE \E s \in OpenShifts, b \in BOOLEAN :
               p = [op |-> "end", shift |-> s, expected |-> Expected(shifts[s].moves),
                    exact |-> b]
    <3>1. PICK s \in OpenShifts, b \in BOOLEAN :
               p = [op |-> "end", shift |-> s, expected |-> Expected(shifts[s].moves),
                    exact |-> b]
      BY <2>2
    <3>2. p.op = "end" /\ p.shift = s /\ p.expected = Expected(shifts[s].moves)
      BY <3>1
    <3>3. QED
      BY <3>2 DEF PlanFresh
  <2>3. CASE \E s \in DOMAIN shifts :
               shifts[s].status = "REVIEW_REQUIRED" /\ p = [op |-> "review", shift |-> s]
    BY <2>3 DEF PlanFresh
  <2>4. QED
    BY <1>2, <2>1, <2>2, <2>3 DEF ShiftPlans
<1>3. CASE p \in CashPlans
  <2>1. CASE \E s \in OpenShifts, k \in ByHand : p = [op |-> "move", shift |-> s, kind |-> k]
    BY <2>1 DEF PlanFresh
  <2>2. CASE \E op \in {"sell", "invoice", "refund", "unsell"}, s \in OpenShifts :
               p = [op |-> op, shift |-> s]
    <3>1. PICK op \in {"sell", "invoice", "refund", "unsell"}, s \in OpenShifts :
               p = [op |-> op, shift |-> s]
      BY <2>2
    <3>2. p.op = op /\ p.shift = s
      BY <3>1
    <3>3. QED
      BY <3>2 DEF PlanFresh
  <2>3. QED
    BY <1>3, <2>1, <2>2 DEF CashPlans
<1>4. CASE p \in ExpensePlans
  <2>1. CASE \E b \in BOOLEAN : p = [op |-> "create", cash |-> b]
    BY <2>1 DEF PlanFresh
  <2>2. CASE \E e \in DOMAIN expenses :
               expenses[e].status = "SUBMITTED" /\ p = [op |-> "approve", expense |-> e]
    BY <2>2 DEF PlanFresh
  <2>3. CASE \E e \in DOMAIN expenses : p = [op |-> "reject", expense |-> e]
    BY <2>3 DEF PlanFresh
  <2>4. CASE \E e \in DOMAIN expenses : \E s \in (IF expenses[e].cash THEN OpenShifts ELSE {0}) :
               p = [op |-> "pay", expense |-> e, shift |-> s]
    <3>1. PICK e, s :
            /\ e \in DOMAIN expenses
            /\ s \in (IF expenses[e].cash THEN OpenShifts ELSE {0})
            /\ p = [op |-> "pay", expense |-> e, shift |-> s]
      BY <2>4
    <3>2. p.op = "pay" /\ p.expense = e /\ p.shift = s
      BY <3>1
    <3>3. expenses[e].cash => s \in OpenShifts
      BY <3>1
    <3>4. QED
      BY <3>2, <3>3 DEF PlanFresh
  <2>5. CASE \E e \in DOMAIN expenses :
               expenses[e].settled = "COMPLETED" /\ p = [op |-> "reverse", expense |-> e]
    BY <2>5 DEF PlanFresh
  <2>6. CASE \E e \in DOMAIN expenses : \E s \in (IF expenses[e].cash THEN OpenShifts ELSE {0}) :
               /\ expenses[e].settled = "COMPLETED"
               /\ p = [op |-> "unsettle", expense |-> e, shift |-> s]
    <3>1. PICK e, s :
            /\ e \in DOMAIN expenses
            /\ s \in (IF expenses[e].cash THEN OpenShifts ELSE {0})
            /\ expenses[e].settled = "COMPLETED"
            /\ p = [op |-> "unsettle", expense |-> e, shift |-> s]
      BY <2>6
    <3>2. p.op = "unsettle" /\ p.expense = e /\ p.shift = s
      BY <3>1
    <3>3. (expenses[e].cash => s \in OpenShifts) /\ expenses[e].settled = "COMPLETED"
      BY <3>1
    <3>4. QED
      BY <3>2, <3>3 DEF PlanFresh
  <2>7. QED
    BY <1>4, <2>1, <2>2, <2>3, <2>4, <2>5, <2>6 DEF ExpensePlans, ExpensesIn
<1>5. CASE p \in DailyPlans
  <2>2. CASE \E b : p = [op |-> "submit", new |-> b, missed |-> DayExpected - Drawers]
    <3>1. p.op = "submit" /\ p.missed = DayExpected - Drawers
      BY <2>2
    <3>2. QED
      BY <3>1 DEF PlanFresh
  <2>3. CASE daily.status = "SUBMITTED" /\ \E op \in {"sign", "return"} : p = [op |-> op]
    BY <2>3 DEF PlanFresh
  <2>4. QED
    BY <1>5, <2>2, <2>3 DEF DailyPlans
<1>6. QED
  BY <1>2, <1>3, <1>4, <1>5 DEF Plans

-----------------------------------------------------------------------------
Ended ==
    \A s \in DOMAIN shifts :
      shifts[s].status # "OPEN" => shifts[s].expected = Drawer(shifts[s].moves)
OneEach ==
    \A s, t \in DOMAIN shifts :
      s # t /\ shifts[s].user = shifts[t].user =>
        "CLOSED" \in {shifts[s].status, shifts[t].status}
UndoneOnce ==
    \A e \in DOMAIN expenses :
      /\ expenses[e].reversals <= 1
      /\ expenses[e].settled # "REVERSED" => expenses[e].reversals = 0
Counted == Ended /\ OneEach /\ UndoneOnce

\* A movement in the drawer of an OPEN shift.
LEMMA MovedCounted ==
    ASSUME Core, Ended, OneEach, NEW s \in OpenShifts, NEW k \in Kinds, Moved(s, k)
    PROVE  Ended' /\ OneEach'
<1>1. shifts \in Seq(Shifts) /\ s \in DOMAIN shifts /\ shifts[s].status = "OPEN"
  BY DEF Core, Records, OpenShifts
<1>2. /\ DOMAIN shifts' = DOMAIN shifts
      /\ \A t \in DOMAIN shifts \ {s} : shifts'[t] = shifts[t]
      /\ shifts'[s].user = shifts[s].user /\ shifts'[s].status = "OPEN"
  BY <1>1, MovedShape
<1>3. Ended'
  BY <1>1, <1>2 DEF Ended
<1>4. \A t \in DOMAIN shifts : /\ shifts'[t].user = shifts[t].user
                               /\ shifts'[t].status = shifts[t].status
  BY <1>1, <1>2
<1>5. OneEach'
  BY <1>2, <1>4 DEF OneEach
<1>6. QED
  BY <1>3, <1>5

LEMMA ShiftCounted ==
    ASSUME Core, Ended, OneEach, NEW p, PlanOK(p), PlanFresh(p),
           StartShift(p) \/ EndShift(p) \/ ReviewShift(p)
    PROVE  Ended' /\ OneEach'
<1>1. shifts \in Seq(Shifts) /\ \A s \in DOMAIN shifts : shifts[s] \in Shifts
  BY SequenceDomain DEF Core, Records
<1>2. CASE StartShift(p)
  <2>1. p.user \in Users
        /\ \A s \in DOMAIN shifts : shifts[s].user = p.user => shifts[s].status = "CLOSED"
    BY <1>2 DEF StartShift, PlanOK, PlanFresh
  <2>2. PICK n : n = Len(shifts) + 1
    OBVIOUS
  <2>3. /\ DOMAIN shifts' = DOMAIN shifts \cup {n} /\ n \notin DOMAIN shifts
        /\ shifts'[n].user = p.user /\ shifts'[n].status = "OPEN"
        /\ \A t \in DOMAIN shifts : shifts'[t] = shifts[t]
    BY <1>1, <1>2, <2>1, <2>2, StartShape DEF StartShift
  <2>4. Ended'
    BY <2>3 DEF Ended
  <2>5. OneEach'
    BY <2>1, <2>3 DEF OneEach
  <2>6. QED
    BY <2>4, <2>5
<1>3. CASE EndShift(p)
  <2> DEFINE s == p.shift
  <2>1. s \in DOMAIN shifts /\ p.expected \in Int /\ shifts[s].status = "OPEN"
        /\ p.expected = Expected(shifts[s].moves)
    BY <1>3 DEF EndShift, PlanOK, PlanFresh, OpenShifts
  <2>2. PICK st \in {"REVIEW_REQUIRED", "CLOSED"} :
          shifts' = [shifts EXCEPT ![s].expected = p.expected, ![s].status = st]
    BY <1>3 DEF EndShift
  <2>3. /\ DOMAIN shifts' = DOMAIN shifts
        /\ \A t \in DOMAIN shifts \ {s} : shifts'[t] = shifts[t]
        /\ shifts'[s].user = shifts[s].user /\ shifts'[s].status = st
        /\ shifts'[s].expected = p.expected /\ shifts'[s].moves = shifts[s].moves
    BY <1>1, <2>1, <2>2, EndShape
  <2>4. Expected(shifts[s].moves) = Drawer(shifts[s].moves)
    <3>1. shifts[s].moves \in [Kinds -> Nat]
      BY <1>1, <2>1 DEF Shifts
    <3>2. QED
      BY ONLY <3>1, DrawerIs
  <2>5. Ended'
    BY <2>1, <2>3, <2>4 DEF Ended
  <2>6. OneEach'
    BY <2>1, <2>3 DEF OneEach
  <2>7. QED
    BY <2>5, <2>6
<1>4. CASE ReviewShift(p)
  <2> DEFINE s == p.shift
  <2>1. s \in DOMAIN shifts /\ shifts[s].status = "REVIEW_REQUIRED"
    BY <1>4 DEF ReviewShift, PlanFresh
  <2>2. /\ DOMAIN shifts' = DOMAIN shifts
        /\ \A t \in DOMAIN shifts \ {s} : shifts'[t] = shifts[t]
        /\ shifts'[s].user = shifts[s].user /\ shifts'[s].status = "CLOSED"
        /\ shifts'[s].expected = shifts[s].expected /\ shifts'[s].moves = shifts[s].moves
    BY <1>1, <1>4, <2>1, ReviewShape DEF ReviewShift
  <2>3. Ended'
    BY <2>1, <2>2 DEF Ended
  <2>4. OneEach'
    BY <2>1, <2>2 DEF OneEach
  <2>5. QED
    BY <2>3, <2>4
<1>5. QED
  BY <1>2, <1>3, <1>4

\* Which writes move cash, and which do not touch a shift.
LEMMA DrawerWrites ==
    ASSUME ByHand \subseteq HandKinds, NEW p, PlanOK(p), PlanFresh(p), Write(p),
           ~(StartShift(p) \/ EndShift(p) \/ ReviewShift(p))
    PROVE  \/ UNCHANGED shifts
           \/ \E s \in OpenShifts, k \in Kinds : Moved(s, k)
<1>1. CASE RecordCashMovement(p)
  BY <1>1, KindsAre DEF RecordCashMovement, PlanOK, PlanFresh, KindsUsed
<1>3. CASE SellForCash(p) \/ ReverseSale(p) \/ RefundInCash(p)
  <2>1. p.shift \in OpenShifts /\ \E k \in KindsUsed : Moved(p.shift, k)
    BY <1>3 DEF SellForCash, ReverseSale, RefundInCash, PlanFresh, KindsUsed
  <2>2. QED
    BY <2>1, KindsAre
<1>4. CASE PayExpense(p) \/ ReverseSettlement(p)
  <2>1. (expenses[p.expense].cash => p.shift \in OpenShifts)
    BY <1>4 DEF PayExpense, ReverseSettlement, PlanFresh
  <2>2. PICK k \in KindsUsed :
          IF expenses[p.expense].cash THEN Moved(p.shift, k) ELSE UNCHANGED shifts
    BY <1>4 DEF PayExpense, ReverseSettlement, KindsUsed
  <2>3. k \in Kinds
    BY KindsAre
  <2>4. CASE expenses[p.expense].cash
    BY <2>1, <2>2, <2>3, <2>4
  <2>5. CASE ~expenses[p.expense].cash
    BY <2>2, <2>5
  <2>6. QED
    BY <2>4, <2>5
<1>5. QED
  BY <1>1, <1>3, <1>4
     DEF Write, PayInvoiceInCash, CreateExpense, ApproveExpense, RejectExpense,
         ReverseExpense, ReconcileDailyBranch, ApproveReconciliation, ReturnReconciliation

LEMMA UndoneKept ==
    ASSUME Core, UndoneOnce, NEW p, PlanOK(p), PlanFresh(p), Write(p)
    PROVE  UndoneOnce'
<1>1. expenses \in Seq(Expenses) /\ \A e \in DOMAIN expenses : expenses[e] \in Expenses
  BY SequenceDomain DEF Core, Records
<1>2. CASE CreateExpense(p)
  <2> DEFINE r == [status |-> "SUBMITTED", cash |-> p.cash, settled |-> "NONE",
                   reversals |-> 0]
             n == Len(expenses) + 1
  <2>1. p.cash \in BOOLEAN
    BY <1>2 DEF CreateExpense, PlanOK
  <2>2. r \in Expenses /\ r.reversals = 0 /\ expenses' = Append(expenses, r)
    BY <1>2, <2>1 DEF CreateExpense, Expenses
  <2> HIDE DEF r
  <2>3. /\ DOMAIN expenses' = DOMAIN expenses \cup {n}
        /\ \A i \in DOMAIN expenses : expenses'[i] = expenses[i]
        /\ expenses'[n] = r
    BY <1>1, <2>2, SequenceAppend
  <2> HIDE DEF n
  <2>4. QED
    BY <2>2, <2>3 DEF UndoneOnce
<1>3. CASE \E e, st, se, rv :
             /\ ExpenseIs(e, st, se, rv) /\ rv \in {0, 1}
             /\ se # "REVERSED" => rv = 0
  BY <1>3 DEF UndoneOnce, ExpenseIs
<1>4. CASE ApproveExpense(p) \/ RejectExpense(p)
  <2>1. PICK e \in DOMAIN expenses : e = p.expense
    BY <1>4 DEF PlanOK, ApproveExpense, RejectExpense
  <2>2. PICK st \in {"APPROVED", "REJECTED"} : expenses' = [expenses EXCEPT ![e].status = st]
    BY <1>4, <2>1 DEF ApproveExpense, RejectExpense
  <2>3. ExpenseIs(e, st, expenses[e].settled, expenses[e].reversals)
    BY <1>1, <2>2, StatusShape
  <2>4. expenses[e].reversals \in {0, 1}
        /\ (expenses[e].settled # "REVERSED" => expenses[e].reversals = 0)
    BY <1>1, <2>1 DEF UndoneOnce, Expenses
  <2>5. QED
    BY <1>3, <2>3, <2>4
<1>5. CASE PayExpense(p)
  <2>1. PICK e \in DOMAIN expenses : e = p.expense
    BY <1>5 DEF PlanOK, PayExpense
  <2>2. ExpenseIs(e, "PAID", "COMPLETED", expenses[e].reversals)
        /\ expenses[e].settled = "NONE"
    BY <1>1, <1>5, <2>1, PayShape DEF PayExpense
  <2>3. expenses[e].reversals = 0
    BY <2>1, <2>2 DEF UndoneOnce
  <2>4. QED
    BY <1>3, <2>2, <2>3
<1>6. CASE ReverseExpense(p) \/ ReverseSettlement(p)
  <2>1. PICK e \in DOMAIN expenses : e = p.expense /\ expenses[e].settled = "COMPLETED"
    BY <1>6 DEF PlanOK, PlanFresh, ReverseExpense, ReverseSettlement
  <2>2. expenses[e].reversals + 1 = 1
    BY <2>1 DEF UndoneOnce
  <2>3. PICK st : ExpenseIs(e, st, "REVERSED", expenses[e].reversals + 1)
    BY <1>1, <1>6, <2>1, ReverseShape, UnsettleShape DEF ReverseExpense, ReverseSettlement
  <2>4. QED
    BY <1>3, <2>2, <2>3
<1>7. CASE expenses' = expenses
  BY <1>7 DEF UndoneOnce
<1>8. QED
  BY <1>2, <1>4, <1>5, <1>6, <1>7
     DEF Write, StartShift, EndShift, ReviewShift, RecordCashMovement, SellForCash,
         PayInvoiceInCash, ReverseSale, RefundInCash,
         ReconcileDailyBranch, ApproveReconciliation, ReturnReconciliation

LEMMA CountedKept ==
    ASSUME ByHand \subseteq HandKinds, Core, Counted, NEW p, PlanOK(p), PlanFresh(p), Write(p)
    PROVE  Counted'
<1>1. UndoneOnce'
  BY UndoneKept DEF Counted
<1>2. CASE StartShift(p) \/ EndShift(p) \/ ReviewShift(p)
  BY <1>1, <1>2, ShiftCounted DEF Counted
<1>3. CASE UNCHANGED shifts
  BY <1>1, <1>3 DEF Counted, Ended, OneEach
<1>4. CASE \E s \in OpenShifts, k \in Kinds : Moved(s, k)
  BY <1>1, <1>4, MovedCounted DEF Counted
<1>5. QED
  BY <1>2, <1>3, <1>4, DrawerWrites

-----------------------------------------------------------------------------
(***************************************************************************)
(* Calls that are not overtaken: the daily figures.                        *)
(***************************************************************************)
PaidSet == {e \in DOMAIN expenses : expenses[e].status = "PAID"}

LEMMA PaidTyped == Core => IsFiniteSet(PaidSet) /\ PaidOut = Cardinality(PaidSet) /\ PaidOut \in Nat
<1> SUFFICES ASSUME Core
             PROVE  IsFiniteSet(PaidSet) /\ PaidOut = Cardinality(PaidSet) /\ PaidOut \in Nat
  OBVIOUS
<1>1. IsFiniteSet(DOMAIN expenses)
  BY SequenceDomain DEF Core, Records
<1>2. PaidSet \subseteq DOMAIN expenses /\ PaidOut = Cardinality(PaidSet)
  BY DEF PaidSet, PaidOut
<1>3. QED
  BY <1>1, <1>2, FS_Subset, FS_CardinalityType

\* What the day's records say of the drawers.
Balanced == Drawers = DayDrawers + sales - refunds - PaidOut
FromDrawers ==
    \A e \in DOMAIN expenses :
      /\ expenses[e].settled # "NONE" <=> expenses[e].status = "PAID"
      /\ expenses[e].settled # "NONE" => expenses[e].cash
Reported == daily.status # "NONE" => daily.missed = 0
Day == Balanced /\ FromDrawers /\ Reported

\* The records of the day and the drawers change by as much.
LEMMA BalancedBy ==
    ASSUME Core, Balanced, NEW d \in Int, NEW c \in Int, NEW v \in Int, NEW r \in Int,
           NEW x \in Int, d = c + v - r - x,
           Drawers' = Drawers + d, DayDrawers' = DayDrawers + c,
           sales' = sales + v, refunds' = refunds + r, PaidOut' = PaidOut + x
    PROVE  Balanced'
<1>1. Drawers \in Int /\ DayDrawers \in Int
  BY TotalsTyped DEF Core, Records
<1>2. PaidOut \in Int /\ sales \in Int /\ refunds \in Int
  BY PaidTyped DEF Core, Records
<1>3. PICK a, b, s, f, o : /\ a = Drawers /\ b = DayDrawers /\ s = sales
                           /\ f = refunds /\ o = PaidOut
  OBVIOUS
<1>4. PICK a1, b1, s1, f1, o1 : /\ a1 = Drawers' /\ b1 = DayDrawers' /\ s1 = sales'
                                /\ f1 = refunds' /\ o1 = PaidOut'
  OBVIOUS
<1>5. a = b + s - f - o
  BY <1>3 DEF Balanced
<1>6. a1 = b1 + s1 - f1 - o1
  <2>1. a1 = a + d /\ b1 = b + c /\ s1 = s + v /\ f1 = f + r /\ o1 = o + x
    BY <1>3, <1>4
  <2>2. a \in Int /\ b \in Int /\ s \in Int /\ f \in Int /\ o \in Int
    BY <1>1, <1>2, <1>3
  <2>3. d \in Int /\ c \in Int /\ v \in Int /\ r \in Int /\ x \in Int /\ d = c + v - r - x
    OBVIOUS
  <2>4. QED
    BY ONLY <1>5, <2>1, <2>2, <2>3
<1>7. QED
  BY <1>4, <1>6 DEF Balanced

\* A write that leaves the expenses alone.
LEMMA SameExpenses ==
    ASSUME Core, Day, expenses' = expenses, UNCHANGED daily,
           NEW d \in Int, NEW c \in Int, NEW v \in Int, NEW r \in Int, d = c + v - r,
           Drawers' = Drawers + d, DayDrawers' = DayDrawers + c,
           sales' = sales + v, refunds' = refunds + r
    PROVE  Day'
<1>1. PaidOut' = PaidOut + 0
  <2>1. PaidOut' = PaidOut /\ PaidOut \in Nat
    BY PaidTyped DEF PaidOut
  <2>2. QED
    BY <2>1
<1>2. Balanced'
  <2>1. d = c + v - r - 0
    OBVIOUS
  <2>2. QED
    BY <1>1, <2>1, BalancedBy DEF Day
<1>3. QED
  BY <1>2 DEF Day, FromDrawers, Reported

\* A write that leaves the drawers and what is PAID alone.
LEMMA SamePaid ==
    ASSUME Core, Day, UNCHANGED <<shifts, sales, refunds>>, PaidSet' = PaidSet,
           FromDrawers', Reported'
    PROVE  Day'
<1>1. PaidOut' = PaidOut
  BY DEF PaidOut, PaidSet
<1>2. Drawers' = Drawers /\ DayDrawers' = DayDrawers
  BY DEF Drawers, DayDrawers
<1>3. Balanced'
  BY <1>1, <1>2 DEF Balanced, Day
<1>4. QED
  BY <1>3 DEF Day

LEMMA ShiftDay ==
    ASSUME Core, Day, NEW p, PlanOK(p),
           StartShift(p) \/ EndShift(p) \/ ReviewShift(p)
    PROVE  Day'
<1>1. shifts \in Seq(Shifts)
  BY DEF Core, Records
<1>2. Drawers \in Int /\ DayDrawers \in Int /\ sales \in Nat /\ refunds \in Nat
  BY <1>1, TotalsTyped DEF Core, Records
<1>3. PICK d \in {0, 1} : Drawers' = Drawers + d /\ DayDrawers' = DayDrawers + d
  <2>1. CASE StartShift(p)
    <3>1. p.user \in Users
      BY <2>1 DEF StartShift, PlanOK
    <3>2. Drawers' = Drawers + 1 /\ DayDrawers' = DayDrawers + 1
      BY <1>1, <2>1, <3>1, StartShape DEF StartShift
    <3>3. QED
      BY <3>2
  <2>2. CASE EndShift(p)
    <3>1. p.shift \in DOMAIN shifts /\ p.expected \in Int
      BY <2>2 DEF EndShift, PlanOK
    <3>2. PICK st \in {"REVIEW_REQUIRED", "CLOSED"} :
            shifts' = [shifts EXCEPT ![p.shift].expected = p.expected, ![p.shift].status = st]
      BY <2>2 DEF EndShift
    <3>3. Drawers' = Drawers /\ DayDrawers' = DayDrawers
      BY <1>1, <3>1, <3>2, EndShape
    <3>4. QED
      BY <1>2, <3>3
  <2>3. CASE ReviewShift(p)
    <3>1. p.shift \in DOMAIN shifts
      BY <2>3 DEF ReviewShift, PlanOK
    <3>2. Drawers' = Drawers /\ DayDrawers' = DayDrawers
      BY <1>1, <2>3, <3>1, ReviewShape DEF ReviewShift
    <3>3. QED
      BY <1>2, <3>2
  <2>4. QED
    BY <2>1, <2>2, <2>3
<1>4. /\ expenses' = expenses /\ UNCHANGED daily /\ sales' = sales + 0
      /\ refunds' = refunds + 0
  BY <1>2 DEF StartShift, EndShift, ReviewShift
<1>5. d \in Int /\ d = d + 0 - 0
  BY <1>3
<1>6. QED
  BY <1>3, <1>4, <1>5, SameExpenses

LEMMA MoveDay ==
    ASSUME ByHand \subseteq HandKinds, Core, Day, NEW p, PlanOK(p), ~bypassed',
           RecordCashMovement(p) \/ SellForCash(p) \/ ReverseSale(p) \/ RefundInCash(p)
    PROVE  Day'
<1>1. shifts \in Seq(Shifts) /\ sales \in Nat /\ refunds \in Nat
  BY DEF Core, Records
<1>2. PICK s \in DOMAIN shifts : s = p.shift
  BY DEF PlanOK, RecordCashMovement, SellForCash, ReverseSale, RefundInCash
<1>3. PICK k \in KindsUsed \ {"CASH_EXPENSE", "ADJUSTMENT"}, v \in {-1, 0, 1}, r \in {0, 1} :
        /\ Moved(s, k) /\ sales' = sales + v /\ refunds' = refunds + r
        /\ InDrawer(k) = InDay(k) + v - r
  <2>1. CASE RecordCashMovement(p)
    <3>1. p.kind \in {"CASH_IN", "CASH_OUT", "BANKING"} /\ Moved(s, p.kind)
      BY <1>2, <2>1 DEF RecordCashMovement, PlanOK, HandKinds
    <3>2. p.kind \in KindsUsed \ {"CASH_EXPENSE", "ADJUSTMENT"}
      BY <3>1 DEF KindsUsed, HandKinds
    <3>3. InDrawer(p.kind) = InDay(p.kind) + 0 - 0
      BY <3>1 DEF InDrawer, InDay, Into
    <3>4. sales' = sales + 0 /\ refunds' = refunds + 0
      BY <1>1, <2>1 DEF RecordCashMovement
    <3>5. QED
      BY <3>1, <3>2, <3>3, <3>4
  <2>2. CASE SellForCash(p)
    <3>1. InDrawer("CASH_SALE") = InDay("CASH_SALE") + 1 - 0
      BY DEF InDrawer, InDay, Into
    <3>2. /\ Moved(s, "CASH_SALE") /\ sales' = sales + 1 /\ refunds' = refunds + 0
          /\ "CASH_SALE" \in KindsUsed \ {"CASH_EXPENSE", "ADJUSTMENT"}
      BY <1>1, <1>2, <2>2 DEF SellForCash, KindsUsed
    <3>3. QED
      BY <3>1, <3>2
  <2>3. CASE ReverseSale(p)
    <3>1. InDrawer("CASH_REFUND") = InDay("CASH_REFUND") + (-1) - 0
      BY DEF InDrawer, InDay, Into
    <3>2. /\ Moved(s, "CASH_REFUND") /\ sales' = sales + (-1) /\ refunds' = refunds + 0
          /\ "CASH_REFUND" \in KindsUsed \ {"CASH_EXPENSE", "ADJUSTMENT"}
      BY <1>1, <1>2, <2>3 DEF ReverseSale, KindsUsed
    <3>3. QED
      BY <3>1, <3>2
  <2>4. CASE RefundInCash(p)
    <3>1. InDrawer("CASH_REFUND") = InDay("CASH_REFUND") + 0 - 1
      BY DEF InDrawer, InDay, Into
    <3>2. /\ Moved(s, "CASH_REFUND") /\ sales' = sales + 0 /\ refunds' = refunds + 1
          /\ "CASH_REFUND" \in KindsUsed \ {"CASH_EXPENSE", "ADJUSTMENT"}
      BY <1>1, <1>2, <2>4 DEF RefundInCash, KindsUsed
    <3>3. QED
      BY <3>1, <3>2
  <2>5. QED
    BY <2>1, <2>2, <2>3, <2>4
<1>4. k \in Kinds
  BY KindsAre
<1>5. Drawers' = Drawers + InDrawer(k) /\ DayDrawers' = DayDrawers + InDay(k)
  BY <1>1, <1>3, <1>4, MovedShape
<1>6. InDrawer(k) \in Int /\ InDay(k) \in Int /\ v \in Int /\ r \in Int
  BY <1>3 DEF InDrawer, InDay
<1>7. expenses' = expenses /\ UNCHANGED daily
  BY DEF RecordCashMovement, SellForCash, ReverseSale, RefundInCash
<1>8. QED
  BY <1>3, <1>5, <1>6, <1>7, SameExpenses

LEMMA CreateDay ==
    ASSUME Core, Day, NEW p, PlanOK(p), CreateExpense(p)
    PROVE  Day'
<1> DEFINE r == [status |-> "SUBMITTED", cash |-> p.cash, settled |-> "NONE", reversals |-> 0]
           n == Len(expenses) + 1
<1>1. p.cash \in BOOLEAN /\ expenses \in Seq(Expenses)
  BY DEF CreateExpense, PlanOK, Core, Records
<1>2. /\ r \in Expenses /\ r.status = "SUBMITTED" /\ r.settled = "NONE"
      /\ expenses' = Append(expenses, r) /\ UNCHANGED <<shifts, sales, refunds, daily>>
  BY <1>1 DEF CreateExpense, Expenses
<1> HIDE DEF r
<1>3. /\ DOMAIN expenses' = DOMAIN expenses \cup {n} /\ n \notin DOMAIN expenses
      /\ \A i \in DOMAIN expenses : expenses'[i] = expenses[i]
      /\ expenses'[n] = r
  BY <1>1, <1>2, SequenceAppend
<1> HIDE DEF n
<1>4. PaidSet' = PaidSet
  BY <1>2, <1>3 DEF PaidSet
<1>5. FromDrawers' /\ Reported'
  BY <1>2, <1>3 DEF Day, FromDrawers, Reported
<1>6. QED
  BY <1>2, <1>4, <1>5, SamePaid

\* One that is not settled, and so not PAID, is approved or rejected.
LEMMA JudgeDay ==
    ASSUME Core, Day, NEW p, PlanOK(p), PlanFresh(p), ~bypassed',
           ApproveExpense(p) \/ RejectExpense(p)
    PROVE  Day'
<1>1. expenses \in Seq(Expenses)
  BY DEF Core, Records
<1>2. PICK e \in DOMAIN expenses : e = p.expense
  BY DEF PlanOK, ApproveExpense, RejectExpense
<1>3. PICK st \in {"APPROVED", "REJECTED"} : expenses' = [expenses EXCEPT ![e].status = st]
  BY <1>2 DEF ApproveExpense, RejectExpense
<1>4. ExpenseIs(e, st, expenses[e].settled, expenses[e].reversals)
  BY <1>1, <1>3, StatusShape
<1>5. expenses[e].settled = "NONE" /\ expenses[e].status # "PAID"
  <2>1. CASE ApproveExpense(p)
    BY <1>2, <2>1 DEF ApproveExpense, PlanFresh, Day, FromDrawers
  <2>2. CASE RejectExpense(p)
    BY <1>2, <2>2 DEF RejectExpense, Day, FromDrawers
  <2>3. QED
    BY <2>1, <2>2
<1>6. PaidSet' = PaidSet /\ FromDrawers'
  BY <1>3, <1>4, <1>5 DEF PaidSet, ExpenseIs, Day, FromDrawers
<1>7. UNCHANGED <<shifts, sales, refunds>> /\ Reported'
  BY DEF ApproveExpense, RejectExpense, Day, Reported
<1>8. QED
  BY <1>6, <1>7, SamePaid

\* One more is PAID, out of a drawer.
LEMMA PayDay ==
    ASSUME Core, Day, NEW p, PlanOK(p), ~bypassed', PayExpense(p)
    PROVE  Day'
<1>1. expenses \in Seq(Expenses) /\ shifts \in Seq(Shifts) /\ sales \in Nat /\ refunds \in Nat
  BY DEF Core, Records
<1>2. PICK e \in DOMAIN expenses : e = p.expense
  BY DEF PlanOK, PayExpense
<1>3. /\ ExpenseIs(e, "PAID", "COMPLETED", expenses[e].reversals)
      /\ expenses[e].settled = "NONE" /\ expenses[e].cash
  BY <1>1, <1>2, PayShape DEF PayExpense
<1>4. p.shift \in DOMAIN shifts /\ Moved(p.shift, "CASH_EXPENSE")
  BY <1>2, <1>3 DEF PayExpense, PlanOK
<1>5. "CASH_EXPENSE" \in Kinds /\ InDrawer("CASH_EXPENSE") = -1 /\ InDay("CASH_EXPENSE") = 0
  BY KindsAre DEF KindsUsed, InDrawer, InDay, Into
<1>6. Drawers' = Drawers + (-1) /\ DayDrawers' = DayDrawers + 0
  BY <1>1, <1>4, <1>5, MovedShape
<1>7. e \notin PaidSet /\ PaidSet' = PaidSet \cup {e}
  BY <1>3 DEF PaidSet, ExpenseIs, Day, FromDrawers
<1>8. PaidOut' = PaidOut + 1
  <2>1. IsFiniteSet(PaidSet) /\ PaidOut = Cardinality(PaidSet)
    BY PaidTyped
  <2>2. PaidOut' = Cardinality(PaidSet')
    BY DEF PaidOut, PaidSet
  <2>3. QED
    BY <1>7, <2>1, <2>2, FS_AddElement
<1>9. sales' = sales + 0 /\ refunds' = refunds + 0 /\ UNCHANGED daily
  BY <1>1 DEF PayExpense
<1>10. Balanced'
  <2>1. -1 = 0 + 0 - 0 - 1 /\ -1 \in Int /\ 0 \in Int /\ 1 \in Int
    OBVIOUS
  <2>2. QED
    BY <1>6, <1>8, <1>9, <2>1, BalancedBy DEF Day
<1>11. FromDrawers' /\ Reported'
  <2>1. Reported'
    BY <1>9 DEF Day, Reported
  <2>2. DOMAIN expenses' = DOMAIN expenses /\ FromDrawers
    BY <1>3 DEF ExpenseIs, Day
  <2>3. /\ expenses'[e].status = "PAID" /\ expenses'[e].settled # "NONE"
        /\ expenses'[e].cash
    BY <1>3 DEF ExpenseIs
  <2>4. \A d \in DOMAIN expenses \ {e} : expenses'[d] = expenses[d]
    BY <1>3 DEF ExpenseIs
  <2>5. QED
    BY <2>1, <2>2, <2>3, <2>4 DEF FromDrawers
<1>12. QED
  BY <1>10, <1>11 DEF Day

LEMMA ReportDay ==
    ASSUME Core, Day, NEW p, PlanFresh(p),
           ReconcileDailyBranch(p) \/ ApproveReconciliation(p) \/ ReturnReconciliation(p)
    PROVE  Day'
<1>1. UNCHANGED <<shifts, expenses, sales, refunds>>
  BY DEF ReconcileDailyBranch, ApproveReconciliation, ReturnReconciliation
<1>2. PaidSet' = PaidSet /\ FromDrawers'
  BY <1>1 DEF PaidSet, Day, FromDrawers
<1>3. Reported'
  <2>1. CASE ReconcileDailyBranch(p)
    <3>1. p.missed = DayExpected - Drawers
      BY <2>1 DEF ReconcileDailyBranch, PlanFresh
    <3>2. DayExpected = Drawers /\ Drawers \in Int
      <4>1. DayDrawers \in Int /\ Drawers \in Int
        BY TotalsTyped DEF Core, Records
      <4>2. sales \in Nat /\ refunds \in Nat /\ PaidOut \in Nat
        BY PaidTyped DEF Core, Records
      <4>3. QED
        BY <4>1, <4>2 DEF DayExpected, Day, Balanced
    <3>3. p.missed = 0
      BY <3>1, <3>2
    <3>4. QED
      BY <2>1, <3>3 DEF ReconcileDailyBranch, Reported
  <2>2. CASE ApproveReconciliation(p) \/ ReturnReconciliation(p)
    <3>1. daily.status # "NONE"
      BY <2>2 DEF ApproveReconciliation, ReturnReconciliation, PlanFresh
    <3>2. daily \in Dailies
      BY DEF Core, Records
    <3>3. daily'.missed = daily.missed
      BY <2>2, <3>2 DEF ApproveReconciliation, ReturnReconciliation, Dailies
    <3>4. QED
      BY <3>1, <3>3 DEF Day, Reported
  <2>3. QED
    BY <2>1, <2>2
<1>4. QED
  BY <1>1, <1>2, <1>3, SamePaid

LEMMA DayKept ==
    ASSUME ByHand \subseteq HandKinds, Core, NEW p, PlanOK(p), PlanFresh(p), Write(p),
           ~bypassed => Day
    PROVE  ~bypassed' => Day'
<1> SUFFICES ASSUME ~bypassed' PROVE Day'
  OBVIOUS
<1>1. ~bypassed
  BY DEF Write, StartShift, EndShift, ReviewShift, RecordCashMovement, SellForCash,
         PayInvoiceInCash, ReverseSale, RefundInCash, CreateExpense, ApproveExpense,
         RejectExpense, PayExpense, ReverseExpense, ReverseSettlement,
         ReconcileDailyBranch, ApproveReconciliation, ReturnReconciliation
<1>2. ~(PayInvoiceInCash(p) \/ ReverseExpense(p) \/ ReverseSettlement(p))
  BY DEF PayInvoiceInCash, ReverseExpense, ReverseSettlement
<1>3. QED
  BY <1>1, <1>2, ShiftDay, MoveDay, CreateDay, JudgeDay, PayDay, ReportDay DEF Write

-----------------------------------------------------------------------------
(***************************************************************************)
(* The two together: shifts and days are counted.                          *)
(***************************************************************************)
\* While no call was overtaken, a call that writes was fresh.
Orderly ==
    /\ overtaken => slow = NoPlan
    /\ ~overtaken => Counted /\ (~bypassed => Day)

LEMMA InitOrderly == Init => Orderly
<1> SUFFICES ASSUME Init PROVE Orderly
  OBVIOUS
<1>1. shifts = <<>> /\ expenses = <<>> /\ slow = NoPlan /\ sales = 0 /\ refunds = 0
      /\ daily = [status |-> "NONE", missed |-> 0]
  BY DEF Init
<1>2. Counted
  BY <1>1 DEF Counted, Ended, OneEach, UndoneOnce
<1>3. FromDrawers /\ Reported
  BY <1>1 DEF FromDrawers, Reported
<1>4. Drawers = 0 /\ DayDrawers = 0
  <2>1. shifts \in Seq(Shifts)
    BY ONLY <1>1
  <2>2. QED
    BY <1>1, <2>1, TotalsAre, SeqSumEmpty
<1>5. PaidOut = 0
  <2>1. {e \in DOMAIN expenses : expenses[e].status = "PAID"} = {}
    BY <1>1
  <2>2. QED
    BY <2>1, FS_EmptySet DEF PaidOut
<1>6. Balanced
  BY <1>1, <1>4, <1>5 DEF Balanced
<1>7. QED
  BY <1>1, <1>2, <1>3, <1>6 DEF Orderly, Day

LEMMA FreshWrite ==
    ASSUME ByHand \subseteq HandKinds, Core, Counted, ~bypassed => Day,
           NEW p, PlanOK(p), p \in Plans, Write(p)
    PROVE  Counted' /\ (~bypassed' => Day')
<1>1. PlanFresh(p)
  BY PlansFresh
<1>2. QED
  BY <1>1, CountedKept, DayKept

LEMMA SameRecords ==
    ASSUME UNCHANGED records
    PROVE  (Counted' <=> Counted) /\ (Day' <=> Day) /\ bypassed' = bypassed
<1>1. shifts' = shifts /\ expenses' = expenses /\ sales' = sales /\ refunds' = refunds
      /\ daily' = daily /\ bypassed' = bypassed
  BY DEF records
<1>2. (Ended' <=> Ended) /\ (OneEach' <=> OneEach) /\ (UndoneOnce' <=> UndoneOnce)
  BY <1>1 DEF Ended, OneEach, UndoneOnce
<1>3. (FromDrawers' <=> FromDrawers) /\ (Reported' <=> Reported)
  BY <1>1 DEF FromDrawers, Reported
<1>4. Balanced' <=> Balanced
  BY <1>1 DEF Balanced, Drawers, DayDrawers, PaidOut
<1>5. QED
  BY <1>1, <1>2, <1>3, <1>4 DEF Counted, Day

LEMMA OrderlyStep ==
    ASSUME ByHand \subseteq HandKinds
    PROVE  Inv /\ Orderly /\ [Next]_vars => Orderly'
<1> SUFFICES ASSUME Inv, Orderly, [Next]_vars PROVE Orderly'
  OBVIOUS
<1>1. Core /\ PlanOK(slow)
  BY DEF Inv
<1>2. CASE Alone
  <2>1. PICK p \in Plans : Write(p)
    BY <1>2 DEF Alone
  <2>2. slow' = slow /\ overtaken' = overtaken
    BY <1>2 DEF Alone
  <2>3. ~overtaken => Counted' /\ (~bypassed' => Day')
    BY <1>1, <2>1, PlansOK, FreshWrite DEF Orderly
  <2>4. QED
    BY <2>2, <2>3 DEF Orderly
<1>3. CASE Pause
  <2>1. UNCHANGED records /\ ~overtaken /\ ~overtaken'
    BY <1>3 DEF Pause
  <2>2. QED
    BY <2>1, SameRecords DEF Orderly
<1>4. CASE Resume
  <2>1. ~overtaken /\ slow' = NoPlan
    BY <1>4 DEF Resume, Orderly
  <2>2. CASE Write(slow) /\ overtaken' = (slow \notin Plans)
    <3>1. PICK q : q = slow
      OBVIOUS
    <3>2. Write(q) /\ PlanOK(q) /\ (~overtaken' => q \in Plans)
      BY <1>1, <2>2, <3>1
    <3>3. ~overtaken' => Counted' /\ (~bypassed' => Day')
      BY <1>1, <2>1, <3>2, FreshWrite DEF Orderly
    <3>4. QED
      BY <2>1, <3>3 DEF Orderly
  <2>3. CASE UNCHANGED <<records, overtaken>>
    <3>1. UNCHANGED records /\ overtaken' = overtaken
      BY <2>3
    <3>2. QED
      BY <2>1, <3>1, SameRecords DEF Orderly
  <2>4. QED
    BY <1>4, <2>2, <2>3 DEF Resume
<1>5. CASE UNCHANGED vars
  <2>1. UNCHANGED records /\ overtaken' = overtaken /\ slow' = slow
    BY <1>5 DEF vars
  <2>2. QED
    BY <2>1, SameRecords DEF Orderly
<1>6. QED
  BY <1>2, <1>3, <1>4, <1>5 DEF Next

\* As long as no call was overtaken: ended shifts expect what they hold, a user
\* has one shift, a settlement is undone once, and the day's records add up to
\* the drawers unless cash was moved past them.
THEOREM OrderlyHolds ==
    ASSUME ByHand \subseteq HandKinds
    PROVE  Spec => []Orderly
<1>1. Inv /\ Orderly /\ [Next]_vars => Orderly'
  BY OrderlyStep
<1>2. Spec => []Inv
  BY InvHolds
<1>3. QED
  BY <1>1, <1>2, InitOrderly, PTL DEF Spec

\* Unless a call was overtaken: a shift that was ended expects what its drawer
\* holds, a user has one shift that is not CLOSED, and a settlement is reversed
\* once.
THEOREM ShiftsAreCounted ==
    ASSUME ByHand \subseteq HandKinds
    PROVE  Spec => []ClosedIsCounted
<1>1. Orderly => ClosedIsCounted
  BY DEF Orderly, Counted, Ended, OneEach, UndoneOnce, ClosedIsCounted
<1>2. Spec => []Orderly
  BY OrderlyHolds
<1>3. QED
  BY <1>1, <1>2, PTL

\* Unless a call was overtaken, or cash was moved by one of the calls that the
\* two sums treat differently: the cash expected for the day is the cash in the
\* drawers of its shifts.
THEOREM DayIsCounted ==
    ASSUME ByHand \subseteq HandKinds
    PROVE  Spec => []DailyMatchesShifts
<1>1. Orderly => DailyMatchesShifts
  BY DEF Orderly, Day, Reported, DailyMatchesShifts
<1>2. Spec => []Orderly
  BY OrderlyHolds
<1>3. QED
  BY <1>1, <1>2, PTL

-----------------------------------------------------------------------------
(***************************************************************************)
(* The stock documents: what a count found, and every write.               *)
(***************************************************************************)
\* What entry e of count r found is on the shelf, when the row has quantity h and
\* t was traded: unless a document was posted since the count was made, or the
\* stock was traded before e was counted.
Fits(e, r, h, t) ==
    "correction" \notin r.disturbed /\ ~e.late => h + e.qty = Shelf + t + r.expected

CountFits(r, h, t) ==
    /\ r.disturbed = {} => h = r.expected
    /\ Fits(r.counted, r, h, t) /\ Fits(r.recount, r, h, t) /\ Fits(r.final, r, h, t)

\* What any write does to a count that is there.
CountStep(r, s, h, t, h2, t2) ==
    /\ s \in Counts /\ s.expected = r.expected /\ r.disturbed \subseteq s.disturbed
    /\ "correction" \in s.disturbed \/ h2 - t2 = h - t
    /\ CountFits(s, h2, t2)

CountOps == {"startCount", "enter", "submitCount", "recount", "approveCount", "postCount"}
AdjustmentOps == {"submitAdjustment", "approveAdjustment", "rejectAdjustment",
                  "postAdjustment", "cancelAdjustment"}
IssueOps == {"review", "rejectIssue", "convert"}

\* A quantity that was entered is in the count it was read from for ever; what
\* an approval decided is not decided again.
DocumentPlanOK(p) ==
    /\ p.op \in CountOps => p.count \in DOMAIN counts
    /\ p.op \in AdjustmentOps => p.adjustment \in DOMAIN adjustments
    /\ p.op \in IssueOps => p.issue \in DOMAIN issues
    /\ p.op = "createCount" => p.expected \in Int /\ p.status \in CountStatuses
    /\ p.op = "enter" => p.line \in LineStatuses
    /\ p.op = "approveCount" =>
         \A e \in {p.counted, p.recount} : e \in Entered /\ Fits(e, counts[p.count], onHand, traded)
    /\ p.op = "postCount" => /\ p.final = counts[p.count].final
                             /\ counts[p.count].status \in {"APPROVED", "POSTED"}
    /\ p.op = "createAdjustment" => p.issue \in Nat
    /\ p.op \in {"createAdjustment", "report", "trade"} => p.qty \in Int
    /\ p.op = "review" => p.status \in IssueStatuses

DocumentsTyped ==
    /\ onHand \in Int /\ traded \in Int
    /\ counts \in Seq(Counts) /\ adjustments \in Seq(Adjustments) /\ issues \in Seq(Issues)

CountsFit == \A c \in DOMAIN counts : CountFits(counts[c], onHand, traded)

CountsStep ==
    /\ DOMAIN counts \subseteq DOMAIN counts'
    /\ \A c \in DOMAIN counts :
         CountStep(counts[c], counts'[c], onHand, traded, onHand', traded')

DocumentsGrow ==
    /\ CountsStep
    /\ DOMAIN adjustments \subseteq DOMAIN adjustments'
    /\ DOMAIN issues \subseteq DOMAIN issues'

DocumentCore == DocumentsTyped /\ CountsFit

LEMMA CountTyped ==
    ASSUME NEW r \in Counts
    PROVE  /\ r.status \in CountStatuses /\ r.line \in LineStatuses /\ r.expected \in Int
           /\ r.counted \in Entered /\ r.recount \in Entered /\ r.final \in Entered
           /\ r.disturbed \in SUBSET {"trade", "correction"}
BY DEF Counts

LEMMA EntryTyped ==
    ASSUME NEW e \in Entered
    PROVE  e.qty \in Int /\ e.late \in BOOLEAN
BY DEF Entered

\* What fits a count still fits it after a write.
LEMMA FitsKept ==
    ASSUME NEW r \in Counts, NEW s, NEW e \in Entered,
           NEW h \in Int, NEW t \in Int, NEW h2 \in Int, NEW t2 \in Int,
           s.expected = r.expected, r.disturbed \subseteq s.disturbed,
           "correction" \in s.disturbed \/ h2 - t2 = h - t, Fits(e, r, h, t)
    PROVE  Fits(e, s, h2, t2)
<1>1. PICK x \in Int : x = r.expected
  BY CountTyped
<1>2. PICK q \in Int : q = e.qty
  BY EntryTyped
<1>3. CASE "correction" \in s.disturbed
  BY <1>3 DEF Fits
<1>4. CASE h2 - t2 = h - t /\ "correction" \notin s.disturbed /\ ~e.late
  <2>1. h + q = Shelf + t + x
    BY <1>1, <1>2, <1>4 DEF Fits
  <2>2. Shelf \in Int
    BY QuantitiesAssumption
  <2>3. h2 + q = Shelf + t2 + x
    BY ONLY <1>4, <2>1, <2>2, h \in Int, t \in Int, h2 \in Int, t2 \in Int, x \in Int, q \in Int
  <2>4. QED
    BY <1>1, <1>2, <2>3 DEF Fits
<1>5. QED
  BY <1>3, <1>4 DEF Fits

\* A count whose expected quantity, what is entered in it and what happened to
\* it stay as they are.
LEMMA SameFits ==
    ASSUME NEW r \in Counts, NEW s \in Counts, NEW h \in Int, NEW t \in Int,
           s.expected = r.expected, s.disturbed = r.disturbed, CountFits(r, h, t),
           \A e \in {s.counted, s.recount, s.final} : Fits(e, r, h, t)
    PROVE  CountStep(r, s, h, t, h, t)
<1>1. Fits(s.counted, r, h, t) /\ Fits(s.recount, r, h, t) /\ Fits(s.final, r, h, t)
  OBVIOUS
<1>2. Fits(s.counted, s, h, t) /\ Fits(s.recount, s, h, t) /\ Fits(s.final, s, h, t)
  BY <1>1 DEF Fits
<1>3. QED
  BY <1>2 DEF CountStep, CountFits

\* The stock moves, and every count is disturbed.
LEMMA DisturbedFits ==
    ASSUME NEW r \in Counts, NEW what \in {"trade", "correction"}, NEW s,
           s = [r EXCEPT !.disturbed = @ \cup {what}],
           NEW h \in Int, NEW t \in Int, NEW h2 \in Int, NEW t2 \in Int,
           what = "correction" \/ h2 - t2 = h - t, CountFits(r, h, t)
    PROVE  CountStep(r, s, h, t, h2, t2) /\ s.status = r.status /\ s.final = r.final
<1>1. /\ s \in Counts /\ s.expected = r.expected /\ s.disturbed = r.disturbed \cup {what}
      /\ s.status = r.status /\ s.final = r.final /\ s.counted = r.counted
      /\ s.recount = r.recount
  BY DEF Counts
<1>2. \A e \in {r.counted, r.recount, r.final} : e \in Entered /\ Fits(e, r, h, t)
  BY CountTyped DEF CountFits
<1>3. \A e \in {r.counted, r.recount, r.final} : Fits(e, s, h2, t2)
  <2>1. r.disturbed \subseteq s.disturbed /\ ("correction" \in s.disturbed \/ h2 - t2 = h - t)
    BY <1>1
  <2>2. ASSUME NEW e \in {r.counted, r.recount, r.final} PROVE Fits(e, s, h2, t2)
    <3>1. e \in Entered /\ Fits(e, r, h, t) /\ s.expected = r.expected
      BY <1>1, <1>2
    <3>2. QED
      BY ONLY <2>1, <3>1, r \in Counts, h \in Int, t \in Int, h2 \in Int, t2 \in Int, FitsKept
  <2>3. QED
    BY <2>2
<1>4. Fits(s.counted, s, h2, t2) /\ Fits(s.recount, s, h2, t2) /\ Fits(s.final, s, h2, t2)
  BY <1>1, <1>3
<1>5. QED
  BY <1>1, <1>4 DEF CountStep, CountFits

LEMMA NotEnteredFits ==
    /\ NotEntered \in Entered
    /\ \A r, h, t : Fits(NotEntered, r, h, t)
BY DEF NotEntered, Entered, Fits

\* One count is replaced, the others stay.
LEMMA OneCount ==
    ASSUME DocumentCore, NEW c \in DOMAIN counts, NEW s, UNCHANGED <<onHand, traded>>,
           CountStep(counts[c], s, onHand, traded, onHand, traded),
           counts' = [counts EXCEPT ![c] = s]
    PROVE  counts' \in Seq(Counts) /\ CountsFit' /\ CountsStep /\ DOMAIN counts' = DOMAIN counts
<1>1. DocumentsTyped /\ CountsFit
  BY DEF DocumentCore
<1>2. PICK m : m = counts'
  OBVIOUS
<1>3. s \in Counts
  BY DEF CountStep
<1>4. m \in Seq(Counts) /\ DOMAIN m = DOMAIN counts /\ m[c] = s
      /\ \A d \in DOMAIN counts \ {c} : m[d] = counts[d]
  BY <1>1, <1>2, <1>3, SequenceSet DEF DocumentsTyped
<1>5. \A d \in DOMAIN counts : counts[d] \in Counts /\ CountFits(counts[d], onHand, traded)
  BY <1>1, SequenceDomain DEF DocumentsTyped, CountsFit
<1>6. ASSUME NEW d \in DOMAIN counts
      PROVE  CountStep(counts[d], m[d], onHand, traded, onHand, traded)
  <2>1. CASE d = c
    BY <1>4, <2>1
  <2>2. CASE d # c
    <3>1. m[d] = counts[d] /\ counts[d] \in Counts /\ CountFits(counts[d], onHand, traded)
      BY <1>4, <1>5, <2>2
    <3>2. onHand \in Int /\ traded \in Int
      BY <1>1 DEF DocumentsTyped
    <3>3. QED
      BY <3>1, <3>2, SameFits DEF CountFits
  <2>3. QED
    BY <2>1, <2>2
<1>7. CountsStep
  BY <1>2, <1>4, <1>6 DEF CountsStep
<1>8. \A d \in DOMAIN m : CountFits(m[d], onHand, traded)
  BY <1>4, <1>6 DEF CountStep
<1>9. CountsFit'
  BY <1>2, <1>8 DEF CountsFit
<1>10. QED
  BY <1>2, <1>4, <1>7, <1>9

\* No count is written.
LEMMA NoCount ==
    ASSUME DocumentCore, UNCHANGED <<onHand, traded, counts>>
    PROVE  CountsFit' /\ CountsStep
<1>1. /\ onHand \in Int /\ traded \in Int
      /\ \A d \in DOMAIN counts : counts[d] \in Counts /\ CountFits(counts[d], onHand, traded)
  BY SequenceDomain DEF DocumentCore, DocumentsTyped, CountsFit
<1>2. \A d \in DOMAIN counts : CountStep(counts[d], counts[d], onHand, traded, onHand, traded)
  BY <1>1, SameFits DEF CountFits
<1>3. CountsFit'
  BY <1>1 DEF CountsFit
<1>4. QED
  BY <1>2, <1>3 DEF CountsStep

\* The stock moves, and every count is disturbed.
LEMMA AllCounts ==
    ASSUME DocumentCore, NEW what \in {"trade", "correction"}, NEW m,
           m = Disturb(what), onHand' \in Int, traded' \in Int,
           what = "correction" \/ onHand' - traded' = onHand - traded
    PROVE  /\ m \in Seq(Counts) /\ DOMAIN m = DOMAIN counts
           /\ \A c \in DOMAIN counts :
                /\ CountStep(counts[c], m[c], onHand, traded, onHand', traded')
                /\ m[c].status = counts[c].status /\ m[c].final = counts[c].final
                /\ m[c].expected = counts[c].expected
<1>1. /\ onHand \in Int /\ traded \in Int /\ counts \in Seq(Counts)
      /\ \A d \in DOMAIN counts : counts[d] \in Counts /\ CountFits(counts[d], onHand, traded)
  BY SequenceDomain DEF DocumentCore, DocumentsTyped, CountsFit
<1>2. ASSUME NEW c \in DOMAIN counts
      PROVE  /\ CountStep(counts[c], m[c], onHand, traded, onHand', traded')
             /\ m[c].status = counts[c].status /\ m[c].final = counts[c].final
             /\ m[c].expected = counts[c].expected
  <2>1. m[c] = [counts[c] EXCEPT !.disturbed = @ \cup {what}]
    BY DEF Disturb
  <2>2. CountStep(counts[c], m[c], onHand, traded, onHand', traded')
        /\ m[c].status = counts[c].status /\ m[c].final = counts[c].final
    BY <1>1, <2>1, DisturbedFits
  <2>3. QED
    BY <2>2 DEF CountStep
<1>3. DOMAIN m = 1..Len(counts) /\ Len(counts) \in Nat /\ DOMAIN counts = 1..Len(counts)
  BY <1>1 DEF Disturb
<1>4. \A c \in 1..Len(counts) : m[c] \in Counts
  BY <1>2, <1>3 DEF CountStep
<1>5. m = [c \in 1..Len(counts) |-> m[c]]
  BY <1>3 DEF Disturb
<1>6. m \in Seq(Counts)
  BY <1>3, <1>4, <1>5
<1>7. QED
  BY <1>2, <1>3, <1>6

\* What a plan of this moment knows.
PlannedNow(p) ==
    /\ p.op \in CountOps => counts[p.count].status # "POSTED"
    /\ p.op \in {"startCount", "submitCount", "recount", "approveCount"} =>
         counts[p.count].status # "APPROVED"
    /\ p.op = "enter" => p.status = counts[p.count].status
    /\ p.op = "createCount" => p.status # "POSTED"
    /\ p.op \in AdjustmentOps => adjustments[p.adjustment].status # "POSTED"
    /\ p.op = "convert" => issues[p.issue].linked = 0
    /\ p.op = "review" => p.status \in {"UNDER_REVIEW", "ACCEPTED"}

LEMMA DocumentPlansOK ==
    ASSUME DocumentCore, NEW p \in DocumentPlans
    PROVE  DocumentPlanOK(p) /\ PlannedNow(p)
<1> USE DEF CountOps, AdjustmentOps, IssueOps
<1>1. /\ onHand \in Int /\ counts \in Seq(Counts)
      /\ \A c \in DOMAIN counts : counts[c] \in Counts /\ CountFits(counts[c], onHand, traded)
  BY SequenceDomain DEF DocumentCore, DocumentsTyped, CountsFit
<1>2. CASE p \in CountPlans
  <2>1. CASE p.op \in {"createCount", "startCount", "enter", "submitCount", "recount", "postCount"}
    <3>1. \/ p.op = "createCount" /\ p.expected = onHand /\ p.status \in {"DRAFT", "SCHEDULED"}
          \/ p.op = "startCount" /\ p.count \in CountsIn({"DRAFT", "SCHEDULED"})
          \/ /\ p.op = "enter" /\ p.count \in CountsIn(CountStatuses \ {"POSTED"})
             /\ p.line \in Lines /\ p.status = counts[p.count].status
          \/ /\ p.op = "submitCount"
             /\ p.count \in CountsIn({"DRAFT", "IN_PROGRESS", "RECOUNT_REQUESTED"})
          \/ p.op = "recount" /\ p.count \in CountsIn({"SUBMITTED"})
          \/ /\ p.op = "postCount" /\ p.count \in CountsIn({"APPROVED"})
             /\ p.final = counts[p.count].final
      BY <1>2, <2>1 DEF CountPlans
    <3>2. QED
      BY <1>1, <3>1, LinesAssumption DEF DocumentPlanOK, PlannedNow, CountsIn, CountStatuses
  <2>2. CASE p.op = "approveCount"
    <3>1. /\ p.count \in CountsIn({"SUBMITTED"}) /\ p.counted = counts[p.count].counted
          /\ p.recount = counts[p.count].recount
      BY <1>2, <2>2 DEF CountPlans
    <3>2. p.count \in DOMAIN counts /\ counts[p.count].status = "SUBMITTED"
      BY <3>1 DEF CountsIn
    <3>3. \A e \in {p.counted, p.recount} :
            e \in Entered /\ Fits(e, counts[p.count], onHand, traded)
      BY <1>1, <3>1, <3>2, CountTyped DEF CountFits
    <3>4. QED
      BY <2>2, <3>2, <3>3 DEF DocumentPlanOK, PlannedNow
  <2>3. QED
    BY <1>2, <2>1, <2>2 DEF CountPlans
<1>3. CASE p \in AdjustmentPlans
  <2>1. \/ p.op = "createAdjustment" /\ p.qty \in Quantities /\ p.issue \in {0} \cup DOMAIN issues
        \/ p.op \in AdjustmentOps /\ p.adjustment \in DOMAIN adjustments
           /\ adjustments[p.adjustment].status # "POSTED"
    BY <1>3 DEF AdjustmentPlans, AdjustmentsIn
  <2>2. DOMAIN issues \subseteq Nat
    BY SequenceDomain DEF DocumentCore, DocumentsTyped
  <2>3. QED
    BY <2>1, <2>2, QuantitiesAssumption DEF DocumentPlanOK, PlannedNow
<1>4. CASE p \in IssuePlans
  <2>1. \/ p.op = "report" /\ p.qty \in Quantities
        \/ p.op = "review" /\ p.issue \in DOMAIN issues /\ p.status \in {"UNDER_REVIEW", "ACCEPTED"}
        \/ p.op = "rejectIssue" /\ p.issue \in DOMAIN issues
        \/ p.op = "convert" /\ p.issue \in DOMAIN issues /\ issues[p.issue].linked = 0
    BY <1>4 DEF IssuePlans, IssuesIn
  <2>2. QED
    BY <2>1, QuantitiesAssumption DEF DocumentPlanOK, PlannedNow, IssueStatuses
<1>5. CASE p \in TradePlans
  BY <1>5 DEF TradePlans, DocumentPlanOK, PlannedNow
<1>6. QED
  BY <1>2, <1>3, <1>4, <1>5 DEF DocumentPlans

\* A count that is not posted is not posted by an edit; one that is posted or
\* approved stays so, with its quantity, if the edit was planned now.
Edited(p, r, s) ==
    /\ CountStep(r, s, onHand, traded, onHand, traded)
    /\ r.status # "POSTED" => s.status # "POSTED"
    /\ PlannedNow(p) => r.status # "POSTED"
    /\ PlannedNow(p) /\ r.status = "APPROVED" => s.status = "APPROVED" /\ s.final = r.final

LEMMA EditIs ==
    ASSUME DocumentCore, NEW p, DocumentPlanOK(p),
           \/ StartCount(p) \/ UpdateItems(p) \/ SubmitCount(p) \/ RequestRecount(p)
           \/ ApproveCount(p)
    PROVE  /\ p.count \in DOMAIN counts
           /\ UNCHANGED <<onHand, traded, adjustments, issues>>
           /\ \E s : /\ Edited(p, counts[p.count], s)
                     /\ counts' = [counts EXCEPT ![p.count] = s]
<1>1. p.count \in DOMAIN counts /\ p.op \in CountOps
  BY DEF StartCount, UpdateItems, SubmitCount, RequestRecount, ApproveCount, CountOps,
         DocumentPlanOK
<1>2. UNCHANGED <<onHand, traded, adjustments, issues>>
  BY DEF StartCount, UpdateItems, SubmitCount, RequestRecount, ApproveCount
<1>3. PICK r : r = counts[p.count]
  OBVIOUS
<1>4. /\ onHand \in Int /\ traded \in Int /\ r \in Counts /\ CountFits(r, onHand, traded)
  BY <1>1, <1>3, SequenceDomain DEF DocumentCore, DocumentsTyped, CountsFit
<1>5. \A e \in {r.counted, r.recount, r.final} : Fits(e, r, onHand, traded)
  BY <1>4 DEF CountFits
<1> DEFINE Told(s) == /\ r.status # "POSTED" => s.status # "POSTED"
                      /\ PlannedNow(p) => r.status # "POSTED"
                      /\ PlannedNow(p) /\ r.status = "APPROVED" =>
                           s.status = "APPROVED" /\ s.final = r.final
           Same(s) == /\ s \in Counts /\ s.expected = r.expected /\ s.disturbed = r.disturbed
                      /\ \A e \in {s.counted, s.recount, s.final} : Fits(e, r, onHand, traded)
<1>6. ASSUME NEW s, Same(s), Told(s) PROVE Edited(p, r, s)
  <2>1. CountStep(r, s, onHand, traded, onHand, traded)
    BY <1>4, <1>6, SameFits
  <2>2. QED
    BY <1>6, <2>1 DEF Edited
<1>7. CASE StartCount(p) \/ SubmitCount(p)
  <2>1. PICK st \in {"IN_PROGRESS", "SUBMITTED"} : counts' = [counts EXCEPT ![p.count].status = st]
    BY <1>7 DEF StartCount, SubmitCount
  <2>2. PICK s : s = [r EXCEPT !.status = st]
    OBVIOUS
  <2>3. counts' = [counts EXCEPT ![p.count] = s]
    BY <1>1, <1>3, <2>1, <2>2
  <2>4. /\ s \in Counts /\ s.expected = r.expected /\ s.disturbed = r.disturbed
        /\ s.counted = r.counted /\ s.recount = r.recount /\ s.final = r.final
        /\ s.status = st
    BY <1>4, <2>2 DEF Counts, CountStatuses
  <2>5. Same(s)
    BY <1>5, <2>4
  <2>6. Told(s)
    <3>1. p.op \in {"startCount", "submitCount"}
      BY <1>7 DEF StartCount, SubmitCount
    <3>2. QED
      BY <1>3, <2>4, <3>1 DEF PlannedNow, CountOps
  <2>7. QED
    BY <1>1, <1>2, <1>3, <1>6, <2>3, <2>5, <2>6
<1>8. CASE RequestRecount(p)
  <2>1. PICK s : s = [r EXCEPT !.status = "RECOUNT_REQUESTED", !.line = "RECOUNT_REQUIRED",
                               !.recount = NotEntered]
    OBVIOUS
  <2>2. counts' = [counts EXCEPT ![p.count] = s]
    BY <1>1, <1>3, <1>4, <1>8, <2>1 DEF RequestRecount, Counts
  <2>3. /\ s \in Counts /\ s.expected = r.expected /\ s.disturbed = r.disturbed
        /\ s.counted = r.counted /\ s.recount = NotEntered /\ s.final = r.final
        /\ s.status = "RECOUNT_REQUESTED"
    BY <1>4, <2>1, NotEnteredFits DEF Counts, CountStatuses, LineStatuses
  <2>4. Same(s)
    BY <1>5, <2>3, NotEnteredFits
  <2>5. Told(s)
    BY <1>3, <1>8, <2>3 DEF PlannedNow, CountOps, RequestRecount
  <2>6. QED
    BY <1>1, <1>2, <1>3, <1>6, <2>2, <2>4, <2>5
<1>9. CASE ApproveCount(p)
  <2>1. /\ p.op = "approveCount"
        /\ \A e \in {p.counted, p.recount} : e \in Entered /\ Fits(e, r, onHand, traded)
    BY <1>3, <1>9 DEF ApproveCount, DocumentPlanOK
  <2>2. PICK e : e = Final(p)
    OBVIOUS
  <2>3. e \in Entered /\ Fits(e, r, onHand, traded)
    BY <2>1, <2>2 DEF Final, Entered, Fits
  <2>4. PICK s : s = [r EXCEPT !.status = "APPROVED", !.final = e]
    OBVIOUS
  <2>5. counts' = [counts EXCEPT ![p.count] = s]
    BY <1>1, <1>3, <1>4, <1>9, <2>2, <2>4 DEF ApproveCount, Counts
  <2>6. /\ s \in Counts /\ s.expected = r.expected /\ s.disturbed = r.disturbed
        /\ s.counted = r.counted /\ s.recount = r.recount /\ s.final = e
        /\ s.status = "APPROVED"
    BY <1>4, <2>3, <2>4 DEF Counts, CountStatuses
  <2>7. Same(s)
    BY <1>5, <2>3, <2>6
  <2>8. Told(s)
    BY <1>3, <2>1, <2>6 DEF PlannedNow, CountOps
  <2>9. QED
    BY <1>1, <1>2, <1>3, <1>6, <2>5, <2>7, <2>8
<1>10. CASE UpdateItems(p)
  <2>1. p.op = "enter" /\ p.line \in LineStatuses
    BY <1>10 DEF UpdateItems, DocumentPlanOK
  <2>2. PICK e : e = Found(p.count, p.given)
    OBVIOUS
  <2>3. e \in Entered /\ Fits(e, r, onHand, traded)
    <3>1. CASE e = NotEntered
      BY <3>1, NotEnteredFits
    <3>2. CASE e = [qty |-> Shelf + traded, late |-> "trade" \in r.disturbed]
      <4>1. e \in Entered /\ e.qty = Shelf + traded /\ (e.late <=> "trade" \in r.disturbed)
        <5>1. PICK n \in Int : n = Shelf + traded
          <6>1. Shelf \in Int
            BY QuantitiesAssumption
          <6>2. Shelf + traded \in Int
            BY <1>4, <6>1
          <6>3. QED
            BY <6>2
        <5>2. PICK d : d = r.disturbed
          OBVIOUS
        <5>3. e = [qty |-> n, late |-> "trade" \in d]
          BY <3>2, <5>1, <5>2
        <5>4. e \in Entered /\ e.qty = n /\ (e.late <=> "trade" \in d)
          <6>1. e \in Entered
            BY ONLY <5>3, n \in Int DEF Entered
          <6>2. QED
            BY ONLY <5>3, <6>1
        <5>5. QED
          BY <5>1, <5>2, <5>4
      <4>2. "correction" \notin r.disturbed /\ ~e.late => onHand = r.expected
        BY <1>4, <4>1, CountTyped DEF CountFits
      <4>3. QED
        BY <1>4, <4>1, <4>2, QuantitiesAssumption, CountTyped DEF Fits
    <3>3. QED
      BY <1>3, <2>2, <3>1, <3>2 DEF Found
  <2>4. PICK f : f = IF r.line = "RECOUNT_REQUIRED" THEN [r EXCEPT !.recount = e, !.line = p.line]
                     ELSE [r EXCEPT !.counted = e, !.line = p.line]
    OBVIOUS
  <2>5. /\ f \in Counts /\ f.expected = r.expected /\ f.disturbed = r.disturbed
        /\ f.counted \in {r.counted, e} /\ f.recount \in {r.recount, e} /\ f.final = r.final
        /\ f.status = r.status
    BY <1>4, <2>1, <2>3, <2>4 DEF Counts
  <2>6. PICK s : s = IF p.status \in {"DRAFT", "SCHEDULED"}
                       THEN [f EXCEPT !.status = "IN_PROGRESS"] ELSE f
    OBVIOUS
  <2>7. counts' = [counts EXCEPT ![p.count] = s]
    BY <1>3, <1>10, <2>2, <2>4, <2>6 DEF UpdateItems
  <2>8. /\ s \in Counts /\ s.expected = r.expected /\ s.disturbed = r.disturbed
        /\ s.counted \in {r.counted, e} /\ s.recount \in {r.recount, e} /\ s.final = r.final
        /\ s.status = IF p.status \in {"DRAFT", "SCHEDULED"} THEN "IN_PROGRESS" ELSE r.status
    BY <2>5, <2>6 DEF Counts, CountStatuses
  <2>9. Same(s)
    BY <1>5, <2>3, <2>8
  <2>10. Told(s)
    BY <1>3, <2>1, <2>8 DEF PlannedNow, CountOps
  <2>11. QED
    BY <1>1, <1>2, <1>3, <1>6, <2>7, <2>9, <2>10
<1>11. QED
  BY <1>7, <1>8, <1>9, <1>10

\* The row is written relatively.
LEMMA AdjustedIs ==
    ASSUME onHand \in Int, NEW q \in Int, Adjusted(q)
    PROVE  onHand' = onHand + q /\ onHand' \in Int
BY DEF Adjusted

LEMMA TradeOK ==
    ASSUME DocumentCore, NEW p, DocumentPlanOK(p), Trade(p)
    PROVE  DocumentCore' /\ DocumentsGrow
<1>1. /\ DocumentsTyped /\ p.qty \in Int /\ Adjusted(p.qty) /\ traded' = traded + p.qty
      /\ counts' = Disturb("trade") /\ UNCHANGED <<adjustments, issues>>
  BY DEF DocumentCore, DocumentPlanOK, Trade
<1>2. onHand' \in Int /\ traded' \in Int /\ onHand' - traded' = onHand - traded
  BY <1>1, AdjustedIs DEF DocumentsTyped
<1>3. PICK m : m = counts'
  OBVIOUS
<1>4. /\ m \in Seq(Counts) /\ DOMAIN m = DOMAIN counts
      /\ \A c \in DOMAIN counts : CountStep(counts[c], m[c], onHand, traded, onHand', traded')
  BY <1>1, <1>2, <1>3, AllCounts
<1>5. CountsStep /\ CountsFit'
  BY <1>3, <1>4 DEF CountsStep, CountsFit, CountStep
<1>6. QED
  BY <1>1, <1>2, <1>3, <1>4, <1>5 DEF DocumentCore, DocumentsTyped, DocumentsGrow

NewCount(q) ==
    [status |-> q.status, line |-> "UNCOUNTED", expected |-> q.expected, counted |-> NotEntered,
     recount |-> NotEntered, final |-> NotEntered,
     disturbed |-> IF q.expected = onHand THEN {} ELSE {"trade"}]

LEMMA CreateCountOK ==
    ASSUME DocumentCore, NEW p, DocumentPlanOK(p), CreateCount(p)
    PROVE  DocumentCore' /\ DocumentsGrow
<1>1. /\ DocumentsTyped /\ CountsFit /\ p.expected \in Int /\ p.status \in CountStatuses
      /\ UNCHANGED <<onHand, traded, adjustments, issues>>
      /\ counts' = Append(counts, NewCount(p))
  BY DEF DocumentCore, DocumentPlanOK, CreateCount, NewCount
<1>2. PICK n : n = NewCount(p)
  OBVIOUS
<1>3. /\ n \in Counts /\ n.expected = p.expected
      /\ n.counted = NotEntered /\ n.recount = NotEntered /\ n.final = NotEntered
      /\ n.disturbed = IF p.expected = onHand THEN {} ELSE {"trade"}
  BY <1>1, <1>2, NotEnteredFits DEF NewCount, Counts, LineStatuses
<1>4. CountFits(n, onHand, traded)
  BY <1>3, NotEnteredFits DEF CountFits
<1>5. PICK m : m = counts'
  OBVIOUS
<1>6. /\ m \in Seq(Counts) /\ DOMAIN m = DOMAIN counts \cup {Len(counts) + 1}
      /\ m[Len(counts) + 1] = n /\ \A c \in DOMAIN counts : m[c] = counts[c]
  BY <1>1, <1>2, <1>3, <1>5, SequenceAppend DEF DocumentsTyped
<1>7. \A c \in DOMAIN counts : counts[c] \in Counts /\ CountFits(counts[c], onHand, traded)
  BY <1>1, SequenceDomain DEF DocumentsTyped, CountsFit
<1>8. \A c \in DOMAIN counts : CountStep(counts[c], m[c], onHand, traded, onHand, traded)
  BY <1>1, <1>6, <1>7, SameFits DEF CountFits, DocumentsTyped
<1>9. \A c \in DOMAIN m : CountFits(m[c], onHand, traded)
  BY <1>4, <1>6, <1>7
<1>10. CountsStep
  BY <1>1, <1>5, <1>6, <1>8 DEF CountsStep
<1>11. CountsFit'
  BY <1>1, <1>5, <1>9 DEF CountsFit
<1>12. QED
  BY <1>1, <1>5, <1>6, <1>10, <1>11 DEF DocumentCore, DocumentsTyped, DocumentsGrow

LEMMA EditOK ==
    ASSUME DocumentCore, NEW p, DocumentPlanOK(p),
           \/ StartCount(p) \/ UpdateItems(p) \/ SubmitCount(p) \/ RequestRecount(p)
           \/ ApproveCount(p)
    PROVE  DocumentCore' /\ DocumentsGrow
<1>1. /\ p.count \in DOMAIN counts /\ UNCHANGED <<onHand, traded, adjustments, issues>>
      /\ \E s : Edited(p, counts[p.count], s) /\ counts' = [counts EXCEPT ![p.count] = s]
  BY EditIs
<1>2. PICK s : Edited(p, counts[p.count], s) /\ counts' = [counts EXCEPT ![p.count] = s]
  BY <1>1
<1>3. counts' \in Seq(Counts) /\ CountsFit' /\ CountsStep
  BY <1>1, <1>2, OneCount DEF Edited
<1>4. QED
  BY <1>1, <1>3 DEF DocumentCore, DocumentsTyped, DocumentsGrow

\* The post of a count changes the status of one count, and disturbs them all.
LEMMA PostCountIs ==
    ASSUME DocumentCore, NEW p, DocumentPlanOK(p), PostCount(p)
    PROVE  /\ p.count \in DOMAIN counts /\ p.final = counts[p.count].final
           /\ onHand' = onHand + (p.final.qty - counts[p.count].expected)
           /\ onHand' \in Int /\ UNCHANGED <<traded, adjustments, issues>>
           /\ counts' \in Seq(Counts) /\ DOMAIN counts' = DOMAIN counts
           /\ \A c \in DOMAIN counts :
                /\ CountStep(counts[c], counts'[c], onHand, traded, onHand', traded)
                /\ counts'[c].status = IF c = p.count THEN "POSTED" ELSE counts[c].status
                /\ counts'[c].final = counts[c].final
                /\ counts'[c].expected = counts[c].expected
<1>1. /\ p.op = "postCount" /\ p.count \in DOMAIN counts /\ p.final = counts[p.count].final
      /\ Adjusted(p.final.qty - counts[p.count].expected)
      /\ counts' = [Disturb("correction") EXCEPT ![p.count].status = "POSTED"]
      /\ UNCHANGED <<traded, adjustments, issues>>
  BY DEF PostCount, DocumentPlanOK, CountOps
<1>2. counts[p.count] \in Counts /\ onHand \in Int /\ traded \in Int
  BY <1>1, SequenceDomain DEF DocumentCore, DocumentsTyped
<1>3. p.final.qty - counts[p.count].expected \in Int
  BY <1>1, <1>2, CountTyped, EntryTyped
<1>4. /\ onHand' = onHand + (p.final.qty - counts[p.count].expected) /\ onHand' \in Int
  BY <1>1, <1>2, <1>3, AdjustedIs
<1>5. PICK m : m = Disturb("correction")
  OBVIOUS
<1>6. /\ m \in Seq(Counts) /\ DOMAIN m = DOMAIN counts
      /\ \A c \in DOMAIN counts :
           /\ CountStep(counts[c], m[c], onHand, traded, onHand', traded')
           /\ m[c].status = counts[c].status /\ m[c].final = counts[c].final
           /\ m[c].expected = counts[c].expected
  BY <1>1, <1>2, <1>4, <1>5, AllCounts
<1>7. PICK r : r = m[p.count]
  OBVIOUS
<1>8. r \in Counts /\ CountStep(counts[p.count], r, onHand, traded, onHand', traded')
  BY <1>1, <1>6, <1>7 DEF CountStep
<1>9. PICK s : s = [r EXCEPT !.status = "POSTED"]
  OBVIOUS
<1>10. /\ s \in Counts /\ s.status = "POSTED" /\ s.expected = r.expected
       /\ s.counted = r.counted /\ s.recount = r.recount /\ s.final = r.final
       /\ s.disturbed = r.disturbed
  BY <1>8, <1>9 DEF Counts, CountStatuses
<1>11. CountStep(counts[p.count], s, onHand, traded, onHand', traded')
  BY <1>8, <1>10 DEF CountStep, CountFits, Fits
<1>12. PICK n : n = counts'
  OBVIOUS
<1>13. n = [m EXCEPT ![p.count] = s]
  BY <1>1, <1>5, <1>6, <1>7, <1>9, <1>12
<1>14. /\ n \in Seq(Counts) /\ DOMAIN n = DOMAIN m /\ n[p.count] = s
       /\ \A c \in DOMAIN m \ {p.count} : n[c] = m[c]
  BY <1>1, <1>6, <1>10, <1>13, SequenceSet
<1>15. ASSUME NEW c \in DOMAIN counts
       PROVE  /\ CountStep(counts[c], n[c], onHand, traded, onHand', traded)
              /\ n[c].status = IF c = p.count THEN "POSTED" ELSE counts[c].status
              /\ n[c].final = counts[c].final
              /\ n[c].expected = counts[c].expected
  <2>1. CASE c = p.count
    BY <1>1, <1>6, <1>7, <1>10, <1>11, <1>14, <2>1
  <2>2. CASE c # p.count
    BY <1>1, <1>6, <1>14, <2>2
  <2>3. QED
    BY <2>1, <2>2
<1>16. QED
  BY <1>1, <1>4, <1>6, <1>12, <1>14, <1>15

LEMMA PostCountOK ==
    ASSUME DocumentCore, NEW p, DocumentPlanOK(p), PostCount(p)
    PROVE  DocumentCore' /\ DocumentsGrow
<1>1. /\ onHand' \in Int /\ UNCHANGED <<traded, adjustments, issues>>
      /\ counts' \in Seq(Counts) /\ DOMAIN counts' = DOMAIN counts
      /\ \A c \in DOMAIN counts :
           CountStep(counts[c], counts'[c], onHand, traded, onHand', traded)
  BY PostCountIs
<1>2. CountsStep
  BY <1>1 DEF CountsStep
<1>3. CountsFit'
  BY <1>1 DEF CountsFit, CountStep
<1>4. QED
  BY <1>1, <1>2, <1>3 DEF DocumentCore, DocumentsTyped, DocumentsGrow

\* An adjustment is added, or changes its status.
Drafted(n, q, i, m) ==
    n = [status |-> "DRAFT", qty |-> q, issue |-> i] /\ m = Append(adjustments, n)
StatusWritten(a, st, m) == m = [adjustments EXCEPT ![a].status = st]

LEMMA AdjustmentAdded ==
    ASSUME DocumentsTyped, NEW q \in Int, NEW i \in Nat, NEW n, NEW m, Drafted(n, q, i, m)
    PROVE  /\ n \in Adjustments /\ n.status = "DRAFT"
           /\ Extended(Adjustments, adjustments, m, Len(adjustments) + 1)
           /\ m[Len(adjustments) + 1] = n
<1>1. n \in Adjustments /\ n.status = "DRAFT"
  <2>1. n = [status |-> "DRAFT", qty |-> q, issue |-> i]
    BY DEF Drafted
  <2>2. QED
    BY ONLY <2>1, q \in Int, i \in Nat DEF Adjustments, AdjustmentStatuses
<1>2. QED
  BY <1>1, SequenceAppend DEF DocumentsTyped, Drafted, Extended

LEMMA AdjustmentMoved ==
    ASSUME DocumentsTyped, NEW a \in DOMAIN adjustments, NEW st \in AdjustmentStatuses, NEW m,
           StatusWritten(a, st, m)
    PROVE  /\ m \in Seq(Adjustments) /\ DOMAIN m = DOMAIN adjustments
           /\ m[a].status = st /\ m[a].qty = adjustments[a].qty
           /\ m[a].issue = adjustments[a].issue
           /\ \A b \in DOMAIN adjustments \ {a} : m[b] = adjustments[b]
<1>1. adjustments \in Seq(Adjustments) /\ adjustments[a] \in Adjustments
  BY SequenceDomain DEF DocumentsTyped
<1>2. PICK n : n = [adjustments[a] EXCEPT !.status = st]
  OBVIOUS
<1>3. /\ n \in Adjustments /\ n.status = st /\ n.qty = adjustments[a].qty
      /\ n.issue = adjustments[a].issue
  BY <1>1, <1>2 DEF Adjustments
<1>4. m = [adjustments EXCEPT ![a] = n]
  BY <1>2 DEF StatusWritten
<1>5. QED
  BY <1>1, <1>3, <1>4, SequenceSet

LEMMA AdjustmentOK ==
    ASSUME DocumentCore, NEW p, DocumentPlanOK(p),
           \/ CreateAdjustment(p) \/ SubmitAdjustment(p) \/ ApproveAdjustment(p)
           \/ RejectAdjustment(p) \/ CancelAdjustment(p)
    PROVE  DocumentCore' /\ DocumentsGrow
<1>1. DocumentsTyped /\ UNCHANGED <<onHand, traded, counts, issues>>
  BY DEF DocumentCore, CreateAdjustment, SubmitAdjustment, ApproveAdjustment, RejectAdjustment,
         CancelAdjustment, MoveAdjustment
<1>2. PICK m : m = adjustments'
  OBVIOUS
<1>3. m \in Seq(Adjustments) /\ DOMAIN adjustments \subseteq DOMAIN m
  <2>1. CASE CreateAdjustment(p)
    <3>1. p.qty \in Int /\ p.issue \in Nat
      BY <2>1 DEF CreateAdjustment, DocumentPlanOK
    <3>2. PICK n : Drafted(n, p.qty, p.issue, m)
      BY <1>2, <2>1 DEF CreateAdjustment, Drafted
    <3>3. QED
      BY <1>1, <3>1, <3>2, AdjustmentAdded DEF Extended
  <2>2. CASE SubmitAdjustment(p) \/ ApproveAdjustment(p) \/ RejectAdjustment(p)
             \/ CancelAdjustment(p)
    <3>1. /\ p.op \in AdjustmentOps
          /\ \E st \in AdjustmentStatuses : MoveAdjustment(p.adjustment, st)
      BY <2>2 DEF SubmitAdjustment, ApproveAdjustment, RejectAdjustment, CancelAdjustment,
                  AdjustmentOps, AdjustmentStatuses
    <3>2. PICK st \in AdjustmentStatuses : MoveAdjustment(p.adjustment, st)
      BY <3>1
    <3>3. p.adjustment \in DOMAIN adjustments /\ StatusWritten(p.adjustment, st, m)
      BY <1>2, <3>1, <3>2 DEF MoveAdjustment, DocumentPlanOK, StatusWritten
    <3>4. QED
      BY <1>1, <3>3, AdjustmentMoved
  <2>3. QED
    BY <2>1, <2>2
<1>4. CountsFit' /\ CountsStep
  BY <1>1, NoCount
<1>5. QED
  BY <1>1, <1>2, <1>3, <1>4 DEF DocumentCore, DocumentsTyped, DocumentsGrow

\* The post of an adjustment moves the stock, disturbs every count, posts the
\* adjustment and closes the issue it was made for.
LEMMA PostAdjustmentIs ==
    ASSUME DocumentCore, NEW p, DocumentPlanOK(p), PostAdjustment(p), NEW a, a = p.adjustment
    PROVE  /\ a \in DOMAIN adjustments /\ UNCHANGED traded
           /\ onHand' = onHand + adjustments[a].qty /\ onHand' \in Int
           /\ counts' = Disturb("correction")
           /\ adjustments' \in Seq(Adjustments) /\ DOMAIN adjustments' = DOMAIN adjustments
           /\ adjustments'[a].status = "POSTED" /\ adjustments'[a].qty = adjustments[a].qty
           /\ adjustments'[a].issue = adjustments[a].issue
           /\ \A b \in DOMAIN adjustments \ {a} : adjustments'[b] = adjustments[b]
           /\ issues' \in Seq(Issues) /\ DOMAIN issues' = DOMAIN issues
           /\ \A i \in DOMAIN issues :
                /\ issues'[i].linked = issues[i].linked
                /\ issues'[i].conversions = issues[i].conversions
                /\ i # adjustments[a].issue => issues'[i] = issues[i]
<1>1. /\ a \in DOMAIN adjustments /\ Adjusted(adjustments[a].qty) /\ UNCHANGED traded
      /\ adjustments' = [adjustments EXCEPT ![a].status = "POSTED"]
      /\ counts' = Disturb("correction")
      /\ issues' = [i \in DOMAIN issues |->
                      IF i = adjustments[a].issue
                        THEN [issues[i] EXCEPT !.status = "CLOSED"] ELSE issues[i]]
  BY DEF PostAdjustment, DocumentPlanOK, AdjustmentOps
<1>2. /\ onHand \in Int /\ DocumentsTyped /\ adjustments[a] \in Adjustments
      /\ \A i \in DOMAIN issues : issues[i] \in Issues
  BY <1>1, SequenceDomain DEF DocumentCore, DocumentsTyped
<1>3. onHand' = onHand + adjustments[a].qty /\ onHand' \in Int
  BY <1>1, <1>2, AdjustedIs DEF Adjustments
<1>4. PICK m : m = adjustments'
  OBVIOUS
<1>5. /\ m \in Seq(Adjustments) /\ DOMAIN m = DOMAIN adjustments
      /\ m[a].status = "POSTED" /\ m[a].qty = adjustments[a].qty
      /\ m[a].issue = adjustments[a].issue
      /\ \A b \in DOMAIN adjustments \ {a} : m[b] = adjustments[b]
  <2>1. PICK st \in AdjustmentStatuses : st = "POSTED"
    BY DEF AdjustmentStatuses
  <2>2. StatusWritten(a, st, m)
    BY <1>1, <1>4, <2>1 DEF StatusWritten
  <2>3. /\ m \in Seq(Adjustments) /\ DOMAIN m = DOMAIN adjustments
        /\ m[a].status = st /\ m[a].qty = adjustments[a].qty
        /\ m[a].issue = adjustments[a].issue
        /\ \A b \in DOMAIN adjustments \ {a} : m[b] = adjustments[b]
    BY ONLY <1>1, <1>2, <2>2, st \in AdjustmentStatuses, AdjustmentMoved
  <2>4. QED
    BY <2>1, <2>3
<1>6. PICK n : n = issues'
  OBVIOUS
<1>7. ASSUME NEW i \in DOMAIN issues
      PROVE  /\ n[i] \in Issues /\ n[i].linked = issues[i].linked
             /\ n[i].conversions = issues[i].conversions
             /\ i # adjustments[a].issue => n[i] = issues[i]
  <2>1. PICK r \in Issues : r = issues[i]
    BY <1>2
  <2>2. n[i] = r \/ (i = adjustments[a].issue /\ n[i] = [r EXCEPT !.status = "CLOSED"])
    BY <1>1, <1>6, <2>1
  <2>3. QED
    BY <2>1, <2>2 DEF Issues, IssueStatuses
<1>8. DOMAIN n = DOMAIN issues /\ n \in Seq(Issues)
  <2>1. issues \in Seq(Issues) /\ Len(issues) \in Nat /\ DOMAIN issues = 1..Len(issues)
    BY <1>2, SequenceDomain DEF DocumentsTyped
  <2>2. DOMAIN n = 1..Len(issues) /\ n = [i \in 1..Len(issues) |-> n[i]]
    BY <1>1, <1>6, <2>1
  <2>3. \A i \in 1..Len(issues) : n[i] \in Issues
    BY <1>7, <2>1
  <2>4. QED
    BY <2>1, <2>2, <2>3
<1>9. QED
  BY <1>1, <1>3, <1>4, <1>5, <1>6, <1>7, <1>8

LEMMA PostAdjustmentOK ==
    ASSUME DocumentCore, NEW p, DocumentPlanOK(p), PostAdjustment(p)
    PROVE  DocumentCore' /\ DocumentsGrow
<1>1. /\ onHand' \in Int /\ UNCHANGED traded /\ counts' = Disturb("correction")
      /\ adjustments' \in Seq(Adjustments) /\ DOMAIN adjustments' = DOMAIN adjustments
      /\ issues' \in Seq(Issues) /\ DOMAIN issues' = DOMAIN issues
  BY PostAdjustmentIs
<1>2. traded' \in Int
  BY <1>1 DEF DocumentCore, DocumentsTyped
<1>3. PICK m : m = counts'
  OBVIOUS
<1>4. /\ m \in Seq(Counts) /\ DOMAIN m = DOMAIN counts
      /\ \A c \in DOMAIN counts : CountStep(counts[c], m[c], onHand, traded, onHand', traded')
  BY <1>1, <1>2, <1>3, AllCounts
<1>5. CountsStep /\ CountsFit'
  BY <1>3, <1>4 DEF CountsStep, CountsFit, CountStep
<1>6. QED
  BY <1>1, <1>2, <1>3, <1>4, <1>5 DEF DocumentCore, DocumentsTyped, DocumentsGrow

LEMMA IssueMoved ==
    ASSUME DocumentsTyped, NEW i \in DOMAIN issues, NEW r, r = issues[i],
           NEW s \in Issues, NEW m, m = [issues EXCEPT ![i] = s]
    PROVE  /\ m \in Seq(Issues) /\ DOMAIN m = DOMAIN issues /\ m[i] = s
           /\ \A j \in DOMAIN issues \ {i} : m[j] = issues[j]
BY SequenceSet DEF DocumentsTyped

LEMMA ReportIs ==
    ASSUME DocumentsTyped, NEW p, DocumentPlanOK(p), ReportIssue(p)
    PROVE  /\ UNCHANGED <<onHand, traded, counts, adjustments>>
           /\ issues' \in Seq(Issues) /\ DOMAIN issues' = DOMAIN issues \cup {Len(issues) + 1}
           /\ issues'[Len(issues) + 1] = [status |-> "SUBMITTED", qty |-> p.qty, linked |-> 0,
                                          conversions |-> 0]
           /\ \A i \in DOMAIN issues : issues'[i] = issues[i]
<1>1. p.qty \in Int
  BY DEF ReportIssue, DocumentPlanOK
<1>2. PICK n : n = [status |-> "SUBMITTED", qty |-> p.qty, linked |-> 0, conversions |-> 0]
  OBVIOUS
<1>3. n \in Issues
  <2>1. PICK q \in Int : q = p.qty
    BY <1>1
  <2>2. n = [status |-> "SUBMITTED", qty |-> q, linked |-> 0, conversions |-> 0]
    BY <1>2, <2>1
  <2>3. QED
    BY ONLY <2>2, q \in Int DEF Issues, IssueStatuses
<1>4. PICK m : m = issues'
  OBVIOUS
<1>5. m = Append(issues, n)
  BY <1>2, <1>4 DEF ReportIssue
<1>6. /\ m \in Seq(Issues) /\ DOMAIN m = DOMAIN issues \cup {Len(issues) + 1}
      /\ m[Len(issues) + 1] = n /\ \A i \in DOMAIN issues : m[i] = issues[i]
  BY <1>3, <1>5, SequenceAppend DEF DocumentsTyped
<1>7. UNCHANGED <<onHand, traded, counts, adjustments>>
  BY DEF ReportIssue
<1>8. QED
  BY <1>2, <1>4, <1>6, <1>7

\* A review or a rejection changes the status of one issue, a conversion also
\* makes an adjustment of it.
LEMMA IssueIs ==
    ASSUME DocumentsTyped, NEW p, DocumentPlanOK(p),
           ReviewIssue(p) \/ RejectIssue(p) \/ ConvertToAdjustment(p)
    PROVE  /\ p.issue \in DOMAIN issues /\ UNCHANGED <<onHand, traded, counts>>
           /\ issues' \in Seq(Issues) /\ DOMAIN issues' = DOMAIN issues
           /\ \A j \in DOMAIN issues \ {p.issue} : issues'[j] = issues[j]
           /\ issues'[p.issue].linked =
                IF ConvertToAdjustment(p) THEN Len(adjustments) + 1 ELSE issues[p.issue].linked
           /\ issues'[p.issue].conversions =
                issues[p.issue].conversions + IF ConvertToAdjustment(p) THEN 1 ELSE 0
           /\ issues'[p.issue].status = IF ReviewIssue(p) THEN p.status
                                        ELSE IF RejectIssue(p) THEN "REJECTED"
                                        ELSE "CONVERTED_TO_ADJUSTMENT"
<1>1. /\ p.issue \in DOMAIN issues /\ (ReviewIssue(p) => p.status \in IssueStatuses)
      /\ UNCHANGED <<onHand, traded, counts>>
  BY DEF ReviewIssue, RejectIssue, ConvertToAdjustment, DocumentPlanOK, IssueOps
<1>2. PICK r : r = issues[p.issue]
  OBVIOUS
<1>3. r \in Issues /\ r.conversions \in Nat
  <2>1. r \in Issues
    BY <1>1, <1>2, SequenceDomain DEF DocumentsTyped
  <2>2. QED
    BY <2>1 DEF Issues
<1>4. PICK m : m = issues'
  OBVIOUS
<1>5. CASE ReviewIssue(p) \/ RejectIssue(p)
  <2>1. PICK st \in IssueStatuses : /\ m = [issues EXCEPT ![p.issue].status = st]
                                    /\ st = IF ReviewIssue(p) THEN p.status ELSE "REJECTED"
    BY <1>1, <1>4, <1>5 DEF ReviewIssue, RejectIssue, IssueStatuses
  <2>2. PICK s : s = [r EXCEPT !.status = st]
    OBVIOUS
  <2>3. s \in Issues /\ s.status = st /\ s.linked = r.linked /\ s.conversions = r.conversions
    BY <1>3, <2>2 DEF Issues
  <2>4. m = [issues EXCEPT ![p.issue] = s]
    BY <1>2, <2>1, <2>2
  <2>5. /\ m \in Seq(Issues) /\ DOMAIN m = DOMAIN issues /\ m[p.issue] = s
        /\ \A j \in DOMAIN issues \ {p.issue} : m[j] = issues[j]
    BY <1>1, <1>2, <2>3, <2>4, IssueMoved
  <2>6. ~ConvertToAdjustment(p)
    BY <1>5 DEF ConvertToAdjustment, ReviewIssue, RejectIssue
  <2>7. QED
    BY <1>1, <1>2, <1>3, <1>4, <1>5, <2>1, <2>3, <2>5, <2>6
<1>6. CASE ConvertToAdjustment(p)
  <2>1. PICK k \in Nat : k = Len(adjustments) + 1
    BY SequenceDomain DEF DocumentsTyped
  <2>2. PICK s : s = [r EXCEPT !.status = "CONVERTED_TO_ADJUSTMENT", !.linked = k,
                               !.conversions = @ + 1]
    OBVIOUS
  <2>3. /\ s \in Issues /\ s.status = "CONVERTED_TO_ADJUSTMENT" /\ s.linked = k
        /\ s.conversions = r.conversions + 1
    <3>1. PICK c \in Nat : c = r.conversions + 1
      BY <1>3
    <3>2. PICK st \in IssueStatuses : st = "CONVERTED_TO_ADJUSTMENT"
      BY DEF IssueStatuses
    <3>3. s = [r EXCEPT !.status = st, !.linked = k, !.conversions = c]
      BY <1>3, <2>2, <3>1, <3>2 DEF Issues
    <3>4. s \in Issues /\ s.status = st /\ s.linked = k /\ s.conversions = c
      BY ONLY <1>3, k \in Nat, c \in Nat, st \in IssueStatuses, <3>3 DEF Issues
    <3>5. QED
      BY <3>1, <3>2, <3>4
  <2>4. m = [issues EXCEPT ![p.issue] = s]
    BY <1>1, <1>2, <1>3, <1>4, <1>6, <2>1, <2>2 DEF ConvertToAdjustment, Issues
  <2>5. /\ m \in Seq(Issues) /\ DOMAIN m = DOMAIN issues /\ m[p.issue] = s
        /\ \A j \in DOMAIN issues \ {p.issue} : m[j] = issues[j]
    BY <1>1, <1>2, <2>3, <2>4, IssueMoved
  <2>6. ~ReviewIssue(p) /\ ~RejectIssue(p)
    BY <1>6 DEF ConvertToAdjustment, ReviewIssue, RejectIssue
  <2>7. QED
    BY <1>1, <1>2, <1>3, <1>4, <1>6, <2>1, <2>3, <2>5, <2>6
<1>7. QED
  BY <1>5, <1>6

LEMMA ConvertIs ==
    ASSUME DocumentsTyped, NEW p, DocumentPlanOK(p), ConvertToAdjustment(p)
    PROVE  /\ adjustments' \in Seq(Adjustments)
           /\ DOMAIN adjustments' = DOMAIN adjustments \cup {Len(adjustments) + 1}
           /\ Len(adjustments) + 1 \notin DOMAIN adjustments
           /\ adjustments'[Len(adjustments) + 1].status = "DRAFT"
           /\ \A a \in DOMAIN adjustments : adjustments'[a] = adjustments[a]
<1>1. p.issue \in DOMAIN issues
  BY DEF ConvertToAdjustment, DocumentPlanOK, IssueOps
<1>2. issues[p.issue].qty \in Int /\ p.issue \in Nat
  <2>1. issues[p.issue] \in Issues /\ DOMAIN issues \subseteq Nat
    BY <1>1, SequenceDomain DEF DocumentsTyped
  <2>2. QED
    BY <1>1, <2>1 DEF Issues
<1>3. PICK m : m = adjustments'
  OBVIOUS
<1>4. PICK q \in Int : q = issues[p.issue].qty
  BY <1>2
<1>5. PICK i \in Nat : i = p.issue
  BY <1>2
<1>6. PICK n : Drafted(n, q, i, m)
  BY <1>3, <1>4, <1>5 DEF ConvertToAdjustment, Drafted
<1>7. n.status = "DRAFT" /\ Extended(Adjustments, adjustments, m, Len(adjustments) + 1)
      /\ m[Len(adjustments) + 1] = n
  BY <1>6, AdjustmentAdded
<1>8. QED
  BY <1>3, <1>7 DEF Extended

LEMMA IssueOK ==
    ASSUME DocumentCore, NEW p, DocumentPlanOK(p),
           ReportIssue(p) \/ ReviewIssue(p) \/ RejectIssue(p) \/ ConvertToAdjustment(p)
    PROVE  DocumentCore' /\ DocumentsGrow
<1>1. DocumentsTyped
  BY DEF DocumentCore
<1>2. UNCHANGED <<onHand, traded, counts>> /\ issues' \in Seq(Issues)
      /\ DOMAIN issues \subseteq DOMAIN issues'
  BY <1>1, ReportIs, IssueIs
<1>3. adjustments' \in Seq(Adjustments) /\ DOMAIN adjustments \subseteq DOMAIN adjustments'
  <2>1. CASE ConvertToAdjustment(p)
    BY <1>1, <2>1, ConvertIs
  <2>2. CASE ReportIssue(p) \/ ReviewIssue(p) \/ RejectIssue(p)
    BY <1>1, <2>2 DEF DocumentsTyped, ReportIssue, ReviewIssue, RejectIssue
  <2>3. QED
    BY <2>1, <2>2
<1>4. CountsFit' /\ CountsStep
  BY <1>2, NoCount
<1>5. QED
  BY <1>1, <1>2, <1>3, <1>4 DEF DocumentCore, DocumentsTyped, DocumentsGrow

LEMMA DocumentWriteOK ==
    ASSUME DocumentCore, NEW p, DocumentPlanOK(p), DocumentWrite(p)
    PROVE  DocumentCore' /\ DocumentsGrow
BY TradeOK, CreateCountOK, EditOK, PostCountOK, AdjustmentOK, PostAdjustmentOK, IssueOK
   DEF DocumentWrite

DocumentSlowOK ==
    slowDocument # NoDocumentPlan => DocumentPlanOK(slowDocument) /\ ~documentOvertaken

DocumentInv == DocumentTypeOK /\ DocumentCore /\ DocumentSlowOK

\* A plan made earlier still holds after a call that was not overtaken.
LEMMA DocumentPlanKept ==
    ASSUME DocumentCore, DocumentCore', DocumentsGrow, NEW p, DocumentPlanOK(p),
           p.op = "postCount" =>
             /\ counts'[p.count].status \in {"APPROVED", "POSTED"}
             /\ counts'[p.count].final = counts[p.count].final
    PROVE  DocumentPlanOK(p)'
<1>1. /\ onHand \in Int /\ traded \in Int /\ onHand' \in Int /\ traded' \in Int
      /\ \A c \in DOMAIN counts : counts[c] \in Counts
  BY SequenceDomain DEF DocumentCore, DocumentsTyped
<1>2. /\ DOMAIN counts \subseteq DOMAIN counts' /\ DOMAIN adjustments \subseteq DOMAIN adjustments'
      /\ DOMAIN issues \subseteq DOMAIN issues'
      /\ \A c \in DOMAIN counts :
           CountStep(counts[c], counts'[c], onHand, traded, onHand', traded')
  BY DEF DocumentsGrow, CountsStep
<1>3. ASSUME p.op = "approveCount", NEW e \in {p.counted, p.recount}
      PROVE  e \in Entered /\ Fits(e, counts'[p.count], onHand', traded')
  <2>1. PICK c : c = p.count
    OBVIOUS
  <2>2. c \in DOMAIN counts /\ e \in Entered /\ Fits(e, counts[c], onHand, traded)
    BY <1>3, <2>1 DEF DocumentPlanOK, CountOps
  <2>3. PICK r, s : r = counts[c] /\ s = counts'[c]
    OBVIOUS
  <2>4. r \in Counts /\ CountStep(r, s, onHand, traded, onHand', traded')
    BY <1>1, <1>2, <2>2, <2>3
  <2>5. PICK h \in Int, t \in Int, h2 \in Int, t2 \in Int :
          h = onHand /\ t = traded /\ h2 = onHand' /\ t2 = traded'
    BY <1>1
  <2>6. /\ s.expected = r.expected /\ r.disturbed \subseteq s.disturbed
        /\ "correction" \in s.disturbed \/ h2 - t2 = h - t
        /\ Fits(e, r, h, t)
    BY <2>2, <2>3, <2>4, <2>5 DEF CountStep
  <2>7. Fits(e, s, h2, t2)
    BY <2>2, <2>4, <2>6, FitsKept
  <2>8. QED
    BY <2>1, <2>2, <2>3, <2>5, <2>7
<1>4. QED
  BY <1>2, <1>3 DEF DocumentPlanOK, Fits

\* Only the post of a count makes a count POSTED.
LEMMA Posting ==
    ASSUME DocumentCore, NEW p, DocumentPlanOK(p), DocumentWrite(p), NEW c \in DOMAIN counts
    PROVE  /\ counts[c].status # "POSTED" /\ counts'[c].status = "POSTED" =>
                PostCount(p) /\ c = p.count
           /\ PlannedNow(p) /\ counts[c].status \in {"APPROVED", "POSTED"} =>
                /\ counts'[c].status \in {"APPROVED", "POSTED"}
                /\ counts[c].status = "POSTED" => counts'[c].status = "POSTED"
                /\ counts'[c].final = counts[c].final
<1>1. CASE \/ StartCount(p) \/ UpdateItems(p) \/ SubmitCount(p) \/ RequestRecount(p)
           \/ ApproveCount(p)
  <2>1. p.count \in DOMAIN counts
    BY <1>1, EditIs
  <2>2. PICK s : Edited(p, counts[p.count], s) /\ counts' = [counts EXCEPT ![p.count] = s]
    BY <1>1, EditIs
  <2>3. counts'[c] = IF c = p.count THEN s ELSE counts[c]
    BY <2>1, <2>2
  <2>4. QED
    BY <2>2, <2>3 DEF Edited
<1>2. CASE PostCount(p)
  <2>1. /\ counts'[c].status = IF c = p.count THEN "POSTED" ELSE counts[c].status
        /\ counts'[c].final = counts[c].final
    BY <1>2, PostCountIs
  <2>2. QED
    BY <1>2, <2>1
<1>3. CASE Trade(p) \/ PostAdjustment(p)
  <2>1. counts' = Disturb("trade") \/ counts' = Disturb("correction")
    BY <1>3 DEF Trade, PostAdjustment
  <2>2. PICK what : counts'[c] = [counts[c] EXCEPT !.disturbed = @ \cup {what}]
    BY <2>1 DEF Disturb
  <2>3. PICK r : r = counts[c]
    OBVIOUS
  <2>4. r \in Counts
    BY <2>3, SequenceDomain DEF DocumentCore, DocumentsTyped
  <2>5. PICK s : s = counts'[c]
    OBVIOUS
  <2>6. s = [r EXCEPT !.disturbed = @ \cup {what}]
    BY <2>2, <2>3, <2>5
  <2>7. s.status = r.status /\ s.final = r.final
    BY ONLY <2>4, <2>6 DEF Counts
  <2>8. QED
    BY <2>3, <2>5, <2>7
<1>4. CASE CreateCount(p)
  <2>1. counts'[c] = counts[c]
    <3>1. PICK n : counts' = Append(counts, n)
      BY <1>4 DEF CreateCount
    <3>2. counts \in Seq(Counts)
      BY DEF DocumentCore, DocumentsTyped
    <3>3. QED
      BY <3>1, <3>2
  <2>2. QED
    BY <2>1
<1>5. CASE UNCHANGED counts
  BY <1>5
<1>6. QED
  BY <1>1, <1>2, <1>3, <1>4, <1>5 DEF DocumentWrite, CreateAdjustment, SubmitAdjustment,
     ApproveAdjustment, RejectAdjustment, CancelAdjustment, MoveAdjustment, ReportIssue,
     ReviewIssue, RejectIssue, ConvertToAdjustment

LEMMA DocumentInitOK == DocumentInit => DocumentInv
<1> SUFFICES ASSUME DocumentInit PROVE DocumentInv
  OBVIOUS
<1>1. /\ onHand = Opening /\ traded = 0 /\ counts = <<>> /\ adjustments = <<>> /\ issues = <<>>
      /\ slowDocument = NoDocumentPlan /\ documentOvertaken = FALSE
  BY DEF DocumentInit
<1>2. onHand \in Int /\ traded \in Int
  BY <1>1, QuantitiesAssumption
<1>3. counts \in Seq(Counts) /\ adjustments \in Seq(Adjustments) /\ issues \in Seq(Issues)
  BY <1>1
<1>4. CountsFit
  BY <1>1 DEF CountsFit
<1>5. slowDocument.op = "none"
  BY <1>1 DEF NoDocumentPlan
<1>6. QED
  BY <1>1, <1>2, <1>3, <1>4, <1>5
     DEF DocumentInv, DocumentTypeOK, DocumentCore, DocumentsTyped, DocumentSlowOK

LEMMA DocumentCoreSame == DocumentCore /\ UNCHANGED documentRecords => DocumentCore'
BY DEF DocumentCore, DocumentsTyped, CountsFit, documentRecords, documents

LEMMA DocumentTypes ==
    DocumentCore /\ slowDocument.op \in SlowDocuments \cup {"none"} /\ documentOvertaken \in BOOLEAN
      => DocumentTypeOK
BY DEF DocumentCore, DocumentsTyped, DocumentTypeOK

LEMMA DocumentTypesThen ==
    (DocumentCore /\ slowDocument.op \in SlowDocuments \cup {"none"}
       /\ documentOvertaken \in BOOLEAN => DocumentTypeOK)'
BY DocumentTypes, PTL

LEMMA DocumentAloneOK == DocumentInv /\ DocumentAlone => DocumentInv'
<1> SUFFICES ASSUME DocumentInv, DocumentAlone PROVE DocumentInv'
  OBVIOUS
<1>1. PICK p \in DocumentPlans : DocumentWrite(p)
  BY DEF DocumentAlone
<1>2. DocumentCore /\ DocumentTypeOK /\ DocumentSlowOK
      /\ UNCHANGED <<slowDocument, documentOvertaken>>
  BY DEF DocumentInv, DocumentAlone
<1>3. DocumentPlanOK(p) /\ PlannedNow(p)
  BY <1>1, <1>2, DocumentPlansOK
<1>4. DocumentCore' /\ DocumentsGrow
  BY <1>1, <1>2, <1>3, DocumentWriteOK
<1>5. DocumentTypeOK'
  BY <1>2, <1>4, DocumentTypesThen DEF DocumentTypeOK
<1>6. DocumentSlowOK'
  <2>1. ASSUME slowDocument # NoDocumentPlan PROVE DocumentPlanOK(slowDocument)'
    <3>1. PICK q : q = slowDocument
      OBVIOUS
    <3>2. DocumentPlanOK(q)
      BY <1>2, <2>1, <3>1 DEF DocumentSlowOK
    <3>3. q.op = "postCount" =>
            /\ q.count \in DOMAIN counts /\ counts[q.count].status \in {"APPROVED", "POSTED"}
      BY <3>2 DEF DocumentPlanOK, CountOps
    <3>4. q.op = "postCount" =>
            /\ counts'[q.count].status \in {"APPROVED", "POSTED"}
            /\ counts'[q.count].final = counts[q.count].final
      BY <1>1, <1>2, <1>3, <3>3, Posting
    <3>5. DocumentPlanOK(q)'
      BY <1>2, <1>4, <3>2, <3>4, DocumentPlanKept
    <3>6. slowDocument' = q
      BY <1>2, <3>1
    <3>7. QED
      BY <3>5, <3>6 DEF DocumentPlanOK
  <2>2. QED
    BY <1>2, <2>1 DEF DocumentSlowOK
<1>7. QED
  BY <1>4, <1>5, <1>6 DEF DocumentInv

LEMMA DocumentPauseOK == DocumentInv /\ DocumentPause => DocumentInv'
<1> SUFFICES ASSUME DocumentInv, DocumentPause PROVE DocumentInv'
  OBVIOUS
<1>1. /\ DocumentCore /\ DocumentTypeOK /\ ~documentOvertaken
      /\ UNCHANGED <<documentRecords, documentOvertaken>>
      /\ slowDocument' \in DocumentPlans /\ slowDocument'.op \in SlowDocuments
  BY DEF DocumentInv, DocumentPause
<1>2. DocumentCore'
  BY <1>1, DocumentCoreSame
<1>3. DocumentTypeOK'
  BY <1>1, <1>2, DocumentTypesThen DEF DocumentTypeOK
<1>4. DocumentSlowOK'
  <2>1. PICK q : q = slowDocument'
    OBVIOUS
  <2>2. DocumentPlanOK(q)
    BY <1>1, <2>1, DocumentPlansOK
  <2>3. DocumentPlanOK(q)'
    BY <1>1, <2>2 DEF DocumentPlanOK, documentRecords, documents
  <2>4. DocumentPlanOK(slowDocument)'
    BY <2>1, <2>3 DEF DocumentPlanOK
  <2>5. QED
    BY <1>1, <2>4 DEF DocumentSlowOK
<1>5. QED
  BY <1>2, <1>3, <1>4 DEF DocumentInv

LEMMA DocumentResumeOK == DocumentInv /\ DocumentResume => DocumentInv'
<1> SUFFICES ASSUME DocumentInv, DocumentResume PROVE DocumentInv'
  OBVIOUS
<1>1. /\ DocumentCore /\ DocumentTypeOK /\ slowDocument' = NoDocumentPlan
      /\ DocumentPlanOK(slowDocument) /\ documentOvertaken \in BOOLEAN
  BY DEF DocumentInv, DocumentSlowOK, DocumentResume, DocumentTypeOK
<1>2. DocumentSlowOK' /\ slowDocument'.op = "none"
  BY <1>1 DEF DocumentSlowOK, NoDocumentPlan
<1>3. DocumentCore' /\ documentOvertaken' \in BOOLEAN
  <2>1. CASE DocumentWrite(slowDocument)
             /\ documentOvertaken' = (slowDocument \notin DocumentPlans)
    <3>1. PICK q : q = slowDocument
      OBVIOUS
    <3>2. DocumentWrite(q) /\ DocumentPlanOK(q)
      BY <1>1, <2>1, <3>1
    <3>3. DocumentCore'
      BY <1>1, <3>2, DocumentWriteOK
    <3>4. documentOvertaken' \in BOOLEAN
      BY <2>1
    <3>5. QED
      BY <3>3, <3>4
  <2>2. CASE UNCHANGED <<documentRecords, documentOvertaken>>
    BY <1>1, <2>2, DocumentCoreSame
  <2>3. QED
    BY <2>1, <2>2 DEF DocumentResume
<1>4. DocumentTypeOK'
  BY <1>2, <1>3, DocumentTypesThen
<1>5. QED
  BY <1>2, <1>3, <1>4 DEF DocumentInv

LEMMA DocumentNextOK == DocumentInv /\ [DocumentNext]_documentVars => DocumentInv'
<1>1. ASSUME DocumentInv, UNCHANGED documentVars PROVE DocumentInv'
  <2>1. /\ UNCHANGED documentRecords /\ slowDocument' = slowDocument
        /\ documentOvertaken' = documentOvertaken
    BY <1>1 DEF documentVars
  <2>2. DocumentCore'
    BY <1>1, <2>1, DocumentCoreSame DEF DocumentInv
  <2>3. DocumentTypeOK'
    BY <1>1, <2>1, <2>2, DocumentTypesThen DEF DocumentInv, DocumentTypeOK
  <2>4. DocumentSlowOK'
    BY <1>1, <2>1 DEF DocumentInv, DocumentSlowOK, DocumentPlanOK, documentRecords, documents
  <2>5. QED
    BY <2>2, <2>3, <2>4 DEF DocumentInv
<1>2. QED
  BY <1>1, DocumentAloneOK, DocumentPauseOK, DocumentResumeOK DEF DocumentNext

\* However calls overlap, every document and every plan of a slow call keeps its
\* type, and whatever quantity was counted, recounted or approved in time is
\* what the stock on hand will be on the shelf once the count corrects it.
THEOREM DocumentInvHolds == DocumentSpec => []DocumentInv
BY DocumentInitOK, DocumentNextOK, PTL DEF DocumentSpec

\* The post of a count, by the plan it was made with.
LEMMA PostFinds ==
    ASSUME DocumentCore, NEW p, DocumentPlanOK(p), DocumentWrite(p), NEW c \in DOMAIN counts,
           counts[c].status # "POSTED", counts'[c].status = "POSTED",
           ~counts[c].final.late, "correction" \notin counts[c].disturbed
    PROVE  onHand' = Shelf + traded'
<1>1. PostCount(p) /\ c = p.count
  BY Posting
<1>2. /\ p.final = counts[c].final /\ traded' = traded
      /\ onHand' = onHand + (p.final.qty - counts[c].expected)
  BY <1>1, PostCountIs
<1>3. /\ counts[c] \in Counts /\ Fits(counts[c].final, counts[c], onHand, traded)
      /\ onHand \in Int /\ traded \in Int
  BY SequenceDomain DEF DocumentCore, DocumentsTyped, CountsFit, CountFits
<1>4. onHand + counts[c].final.qty = Shelf + traded + counts[c].expected
  BY <1>3 DEF Fits
<1>5. counts[c].final.qty \in Int /\ counts[c].expected \in Int
  BY <1>3, CountTyped, EntryTyped
<1>6. Shelf \in Int
  BY QuantitiesAssumption
<1>7. PICK h \in Int, q \in Int, x \in Int, t \in Int :
        h = onHand /\ q = counts[c].final.qty /\ x = counts[c].expected /\ t = traded
  BY <1>3, <1>5
<1>8. h + q = Shelf + t + x => h + (q - x) = Shelf + t
  BY ONLY <1>6, h \in Int, q \in Int, x \in Int, t \in Int
<1>9. QED
  BY <1>2, <1>4, <1>7, <1>8

\* However calls overlap and whatever is traded between the counting and the
\* posting, a count that was counted in time and not crossed by another
\* document leaves on hand what is on the shelf (post of counts.service).
THEOREM CountsFindShelf == DocumentSpec => CountFindsShelf
<1>1. DocumentInv /\ [DocumentNext]_documentVars =>
        [\A c \in DOMAIN counts :
           /\ counts[c].status # "POSTED" /\ counts'[c].status = "POSTED"
           /\ ~counts[c].final.late
           /\ "correction" \notin counts[c].disturbed
           => onHand' = Shelf + traded']_documentVars
  <2> SUFFICES ASSUME DocumentInv, DocumentNext, NEW c \in DOMAIN counts,
                      counts[c].status # "POSTED", counts'[c].status = "POSTED",
                      ~counts[c].final.late, "correction" \notin counts[c].disturbed
               PROVE  onHand' = Shelf + traded'
    OBVIOUS
  <2>1. DocumentCore
    BY DEF DocumentInv
  <2>2. CASE DocumentAlone
    BY <2>1, <2>2, DocumentPlansOK, PostFinds DEF DocumentAlone
  <2>3. CASE DocumentResume
    <3>1. PICK q : q = slowDocument
      OBVIOUS
    <3>2. ~UNCHANGED documentRecords
      BY DEF documentRecords, documents
    <3>3. DocumentWrite(q) /\ DocumentPlanOK(q)
      BY <2>3, <3>1, <3>2 DEF DocumentResume, DocumentInv, DocumentSlowOK
    <3>4. QED
      BY <2>1, <3>3, PostFinds
  <2>4. ~DocumentPause
    BY DEF DocumentPause, documentRecords, documents
  <2>5. QED
    BY <2>2, <2>3, <2>4 DEF DocumentNext
<1>2. QED
  BY <1>1, DocumentInvHolds, PTL DEF DocumentSpec, CountFindsShelf

-----------------------------------------------------------------------------
(***************************************************************************)
(* What the documents have done to the stock, as long as no call is        *)
(* overtaken.                                                              *)
(***************************************************************************)
\* What a document has done to the stock.
CountValue == [r \in Counts |-> IF r.status = "POSTED" THEN r.final.qty - r.expected ELSE 0]
AdjustmentValue == [r \in Adjustments |-> IF r.status = "POSTED" THEN r.qty ELSE 0]

LEMMA ValuesTyped == CountValue \in [Counts -> Int] /\ AdjustmentValue \in [Adjustments -> Int]
<1>1. ASSUME NEW r \in Counts PROVE CountValue[r] \in Int
  <2>1. r.final.qty \in Int /\ r.expected \in Int
    BY CountTyped, EntryTyped
  <2>2. r.final.qty - r.expected \in Int
    BY <2>1
  <2>3. QED
    BY <2>2 DEF CountValue
<1>2. ASSUME NEW r \in Adjustments PROVE AdjustmentValue[r] \in Int
  BY <1>2 DEF AdjustmentValue, Adjustments
<1>3. QED
  BY <1>1, <1>2 DEF CountValue, AdjustmentValue

PostedFor(i) == \E a \in DOMAIN adjustments : adjustments[a].status = "POSTED"
                                              /\ adjustments[a].issue = i
IssueFollowed(i) ==
    /\ issues[i].conversions = IF issues[i].linked = 0 THEN 0 ELSE 1
    /\ issues[i].status = "CLOSED" => PostedFor(i)

StockOf(h, t, c, a) == h = Opening + t + SeqSum(CountValue, c) + SeqSum(AdjustmentValue, a)

DocumentsOrderly ==
    /\ StockOf(onHand, traded, counts, adjustments)
    /\ \A i \in DOMAIN issues : IssueFollowed(i)

LEMMA ValueIs ==
    ASSUME NEW r \in Counts, NEW s \in Counts, s.expected = r.expected,
           \/ r.status # "POSTED" /\ s.status # "POSTED"
           \/ r.status = "POSTED" /\ s.status = "POSTED" /\ s.final = r.final
    PROVE  CountValue[s] = CountValue[r]
BY DEF CountValue

\* What the counts have done to the stock changes when one is posted.
LEMMA CountsTotal ==
    ASSUME DocumentCore, DocumentCore', DocumentsGrow, NEW p, DocumentPlanOK(p), PlannedNow(p),
           DocumentWrite(p), ~PostCount(p)
    PROVE  SeqSum(CountValue, counts') = SeqSum(CountValue, counts)
<1>1. counts \in Seq(Counts) /\ counts' \in Seq(Counts)
  BY DEF DocumentCore, DocumentsTyped
<1>2. ASSUME NEW c \in DOMAIN counts PROVE CountValue[counts'[c]] = CountValue[counts[c]]
  <2>1. PICK r, s : r = counts[c] /\ s = counts'[c]
    OBVIOUS
  <2>2. r \in Counts /\ s \in Counts /\ s.expected = r.expected
    BY <1>1, <2>1, SequenceDomain DEF DocumentsGrow, CountsStep, CountStep
  <2>3. \/ r.status # "POSTED" /\ s.status # "POSTED"
        \/ r.status = "POSTED" /\ s.status = "POSTED" /\ s.final = r.final
    BY <2>1, Posting
  <2>4. QED
    BY <2>1, <2>2, <2>3, ValueIs
<1>3. CASE CreateCount(p)
  <2>1. PICK n : counts' = Append(counts, n) /\ n.status = p.status
    BY <1>3 DEF CreateCount
  <2>2. PICK m : m = counts'
    OBVIOUS
  <2>3. PICK k : k = Len(counts) + 1
    OBVIOUS
  <2>4. Extended(Counts, counts, m, k) /\ m[k] = n
    <3>1. m \in Seq(Counts) /\ m = Append(counts, n)
      BY <1>1, <2>1, <2>2
    <3>2. DOMAIN counts = 1..Len(counts) /\ Len(counts) \in Nat
      BY <1>1, SequenceDomain
    <3>3. DOMAIN m = 1..(Len(counts) + 1) /\ m[k] = n /\ \A c \in DOMAIN counts : m[c] = counts[c]
      BY <1>1, <2>3, <3>1, <3>2
    <3>4. DOMAIN m = DOMAIN counts \cup {k} /\ k \notin DOMAIN counts
      BY <2>3, <3>2, <3>3
    <3>5. QED
      BY <1>1, <3>1, <3>3, <3>4 DEF Extended
  <2>5. SeqSum(CountValue, m) = SeqSum(CountValue, counts) + CountValue[m[k]]
    BY <2>4, ValuesTyped, SeqSumAppend
  <2>6. n \in Counts
    BY <2>4, SequenceDomain DEF Extended
  <2>7. CountValue[n] = 0
    BY <1>3, <2>1, <2>6 DEF CountValue, PlannedNow, CreateCount
  <2>8. SeqSum(CountValue, counts) \in Int
    BY <1>1, ValuesTyped, SeqSumInt
  <2>9. QED
    BY <2>2, <2>4, <2>5, <2>7, <2>8
<1>4. CASE DOMAIN counts' = DOMAIN counts
  <2>1. PICK m : m = counts'
    OBVIOUS
  <2>2. SeqSum(CountValue, m) = SeqSum(CountValue, counts)
    BY ZenonT(60), <1>1, <1>2, <1>4, <2>1, ValuesTyped, SeqSumSame
  <2>3. QED
    BY <2>1, <2>2
<1>5. ASSUME ~CreateCount(p) PROVE DOMAIN counts' = DOMAIN counts
  <2>1. CASE \/ StartCount(p) \/ UpdateItems(p) \/ SubmitCount(p) \/ RequestRecount(p)
             \/ ApproveCount(p)
    <3>1. PICK s : counts' = [counts EXCEPT ![p.count] = s]
      BY <2>1, EditIs
    <3>2. QED
      BY <3>1
  <2>2. CASE Trade(p) \/ PostAdjustment(p)
    BY <2>2 DEF Trade, PostAdjustment, Disturb
  <2>3. CASE UNCHANGED counts
    BY <2>3
  <2>4. QED
    BY <1>5, <2>1, <2>2, <2>3 DEF DocumentWrite, CreateAdjustment, SubmitAdjustment,
     ApproveAdjustment, RejectAdjustment, CancelAdjustment, MoveAdjustment, ReportIssue,
     ReviewIssue, RejectIssue, ConvertToAdjustment
<1>6. QED
  BY <1>3, <1>4, <1>5

LEMMA CountsPosted ==
    ASSUME DocumentCore, NEW p, DocumentPlanOK(p), PlannedNow(p), PostCount(p)
    PROVE  SeqSum(CountValue, counts') = SeqSum(CountValue, counts) + (onHand' - onHand)
<1>1. PICK k, m : k = p.count /\ m = counts'
  OBVIOUS
<1>2. /\ k \in DOMAIN counts /\ p.final = counts[k].final
      /\ onHand' = onHand + (p.final.qty - counts[k].expected) /\ onHand' \in Int
      /\ m \in Seq(Counts) /\ DOMAIN m = DOMAIN counts
      /\ \A c \in DOMAIN counts :
           /\ m[c].status = IF c = k THEN "POSTED" ELSE counts[c].status
           /\ m[c].final = counts[c].final /\ m[c].expected = counts[c].expected
  BY <1>1, PostCountIs
<1>3. counts \in Seq(Counts) /\ onHand \in Int
  BY DEF DocumentCore, DocumentsTyped
<1>4. \A c \in DOMAIN counts : counts[c] \in Counts /\ m[c] \in Counts
  BY <1>2, <1>3, SequenceDomain
<1>5. \A c \in DOMAIN counts \ {k} : CountValue[m[c]] = CountValue[counts[c]]
  BY <1>2, <1>4, ValueIs
<1>6. SeqSum(CountValue, m) = SeqSum(CountValue, counts)
        + (CountValue[m[k]] - CountValue[counts[k]])
  <2>1. Changed(Counts, CountValue, counts, m, k)
    BY <1>2, <1>3, <1>5 DEF Changed
  <2>2. QED
    BY <2>1, ValuesTyped, SeqSumChange
<1>7. CountValue[counts[k]] = 0
  <2>1. counts[k].status # "POSTED"
    BY <1>1 DEF PlannedNow, PostCount, CountOps
  <2>2. QED
    BY <1>2, <1>4, <2>1 DEF CountValue
<1>8. PICK d \in Int : d = p.final.qty - counts[k].expected
  BY <1>2, <1>4, CountTyped, EntryTyped
<1>9. CountValue[m[k]] = d
  BY <1>2, <1>4, <1>8 DEF CountValue
<1>10. SeqSum(CountValue, counts) \in Int
  BY <1>3, ValuesTyped, SeqSumInt
<1>11. onHand' - onHand = d
  BY <1>2, <1>3, <1>8
<1>12. QED
  BY <1>1, <1>6, <1>7, <1>9, <1>10, <1>11

LEMMA AdjustmentAddedTotal ==
    ASSUME DocumentsTyped, NEW m, NEW k, Extended(Adjustments, adjustments, m, k),
           m[k].status # "POSTED"
    PROVE  SeqSum(AdjustmentValue, m) = SeqSum(AdjustmentValue, adjustments)
<1>1. SeqSum(AdjustmentValue, m) = SeqSum(AdjustmentValue, adjustments) + AdjustmentValue[m[k]]
  BY ValuesTyped, SeqSumAppend
<1>2. m[k] \in Adjustments
  BY SequenceDomain DEF Extended
<1>3. AdjustmentValue[m[k]] = 0
  BY <1>2 DEF AdjustmentValue
<1>4. SeqSum(AdjustmentValue, adjustments) \in Int
  BY ValuesTyped, SeqSumInt DEF DocumentsTyped
<1>5. QED
  BY <1>1, <1>3, <1>4

LEMMA AdjustmentMovedTotal ==
    ASSUME DocumentsTyped, NEW a \in DOMAIN adjustments, NEW st \in AdjustmentStatuses, NEW m,
           StatusWritten(a, st, m), adjustments[a].status # "POSTED"
    PROVE  SeqSum(AdjustmentValue, m) = SeqSum(AdjustmentValue, adjustments)
             + (IF st = "POSTED" THEN adjustments[a].qty ELSE 0)
<1>1. /\ m \in Seq(Adjustments) /\ DOMAIN m = DOMAIN adjustments
      /\ m[a].status = st /\ m[a].qty = adjustments[a].qty
      /\ \A b \in DOMAIN adjustments \ {a} : m[b] = adjustments[b]
  BY AdjustmentMoved
<1>2. m[a] \in Adjustments /\ adjustments[a] \in Adjustments
  BY <1>1, SequenceDomain DEF DocumentsTyped
<1>3. Changed(Adjustments, AdjustmentValue, adjustments, m, a)
  BY <1>1 DEF DocumentsTyped, Changed
<1>4. SeqSum(AdjustmentValue, m) = SeqSum(AdjustmentValue, adjustments)
        + (AdjustmentValue[m[a]] - AdjustmentValue[adjustments[a]])
  BY <1>3, ValuesTyped, SeqSumChange
<1>5. AdjustmentValue[adjustments[a]] = 0
  BY <1>2 DEF AdjustmentValue
<1>6. AdjustmentValue[m[a]] = IF st = "POSTED" THEN adjustments[a].qty ELSE 0
  BY <1>1, <1>2 DEF AdjustmentValue
<1>7. AdjustmentValue[m[a]] \in Int
  BY <1>2, ValuesTyped
<1>8. QED
  BY <1>4, <1>5, <1>6, <1>7

\* What the adjustments have done to the stock changes when one is posted.
LEMMA AdjustmentsTotal ==
    ASSUME DocumentCore, NEW p, DocumentPlanOK(p), PlannedNow(p), DocumentWrite(p),
           ~PostAdjustment(p)
    PROVE  /\ SeqSum(AdjustmentValue, adjustments') = SeqSum(AdjustmentValue, adjustments)
           /\ \A i \in Nat : PostedFor(i) => PostedFor(i)'
<1>1. DocumentsTyped
  BY DEF DocumentCore
<1>2. PICK m : m = adjustments'
  OBVIOUS
<1> DEFINE Kept == \A a \in DOMAIN adjustments : adjustments[a].status = "POSTED" =>
                     a \in DOMAIN m /\ m[a] = adjustments[a]
<1>3. SeqSum(AdjustmentValue, m) = SeqSum(AdjustmentValue, adjustments) /\ Kept
  <2>1. CASE CreateAdjustment(p)
    <3>1. p.qty \in Int /\ p.issue \in Nat
      BY <2>1 DEF CreateAdjustment, DocumentPlanOK
    <3>2. PICK n : Drafted(n, p.qty, p.issue, m)
      BY <1>2, <2>1 DEF CreateAdjustment, Drafted
    <3>3. /\ Extended(Adjustments, adjustments, m, Len(adjustments) + 1)
          /\ m[Len(adjustments) + 1].status # "POSTED"
      BY <1>1, <3>1, <3>2, AdjustmentAdded
    <3>4. PICK k : k = Len(adjustments) + 1
      OBVIOUS
    <3>5. SeqSum(AdjustmentValue, m) = SeqSum(AdjustmentValue, adjustments)
      BY <1>1, <3>3, <3>4, AdjustmentAddedTotal
    <3>6. QED
      BY <3>3, <3>5 DEF Extended
  <2>2. CASE ConvertToAdjustment(p)
    <3>1. /\ m \in Seq(Adjustments) /\ DOMAIN m = DOMAIN adjustments \cup {Len(adjustments) + 1}
          /\ Len(adjustments) + 1 \notin DOMAIN adjustments
          /\ m[Len(adjustments) + 1].status = "DRAFT"
          /\ \A a \in DOMAIN adjustments : m[a] = adjustments[a]
      BY <1>1, <1>2, <2>2, ConvertIs
    <3>2. PICK k : k = Len(adjustments) + 1
      OBVIOUS
    <3>3. Extended(Adjustments, adjustments, m, k) /\ m[k].status # "POSTED"
      BY <1>1, <3>1, <3>2 DEF Extended, DocumentsTyped
    <3>4. SeqSum(AdjustmentValue, m) = SeqSum(AdjustmentValue, adjustments)
      BY <1>1, <3>3, AdjustmentAddedTotal
    <3>5. QED
      BY <3>1, <3>4
  <2>3. CASE SubmitAdjustment(p) \/ ApproveAdjustment(p) \/ RejectAdjustment(p)
             \/ CancelAdjustment(p)
    <3>1. /\ p.op \in AdjustmentOps
          /\ \E st \in AdjustmentStatuses \ {"POSTED"} : MoveAdjustment(p.adjustment, st)
      BY <2>3 DEF SubmitAdjustment, ApproveAdjustment, RejectAdjustment, CancelAdjustment,
                  AdjustmentOps, AdjustmentStatuses
    <3>2. PICK st \in AdjustmentStatuses : st # "POSTED" /\ MoveAdjustment(p.adjustment, st)
      BY <3>1
    <3>3. PICK a : a = p.adjustment
      OBVIOUS
    <3>4. a \in DOMAIN adjustments /\ adjustments[a].status # "POSTED" /\ StatusWritten(a, st, m)
      BY <1>2, <3>1, <3>2, <3>3 DEF MoveAdjustment, DocumentPlanOK, StatusWritten, PlannedNow
    <3>5. SeqSum(AdjustmentValue, m) = SeqSum(AdjustmentValue, adjustments)
            + (IF st = "POSTED" THEN adjustments[a].qty ELSE 0)
      BY <1>1, <3>4, AdjustmentMovedTotal
    <3>6. SeqSum(AdjustmentValue, adjustments) \in Int
      BY <1>1, ValuesTyped, SeqSumInt DEF DocumentsTyped
    <3>7. \A b \in DOMAIN adjustments \ {a} : m[b] = adjustments[b] /\ DOMAIN m = DOMAIN adjustments
      BY <1>1, <3>4, AdjustmentMoved
    <3>8. QED
      BY <3>2, <3>4, <3>5, <3>6, <3>7
  <2>4. CASE UNCHANGED adjustments
    BY <1>2, <2>4
  <2>5. QED
    BY <2>1, <2>2, <2>3, <2>4 DEF DocumentWrite, Trade, CreateCount, StartCount, UpdateItems,
       SubmitCount, RequestRecount, ApproveCount, PostCount, ReportIssue, ReviewIssue, RejectIssue
<1>4. \A i \in Nat : PostedFor(i) => PostedFor(i)'
  BY <1>2, <1>3 DEF PostedFor
<1>5. QED
  BY <1>2, <1>3, <1>4

LEMMA IssuesOrderly ==
    ASSUME DocumentCore, DocumentsOrderly, NEW p, DocumentPlanOK(p), PlannedNow(p),
           DocumentWrite(p), ~PostAdjustment(p)
    PROVE  (\A i \in DOMAIN issues : IssueFollowed(i))'
<1>1. /\ DocumentsTyped /\ \A i \in DOMAIN issues : IssueFollowed(i)
      /\ \A i \in DOMAIN issues : issues[i] \in Issues /\ i \in Nat
  BY SequenceDomain DEF DocumentCore, DocumentsTyped, DocumentsOrderly
<1>2. \A i \in Nat : PostedFor(i) => PostedFor(i)'
  BY AdjustmentsTotal
<1>3. CASE UNCHANGED issues
  BY <1>1, <1>2, <1>3 DEF IssueFollowed
<1>4. CASE ReportIssue(p)
  <2>1. /\ DOMAIN issues' = DOMAIN issues \cup {Len(issues) + 1}
        /\ issues'[Len(issues) + 1] = [status |-> "SUBMITTED", qty |-> p.qty, linked |-> 0,
                                       conversions |-> 0]
        /\ \A i \in DOMAIN issues : issues'[i] = issues[i]
    BY <1>1, <1>4, ReportIs
  <2>2. \A i \in DOMAIN issues : IssueFollowed(i)'
    BY <1>1, <1>2, <2>1 DEF IssueFollowed
  <2>3. QED
    BY <2>1, <2>2 DEF IssueFollowed
<1>5. CASE ReviewIssue(p) \/ RejectIssue(p) \/ ConvertToAdjustment(p)
  <2>1. /\ p.issue \in DOMAIN issues /\ DOMAIN issues' = DOMAIN issues
        /\ \A j \in DOMAIN issues \ {p.issue} : issues'[j] = issues[j]
        /\ issues'[p.issue].linked =
             IF ConvertToAdjustment(p) THEN Len(adjustments) + 1 ELSE issues[p.issue].linked
        /\ issues'[p.issue].conversions =
             issues[p.issue].conversions + IF ConvertToAdjustment(p) THEN 1 ELSE 0
        /\ issues'[p.issue].status = IF ReviewIssue(p) THEN p.status
                                     ELSE IF RejectIssue(p) THEN "REJECTED"
                                     ELSE "CONVERTED_TO_ADJUSTMENT"
    BY <1>1, <1>5, IssueIs
  <2>2. Len(adjustments) \in Nat /\ issues[p.issue] \in Issues
    BY <1>1, <2>1, SequenceDomain DEF DocumentsTyped
  <2>3. issues'[p.issue].status # "CLOSED"
    <3>1. ReviewIssue(p) => p.status # "CLOSED"
      BY DEF ReviewIssue, PlannedNow
    <3>2. QED
      BY <2>1, <3>1
  <2>4. IssueFollowed(p.issue)'
    <3>1. CASE ConvertToAdjustment(p)
      <4>1. issues[p.issue].linked = 0 /\ issues[p.issue].conversions = 0
        BY <1>1, <2>1, <3>1 DEF ConvertToAdjustment, PlannedNow, IssueFollowed
      <4>2. QED
        BY <2>1, <2>2, <2>3, <3>1, <4>1 DEF IssueFollowed
    <3>2. CASE ~ConvertToAdjustment(p)
      <4>1. issues[p.issue].conversions \in Nat
        BY <2>2 DEF Issues
      <4>2. QED
        BY <1>1, <2>1, <2>3, <3>2, <4>1 DEF IssueFollowed
    <3>3. QED
      BY <3>1, <3>2
  <2>5. \A j \in DOMAIN issues \ {p.issue} : IssueFollowed(j)'
    BY <1>1, <1>2, <2>1 DEF IssueFollowed
  <2>6. QED
    BY <2>1, <2>4, <2>5
<1>6. QED
  BY <1>3, <1>4, <1>5 DEF DocumentWrite, Trade, CreateCount, StartCount, UpdateItems,
     SubmitCount, RequestRecount, ApproveCount, PostCount, CreateAdjustment, SubmitAdjustment,
     ApproveAdjustment, RejectAdjustment, CancelAdjustment, MoveAdjustment

LEMMA StockTotalsTyped ==
    ASSUME DocumentsTyped
    PROVE  /\ SeqSum(CountValue, counts) \in Int
           /\ SeqSum(AdjustmentValue, adjustments) \in Int
BY ValuesTyped, SeqSumInt DEF DocumentsTyped

LEMMA DocumentsOrderlyWrite ==
    ASSUME DocumentCore, DocumentsOrderly, NEW p \in DocumentPlans, DocumentWrite(p)
    PROVE  DocumentsOrderly'
<1>1. DocumentPlanOK(p) /\ PlannedNow(p)
  BY DocumentPlansOK
<1>2. DocumentsTyped /\ DocumentCore' /\ DocumentsGrow
  BY <1>1, DocumentWriteOK DEF DocumentCore
<1>3. PICK h \in Int, t \in Int, c \in Int, a \in Int :
        /\ h = onHand /\ t = traded /\ c = SeqSum(CountValue, counts)
        /\ a = SeqSum(AdjustmentValue, adjustments)
  BY <1>2, StockTotalsTyped DEF DocumentsTyped
<1>4. PICK h2 \in Int, t2 \in Int : h2 = onHand' /\ t2 = traded'
  BY <1>2 DEF DocumentCore, DocumentsTyped
<1>5. h = Opening + t + c + a /\ Opening \in Int
  BY <1>3, QuantitiesAssumption DEF DocumentsOrderly, StockOf
<1>6. CASE PostAdjustment(p)
  <2>1. PICK k, m : k = p.adjustment /\ m = adjustments'
    OBVIOUS
  <2>2. /\ k \in DOMAIN adjustments /\ adjustments[k].status # "POSTED" /\ traded' = traded
        /\ onHand' = onHand + adjustments[k].qty
    BY <1>1, <1>2, <1>6, <2>1, PostAdjustmentIs DEF PlannedNow, PostAdjustment, AdjustmentOps
  <2>3. PICK st \in AdjustmentStatuses : st = "POSTED"
    BY DEF AdjustmentStatuses
  <2>4. StatusWritten(k, st, m)
    BY <1>6, <2>1, <2>3 DEF PostAdjustment, StatusWritten
  <2>5. SeqSum(AdjustmentValue, m) = SeqSum(AdjustmentValue, adjustments)
          + (IF st = "POSTED" THEN adjustments[k].qty ELSE 0)
    BY <1>2, <2>2, <2>4, AdjustmentMovedTotal
  <2>6. ~PostCount(p)
    BY <1>6 DEF PostCount, PostAdjustment
  <2>7. SeqSum(CountValue, counts') = c
    BY <1>1, <1>2, <1>3, <2>6, CountsTotal
  <2>8. PICK q \in Int : q = adjustments[k].qty
    <3>1. adjustments[k] \in Adjustments
      BY <1>2, <2>2, SequenceDomain DEF DocumentsTyped
    <3>2. QED
      BY <3>1 DEF Adjustments
  <2>9. /\ SeqSum(AdjustmentValue, adjustments') = a + q /\ onHand' = h + q /\ traded' = t
    BY <1>3, <2>1, <2>2, <2>3, <2>5, <2>8
  <2>10. h + q = Opening + t + c + (a + q)
    BY ONLY <1>5, h \in Int, t \in Int, c \in Int, a \in Int, q \in Int
  <2>11. StockOf(onHand, traded, counts, adjustments)'
    BY <2>7, <2>9, <2>10 DEF StockOf
  <2>12. ASSUME NEW i \in DOMAIN issues' PROVE IssueFollowed(i)'
    <3>1. /\ DOMAIN issues' = DOMAIN issues /\ i \in DOMAIN issues
          /\ issues'[i].linked = issues[i].linked
          /\ issues'[i].conversions = issues[i].conversions
          /\ i # adjustments[k].issue => issues'[i] = issues[i]
          /\ DOMAIN adjustments' = DOMAIN adjustments
          /\ adjustments'[k].status = "POSTED" /\ adjustments'[k].issue = adjustments[k].issue
          /\ \A b \in DOMAIN adjustments \ {k} : adjustments'[b] = adjustments[b]
      BY <1>1, <1>6, <2>1, PostAdjustmentIs
    <3>2. IssueFollowed(i)
      BY <3>1 DEF DocumentsOrderly
    <3>3. CASE i = adjustments[k].issue
      <4>1. PostedFor(i)'
        BY <2>2, <3>1, <3>3 DEF PostedFor
      <4>2. QED
        BY <3>1, <3>2, <4>1 DEF IssueFollowed
    <3>4. CASE i # adjustments[k].issue
      <4>1. PostedFor(i) => PostedFor(i)'
        BY <3>1, <3>4 DEF PostedFor
      <4>2. QED
        BY <3>1, <3>2, <3>4, <4>1 DEF IssueFollowed
    <3>5. QED
      BY <3>3, <3>4
  <2>13. QED
    BY <2>11, <2>12 DEF DocumentsOrderly
<1>7. CASE ~PostAdjustment(p)
  <2>1. SeqSum(AdjustmentValue, adjustments') = a
    BY <1>1, <1>3, <1>7, AdjustmentsTotal
  <2>2. PICK c2 \in Int : c2 = SeqSum(CountValue, counts')
    <3>1. PICK m : m = counts'
      OBVIOUS
    <3>2. m \in Seq(Counts)
      BY <1>2, <3>1 DEF DocumentCore, DocumentsTyped
    <3>3. SeqSum(CountValue, m) \in Int
      BY <3>2, ValuesTyped, SeqSumInt
    <3>4. QED
      BY <3>1, <3>3
  <2>3. h2 = Opening + t2 + c2 + a
    <3>1. CASE PostCount(p)
      <4>1. c2 = c + (h2 - h) /\ t2 = t
        BY <1>1, <1>3, <1>4, <2>2, <3>1, CountsPosted DEF PostCount
      <4>2. QED
        BY ONLY <1>5, <4>1, h \in Int, t \in Int, c \in Int, a \in Int, h2 \in Int
    <3>2. CASE ~PostCount(p)
      <4>1. c2 = c
        BY <1>1, <1>2, <1>3, <2>2, <3>2, CountsTotal
      <4>2. h2 - t2 = h - t
        <5>1. CASE Trade(p)
          <6>1. PICK q \in Int : h2 = h + q /\ t2 = t + q
            BY <1>1, <1>3, <1>4, <5>1 DEF Trade, Adjusted, DocumentPlanOK
          <6>2. QED
            BY ONLY <6>1, h \in Int, t \in Int, q \in Int
        <5>2. CASE UNCHANGED <<onHand, traded>>
          BY <1>3, <1>4, <5>2
        <5>3. QED
          BY <1>7, <3>2, <5>1, <5>2 DEF DocumentWrite, CreateCount, StartCount, UpdateItems,
             SubmitCount, RequestRecount, ApproveCount, CreateAdjustment, SubmitAdjustment,
             ApproveAdjustment, RejectAdjustment, CancelAdjustment, MoveAdjustment,
             ReportIssue, ReviewIssue, RejectIssue, ConvertToAdjustment
      <4>3. QED
        BY ONLY <1>5, <4>1, <4>2, h \in Int, t \in Int, c \in Int, a \in Int, h2 \in Int, t2 \in Int
    <3>3. QED
      BY <3>1, <3>2
  <2>4. StockOf(onHand, traded, counts, adjustments)'
    BY <1>4, <2>1, <2>2, <2>3 DEF StockOf
  <2>5. (\A i \in DOMAIN issues : IssueFollowed(i))'
    BY <1>1, <1>7, IssuesOrderly
  <2>6. QED
    BY <2>4, <2>5 DEF DocumentsOrderly
<1>8. QED
  BY <1>6, <1>7

LEMMA DocumentsOrderlySame == DocumentsOrderly /\ UNCHANGED documentRecords => DocumentsOrderly'
BY DEF DocumentsOrderly, IssueFollowed, PostedFor, StockOf, documentRecords, documents

LEMMA DocumentsOrderlyInit == DocumentInit => DocumentsOrderly
<1> SUFFICES ASSUME DocumentInit PROVE DocumentsOrderly
  OBVIOUS
<1>1. onHand = Opening /\ traded = 0 /\ counts = <<>> /\ adjustments = <<>> /\ issues = <<>>
  BY DEF DocumentInit
<1>2. SeqSum(CountValue, counts) = 0 /\ SeqSum(AdjustmentValue, adjustments) = 0
  BY <1>1, SeqSumEmpty
<1>3. StockOf(onHand, traded, counts, adjustments)
  BY <1>1, <1>2, QuantitiesAssumption DEF StockOf
<1>4. QED
  BY <1>1, <1>3 DEF DocumentsOrderly

DocumentsConditional == ~documentOvertaken => DocumentsOrderly

LEMMA DocumentsConditionalStep ==
    DocumentInv /\ DocumentsConditional /\ [DocumentNext]_documentVars => DocumentsConditional'
<1> SUFFICES ASSUME DocumentInv, DocumentsConditional, [DocumentNext]_documentVars,
                    ~documentOvertaken'
             PROVE  DocumentsOrderly'
  BY DEF DocumentsConditional
<1>1. DocumentCore
  BY DEF DocumentInv
<1>2. CASE UNCHANGED documentVars
  BY <1>2, DocumentsOrderlySame DEF documentVars, DocumentsConditional
<1>3. CASE DocumentAlone
  BY <1>1, <1>3, DocumentsOrderlyWrite DEF DocumentAlone, DocumentsConditional
<1>4. CASE DocumentPause
  BY <1>4, DocumentsOrderlySame DEF DocumentPause, DocumentsConditional
<1>5. CASE DocumentResume
  <2>1. CASE DocumentWrite(slowDocument)
             /\ documentOvertaken' = (slowDocument \notin DocumentPlans)
    <3>1. slowDocument \in DocumentPlans /\ ~documentOvertaken
      BY <1>5, <2>1 DEF DocumentResume, DocumentInv, DocumentSlowOK
    <3>2. PICK q : q = slowDocument
      OBVIOUS
    <3>3. QED
      BY <1>1, <2>1, <3>1, <3>2, DocumentsOrderlyWrite DEF DocumentsConditional
  <2>2. CASE UNCHANGED <<documentRecords, documentOvertaken>>
    BY <2>2, DocumentsOrderlySame DEF DocumentsConditional
  <2>3. QED
    BY <1>5, <2>1, <2>2 DEF DocumentResume
<1>6. QED
  BY <1>2, <1>3, <1>4, <1>5 DEF DocumentNext

LEMMA PostedSums ==
    ASSUME DocumentsTyped
    PROVE  /\ SumFunctionOnSet(Differences, Posted(counts)) = SeqSum(CountValue, counts)
           /\ SumFunctionOnSet(Corrections, Posted(adjustments))
                = SeqSum(AdjustmentValue, adjustments)
<1>1. /\ IsFiniteSet(DOMAIN counts) /\ \A c \in DOMAIN counts : counts[c] \in Counts
      /\ IsFiniteSet(DOMAIN adjustments)
      /\ \A a \in DOMAIN adjustments : adjustments[a] \in Adjustments
  BY SequenceDomain DEF DocumentsTyped
<1>2. /\ OverSeq(CountValue, counts) \in [DOMAIN counts -> Int]
      /\ OverSeq(AdjustmentValue, adjustments) \in [DOMAIN adjustments -> Int]
  BY ValuesTyped, SeqSumInt DEF DocumentsTyped
<1>3. SumFunctionOnSet(Differences, Posted(counts)) = SumFunction(OverSeq(CountValue, counts))
  <2>1. PICK g, h, S, R : /\ g = Differences /\ h = OverSeq(CountValue, counts)
                          /\ S = DOMAIN counts /\ R = Posted(counts)
    OBVIOUS
  <2>2. IsFiniteSet(S) /\ R \subseteq S /\ h \in [S -> Int]
    BY <1>1, <1>2, <2>1 DEF Posted
  <2>3. (\A x \in R : h[x] = g[x]) /\ \A x \in S \ R : h[x] = 0
    BY <1>1, <2>1 DEF OverSeq, CountValue, Differences, Posted
  <2>4. SumFunctionOnSet(g, R) = SumFunction(h)
    BY <2>2, <2>3, SumWithin
  <2>5. QED
    BY <2>1, <2>4
<1>4. SumFunctionOnSet(Corrections, Posted(adjustments))
        = SumFunction(OverSeq(AdjustmentValue, adjustments))
  <2>1. PICK g, h, S, R : /\ g = Corrections /\ h = OverSeq(AdjustmentValue, adjustments)
                          /\ S = DOMAIN adjustments /\ R = Posted(adjustments)
    OBVIOUS
  <2>2. IsFiniteSet(S) /\ R \subseteq S /\ h \in [S -> Int]
    BY <1>1, <1>2, <2>1 DEF Posted
  <2>3. (\A x \in R : h[x] = g[x]) /\ \A x \in S \ R : h[x] = 0
    BY <1>1, <2>1 DEF OverSeq, AdjustmentValue, Corrections, Posted
  <2>4. SumFunctionOnSet(g, R) = SumFunction(h)
    BY <2>2, <2>3, SumWithin
  <2>5. QED
    BY <2>1, <2>4
<1>5. QED
  BY <1>3, <1>4 DEF SeqSum

\* On records of the right type and unless a call was overtaken: stock on hand
\* is what it was, what was traded, and the quantity of every POSTED count and
\* adjustment, once; an issue is converted once, and closed only by the
\* adjustment posted for it (post of counts.service and of
\* stock-adjustments.service, convertToAdjustment).
THEOREM DocumentsAreStock == DocumentSpec => []StockFollowsDocuments
<1>1. DocumentInv /\ DocumentsConditional => StockFollowsDocuments
  <2> SUFFICES ASSUME DocumentInv, DocumentsConditional PROVE StockFollowsDocuments
    OBVIOUS
  <2>1. DocumentTypeOK /\ DocumentsTyped
    BY DEF DocumentInv, DocumentCore
  <2>2. ASSUME ~documentOvertaken
        PROVE  /\ onHand = Opening + traded + SumFunctionOnSet(Differences, Posted(counts))
                                            + SumFunctionOnSet(Corrections, Posted(adjustments))
               /\ \A i \in DOMAIN issues :
                    /\ issues[i].conversions <= 1
                    /\ issues[i].status = "CLOSED" =>
                         \E a \in Posted(adjustments) : adjustments[a].issue = i
    <3>1. DocumentsOrderly
      BY <2>2 DEF DocumentsConditional
    <3>2. onHand = Opening + traded + SumFunctionOnSet(Differences, Posted(counts))
                                    + SumFunctionOnSet(Corrections, Posted(adjustments))
      BY <2>1, <3>1, PostedSums DEF DocumentsOrderly, StockOf
    <3>3. \A i \in DOMAIN issues :
            /\ issues[i].conversions <= 1
            /\ issues[i].status = "CLOSED" =>
                 \E a \in Posted(adjustments) : adjustments[a].issue = i
      BY <3>1 DEF DocumentsOrderly, IssueFollowed, PostedFor, Posted
    <3>4. QED
      BY <3>2, <3>3
  <2>3. QED
    BY <2>1, <2>2 DEF StockFollowsDocuments
<1>2. DocumentInit => DocumentsConditional
  BY DocumentsOrderlyInit DEF DocumentsConditional
<1>3. QED
  BY <1>1, <1>2, DocumentsConditionalStep, DocumentInvHolds, PTL DEF DocumentSpec
=============================================================================
