------------------------------ MODULE TuiModel ------------------------------
(***************************************************************************)
(* internal/output/tui/model.go: the terminal UI as a function from a       *)
(* message and a model to the next model.  The variable m is the Go struct; *)
(* an action is one case of Update, followed, as in Update, by the three    *)
(* clamps.  Rows, diagnostics and key presses come from other goroutines    *)
(* and from the user, in any order; bubbletea hands them over one by one.   *)
(*                                                                          *)
(* A row keeps what Update looks at: how many letters of the filter term it *)
(* matches, the bytes of its body, and the lines that body decodes to.  The *)
(* term is the number of letters typed so far.  A diagnostic line has no    *)
(* content, so the buffer is its length.  drops and width are only          *)
(* displayed and left out; the quit keys return the model unchanged (their  *)
(* effect is in module Session).  Indices count from 0, as in the code.     *)
(***************************************************************************)
EXTENDS Integers, Sequences, SequencesExt, FiniteSetsExt

CONSTANTS
    MaxRows,            \* maxRows
    MaxDiagLines,       \* maxDiagLines
    BodyBudget,         \* sessionBodyBudget
    Row,                \* the rows that may arrive
    MaxTerm,            \* bound on the letters of the filter term
    Heights,            \* heights the terminal may have
    Nil                 \* the nil slice

ASSUME ConstantsAssumption ==
    /\ MaxRows \in Nat \ {0} /\ MaxDiagLines \in Nat \ {0}
    /\ BodyBudget \in Nat /\ MaxTerm \in Nat /\ Heights \subseteq Nat
    /\ Row \subseteq [match : 0..MaxTerm, body : Nat, lines : Nat]
    /\ \A r \in Row : r.body = 0 => r.lines = 0
    /\ Nil \notin Seq(Nat)

VARIABLE m

chromeLines == 5
diagChromeLines == 2

newModel(height) ==
    [rows |-> <<>>, height |-> height, selected |-> 0, top |-> 0, follow |-> TRUE,
     detailOpen |-> FALSE, panelFocus |-> FALSE, detailOffset |-> 0, hexMode |-> FALSE,
     bodyBytes |-> 0, filterMode |-> FALSE, term |-> 0, filtered |-> Nil,
     diagLines |-> 0, diagOpen |-> FALSE, diagOffset |-> 0]

Model == [rows : Seq([match : 0..MaxTerm, body : Nat, lines : Nat]), height : Heights,
          selected : Nat, top : Nat, follow : BOOLEAN,
          detailOpen : BOOLEAN, panelFocus : BOOLEAN, detailOffset : Nat, hexMode : BOOLEAN,
          bodyBytes : Nat, filterMode : BOOLEAN, term : 0..MaxTerm,
          filtered : {Nil} \cup Seq(Nat),
          diagLines : 0..MaxDiagLines, diagOpen : BOOLEAN, diagOffset : Nat]

-----------------------------------------------------------------------------
(* What is on display.                                                      *)

rowMatchesFilter(r, term) == term <= r.match

(* By the number of rows looked at: the indices of those that match.        *)
Matching(rows, term) ==
    LET result[n \in 0..Len(rows)] ==
            IF n = 0 THEN <<>>
            ELSE IF rowMatchesFilter(rows[n], term) THEN Append(result[n - 1], n - 1)
            ELSE result[n - 1]
    IN result

rebuildFilter(s) ==
    [s EXCEPT !.filtered = IF s.term = 0 THEN Nil ELSE Matching(s.rows, s.term)[Len(s.rows)]]

displayCount(s) == IF s.filtered = Nil THEN Len(s.rows) ELSE Len(s.filtered)

(* The index in rows of the i-th row on display.                            *)
RowIndex(s, i) == IF s.filtered = Nil THEN i ELSE s.filtered[i + 1]
displayRow(s, i) == s.rows[RowIndex(s, i) + 1]

(* Two headings, two start lines, two header blocks and a blank line; a     *)
(* body adds a blank line, a heading and its text, or 16 bytes to a line.   *)
detailContent(r, hex) ==
    7 + CASE r.body = 0       -> 0
          [] r.body > 0 /\ hex  -> 2 + (r.body + 15) \div 16
          [] r.body > 0 /\ ~hex -> 2 + r.lines

detailLineCount(s) ==
    IF displayCount(s) = 0 THEN 0 ELSE detailContent(displayRow(s, s.selected), s.hexMode)

(* At most 0.6 of the lines that are left.                                  *)
bodyLines(s) ==
    LET avail == s.height - chromeLines
        want == IF s.rows = <<>> THEN 1 ELSE detailLineCount(s)
    IN IF s.detailOpen /\ avail > 0 THEN Min({want, (avail * 3) \div 5}) ELSE 0

visibleRows(s) == Max({0, s.height - chromeLines - bodyLines(s)})

(* Fault: the line the arrow covers is not counted. *)
maxDetailOffset_NoArrow(s) == Max({0, detailLineCount(s) - bodyLines(s)})

(* One line of the panel is taken by the arrow that points up.              *)
maxDetailOffset(s) ==
    IF detailLineCount(s) <= bodyLines(s) THEN 0
    ELSE detailLineCount(s) - (bodyLines(s) - 1)

maxDiagOffset(s) == Max({0, s.diagLines - Max({0, s.height - diagChromeLines})})

(* The lines of the content that the panel shows at an offset.              *)
LinesShown(s, offset) ==
    LET n == bodyLines(s)
        below == IF offset > 0 THEN n - 1 ELSE n
        avail == IF offset + below < detailLineCount(s) THEN below - 1 ELSE below
    IN {offset + i : i \in 0..avail - 1} \cap 0..detailLineCount(s) - 1

-----------------------------------------------------------------------------
(* Every Update ends with the three clamps.                                 *)

SelectionClamped(s) ==
    [s EXCEPT !.selected =
        IF displayCount(s) = 0 THEN 0 ELSE Min({s.selected, displayCount(s) - 1})]

(* Fault: the table is scrolled down to the selection, never up. *)
TopFor_OnlyDown(s, visible) ==
    IF visible = 0 THEN 0
    ELSE Min({Max({s.top, s.selected - visible + 1}), Max({0, displayCount(s) - visible})})

(* The scroll position nearest to the old one that shows the selection.     *)
TopFor(s, visible) ==
    IF visible = 0 THEN 0
    ELSE LET scrolled == Max({Min({s.top, s.selected}), s.selected - visible + 1})
         IN Min({scrolled, Max({0, displayCount(s) - visible})})

clampScroll(s) ==
    LET t == SelectionClamped(s) IN [t EXCEPT !.top = TopFor(t, visibleRows(t))]

Within(offset, max) == Max({0, Min({offset, max})})

clampDetailOffset(s) == [s EXCEPT !.detailOffset = Within(@, maxDetailOffset(s))]
clampDiagOffset(s) == [s EXCEPT !.diagOffset = Within(@, maxDiagOffset(s))]

Becomes(s) == m' = clampDiagOffset(clampDetailOffset(clampScroll(s)))

-----------------------------------------------------------------------------
(* Keys while the filter is typed.                                          *)

EditsFilter == m.filterMode

(* Fault: the filter of the old term stays on. *)
WithTerm_Stale(s, n) == [s EXCEPT !.term = n]

WithTerm(s, n) == rebuildFilter([s EXCEPT !.term = n])

FilterClear == EditsFilter /\ Becomes(WithTerm([m EXCEPT !.filterMode = FALSE], 0))
FilterApply == EditsFilter /\ Becomes([m EXCEPT !.filterMode = FALSE])
FilterBackspace == EditsFilter /\ m.term > 0 /\ Becomes(WithTerm(m, m.term - 1))
FilterType == EditsFilter /\ m.term < MaxTerm /\ Becomes(WithTerm(m, m.term + 1))

-----------------------------------------------------------------------------
(* Keys in the diagnostics panel.                                           *)

ReadsDiag == ~m.filterMode /\ m.diagOpen

DiagClose == ReadsDiag /\ Becomes([m EXCEPT !.diagOpen = FALSE, !.diagOffset = 0])
DiagUp == ReadsDiag /\ Becomes([m EXCEPT !.diagOffset = @ - 1])
DiagDown == ReadsDiag /\ Becomes([m EXCEPT !.diagOffset = @ + 1])
DiagTop == ReadsDiag /\ Becomes([m EXCEPT !.diagOffset = 0])
DiagBottom == ReadsDiag /\ Becomes([m EXCEPT !.diagOffset = maxDiagOffset(m)])

-----------------------------------------------------------------------------
(* Keys in the table, with or without the detail panel.                     *)

InTable == ~m.filterMode /\ ~m.diagOpen
OnRows == InTable /\ ~m.panelFocus
OnPanel == InTable /\ m.panelFocus

AtBottom(s) == displayCount(s) > 0 /\ s.selected = displayCount(s) - 1

rearmFollowAtBottom(s) == [s EXCEPT !.follow = @ \/ AtBottom(s)]

DetailClosed(s) == [s EXCEPT !.detailOpen = FALSE, !.panelFocus = FALSE, !.detailOffset = 0]

OpenDiag ==
    /\ InTable
    /\ LET s == IF m.detailOpen THEN DetailClosed(m) ELSE m
       IN Becomes([s EXCEPT !.diagOpen = TRUE, !.diagOffset = maxDiagOffset(s)])

(* Fault: the table goes on following while the panel has the focus. *)
Tab_Follows ==
    /\ InTable /\ m.detailOpen
    /\ Becomes(IF m.panelFocus THEN rearmFollowAtBottom([m EXCEPT !.panelFocus = FALSE])
               ELSE [m EXCEPT !.panelFocus = TRUE])

Tab ==
    /\ InTable /\ m.detailOpen
    /\ Becomes(IF m.panelFocus THEN rearmFollowAtBottom([m EXCEPT !.panelFocus = FALSE])
               ELSE [m EXCEPT !.panelFocus = TRUE, !.follow = FALSE])

Enter ==
    /\ InTable
    /\ Becomes(IF m.detailOpen THEN DetailClosed(m) ELSE [m EXCEPT !.detailOpen = TRUE])

EscFromPanel ==
    OnPanel /\ m.detailOpen /\ Becomes(rearmFollowAtBottom([m EXCEPT !.panelFocus = FALSE]))

EscFromDetail ==
    OnRows /\ m.detailOpen /\ Becomes([m EXCEPT !.detailOpen = FALSE, !.detailOffset = 0])

EscFromFilter == InTable /\ ~m.detailOpen /\ m.term > 0 /\ Becomes(WithTerm(m, 0))

PanelUp == OnPanel /\ Becomes([m EXCEPT !.detailOffset = @ - 1])
PanelDown == OnPanel /\ Becomes([m EXCEPT !.detailOffset = @ + 1])
PanelTop == OnPanel /\ Becomes([m EXCEPT !.detailOffset = 0])
PanelBottom == OnPanel /\ Becomes([m EXCEPT !.detailOffset = maxDetailOffset(m)])

Up ==
    /\ OnRows
    /\ Becomes([m EXCEPT !.selected = Max({0, @ - 1}), !.follow = FALSE, !.detailOffset = 0])

Down ==
    /\ OnRows
    /\ LET s == [m EXCEPT !.selected = IF @ < displayCount(m) - 1 THEN @ + 1 ELSE @]
       IN Becomes([s EXCEPT !.follow = @ \/ s.selected = displayCount(s) - 1,
                            !.detailOffset = 0])

Top ==
    OnRows /\ Becomes([m EXCEPT !.selected = 0, !.follow = FALSE, !.detailOffset = 0])

Bottom ==
    /\ OnRows
    /\ Becomes([m EXCEPT !.selected = IF displayCount(m) > 0 THEN displayCount(m) - 1 ELSE @,
                         !.follow = TRUE, !.detailOffset = 0])

HexMode == InTable /\ Becomes([m EXCEPT !.hexMode = ~@])
StartFilter == InTable /\ Becomes([m EXCEPT !.filterMode = TRUE])

-----------------------------------------------------------------------------
(* Messages from the capture and from the terminal.                         *)

Resize(height) == Becomes([m EXCEPT !.height = height])

Full(s) == Len(s.rows) = MaxRows

DroppedVisible(s) == s.term = 0 \/ rowMatchesFilter(s.rows[1], s.term)

(* The oldest row makes room; a selection that does not follow stays on its *)
(* row, which has moved up by one when the row that went was on display.    *)
WithRow(s, r) ==
    IF ~Full(s) THEN [s EXCEPT !.rows = Append(@, r)]
    ELSE [s EXCEPT !.rows = Append(Tail(@), r),
                   !.bodyBytes = @ - s.rows[1].body,
                   !.selected = IF ~s.follow /\ @ > 0 /\ DroppedVisible(s) THEN @ - 1 ELSE @]

(* The bytes of the bodies of the first n rows.                             *)
BodySums(rows) ==
    LET sum[n \in 0..Len(rows)] == IF n = 0 THEN 0 ELSE sum[n - 1] + rows[n].body IN sum

(* Fault: the bodies go from the newest row on. *)
evictBodiesOverBudget_Newest(s) ==
    LET n == Len(s.rows)
        sums == BodySums(s.rows)
        After(k) == s.bodyBytes - (sums[n] - sums[n - k])
        k == Min({j \in 0..n : After(j) <= BodyBudget} \cup {n})
    IN [s EXCEPT !.rows = [i \in 1..n |-> IF i > n - k THEN [s.rows[i] EXCEPT !.body = 0]
                                                      ELSE s.rows[i]],
                 !.bodyBytes = After(k)]

(* Bodies are dropped from the oldest row on until the rest fits.           *)
evictBodiesOverBudget(s) ==
    LET n == Len(s.rows)
        After(k) == s.bodyBytes - BodySums(s.rows)[k]
        k == Min({j \in 0..n : After(j) <= BodyBudget} \cup {n})
    IN [s EXCEPT !.rows = [i \in 1..n |-> IF i <= k THEN [s.rows[i] EXCEPT !.body = 0]
                                                   ELSE s.rows[i]],
                 !.bodyBytes = After(k)]

Followed(s) ==
    IF ~s.follow THEN s
    ELSE [s EXCEPT !.selected = IF displayCount(s) > 0 THEN displayCount(s) - 1 ELSE @,
                   !.detailOffset = 0]

RowMsg(r) ==
    LET s == rebuildFilter(WithRow(m, r))
    IN Becomes(Followed(evictBodiesOverBudget([s EXCEPT !.bodyBytes = @ + r.body])))

DiagMsg ==
    LET s == [m EXCEPT !.diagLines = Min({@ + 1, MaxDiagLines})]
    IN Becomes(IF s.diagOpen THEN [s EXCEPT !.diagOffset = maxDiagOffset(s)] ELSE s)

Init == \E height \in Heights : m = newModel(height)

Next ==
    \/ FilterClear \/ FilterApply \/ FilterBackspace \/ FilterType
    \/ DiagClose \/ DiagUp \/ DiagDown \/ DiagTop \/ DiagBottom
    \/ OpenDiag \/ Tab \/ Enter \/ EscFromPanel \/ EscFromDetail \/ EscFromFilter
    \/ PanelUp \/ PanelDown \/ PanelTop \/ PanelBottom
    \/ Up \/ Down \/ Top \/ Bottom \/ HexMode \/ StartFilter
    \/ \E height \in Heights : Resize(height)
    \/ \E r \in Row : RowMsg(r)
    \/ DiagMsg

Spec == Init /\ [][Next]_m

-----------------------------------------------------------------------------
(* The fields of the model keep their types; no offset or index falls below *)
(* zero.                                                                    *)
TypeOK == m \in Model

(* View never indexes past the rows, and the selected row is on screen      *)
(* whenever the table has a line, with no blank line while rows are hidden: *)
(* after any mixture of evictions, filters, panels, resizes and keys.       *)
SelectionOnScreen ==
    /\ m.selected < Max({1, displayCount(m)})
    /\ (displayCount(m) > 0 /\ visibleRows(m) > 0) =>
          /\ m.top <= m.selected /\ m.selected < m.top + visibleRows(m)
          /\ m.top = 0 \/ m.top + visibleRows(m) <= displayCount(m)

(* The table shows the rows that match the term, all of them and in order:  *)
(* the cached indices follow every new row, eviction and change of the      *)
(* term.                                                                    *)
FilterIsCurrent ==
    LET shown == [i \in 1..displayCount(m) |-> RowIndex(m, i - 1)]
    IN /\ \A i, j \in DOMAIN shown : i < j => shown[i] < shown[j]
       /\ ToSet(shown) = {i \in 0..Len(m.rows) - 1 : rowMatchesFilter(m.rows[i + 1], m.term)}

(* The running total is the sum of the bodies kept, within the budget, and  *)
(* a body that was dropped is older than every body that is kept.           *)
BodiesWithinBudget ==
    /\ m.bodyBytes = BodySums(m.rows)[Len(m.rows)] /\ m.bodyBytes <= BodyBudget
    /\ \A i, j \in DOMAIN m.rows :
          i < j /\ m.rows[j].body = 0 /\ m.rows[j].lines > 0 => m.rows[i].body = 0

(* In a panel of three lines or more every line of the content can be       *)
(* scrolled to, the two lines taken by the arrows notwithstanding.          *)
EveryLineCanBeRead ==
    bodyLines(m) >= 3 =>
        UNION {LinesShown(m, offset) : offset \in 0..maxDetailOffset(m)}
            = 0..detailLineCount(m) - 1

(* A row that arrives while the user is away from the bottom moves neither  *)
(* the selection off its row nor the place in the panel that has the focus, *)
(* unless the row or its body had to go.                                    *)
ReadingUndisturbed ==
    [][(\E r \in Row : RowMsg(r)) /\ displayCount(m) > 0 /\ (~m.follow \/ m.panelFocus) =>
          LET index == RowIndex(m, m.selected) - (IF Full(m) THEN 1 ELSE 0)
          IN index < 0 \/ ( /\ RowIndex(m', m'.selected) = index
                            /\ \/ m'.detailOffset = m.detailOffset
                               \/ displayRow(m', m'.selected) # displayRow(m, m.selected) ) ]_m
=============================================================================
