-------------------------------- MODULE Sheet --------------------------------
(***************************************************************************)
(* The Excel-lite workbook (projects/excel-lite): the recalculation engine *)
(* of xlite-core/src/recalc.rs, the undo history of history.rs and the     *)
(* commands that WorkbookAdapter (xlite-app/src/workbook.rs) executes.     *)
(*                                                                         *)
(* The sheet is one line of cells, 1 .. Limit.  A cell holds a number or   *)
(* one formula: a reference, the sum of a span, INDIRECT (the cell whose   *)
(* number another cell holds) or a formula without references whose value  *)
(* is #REF!.  A format and a size are numbers, 0 the default.              *)
(***************************************************************************)
EXTENDS RefShift, Sequences, FiniteSets, SequencesExt

CONSTANTS
  Raws,        \* what can be typed into a cell
  Starts,      \* the sheets a behaviour starts from: sequences of raws
  Budgets      \* bound: how many commands of each kind a behaviour has

VARIABLES
  engine,   \* RecalcEngine: the sheet and the dependency graph
  undo,     \* History: inverses of the commands done, oldest first
  redo,     \* History: inverses of the commands undone
  past,     \* for the properties: the sheet before each command in undo
  future,   \* for the properties: the sheet after each command in redo
  budget    \* commands left, of each kind

vars == <<engine, undo, redo, past, future, budget>>

-----------------------------------------------------------------------------
(* Cells.                                                                  *)

\* Values that are not numbers.
Blank == -1
Circular == -2
RefError == -3
IsError(v) == v \in {Circular, RefError}

Raw(kind, lo, hi) == [kind |-> kind, lo |-> lo, hi |-> hi]
Empty == Raw("empty", 0, 0)       \* the raw text ""
Absent == Raw("absent", 0, 0)     \* no cell at all
RefErrorRaw == Raw("error", 0, 0)

\* The raw texts a cell can have, and the commands that are counted.
RawTexts ==
  {Empty, Absent, RefErrorRaw}
    \cup [kind : {"number"}, lo : Nat, hi : {0}]
    \cup [kind : {"ref", "indirect"}, lo : Axis, hi : {0}]
    \cup {r \in [kind : {"sum"}, lo : Axis, hi : Axis] : r.lo <= r.hi}
Commands == {"set", "format", "resize", "edit", "start"}

ASSUME SheetConstants ==
  /\ Raws \subseteq RawTexts \ {Absent}
  /\ Starts \subseteq [Axis -> RawTexts]
  /\ Budgets \subseteq [Commands -> Nat]

IsFormula(raw) == raw.kind \in {"ref", "sum", "indirect", "error"}

\* parse_cell_source
ParseCell(raw, format) ==
  [raw |-> raw, format |-> format,
   value |-> IF raw.kind = "number" THEN raw.lo ELSE Blank]

NoCell == ParseCell(Absent, 0)

Occupied(cell) == cell.raw # Absent

\* collect_precedents
References(raw) == IF raw.kind \in {"ref", "indirect"} THEN {raw.lo} ELSE {}
Spanned(raw) == IF raw.kind = "sum" THEN raw.lo .. raw.hi ELSE {}

-----------------------------------------------------------------------------
(* The dependency graph: precedents and its inverse dependents for single  *)
(* references, spans for static ranges, dynamic for those INDIRECT found.  *)

NoEdges == [c \in Axis |-> {}]

NewEngine(cells, sizes) ==
  [cells |-> cells, sizes |-> sizes, precedents |-> NoEdges,
   dependents |-> NoEdges, spans |-> NoEdges, dynamic |-> NoEdges]

\* Faulty variant: the cell stays a dependent of what it used to read.
AddStaticEdges(g, c) ==
  LET refs == References(g.cells[c].raw)
  IN  [g EXCEPT
        !.precedents[c] = refs,
        !.spans[c] = Spanned(g.cells[c].raw),
        !.dependents = [p \in Axis |->
          IF p \in refs THEN g.dependents[p] \cup {c} ELSE g.dependents[p]]]

\* replace_static_edges
ReplaceStaticEdges(g, c) ==
  LET refs == References(g.cells[c].raw)
  IN  [g EXCEPT
        !.precedents[c] = refs,
        !.spans[c] = Spanned(g.cells[c].raw),
        !.dependents = [p \in Axis |->
          IF p \in refs THEN g.dependents[p] \cup {c}
          ELSE IF p \in g.precedents[c] THEN g.dependents[p] \ {c}
          ELSE g.dependents[p]]]

ReplaceEdges(g, c) == ReplaceStaticEdges([g EXCEPT !.dynamic[c] = {}], c)

RebuildGraph(g) ==
  [g EXCEPT
    !.precedents = [c \in Axis |-> References(g.cells[c].raw)],
    !.spans = [c \in Axis |-> Spanned(g.cells[c].raw)],
    !.dependents = [p \in Axis |->
                     {c \in Axis : p \in References(g.cells[c].raw)}],
    !.dynamic = [c \in Axis |->
                  IF IsFormula(g.cells[c].raw) THEN @[c] ELSE {}]]

\* What cell c reads, as far as the graph knows.
Reads(g, c) == g.precedents[c] \cup g.spans[c] \cup g.dynamic[c]

\* All that next reaches from the set start.
Reached(next, start) ==
  LET after[n \in 0 .. Limit] ==
        IF n = 0 THEN start
        ELSE after[n - 1] \cup UNION {next[c] : c \in after[n - 1]}
  IN  after[Limit]

\* Faulty variant: the cells that read the changed one directly.
DirectlyDirty(g, c) ==
  {c} \cup g.dependents[c]
    \cup {d \in Axis : c \in g.spans[d] \cup g.dynamic[d]}

\* dirty_set: the changed cell and its transitive dependents.
DirtySet(g, c) ==
  LET readers == [p \in Axis |->
        g.dependents[p] \cup {d \in Axis : p \in g.spans[d] \cup g.dynamic[d]}]
  IN  Reached(readers, {c})

\* cycle_nodes: what Tarjan's algorithm finds among nodes, the components of
\* several cells and the cells that read themselves.
CycleNodes(g, nodes) ==
  LET next == [c \in Axis |->
                IF c \in nodes THEN Reads(g, c) \cap nodes ELSE {}]
  IN  {c \in nodes : c \in Reached(next, next[c])}

\* sorted_cells
Ascending(S) ==
  LET upTo[n \in 0 .. Limit] ==
        IF n = 0 THEN <<>>
        ELSE IF n \in S THEN Append(upTo[n - 1], n) ELSE upTo[n - 1]
  IN  upTo[Limit]

\* The candidates whose precedents among them are done.
Ready(g, candidates, done) ==
  {c \in candidates : Reads(g, c) \cap candidates \subseteq done}

\* The queue q after its n-th cell was popped.
Popped(g, candidates, q, n) ==
  IF n > Len(q) THEN q
  ELSE q \o Ascending(Ready(g, candidates, {q[i] : i \in 1 .. n})
                         \ {q[i] : i \in 1 .. Len(q)})

\* topological_order_without_cycles: Kahn's queue; queued[n] is what has been
\* queued when n cells have been popped.
Order(g, candidates) ==
  LET queued[n \in 0 .. Limit] ==
        IF n = 0 THEN Ascending(Ready(g, candidates, {}))
        ELSE Popped(g, candidates, queued[n - 1], n)
  IN  queued[Limit]

-----------------------------------------------------------------------------
(* Evaluation.                                                             *)

\* SUM skips blanks.
Total(values) ==
  LET upTo[n \in 0 .. Limit] ==
        IF n = 0 THEN 0
        ELSE IF n \in DOMAIN values /\ values[n] # Blank
          THEN upTo[n - 1] + values[n]
        ELSE upTo[n - 1]
  IN  upTo[Limit]

\* eval: errors come through, the first one of a span.
Value(g, raw) ==
  LET at(c) == g.cells[c].value
      errors == {c \in Spanned(raw) : IsError(at(c))}
  IN  CASE raw.kind = "ref" -> at(raw.lo)
        [] raw.kind = "sum" ->
             IF errors = {}
             THEN Total([c \in Spanned(raw) |-> at(c)])
             ELSE at(CHOOSE c \in errors : \A d \in errors : c <= d)
        [] raw.kind = "indirect" ->
             IF IsError(at(raw.lo)) THEN at(raw.lo)
             ELSE IF at(raw.lo) \in Axis THEN at(at(raw.lo))
             ELSE RefError
        [] raw.kind = "error" -> RefError
        [] raw.kind = "number" -> raw.lo
        [] OTHER -> Blank

\* The range that INDIRECT records while it is evaluated.
RecordedRange(g, raw) ==
  IF raw.kind = "indirect" THEN {g.cells[raw.lo].value} \cap Axis ELSE {}

EvaluateCell(g, c) ==
  LET raw == g.cells[c].raw
  IN  IF IsFormula(raw)
        THEN [g EXCEPT !.dynamic[c] = RecordedRange(g, raw),
                       !.cells[c].value = Value(g, raw)]
        ELSE g

Flag(g, circular) ==
  [g EXCEPT !.cells = [c \in Axis |->
     IF c \in circular /\ Occupied(@[c]) THEN [@[c] EXCEPT !.value = Circular]
                                         ELSE @[c]]]

Evaluated(g, order) ==
  LET after[n \in 0 .. Len(order)] ==
        IF n = 0 THEN g ELSE EvaluateCell(after[n - 1], order[n])
  IN  after[Len(order)]

RecalcDirty(g, dirty) ==
  LET circular == CycleNodes(g, dirty)
      evaluated == Evaluated(Flag(g, circular), Order(g, dirty \ circular))
  IN  Flag(evaluated, CycleNodes(evaluated, dirty) \ circular)

OccupiedCells(g) == {c \in Axis : Occupied(g.cells[c])}

RecalcAll(g) == RecalcDirty(RebuildGraph(g), OccupiedCells(g))

\* commit_cell: "" removes the cell, its format with it.
CommitCell(g, c, raw) ==
  [g EXCEPT !.cells[c] = IF raw = Empty THEN NoCell
                         ELSE ParseCell(raw, g.cells[c].format)]

\* RecalcEngine.set_cell
SetCell(g, c, raw) ==
  LET edited == ReplaceEdges(CommitCell(g, c, raw), c)
  IN  RecalcDirty(edited, DirtySet(edited, c))

ReplaceSheet(g, sheet) ==
  RecalcAll([g EXCEPT !.cells = sheet.cells, !.sizes = sheet.sizes])

-----------------------------------------------------------------------------
(* Saving and opening (io.rs).                                             *)

\* Faulty variant: a cell without a format is not written.
SavedFormatted(g) ==
  [cells |-> [c \in Axis |-> IF g.cells[c].format = 0 THEN NoCell
                             ELSE g.cells[c]],
   sizes |-> g.sizes]

\* NativeSheet.from_model: cells without a raw text are not written.
Saved(g) ==
  [cells |-> [c \in Axis |-> IF g.cells[c].raw = Empty THEN NoCell
                             ELSE g.cells[c]],
   sizes |-> g.sizes]

\* into_model sets the cells of a file one by one (here by position; the file
\* is sorted by address, where A10 comes before A2), ...
Loaded(file) ==
  LET after[n \in 0 .. Limit] ==
        IF n = 0 THEN NewEngine([c \in Axis |-> NoCell], file.sizes)
        ELSE IF Occupied(file.cells[n])
          THEN SetCell(after[n - 1], n, file.cells[n].raw)
        ELSE after[n - 1]
  IN  after[Limit]

\* ... then their formats, and recalculates; in open_workbook the adapter takes
\* the sheet into an engine of its own.
Open(file) ==
  LET loaded == Loaded(file)
      formatted == [loaded EXCEPT !.cells = [c \in Axis |->
                     [@[c] EXCEPT !.format = file.cells[c].format]]]
      model == RecalcAll(formatted)
  IN  RecalcAll(NewEngine(model.cells, model.sizes))

-----------------------------------------------------------------------------
(* Commands.  An entry of the history is an inverse, ready to be applied.  *)

\* SetCellCommand keeps only the raw text it replaced.
SetEntry(c, raw) == [op |-> "set", cell |-> c, raw |-> raw]

\* RestoreCellsCommand, RestoreSheetCommand, RestoreDimensionCommand
\* labelled with the structural edit they belong to, if any
NoEdit == [kind |-> "none", at |-> None, count |-> 0]
RestoreEntry(op, label, to, from) ==
  [op |-> op, label |-> label, to |-> to, from |-> from]

PriorRaw(g, c) == IF Occupied(g.cells[c]) THEN g.cells[c].raw ELSE Empty

SheetOf(g) == [cells |-> g.cells, sizes |-> g.sizes]

\* restore_cells: the cells come back as they were, nothing is recalculated.
RestoreCells(g, snapshot) ==
  [g EXCEPT !.cells = [c \in Axis |->
     IF c \in DOMAIN snapshot THEN snapshot[c] ELSE @[c]]]

RestoreSizes(g, snapshot) ==
  [g EXCEPT !.sizes = [i \in Axis |->
     IF i \in DOMAIN snapshot THEN snapshot[i] ELSE @[i]]]

\* Command.apply and the inverse that invert() then gives
Apply(g, entry) ==
  LET swapped == RestoreEntry(entry.op, entry.label, entry.from, entry.to)
  IN  CASE entry.op = "set" ->
             [engine |-> SetCell(g, entry.cell, entry.raw),
              inverse |-> SetEntry(entry.cell, PriorRaw(g, entry.cell))]
        [] entry.op = "cells" ->
             [engine |-> RestoreCells(g, entry.to), inverse |-> swapped]
        [] entry.op = "sheet" ->
             [engine |-> ReplaceSheet(g, entry.to), inverse |-> swapped]
        [] entry.op = "size" ->
             [engine |-> RestoreSizes(g, entry.to), inverse |-> swapped]

Spend(kind) ==
  budget[kind] > 0 /\ budget' = [budget EXCEPT ![kind] = @ - 1]

\* Faulty variant: a new command leaves what was undone to be redone.
ExecKeepingRedo(kind, after, inverse) ==
  /\ Spend(kind)
  /\ engine' = after
  /\ undo' = Append(undo, inverse)
  /\ past' = Append(past, SheetOf(engine))
  /\ UNCHANGED <<redo, future>>

\* History.exec
Exec(kind, after, inverse) ==
  /\ Spend(kind)
  /\ engine' = after
  /\ undo' = Append(undo, inverse) /\ redo' = <<>>
  /\ past' = Append(past, SheetOf(engine)) /\ future' = <<>>

SetCellCommand(c, raw) ==
  Exec("set", SetCell(engine, c, raw), SetEntry(c, PriorRaw(engine, c)))

\* apply_format: a cell that is not there is created unless the format is the
\* default one.
Formatted(cell, format) ==
  IF Occupied(cell) THEN [cell EXCEPT !.format = format]
  ELSE IF format = 0 THEN cell
  ELSE ParseCell(Empty, format)

SetFormatCommand(lo, hi, format) ==
  LET before == [c \in lo .. hi |-> engine.cells[c]]
      after == [c \in lo .. hi |-> Formatted(engine.cells[c], format)]
  IN  Exec("format", RestoreCells(engine, after),
           RestoreEntry("cells", NoEdit, before, after))

ResizeCommand(i, size) ==
  LET before == [j \in {i} |-> engine.sizes[i]]
      after == [j \in {i} |-> size]
  IN  Exec("resize", RestoreSizes(engine, after),
           RestoreEntry("size", NoEdit, before, after))

\* rewrite_formula
RewriteFormula(raw, e) ==
  LET span == RewriteSpan(raw.lo, raw.hi, e)
  IN  IF raw.kind \in {"ref", "indirect"}
        THEN IF ShiftIndex(raw.lo, e) = None THEN RefErrorRaw
             ELSE [raw EXCEPT !.lo = ShiftIndex(raw.lo, e)]
      ELSE IF raw.kind = "sum"
        THEN IF span = NoSpan THEN RefErrorRaw ELSE Raw("sum", span.lo, span.hi)
      ELSE raw

\* shift_cell: a formula is parsed again and waits for its value.
ShiftCell(cell, e) ==
  IF IsFormula(cell.raw)
    THEN ParseCell(RewriteFormula(cell.raw, e), cell.format)
    ELSE cell

\* What was at some position before e is now at position i (None: nothing).
ShiftedFrom(i, e) ==
  LET from == {j \in Axis : ShiftIndex(j, e) = i}
  IN  IF from = {} THEN None ELSE CHOOSE j \in from : TRUE

\* apply_structural_edit
Shifted(sheet, e) ==
  LET from(i) == ShiftedFrom(i, e)
  IN  [cells |-> [i \in Axis |-> IF from(i) = None THEN NoCell
                                 ELSE ShiftCell(sheet.cells[from(i)], e)],
       sizes |-> [i \in Axis |-> IF from(i) = None THEN 0
                                 ELSE sheet.sizes[from(i)]]]

\* first_occupied_index_pushed_out
PushedOut(e) ==
  {i \in Axis : /\ Occupied(engine.cells[i]) \/ engine.sizes[i] # 0
                /\ i >= e.at /\ i > Limit - e.count}

StructuralEditCommand(e) ==
  /\ InBounds(e)
  /\ e.kind = "insert" => PushedOut(e) = {}
  /\ LET after == ReplaceSheet(engine, Shifted(SheetOf(engine), e))
     IN  Exec("edit", after,
              RestoreEntry("sheet", e, SheetOf(engine), SheetOf(after)))

-----------------------------------------------------------------------------
(* Undo, redo, and opening a workbook.                                     *)

Undo ==
  /\ undo # <<>>
  /\ LET applied == Apply(engine, Last(undo))
     IN  engine' = applied.engine /\ redo' = Append(redo, applied.inverse)
  /\ undo' = Front(undo)
  /\ past' = Front(past) /\ future' = Append(future, SheetOf(engine))
  /\ UNCHANGED budget

Redo ==
  /\ redo # <<>>
  /\ LET applied == Apply(engine, Last(redo))
     IN  engine' = applied.engine /\ undo' = Append(undo, applied.inverse)
  /\ redo' = Front(redo)
  /\ past' = Append(past, SheetOf(engine)) /\ future' = Front(future)
  /\ UNCHANGED budget

\* The adapter starts over with another engine and an empty history.
StartOver(with) ==
  /\ Spend("start")
  /\ engine' = with
  /\ undo' = <<>> /\ redo' = <<>> /\ past' = <<>> /\ future' = <<>>

\* save_workbook, then open_workbook with the same file
Reopen == StartOver(Open(Saved(engine)))

NoSizes == [i \in Axis |-> 0]
NoCells == [c \in Axis |-> NoCell]

NewWorkbook == StartOver(NewEngine(NoCells, NoSizes))

-----------------------------------------------------------------------------
\* A sheet with the given raws, without formats and sizes.
Typed(raws) ==
  [cells |-> [c \in Axis |-> ParseCell(raws[c], 0)], sizes |-> NoSizes]

Init ==
  /\ \E raws \in Starts : engine = Open(Typed(raws))
  /\ undo = <<>> /\ redo = <<>> /\ past = <<>> /\ future = <<>>
  /\ budget \in Budgets

Next ==
  \/ \E c \in Axis, raw \in Raws : SetCellCommand(c, raw)
  \/ \E lo, hi \in Axis, format \in {0, 1} :
       lo <= hi /\ SetFormatCommand(lo, hi, format)
  \/ \E i \in Axis, size \in {0, 1} : ResizeCommand(i, size)
  \/ \E e \in Edits : StructuralEditCommand(e)
  \/ Undo \/ Redo \/ Reopen \/ NewWorkbook

Spec == Init /\ [][Next]_vars
-----------------------------------------------------------------------------
(* Properties.                                                             *)

\* The graph that edits, restores and rebuilds have kept up is the one that the
\* formulas in the sheet have, and dependents is its inverse (recalc.rs:216).
GraphMatchesSheet ==
  \A c \in Axis :
    /\ engine.precedents[c] = References(engine.cells[c].raw)
    /\ engine.spans[c] = Spanned(engine.cells[c].raw)
    /\ engine.dependents[c] = {d \in Axis : c \in engine.precedents[d]}

\* Static references only.
Static(g) ==
  [c \in Axis |-> References(g.cells[c].raw) \cup Spanned(g.cells[c].raw)]

\* SPEC.md 3.5: after every command, undo or redo included, a cell on a cycle
\* is #CIRC! and every other formula has the value that its formula gives over
\* the values now in the sheet - for the cells that no INDIRECT feeds.
ValuesExact ==
  LET static == Static(engine)
      feeds(c) == Reached(static, {c})
  IN  \A c \in Axis :
        (\A d \in feeds(c) : engine.cells[d].raw.kind # "indirect") =>
          engine.cells[c].value =
            IF c \in Reached(static, static[c]) THEN Circular
            ELSE Value(engine, engine.cells[c].raw)

\* A sheet without its formats.
Contents(sheet) ==
  [raws |-> [c \in Axis |-> IF sheet.cells[c].raw = Empty THEN Absent
                            ELSE sheet.cells[c].raw],
   sizes |-> sheet.sizes]

\* SPEC.md 5.3, CYCLE-004: a cell recovers when its cycle is broken.  A cell
\* that shows #CIRC! is on a cycle of what the formulas now refer to, or reads
\* a cell that shows it.
CircularIsCurrent ==
  LET now == [c \in Axis |-> Static(engine)[c]
                              \cup RecordedRange(engine, engine.cells[c].raw)]
  IN  \A c \in Axis :
        engine.cells[c].value = Circular =>
          \/ c \in Reached(now, now[c])
          \/ \E d \in now[c] : engine.cells[d].value = Circular

\* history.rs:48-73: undo brings back the raws and sizes that the command found,
\* and redo those it left, over any edits, formats and insertions in between.
UndoRestores ==
  [][/\ Len(undo') < Len(undo) /\ budget' = budget =>
          Contents(SheetOf(engine')) = Contents(Last(past))
     /\ Len(redo') < Len(redo) /\ budget' = budget =>
          Contents(SheetOf(engine')) = Contents(Last(future))]_vars

\* Insertions and deletions carry formulas and values along: a cell that stays
\* refers to what it referred to before, without what was deleted and apart from
\* what was inserted, or becomes #REF! because it referred to something that is
\* gone; and a cell that does not read, however far, something gone keeps its
\* value.
StructuralEditsCarry ==
  [][budget' # budget /\ undo' # <<>> =>
       LET e == IF Last(undo').op = "sheet" THEN Last(undo').label ELSE NoEdit
           gone == {c \in Axis : ShiftIndex(c, e) = None}
           new == IF e.kind = "insert" THEN e.at .. DeleteEnd(e) ELSE {}
           was(c) == engine.cells[c]
           now(c) == engine'.cells[ShiftIndex(c, e)]
           reads == Static(engine)
           readsNow == Static(engine')
       IN  e # NoEdit =>
             \A c \in Axis \ gone :
               /\ \/ readsNow[ShiftIndex(c, e)] \ new
                       = {ShiftIndex(d, e) : d \in reads[c] \ gone}
                  \/ now(c).raw = RefErrorRaw /\ reads[c] \cap gone # {}
               /\ Reached(reads, {c}) \cap gone = {} =>
                    now(c).value = was(c).value]_vars

\* SPEC.md 3.8: a workbook that is saved and opened again has the same raws,
\* sizes and values, and the formats of the cells that hold something.
RoundTrip ==
  LET opened == Open(Saved(engine)) IN
  /\ Contents(SheetOf(opened)) = Contents(SheetOf(engine))
  /\ \A c \in Axis :
       /\ opened.cells[c].value = engine.cells[c].value
       /\ engine.cells[c].raw \notin {Empty, Absent} =>
            opened.cells[c].format = engine.cells[c].format
=============================================================================
