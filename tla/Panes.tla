-------------------------------- MODULE Panes --------------------------------
(***************************************************************************)
(* What is drawn of a show, and where (src/tui/layout.rs, view/detail.rs,  *)
(* view/history.rs, covers/sizing.rs, chrome.rs): the panes of a terminal  *)
(* of any size, the cover, header, synopsis and provider line that share   *)
(* a column with the episode grid, the watchlist's bars and the top bar.   *)
(***************************************************************************)
EXTENDS Navigation

CONSTANTS
    TermWidths, TermHeights,  \* of the terminal
    CellSizes,                \* of a cell in pixels: [w, h]; h = 0 when unreported
    Headers,                  \* header lines of a show
    Synopses,                 \* lines of its synopsis
    GridLengths,              \* episodes a grid may have
    SeasonLengths             \* episodes of a season, for the bars

ASSUME PanesAssumption ==
    /\ \A c \in CellSizes : c.w \in Nat /\ c.h \in Nat
    /\ TermWidths \cup TermHeights \cup Headers \cup Synopses \cup GridLengths \cup SeasonLengths \subseteq Nat
    /\ \A n \in Headers : n <= 5

VARIABLES
    term,      \* App.term: [w, h]
    pixels,    \* ProtocolPool.cell
    place,     \* browse, history, or the zoom; rows for the list of History alone
    focus,     \* whether the detail surface has the keys
    subject,   \* the show: [header, synopsis]
    gridView,  \* the episode session: [engaged, length, cursor], its provider line
    bar        \* a row of the watchlist: [progress, total, aired, resume]; -1 for none

paneVars == <<term, pixels, place, focus, subject, gridView, bar>>

NoGrid == [engaged |-> FALSE, length |-> 0, cursor |-> 0, provider |-> FALSE]

NoBar == [progress |-> 0, total |-> -1, aired |-> -1, resume |-> -1]
Subjects == [header : Headers, synopsis : Synopses]

PanesInit ==
    /\ term \in [w : TermWidths, h : TermHeights] /\ pixels \in CellSizes
    /\ place \in {"browse", "history", "rows"} /\ focus = FALSE
    /\ subject \in Subjects /\ gridView = NoGrid /\ bar = NoBar
    /\ place = "rows" => /\ term.h = CHOOSE h \in TermHeights : TRUE
                         /\ subject = CHOOSE e \in Subjects : TRUE
                         /\ pixels = CHOOSE c \in CellSizes : TRUE

-----------------------------------------------------------------------------
(* The steps that change what there is to draw.                          *)

TwoPane == term.w >= 60

\* enter_browse_pane, enter_history_pane; open_history_zoom below the split.
OpensDetail ==
    /\ ~focus /\ (TwoPane \/ place = "history") /\ place # "rows"
    /\ focus' = TRUE /\ place' = IF TwoPane THEN place ELSE "zoom"
    /\ \E p \in BOOLEAN : gridView' = [NoGrid EXCEPT !.engaged = TRUE, !.provider = p]
    /\ UNCHANGED <<term, pixels, subject, bar>>

Promotes ==
    /\ focus /\ place # "zoom" /\ place' = "zoom" /\ UNCHANGED <<term, pixels, focus, subject, gridView, bar>>

\* esc, and demote.
Closes ==
    /\ focus
    /\ IF place = "zoom" THEN place' = "history" /\ focus' = TwoPane ELSE focus' = FALSE /\ UNCHANGED place
    /\ UNCHANGED <<term, pixels, subject, gridView, bar>>

EpisodesLand ==
    /\ gridView.engaged /\ \E n \in GridLengths : gridView' = [gridView EXCEPT !.length = n, !.cursor = 0]
    /\ UNCHANGED <<term, pixels, place, focus, subject, bar>>

\* cursor_by, cursor_end.
CursorMoves ==
    /\ focus /\ gridView.length > 0
    /\ \E c \in {0, gridView.length \div 2, gridView.length - 1} : gridView' = [gridView EXCEPT !.cursor = c]
    /\ UNCHANGED <<term, pixels, place, focus, subject, bar>>

\* on_resize: below the split the list has the keys.  A height changes nothing but the
\* drawing, and every one is an initial one.
Resizes ==
    /\ \E w \in TermWidths :
          /\ term' = [term EXCEPT !.w = w]
          /\ focus' = (focus /\ (place = "zoom" \/ w >= 60))
    /\ UNCHANGED <<pixels, place, subject, gridView, bar>>

\* The row of a show, whatever its progress and its broadcast are.
RowReads ==
    /\ place = "rows" /\ bar = NoBar
    /\ \E t \in SeasonLengths \cup {-1}, p \in SeasonLengths :
       \E a \in SeasonLengths \cup {-1}, r \in SeasonLengths \cup {-1} :
          bar' = [progress |-> p, total |-> t, aired |-> a, resume |-> r]
    /\ UNCHANGED <<term, pixels, place, focus, subject, gridView>>

PanesNext ==
    OpensDetail \/ Promotes \/ Closes \/ EpisodesLand \/ CursorMoves \/ Resizes \/ RowReads

PanesSpec == PanesInit /\ [][PanesNext]_paneVars

-----------------------------------------------------------------------------
(* Where it is drawn.                                                    *)

Higher(a, b) == IF a > b THEN a ELSE b
Lower(a, b) == IF a < b THEN a ELSE b
Less(a, b) == Higher(a - b, 0)

Rect(x, y, w, h) == [x |-> x, y |-> y, w |-> w, h |-> h]

\* frame_rows, for a frame that is not too small.
Content == Rect(0, 2, term.w, Less(term.h, 3))

\* pane_split
ListW == Higher((term.w * 38) \div 100, 30)
DetailX == 2 + ListW + 2

\* draw_browse, draw_history: the list column, or both.
ListArea == Rect(2, 2, IF TwoPane THEN Lower(ListW, Less(term.w, 2)) ELSE Less(term.w, 3), Content.h)
PaneArea == Rect(DetailX, 2, Lower(Less(Less(term.w, DetailX), 1), Less(term.w, DetailX)), Content.h)

\* The detail surface; none for a narrow list.
HasSurface == place # "rows" /\ (place = "zoom" \/ TwoPane)
Area == IF place = "zoom" THEN Rect(2, 2, Less(term.w, 3), Content.h) ELSE PaneArea

\* draw_content: two columns for the zoom and for History, one for Browse.
Split == place # "browse" /\ Area.w >= 100

\* cover_width
CoverW(w) == IF w >= 40 THEN 20 ELSE IF w >= 25 THEN 14 ELSE 0

\* detail_cover_h: a poster two by three, within the caps.
NaturalH(w) ==
    LET cap == IF w = 20 THEN 28 ELSE 20
    IN IF pixels.h = 0 THEN cap
       ELSE Higher(Lower(((w * pixels.w * 3) \div 2) \div pixels.h, cap), 1)

\* Mutated form: a row too few is reserved below the cover.
CoverReserveShort == 13

\* COVER_RESERVE, MIN_COVER_ROWS, GRID_RESERVE
CoverReserve == 14
MinCoverRows == 6
GridReserve == 3

\* cover_height_cap
HeightCap(h) == IF Less(h, CoverReserve) < MinCoverRows THEN 0 ELSE Less(h, CoverReserve)

\* The column beside the cover, of draw_split.
SplitCoverW == CoverW(Higher((Area.w * 38) \div 100, 20))
Column ==
    IF ~Split THEN Area
    ELSE LET gap == IF SplitCoverW > 0 THEN SplitCoverW + 4 ELSE 0
         IN Rect(Area.x + gap, Area.y, Less(Area.w, gap), Area.h)

CoverH ==
    LET w == IF Split THEN SplitCoverW ELSE CoverW(Area.w)
        h == Lower(NaturalH(w), IF Split THEN Less(Area.h, 2) ELSE HeightCap(Area.h))
    IN IF w > 0 /\ h >= MinCoverRows THEN h ELSE 0
Cover(l) == Rect(Area.x, Area.y + 1, IF Split THEN SplitCoverW ELSE CoverW(Area.w), l.coverH)

\* A line is drawn, and the next begins below it, only within the height.
Past(y, lines) == IF y >= Column.h THEN y ELSE Lower(y + lines, Column.h)

\* The layout l of a surface is what these lines add to it, from the cover down.
WithHeader(cover) ==
    LET y == IF Split \/ cover = 0 THEN 1 ELSE 1 + cover + 1
    IN [coverH |-> cover, headerY |-> y, headerEnd |-> Past(y, subject.header),
        bodyY |-> 0, synopsisH |-> 0, gridY |-> 0, gridH |-> 0]

\* Header, rule, meta line; then a blank, or a rule in the split.  The split gives up
\* when its header does not fit.
BodyDrawn(l) == ~Split \/ l.headerY + subject.header <= Column.h
WithBody(l) ==
    LET meta == Past(Past(l.headerEnd, 1), 1) IN [l EXCEPT !.bodyY = IF Split THEN Past(meta, 1) ELSE meta + 1]

Remaining(l) == Less(Column.h, l.bodyY)

\* draw_body: without focus or an engaged grid the pane is a preview.
ShowsGrid(l) == focus /\ gridView.engaged /\ BodyDrawn(l)
GridCols == Higher(Column.w \div 5, 1)
GridRows(n) == (n + GridCols - 1) \div GridCols
Prov == IF gridView.provider THEN 1 ELSE 0

\* Mutated form: the provider line is drawn wherever there is a row for it.
ProviderFits(l) == l.synopsisH + 1 < Remaining(l)

\* body_budget
ProviderShown(l) == gridView.provider /\ l.synopsisH + 2 < Remaining(l)
SynopsisRows(l, rem) ==
    IF ~ShowsGrid(l) THEN Less(rem, GridReserve)
    ELSE Lower(Lower(subject.synopsis, Higher(Less(rem, 1 + Prov + Higher(GridRows(gridView.length), 1)), 2)),
                 Less(rem, 1 + Prov + 2))
WithSynopsis(l) == [l EXCEPT !.synopsisH = SynopsisRows(l, Remaining(l))]

GridY(l) == l.bodyY + l.synopsisH + 1 + (IF ProviderShown(l) THEN 1 ELSE 0)
WithGrid(l, y) == [l EXCEPT !.gridY = y, !.gridH = IF ShowsGrid(l) THEN Less(Column.h, y) ELSE 0]
BodyLaid(l) == WithGrid(l, GridY(l))

Layout == BodyLaid(WithSynopsis(WithBody(WithHeader(CoverH))))

\* Mutated form: the cursor's row is left below the last one drawn.
GridScrollPast(l) == Less(gridView.cursor \div GridCols, l.gridH)

\* draw_grid
GridScroll(l) == Less(gridView.cursor \div GridCols, Less(l.gridH, 1))

\* The regions drawn on the surface, each by itself.
Regions(l) ==
    LET at(y, h) == Rect(Column.x, Column.y + y, Column.w, h)
    IN IF ~HasSurface \/ Area.w = 0 \/ Area.h = 0 THEN {}
       ELSE {Cover(l), at(l.headerY, Less(l.headerEnd, l.headerY))}
            \cup IF ~BodyDrawn(l) THEN {}
                 ELSE {at(l.headerEnd, Less(Lower(l.bodyY, Column.h), l.headerEnd)),
                       at(l.bodyY, Lower(l.synopsisH, Higher(subject.synopsis, 1))), at(l.gridY, l.gridH)}
                      \cup IF ShowsGrid(l) /\ ProviderShown(l) THEN {at(l.gridY - 1, 1)} ELSE {}

\* bar_width, of the list column.
BarW == Higher(Lower(Less(ListArea.w, 30), 24), 16)

\* Mutated form: the fill is left without its first cell.
FillCellBare(eps) == (eps * BarW) \div bar.total

\* The fill and the broadcast edge round alike and have a cell at least.
FillCell(eps) == Higher((eps * BarW) \div bar.total, IF eps > 0 THEN 1 ELSE 0)
EdgeCell(eps) == Higher((eps * BarW) \div bar.total, IF eps > 0 THEN 1 ELSE 0)

\* bar_geometry
Filled ==
    IF bar.total > 0 THEN FillCell(Lower(bar.progress, bar.total))
    ELSE IF bar.progress > 0 THEN BarW \div 3 ELSE 0
ResumeCell ==
    IF bar.total > 0 /\ bar.resume >= 1 THEN (Lower(bar.resume - 1, bar.total - 1) * BarW) \div bar.total ELSE -1
AiredEdge ==
    IF bar.total > 0 /\ bar.aired >= 0 /\ bar.aired < bar.total THEN EdgeCell(bar.aired) ELSE BarW

\* The cells drawn as aired and not watched.
AiredCells == {i \in 0 .. BarW - 1 : Filled <= i /\ i < AiredEdge}

\* tabs_width and draw_top_bar: the widest form that ends before the dot.
Wordmark == 2 + 13
LabelWidths == {8, 9, 10}
FullW == Wordmark + 5 + 9 + 37
BriefW == Wordmark + 5 + 9 + 12
TopBarEnds ==
    LET room == Less(term.w, 2)
    IN IF FullW <= room THEN {FullW} ELSE IF BriefW <= room THEN {BriefW}
       ELSE {Wordmark + 2 + l : l \in LabelWidths}

-----------------------------------------------------------------------------
TooSmallFrame == term.w < 16 \/ term.h < 4

PanesTypeOK ==
    /\ term.w \in TermWidths /\ term.h \in TermHeights /\ place \in {"browse", "history", "zoom", "rows"}
    /\ gridView.cursor < Higher(gridView.length, 1)

HasCells(r) == r.h > 0 /\ r.w > 0
WithinFrame(r) == r.x + r.w <= term.w /\ r.y >= 2 /\ r.y + r.h <= term.h - 1
Disjoint(r, s) == r.x + r.w <= s.x \/ s.x + s.w <= r.x \/ r.y + r.h <= s.y \/ s.y + s.h <= r.y

\* Whatever the size, nothing is drawn outside the frame, where the terminal's buffer
\* has no cell, and no two parts of a surface are drawn over each other.
RegionsApart(onSurface) ==
    ~TooSmallFrame =>
        /\ HasCells(ListArea) => WithinFrame(ListArea)
        /\ \A r \in onSurface : HasCells(r) =>
            /\ WithinFrame(r)
            /\ place # "zoom" => ListArea.x + ListArea.w <= r.x
            /\ \A s \in onSurface \ {r} : HasCells(s) => Disjoint(r, s)

\* A cover never takes the grid's column down to less than two rows (COVER_RESERVE,
\* "the episode grid always keeps >= 2 visible rows").
GridKeepsTwo(l) ==
    HasSurface /\ ShowsGrid(l) /\ ~Split /\ l.coverH > 0 => l.gridH >= Lower(2, GridRows(gridView.length))

\* The cell enter plays is drawn wherever any of the grid is (draw_grid).
CursorCellSeen(l) ==
    gridView.length > 0 /\ l.gridH > 0 =>
        GridScroll(l) <= gridView.cursor \div GridCols /\ gridView.cursor \div GridCols < GridScroll(l) + l.gridH

\* The provider line heads a grid and is never left above an empty region, and a row
\* goes to the grid before the synopsis has its third (body_budget).
ProviderHeads(l) ==
    ShowsGrid(l) =>
        /\ ProviderShown(l) => l.gridH >= 1
        /\ l.synopsisH > 2 => l.gridH >= GridRows(gridView.length)

\* Who has watched what was broadcast sees no cell of it left, only a finished show
\* has a full bar, and the resume mark is on the bar (bar_geometry).
BarHonest ==
    /\ bar.total > 0 /\ bar.progress >= bar.aired /\ bar.aired >= 0 => AiredCells = {} \/ bar.aired >= bar.total
    /\ bar.total > 0 => (Filled = BarW => bar.progress >= bar.total \/ BarW = 1)
    /\ Filled <= BarW /\ ResumeCell < BarW
    /\ bar.progress > 0 => Filled > 0

\* The tabs end before the dot at every width that has room for one label.
TopBarClear == term.w >= 29 => \A e \in TopBarEnds : e <= term.w - 2

LayoutSound(l) == RegionsApart(Regions(l)) /\ GridKeepsTwo(l) /\ CursorCellSeen(l) /\ ProviderHeads(l)

PanesSound == LayoutSound(Layout) /\ BarHonest /\ TopBarClear

-----------------------------------------------------------------------------
(***************************************************************************)
(* The windows the lists are seen through (src/tui/view/browse.rs,         *)
(* history.rs, discover.rs, layout.rs, covers/sizing.rs): rows of results, *)
(* the watchlist in its groups, and the grid of cards, which keys scroll   *)
(* while answers, filters, reloads and resizes change what is in them.  A  *)
(* machine of its own: no variable is shared with the above.               *)
(***************************************************************************)
CONSTANTS
    Frames,     \* sizes of the terminal: [w, h]
    CellKinds,  \* sizes of a cell in pixels: [w, h]; h = 0 when unreported
    MaxListed,  \* entries of each list
    MaxChanges  \* bound of the run: changes of the list and of the terminal

\* GROUP_ORDER
Groups == <<"watching", "planning", "paused", "completed", "dropped">>

ASSUME WindowsAssumption ==
    /\ MaxListed \in [{"browse", "history", "discover"} -> Nat] /\ MaxChanges \in Nat
    /\ \A size \in Frames \cup CellKinds : size.w \in Nat /\ size.h \in Nat

VARIABLES
    listView,  \* the view: browse, history or discover
    frame,     \* App.term
    cell,      \* ProtocolPool.cell
    contents,  \* the entries, as they were answered or read: [id, group]
    kept,      \* the ids the filter keeps
    cursor, scroll,
    steered,   \* whether the last step was a key of the list
    changes    \* changes so far

windowVars == <<listView, frame, cell, contents, kept, cursor, scroll, steered, changes>>

WindowsInit ==
    /\ listView \in {"browse", "history", "discover"}
    /\ frame \in Frames /\ cell \in CellKinds
    /\ \E n \in 0 .. MaxListed[listView] : \E groups \in [1 .. n -> {"watching", "paused"}] :
          /\ contents = [i \in 1 .. n |-> [id |-> i, group |-> groups[i]]] /\ kept = 1 .. n
          /\ (listView # "history" => \A i \in 1 .. n : groups[i] = "watching")
    /\ (listView # "discover" => cell = CHOOSE c \in CellKinds : c.h = 0)
    /\ cursor = 1 /\ scroll = 0 /\ steered = FALSE /\ changes = 0

-----------------------------------------------------------------------------
AtLeast(a, b) == IF a > b THEN a ELSE b
AtMost(a, b) == IF a < b THEN a ELSE b
Saturating(a, b) == AtLeast(a - b, 0)

\* frame_rows: the bars and the spacer.
ContentH == Saturating(frame.h, 3)

\* The entries of group g that the filter keeps, of the first i read.
Grouping(s, k, g) ==
    LET found[i \in 0 .. Len(s)] ==
            IF i = 0 THEN <<>>
            ELSE IF s[i].group = g /\ s[i].id \in k THEN Append(found[i - 1], s[i]) ELSE found[i - 1]
    IN  found

\* The first n groups, one after the other.
Grouped(s, k) ==
    LET shown[n \in 0 .. Len(Groups)] ==
            IF n = 0 THEN <<>> ELSE shown[n - 1] \o Grouping(s, k, Groups[n])[Len(s)]
    IN  shown

\* rebuild: the order of the groups, and in a group that of the reading.
Order(s, k) == IF listView # "history" THEN s ELSE Grouped(s, k)[Len(Groups)]
InOrder == Order(contents, kept)

\* tier, and card_cover_h: a poster two by three, not below the floor.
Tier(w) == IF w >= 80 THEN [cover |-> 20, slot |-> 22, floor |-> 7] ELSE [cover |-> 14, slot |-> 16, floor |-> 5]
CardCoverH(t) == IF cell.h = 0 THEN t.floor ELSE AtLeast(((t.cover * cell.w * 3) \div 2) \div cell.h, t.floor)

\* Mutated form: the axis bar and its spacer are forgotten.
GridGeoWhole ==
    LET t == Tier(frame.w)
    IN [cols |-> AtLeast(Saturating(frame.w, 2) \div t.slot, 1), slotH |-> CardCoverH(t) + 4,
        rows |-> AtLeast(ContentH \div (CardCoverH(t) + 4), 1)]

\* grid_geo
GridGeo ==
    LET t == Tier(frame.w)
    IN [cols |-> AtLeast(Saturating(frame.w, 2) \div t.slot, 1), slotH |-> CardCoverH(t) + 4,
        rows |-> AtLeast(Saturating(ContentH, 2) \div (CardCoverH(t) + 4), 1)]

\* The card-row of an entry.
CardRow(c) == (c - 1) \div GridGeo.cols

\* layout: the display line of an entry's title, the header of its group two lines
\* above the first of them, a blank between groups.
TitleLine(c) ==
    LET rows == InOrder
        opened == {rows[i].group : i \in 1 .. c}
    IN 2 * (c - 1) + 2 * Cardinality(opened) + Cardinality(opened) - 1

\* The scroll that brings an entry into the window: clamp_scroll of the rows and of
\* the cards, scroll_into_view of the groups.
Clamp(sc, row, visible) ==
    LET low == AtMost(sc, row) IN IF row >= low + visible THEN row + 1 - visible ELSE low

\* Mutated form: the group's own header is left above the window.
IntoViewBare(sc, title, visible) ==
    LET low == AtMost(sc, title) IN IF title + 2 > low + visible THEN title + 2 - visible ELSE low

IntoView(sc, title, visible) ==
    LET low == AtMost(sc, Saturating(title, 2))
    IN IF title + 2 > low + visible THEN title + 2 - visible ELSE low

Scrolled(c) ==
    CASE listView = "browse" -> Clamp(scroll, c - 1, AtLeast(ContentH, 1))
      [] listView = "discover" -> Clamp(scroll, CardRow(c), GridGeo.rows)
      [] listView = "history" -> IF ContentH = 0 THEN scroll ELSE IntoView(scroll, TitleLine(c), ContentH)

CursorTo(c) ==
    /\ InOrder # <<>> /\ cursor' = c /\ scroll' = Scrolled(c) /\ steered' = TRUE
    /\ UNCHANGED <<listView, frame, cell, contents, kept, changes>>

\* nav: j and k, over a card-row of the grid.
NavBy(dy) ==
    LET by == IF listView = "discover" THEN GridGeo.cols ELSE 1
    IN CursorTo(AtLeast(AtMost(cursor + dy * by, Len(InOrder)), 1))

\* Mutated form: the last row wraps where a full one would.
WrapsFull(c, start, dx) == start + ((c - start + dx) % GridGeo.cols)

\* h and l wrap in their row, which may be short.
Wraps(c, start, dx) ==
    start + ((c - start + dx) % AtMost(Len(InOrder) - start + 1, GridGeo.cols))

NavAcross(dx) ==
    /\ listView = "discover" /\ InOrder # <<>>
    /\ CursorTo(Wraps(cursor, CardRow(cursor) * GridGeo.cols + 1, dx))

\* jump; the grid of cards has none.
Jump(top) == listView # "discover" /\ CursorTo(IF top THEN 1 ELSE Len(InOrder))

\* select_aid: the landing on the show watched last.
Lands == listView = "history" /\ \E c \in DOMAIN InOrder : InOrder[c].id = 1 /\ CursorTo(c)

-----------------------------------------------------------------------------
Changes == changes < MaxChanges /\ changes' = changes + 1 /\ steered' = FALSE

\* on_resize clamps nothing.
ResizeFrame ==
    /\ Changes /\ frame' \in Frames
    /\ UNCHANGED <<listView, cell, contents, kept, cursor, scroll>>

\* Another page is appended; a first page of a search starts over.
NextPageLands ==
    /\ Changes /\ listView # "history" /\ Len(contents) < MaxListed[listView]
    /\ contents' = Append(contents, [id |-> Len(contents) + 1, group |-> "watching"])
    /\ kept' = kept \cup {Len(contents) + 1}
    /\ UNCHANGED <<listView, frame, cell, cursor, scroll>>

FirstPageLands ==
    /\ Changes /\ listView = "browse"
    /\ \E n \in 0 .. MaxListed[listView] :
          contents' = [i \in 1 .. n |-> [id |-> i, group |-> "watching"]] /\ kept' = 1 .. n
    /\ cursor' = 1 /\ scroll' = 0 /\ UNCHANGED <<listView, frame, cell>>

\* Mutated form: the cursor keeps its place in the list.
FollowsPlace(old, new) == AtLeast(AtMost(cursor, Len(new)), 1)

\* anchor_aid, rebuild_with: the cursor follows its show; it is clamped without it.
Follows(old, new) ==
    LET at == {c \in DOMAIN new : cursor \in DOMAIN old /\ new[c].id = old[cursor].id}
    IN IF at # {} THEN CHOOSE c \in at : TRUE ELSE AtLeast(AtMost(cursor, Len(new)), 1)

Rebuilt(s, k) == contents' = s /\ kept' = k /\ cursor' = Follows(InOrder, Order(s, k))

\* load: a status changed, a row was deleted, a play brought one to the front.
Reloads ==
    /\ Changes /\ listView = "history"
    /\ \E i \in DOMAIN contents :
          \/ Rebuilt([contents EXCEPT ![i].group = "completed"], kept)
          \/ Rebuilt(RemoveAt(contents, i), kept)
          \/ Rebuilt(<<contents[i]>> \o RemoveAt(contents, i), kept)
    /\ UNCHANGED <<listView, frame, cell, scroll>>

FilterEdited ==
    /\ Changes /\ listView = "history"
    /\ \E k \in SUBSET {contents[i].id : i \in DOMAIN contents} : Rebuilt(contents, k)
    /\ scroll' = 0 /\ UNCHANGED <<listView, frame, cell>>

FilterCleared ==
    /\ Changes /\ listView = "history" /\ kept' = {contents[i].id : i \in DOMAIN contents}
    /\ cursor' = 1 /\ scroll' = 0 /\ UNCHANGED <<listView, frame, cell, contents>>

WindowsNext ==
    \/ \E d \in {-1, 1} : NavBy(d) \/ NavAcross(d)
    \/ \E top \in BOOLEAN : Jump(top)
    \/ Lands \/ ResizeFrame \/ NextPageLands \/ FirstPageLands \/ Reloads \/ FilterEdited \/ FilterCleared

WindowsSpec == WindowsInit /\ [][WindowsNext]_windowVars

-----------------------------------------------------------------------------
\* draw_list: the lines of the window.
Drawn(line) == scroll <= line /\ line < scroll + ContentH

\* draw_cards: a card that would cross the edge of the grid is not drawn.
CardDrawn(c) ==
    LET t == Tier(frame.w)
        col == (c - 1) % GridGeo.cols
        row == CardRow(c) - scroll
    IN /\ row \in 0 .. GridGeo.rows - 1
       /\ 2 + col * t.slot + t.cover <= frame.w
       /\ (row + 1) * GridGeo.slotH <= Saturating(ContentH, 2)

\* is_too_small: a message takes the frame.
TooSmall == frame.w < 16 \/ frame.h < 4

WindowsTypeOK ==
    /\ cursor >= 1 /\ (InOrder # <<>> => cursor <= Len(InOrder))
    /\ kept \subseteq 1 .. MaxListed[listView] /\ scroll >= 0 /\ changes <= MaxChanges

\* Whatever came in between, after a key of the list the selection is in the window:
\* its row, its card, both lines of its title and bar, if the window has the room.
SelectionSeen ==
    steered /\ ~TooSmall =>
        CASE listView = "browse" -> Drawn(cursor - 1)
          [] listView = "discover" -> Saturating(ContentH, 2) >= GridGeo.slotH => CardDrawn(cursor)
          [] listView = "history" ->
                ContentH >= 2 => Drawn(TitleLine(cursor)) /\ Drawn(TitleLine(cursor) + 1)

\* The first show of a group has its header above it (scroll_into_view), so its
\* status is seen with it.
HeaderSeen ==
    steered /\ listView = "history" /\ ContentH >= 4
        /\ (cursor = 1 \/ InOrder[cursor - 1].group # InOrder[cursor].group)
        => Drawn(TitleLine(cursor) - 2)

\* What the keys count as a row of cards is what is drawn: the cards before and after
\* the selection in its row are drawn with it (GridGeo).
RowSeen ==
    steered /\ listView = "discover" /\ ~TooSmall /\ Saturating(ContentH, 2) >= GridGeo.slotH =>
        \A c \in DOMAIN InOrder : CardRow(c) \in scroll .. scroll + GridGeo.rows - 1 => CardDrawn(c)

\* h and l stay in the row of cards, short as it may be, and each undoes the other.
AcrossStays ==
    listView = "discover" /\ InOrder # <<>> =>
        LET start == CardRow(cursor) * GridGeo.cols + 1
        IN \A d \in {-1, 1} :
              LET c == Wraps(cursor, start, d)
              IN c \in DOMAIN InOrder /\ CardRow(c) = CardRow(cursor) /\ Wraps(c, start, -d) = cursor

\* A reload or a filter never puts the cursor on another show while its own is
\* listed: what enter, x and d act on is what was chosen (rebuild_with).
SelectionFollows ==
    [][listView = "history" /\ cursor \in DOMAIN InOrder /\ ~steered'
          /\ (contents' # contents \/ kept' # {contents[i].id : i \in DOMAIN contents})
          /\ (\E c \in DOMAIN InOrder' : InOrder'[c].id = InOrder[cursor].id)
        => InOrder'[cursor'].id = InOrder[cursor].id]_windowVars

WindowsSound == [](SelectionSeen /\ HeaderSeen /\ RowSeen /\ AcrossStays) /\ SelectionFollows

-----------------------------------------------------------------------------
\* A key acts on what is on the screen: on the show the surface shows, which is in its
\* window, in a pane no other part is drawn over (app.rs, view/*.rs, layout.rs).
ScreenHonest == KeysActOnWhatIsSeen /\ []PanesSound /\ WindowsSound
=============================================================================
