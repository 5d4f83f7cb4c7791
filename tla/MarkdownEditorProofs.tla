------------------------ MODULE MarkdownEditorProofs ------------------------
(***************************************************************************)
(* The safety properties of MarkdownEditor, for every set of texts, whatever *)
(* their lines, their syntax and their lengths.                              *)
(***************************************************************************)
EXTENDS MarkdownEditor, TLAPS

Microtasks == {"mount", "drop", "observe"}
Authors == {"page", "reset", "app", "user"}

Pending(m) == \E i \in DOMAIN micro : micro[i] = m

\* The element's last move is done, or its microtask is due.
ElementDue ==
    /\ connected /\ ~Mounted => Pending("mount")
    /\ ~connected /\ Mounted => Pending("drop")

\* The observers are due to see what they have not seen.
RecordsDue == records # {} => Pending("observe")

\* The view is configured for the field, or about to be.
Configured == Mounted => "attributes" \in records \/ editable = ~disabled

\* The textarea holds what the user wrote, as its own value.
UserText == author = "user" => dirty /\ (Mounted => raw = doc)

\* A value that was never set is the text of the children.
ChildText == ~dirty => raw = default

\* A value that was set is the view's, and known.  One that follows the children
\* is known, unless a reset is about to tell; and it is the view's, unless the
\* observer is due, a reset is, or the view was edited since the last of them.
FieldText ==
    Mounted =>
        /\ dirty => raw = doc /\ told = doc
        /\ ~dirty => told = raw \/ (timer > 0 /\ told = doc)
        /\ ~dirty /\ timer = 0 /\ doc = pristine /\ "text" \notin records => raw = doc

\* The previews are those of the state, and a field without an editor has none.
Computed ==
    /\ Mounted => /\ inline = Decorations(doc, parsed, Active(sel, focusState))
                  /\ block = Blocks(doc, parsed, Active(sel, focusState))
    /\ ~Mounted => Closed

IInv ==
    /\ TypeOK /\ ElementDue /\ RecordsDue /\ Configured
    /\ UserText /\ ChildText /\ FieldText /\ Computed

-----------------------------------------------------------------------------
(* Lemmas.                                                                   *)

LEMMA PreviewTypes ==
    ASSUME NEW x \in Texts, NEW p \in BOOLEAN, NEW active \in SUBSET Nat
    PROVE  /\ Decorations(x, p, active) \subseteq NodeType \X Nat
           /\ Blocks(x, p, active) \subseteq NodeType
<1>1. Nodes[x] \subseteq NodeType /\ Lines[x] \in Nat
  BY TextsAssumption
<1>2. 1 .. Lines[x] \subseteq Nat
  BY <1>1
<1>3. Tree(x, p) \subseteq NodeType
  BY <1>1 DEF Tree
<1>4. Decorations(x, p, active) \subseteq Tree(x, p) \X (1 .. Lines[x])
  BY DEF Decorations
<1>5. Blocks(x, p, active) \subseteq Tree(x, p)
  BY DEF Blocks
<1> QED
  BY <1>2, <1>3, <1>4, <1>5

\* What a transaction leaves of a view: its parts, and previews of them.
LEMMA TransactionStep ==
    ASSUME TypeOK, Computed, Mounted,
           NEW x \in Texts, NEW s \in SUBSET Nat, NEW p \in BOOLEAN, NEW f \in BOOLEAN,
           Transaction(x, s, p, f)
    PROVE  /\ doc' = x /\ sel' = s /\ parsed' = p /\ focusState' = f
           /\ inline' \subseteq NodeType \X Nat /\ block' \subseteq NodeType
           /\ Mounted' /\ Computed'
<1>1. doc' = x /\ sel' = s /\ parsed' = p /\ focusState' = f
  BY DEF Transaction
<1>2. Mounted'
  BY <1>1, TextsAssumption DEF Mounted
<1>3. /\ inline' = Decorations(x, p, Active(s, f))
      /\ block' = Blocks(x, p, Active(s, f))
  BY DEF Transaction, Computed
<1>4. Active(s, f) \in SUBSET Nat
  BY DEF Active
<1>5. inline' \subseteq NodeType \X Nat /\ block' \subseteq NodeType
  BY <1>3, <1>4, PreviewTypes
<1> QED
  BY <1>1, <1>2, <1>3, <1>5 DEF Computed

LEMMA UpdateStep ==
    ASSUME TypeOK, Computed, Mounted,
           NEW x \in Texts, NEW by \in Authors, NEW notify \in BOOLEAN,
           notify \/ by \in {"app", "page"},
           Update(x, by, notify)
    PROVE  /\ doc' \in Texts /\ sel' \subseteq Nat /\ parsed' \in BOOLEAN /\ focusState' \in BOOLEAN
           /\ inline' \subseteq NodeType \X Nat /\ block' \subseteq NodeType
           /\ raw' = doc' /\ told' = doc' /\ dirty' = TRUE /\ author' \in {by, "app"}
           /\ menu' = FALSE /\ UNCHANGED default
           /\ ~notify => doc' = x
           /\ Mounted' /\ Computed'
<1>1. PICK y \in IF notify THEN Texts ELSE {x} :
        /\ Edit(y)
        /\ raw' = y
        /\ dirty' = TRUE
        /\ author' = IF y = x THEN by ELSE "app"
        /\ told' = IF notify \/ author' \in {"app", "page"} THEN y ELSE told
        /\ menu' = FALSE
        /\ UNCHANGED default
  BY DEF Update
<1>2. y \in Texts /\ Lines[y] \in Nat
  BY <1>1, TextsAssumption
<1>3. PICK s \in Selections(y), p \in BOOLEAN : Transaction(y, s, p, focus)
  BY <1>1 DEF Edit
<1>4. s \in SUBSET Nat /\ focus \in BOOLEAN
  BY <1>2 DEF TypeOK, PreviewTypeOK, Selections
<1>5. /\ doc' = y /\ sel' = s /\ parsed' = p /\ focusState' = focus
      /\ inline' \subseteq NodeType \X Nat /\ block' \subseteq NodeType
      /\ Mounted' /\ Computed'
  BY <1>2, <1>3, <1>4, TransactionStep
<1>6. told' = y /\ author' \in {by, "app"}
  BY <1>1
<1> QED
  BY <1>1, <1>2, <1>4, <1>5, <1>6

LEMMA DueStep ==
    ASSUME TypeOK, NEW m \in Microtasks, Due(m)
    PROVE  /\ micro' \in Seq(Microtasks)
           /\ Pending(m)'
           /\ \A k \in Microtasks : Pending(k) => Pending(k)'
<1>1. micro \in Seq(Microtasks)
  BY DEF TypeOK, Microtasks
<1>2. CASE Pending(m)
  BY <1>1, <1>2 DEF Due, Pending
<1>3. CASE ~Pending(m)
  <2>1. micro' = Append(micro, m)
    BY <1>3 DEF Due, Pending
  <2>2. /\ Len(micro') = Len(micro) + 1
        /\ micro'[Len(micro) + 1] = m
        /\ \A i \in 1 .. Len(micro) : micro'[i] = micro[i]
        /\ micro' \in Seq(Microtasks)
        /\ DOMAIN micro = 1 .. Len(micro)
        /\ DOMAIN micro' = 1 .. Len(micro')
        /\ Len(micro) \in Nat
    BY <1>1, <2>1
  <2> QED
    BY <2>2 DEF Pending
<1> QED
  BY <1>2, <1>3

LEMMA TakeStep ==
    ASSUME TypeOK, NEW m \in Microtasks, Take(m)
    PROVE  /\ micro' \in Seq(Microtasks)
           /\ \A k \in Microtasks \ {m} : Pending(k) => Pending(k)'
<1>1. micro \in Seq(Microtasks) /\ micro # <<>> /\ micro' = Tail(micro) /\ micro[1] = m
  BY DEF TypeOK, Microtasks, Take, Quiet
<1>2. /\ micro' \in Seq(Microtasks)
      /\ Len(micro) \in Nat
      /\ DOMAIN micro = 1 .. Len(micro)
      /\ DOMAIN micro' = 1 .. (Len(micro) - 1)
      /\ \A i \in 1 .. (Len(micro) - 1) : micro'[i] = micro[i + 1]
  BY <1>1
<1>3. ASSUME NEW k \in Microtasks \ {m}, Pending(k) PROVE Pending(k)'
  <2>1. PICK i \in 1 .. Len(micro) : micro[i] = k
    BY <1>2, <1>3 DEF Pending
  <2>2. i # 1
    BY <1>1, <1>3, <2>1
  <2>3. i - 1 \in 1 .. (Len(micro) - 1) /\ micro'[i - 1] = k
    BY <1>2, <2>1, <2>2
  <2> QED
    BY <1>2, <2>3 DEF Pending
<1> QED
  BY <1>2, <1>3

\* Nothing is pending between two events.
LEMMA QuietStep == ASSUME Quiet PROVE \A m \in Microtasks : ~Pending(m)
  BY DEF Quiet, Pending

-----------------------------------------------------------------------------
(* The invariant holds at first and is kept by every action.                 *)

\* An action that leaves the view, the field and what is due of it alone.
LEMMA SameView ==
    ASSUME IInv, UNCHANGED preview
    PROVE  PreviewTypeOK' /\ (Mounted <=> Mounted') /\ Computed'
  BY DEF IInv, TypeOK, PreviewTypeOK, preview, Mounted, Computed, Closed

LEMMA InitIInv == Init => IInv
<1> SUFFICES ASSUME Init PROVE IInv
  OBVIOUS
<1>1. ~Mounted
  BY DEF Init, Closed, Mounted
<1>2. TypeOK
  <2>1. PreviewTypeOK
    BY DEF Init, Closed, PreviewTypeOK
  <2>2. micro \in Seq({"mount", "drop", "observe"})
    BY DEF Init
  <2>3. TimersOK
    BY EditorAssumption DEF Init, TimersOK
  <2> QED
    BY <1>1, <2>1, <2>2, <2>3 DEF Init, TypeOK
<1>3. ElementDue
  <2>1. micro = <<"mount">> /\ connected
    BY DEF Init
  <2>2. 1 \in DOMAIN micro /\ micro[1] = "mount"
    BY <2>1
  <2> QED
    BY <2>1, <2>2 DEF ElementDue, Pending
<1>4. RecordsDue /\ UserText /\ ChildText
  BY <1>1 DEF Init, RecordsDue, UserText, ChildText
<1>5. Closed
  BY DEF Init
<1> QED
  BY <1>1, <1>2, <1>3, <1>4, <1>5 DEF IInv, Configured, FieldText, Computed

\* An update of a mounted view, in a step that leaves the element, the
\* configuration and what is due to it alone.
LEMMA UpdateKeeps ==
    ASSUME IInv, Mounted,
           NEW x \in Texts, NEW by \in Authors, NEW notify \in BOOLEAN,
           notify \/ by \in {"app", "page"},
           Update(x, by, notify),
           focus' \in BOOLEAN, TimersOK',
           UNCHANGED <<disabled, connected, micro, records, pristine, editable>>
    PROVE  IInv'
<1>1. /\ doc' \in Texts /\ sel' \subseteq Nat /\ parsed' \in BOOLEAN /\ focusState' \in BOOLEAN
      /\ inline' \subseteq NodeType \X Nat /\ block' \subseteq NodeType
      /\ raw' = doc' /\ told' = doc' /\ dirty' = TRUE /\ author' \in {by, "app"}
      /\ menu' = FALSE /\ UNCHANGED default
      /\ Mounted' /\ Computed'
  BY UpdateStep DEF IInv
<1>2. TypeOK'
  BY <1>1 DEF IInv, TypeOK, PreviewTypeOK, Authors
<1>3. ElementDue' /\ RecordsDue' /\ Configured'
  BY <1>1 DEF IInv, ElementDue, RecordsDue, Configured, Pending
<1> QED
  BY <1>1, <1>2, <1>3 DEF IInv, UserText, ChildText, FieldText

LEMMA WriteKeeps == ASSUME IInv, NEW x \in Texts, Write(x) PROVE IInv'
<1>1. CASE Mounted /\ x # doc
  <2>1. Update(x, "app", FALSE) /\ focus' \in BOOLEAN /\ TimersOK'
    BY <1>1 DEF Write, IInv, TypeOK, PreviewTypeOK, TimersOK
  <2> QED
    BY <1>1, <2>1, UpdateKeeps DEF Write, Authors
<1>2. CASE ~(Mounted /\ x # doc)
  <2>1. /\ raw' = x /\ dirty' = TRUE /\ author' = "app" /\ told' = x
        /\ UNCHANGED <<preview, default, menu>>
        /\ UNCHANGED <<disabled, connected, micro, records, timer, stray, pristine, editable>>
    BY <1>2 DEF Write, preview
  <2>2. PreviewTypeOK' /\ (Mounted <=> Mounted') /\ Computed' /\ doc' = doc
    BY <2>1, SameView DEF preview
  <2>3. TypeOK'
    BY <2>1, <2>2 DEF IInv, TypeOK, TimersOK
  <2>4. ElementDue' /\ RecordsDue' /\ Configured'
    BY <2>1, <2>2 DEF IInv, ElementDue, RecordsDue, Configured, Pending
  <2> QED
    BY <1>2, <2>1, <2>2, <2>3, <2>4 DEF IInv, UserText, ChildText, FieldText
<1> QED
  BY <1>1, <1>2

LEMMA InsertKeeps == ASSUME IInv, NEW x \in Texts, Insert(x) PROVE IInv'
<1>1. CASE Update(x, "user", TRUE)
  <2>1. Mounted /\ focus' \in BOOLEAN /\ TimersOK'
    BY DEF Insert, IInv, TypeOK, TimersOK
  <2> QED
    BY <1>1, <2>1, UpdateKeeps DEF Insert, Authors
<1>2. CASE Unwritten
  <2>1. /\ UNCHANGED <<doc, sel, focusState, parsed, inline, block, field, author, told, menu>>
        /\ UNCHANGED <<disabled, connected, micro, records, timer, stray, pristine, editable>>
        /\ focus' = TRUE
    BY <1>2 DEF Unwritten, Insert
  <2>2. PreviewTypeOK' /\ (Mounted <=> Mounted') /\ Computed'
    BY <2>1 DEF IInv, TypeOK, PreviewTypeOK, Mounted, Computed, Insert
  <2>3. TypeOK'
    BY <2>1, <2>2 DEF IInv, TypeOK, TimersOK, field
  <2>4. ElementDue' /\ RecordsDue' /\ Configured'
    BY <2>1, <2>2 DEF IInv, ElementDue, RecordsDue, Configured, Pending
  <2> QED
    BY <2>1, <2>2, <2>3, <2>4 DEF IInv, UserText, ChildText, FieldText, field
<1> QED
  BY <1>1, <1>2 DEF Insert

LEMMA RerenderKeeps == ASSUME IInv, NEW x \in Texts, Rerender(x) PROVE IInv'
<1>1. /\ default' = x
      /\ raw' = IF dirty THEN raw ELSE x
      /\ told' = IF dirty THEN told ELSE x
      /\ UNCHANGED <<preview, dirty, disabled, connected, editor, author>>
  BY DEF Rerender
<1>2. PreviewTypeOK' /\ (Mounted <=> Mounted') /\ Computed' /\ doc' = doc
  BY <1>1, SameView DEF preview
<1>3. /\ micro' \in Seq(Microtasks)
      /\ \A k \in Microtasks : Pending(k) => Pending(k)'
      /\ records' \subseteq records \cup {"text"}
      /\ "attributes" \in records => "attributes" \in records'
      /\ ~Mounted => UNCHANGED records
      /\ Mounted => "text" \in records' /\ Pending("observe")'
  <2>1. CASE Mounted
    <3>1. records' = records \cup {"text"} /\ Due("observe")
      BY <2>1 DEF Rerender
    <3> QED
      BY <2>1, <3>1, DueStep DEF IInv, Microtasks
  <2>2. CASE ~Mounted
    BY <2>2 DEF Rerender, IInv, TypeOK, Microtasks, Pending
  <2> QED
    BY <2>1, <2>2
<1>4. TypeOK'
  BY <1>1, <1>2, <1>3 DEF IInv, TypeOK, TimersOK, Microtasks, editor
<1>5. ElementDue' /\ RecordsDue' /\ Configured'
  BY <1>1, <1>2, <1>3 DEF IInv, TypeOK, ElementDue, RecordsDue, Configured, Microtasks, editor
<1>6. FieldText'
  BY <1>1, <1>2, <1>3 DEF IInv, FieldText, editor
<1> QED
  BY <1>1, <1>2, <1>4, <1>5, <1>6 DEF IInv, UserText, ChildText

LEMMA DisableKeeps == ASSUME IInv, Disable PROVE IInv'
<1>1. /\ disabled' = ~disabled
      /\ UNCHANGED <<preview, field, connected, editor, history>>
  BY DEF Disable
<1>2. PreviewTypeOK' /\ (Mounted <=> Mounted') /\ Computed' /\ doc' = doc
  BY <1>1, SameView DEF preview
<1>3. /\ micro' \in Seq(Microtasks)
      /\ \A k \in Microtasks : Pending(k) => Pending(k)'
      /\ records' \subseteq records \cup {"attributes"}
      /\ "text" \in records => "text" \in records'
      /\ ~Mounted => UNCHANGED records
      /\ Mounted => "attributes" \in records' /\ Pending("observe")'
  <2>1. CASE Mounted
    <3>1. records' = records \cup {"attributes"} /\ Due("observe")
      BY <2>1 DEF Disable
    <3> QED
      BY <2>1, <3>1, DueStep DEF IInv, Microtasks
  <2>2. CASE ~Mounted
    BY <2>2 DEF Disable, IInv, TypeOK, Microtasks, Pending
  <2> QED
    BY <2>1, <2>2
<1>4. TypeOK'
  BY <1>1, <1>2, <1>3 DEF IInv, TypeOK, TimersOK, Microtasks, editor, field, history
<1>5. ElementDue' /\ RecordsDue' /\ Configured'
  BY <1>1, <1>2, <1>3 DEF IInv, TypeOK, ElementDue, RecordsDue, Configured, Microtasks, editor
<1> QED
  BY <1>1, <1>2, <1>3, <1>4, <1>5 DEF IInv, UserText, ChildText, FieldText, editor, field, history

LEMMA MoveKeeps == ASSUME IInv, Move PROVE IInv'
<1>1. /\ connected' = ~connected
      /\ UNCHANGED <<preview, field, disabled, records, editor, history>>
  BY DEF Move
<1>2. PreviewTypeOK' /\ (Mounted <=> Mounted') /\ Computed' /\ doc' = doc
  BY <1>1, SameView DEF preview
<1>3. /\ micro' \in Seq(Microtasks)
      /\ \A k \in Microtasks : Pending(k) => Pending(k)'
      /\ IF connected THEN Pending("drop")' ELSE Pending("mount")'
  <2>1. PICK m \in Microtasks : m = (IF connected THEN "drop" ELSE "mount") /\ Due(m)
    BY DEF Move, Microtasks
  <2> QED
    BY <2>1, DueStep DEF IInv
<1>4. TypeOK'
  BY <1>1, <1>2, <1>3 DEF IInv, TypeOK, TimersOK, Microtasks, editor, field, history
<1>5. ElementDue' /\ RecordsDue' /\ Configured'
  BY <1>1, <1>2, <1>3 DEF IInv, TypeOK, ElementDue, RecordsDue, Configured, Microtasks, editor
<1> QED
  BY <1>1, <1>2, <1>4, <1>5 DEF IInv, UserText, ChildText, FieldText, editor, field, history

LEMMA ResetKeeps == ASSUME IInv, Reset PROVE IInv'
<1>1. /\ raw' = default /\ dirty' = FALSE /\ author' = "reset"
      /\ timer' = IF Mounted THEN timer + 1 ELSE timer
      /\ Mounted => timer + stray < ResetLimit
      /\ told' = IF Mounted THEN told ELSE default
      /\ UNCHANGED <<preview, default, disabled, connected, micro, records, stray, pristine, editable, menu>>
  BY DEF Reset
<1>2. PreviewTypeOK' /\ (Mounted <=> Mounted') /\ Computed' /\ doc' = doc
  BY <1>1, SameView DEF preview
<1>3. TimersOK' /\ (Mounted => timer' > 0) /\ (~Mounted => timer' = timer)
  BY <1>1, EditorAssumption DEF IInv, TypeOK, TimersOK
<1>4. TypeOK'
  BY <1>1, <1>2, <1>3 DEF IInv, TypeOK, Mounted
<1>5. ElementDue' /\ RecordsDue' /\ Configured'
  BY <1>1, <1>2 DEF IInv, ElementDue, RecordsDue, Configured, Pending
<1>6. FieldText'
  <2>1. Mounted => timer' # 0
    BY <1>3
  <2> QED
    BY <1>1, <1>2, <1>3, <2>1 DEF IInv, FieldText, ChildText
<1> QED
  BY <1>1, <1>2, <1>4, <1>5, <1>6 DEF IInv, UserText, ChildText

LEMMA MountKeeps == ASSUME IInv, Mount PROVE IInv'
<1>1. /\ UNCHANGED <<field, disabled, connected, records, timer, stray, menu, author>>
      /\ Take("mount")
  BY DEF Mount
<1>2. /\ micro' \in Seq(Microtasks)
      /\ Pending("drop") => Pending("drop")'
      /\ Pending("observe") => Pending("observe")'
  BY <1>1, TakeStep DEF IInv, Microtasks
<1>3. CASE connected /\ ~Mounted
  <2>1. Open(raw) /\ pristine' = raw /\ editable' = ~disabled /\ told' = raw
    BY <1>3 DEF Mount
  <2>2. raw \in Texts /\ Lines[raw] \in Nat
    BY TextsAssumption DEF IInv, TypeOK
  <2>3. /\ doc' = raw /\ focus' = FALSE /\ focusState' = FALSE /\ parsed' = TRUE
        /\ sel' \in SUBSET Nat
        /\ inline' = Decorations(raw, TRUE, {}) /\ block' = Blocks(raw, TRUE, {})
    BY <2>1, <2>2 DEF Open, Selections
  <2>4. Mounted'
    BY <2>2, <2>3, TextsAssumption DEF Mounted
  <2>5. PreviewTypeOK'
    <3>1. {} \in SUBSET Nat
      OBVIOUS
    <3>2. inline' \subseteq NodeType \X Nat /\ block' \subseteq NodeType
      BY <2>2, <2>3, <3>1, PreviewTypes
    <3> QED
      BY <2>2, <2>3, <3>2 DEF PreviewTypeOK
  <2>6. Computed'
    <3>1. Active(sel', focusState') = {}
      BY <2>3 DEF Active
    <3> QED
      BY <2>3, <2>4, <3>1 DEF Computed
  <2>7. TypeOK'
    BY <1>1, <1>2, <2>1, <2>2, <2>4, <2>5 DEF IInv, TypeOK, TimersOK, Microtasks, field
  <2>8. ElementDue' /\ RecordsDue' /\ Configured'
    BY <1>1, <1>2, <1>3, <2>1, <2>4 DEF IInv, ElementDue, RecordsDue, Configured
  <2>9. timer = 0
    BY <1>3 DEF IInv, TypeOK
  <2> QED
    BY <1>1, <1>3, <2>1, <2>3, <2>4, <2>6, <2>7, <2>8, <2>9 DEF IInv, UserText, ChildText, FieldText, field
<1>4. CASE ~(connected /\ ~Mounted)
  <2>1. UNCHANGED <<preview, pristine, editable, told>>
    BY <1>4 DEF Mount
  <2>2. PreviewTypeOK' /\ (Mounted <=> Mounted') /\ Computed' /\ doc' = doc
    BY <2>1, SameView DEF preview
  <2>3. TypeOK'
    BY <1>1, <1>2, <2>1, <2>2 DEF IInv, TypeOK, TimersOK, Microtasks, field
  <2>4. ElementDue' /\ RecordsDue' /\ Configured'
    BY <1>1, <1>2, <1>4, <2>1, <2>2 DEF IInv, ElementDue, RecordsDue, Configured
  <2> QED
    BY <1>1, <2>1, <2>2, <2>3, <2>4 DEF IInv, UserText, ChildText, FieldText, field
<1> QED
  BY <1>3, <1>4

LEMMA DropKeeps == ASSUME IInv, Drop PROVE IInv'
<1>1. /\ UNCHANGED <<field, disabled, connected, history>>
      /\ Take("drop")
  BY DEF Drop
<1>2. /\ micro' \in Seq(Microtasks)
      /\ Pending("mount") => Pending("mount")'
      /\ Pending("observe") => Pending("observe")'
  BY <1>1, TakeStep DEF IInv, Microtasks
<1>3. CASE ~connected
  <2>1. /\ Close /\ records' = {} /\ Cleared /\ pristine' = NoText
        /\ editable' = FALSE /\ menu' = FALSE
    BY <1>3 DEF Drop
  <2>2. ~Mounted' /\ PreviewTypeOK' /\ Closed'
    BY <2>1 DEF Close, Closed, Mounted, PreviewTypeOK
  <2>3. timer' = 0 /\ TimersOK'
    BY <2>1, EditorAssumption DEF Cleared, IInv, TypeOK, TimersOK
  <2>4. TypeOK'
    BY <1>1, <1>2, <2>1, <2>2, <2>3 DEF IInv, TypeOK, Microtasks, field, history
  <2> QED
    BY <1>1, <1>3, <2>1, <2>2, <2>3, <2>4
    DEF IInv, ElementDue, RecordsDue, Configured, UserText, ChildText, FieldText, Computed, field, history
<1>4. CASE connected
  <2>1. UNCHANGED <<preview, records, editor>>
    BY <1>4 DEF Drop
  <2>2. PreviewTypeOK' /\ (Mounted <=> Mounted') /\ Computed' /\ doc' = doc
    BY <2>1, SameView DEF preview
  <2>3. TypeOK'
    BY <1>1, <1>2, <2>1, <2>2 DEF IInv, TypeOK, TimersOK, Microtasks, field, history, editor
  <2>4. ElementDue' /\ RecordsDue' /\ Configured'
    BY <1>1, <1>2, <1>4, <2>1, <2>2 DEF IInv, ElementDue, RecordsDue, Configured, editor
  <2> QED
    BY <1>1, <2>1, <2>2, <2>3, <2>4 DEF IInv, UserText, ChildText, FieldText, field, history, editor
<1>5. connected \in BOOLEAN
  BY DEF IInv, TypeOK
<1> QED
  BY <1>3, <1>4, <1>5

LEMMA ObserveKeeps == ASSUME IInv, Observe PROVE IInv'
<1>1. /\ Take("observe")
      /\ editable' = (IF "attributes" \in records THEN ~disabled ELSE editable)
      /\ records' = {}
      /\ UNCHANGED <<focus, disabled, connected, timer, stray>>
      /\ IF "text" \in records THEN Follow ELSE Unwritten /\ UNCHANGED pristine
  BY DEF Observe
<1>2. /\ micro' \in Seq(Microtasks)
      /\ Pending("mount") => Pending("mount")'
      /\ Pending("drop") => Pending("drop")'
  BY <1>1, TakeStep DEF IInv, Microtasks
<1>3. RecordsDue'
  BY <1>1 DEF RecordsDue
<1>4. CASE "text" \in records /\ doc = pristine /\ raw # pristine
  <2>1. Mounted /\ raw \in Texts /\ raw # doc
    BY <1>4 DEF IInv, TypeOK
  <2>2. Update(raw, "page", FALSE) /\ pristine' = raw
    BY <1>1, <1>4, <2>1 DEF Follow, SetValue
  <2>3. /\ doc' \in Texts /\ sel' \subseteq Nat /\ parsed' \in BOOLEAN /\ focusState' \in BOOLEAN
        /\ inline' \subseteq NodeType \X Nat /\ block' \subseteq NodeType
        /\ raw' = doc' /\ told' = doc' /\ dirty' = TRUE /\ author' \in {"page", "app"}
        /\ menu' = FALSE /\ UNCHANGED default
        /\ Mounted' /\ Computed'
    BY <2>1, <2>2, UpdateStep DEF IInv, Authors
  <2>4. TypeOK'
    BY <1>1, <1>2, <2>1, <2>2, <2>3 DEF IInv, TypeOK, TimersOK, PreviewTypeOK, Microtasks
  <2>5. ElementDue' /\ Configured'
    BY <1>1, <1>2, <2>1, <2>3 DEF IInv, ElementDue, Configured
  <2> QED
    BY <1>3, <2>3, <2>4, <2>5 DEF IInv, UserText, ChildText, FieldText
<1>5. CASE ~("text" \in records /\ doc = pristine /\ raw # pristine)
  <2>1. /\ UNCHANGED <<preview, field, author, told, menu>>
        /\ pristine' = IF "text" \in records THEN raw ELSE pristine
    BY <1>1, <1>5 DEF Follow, Unwritten, preview
  <2>2. PreviewTypeOK' /\ (Mounted <=> Mounted') /\ Computed' /\ doc' = doc
    BY <2>1, SameView DEF preview
  <2>3. ("text" \in records \/ "attributes" \in records) => Mounted
    BY DEF IInv, TypeOK
  <2>4. TypeOK'
    BY <1>1, <1>2, <2>1, <2>2, <2>3 DEF IInv, TypeOK, TimersOK, Microtasks, field
  <2>5. ElementDue' /\ Configured'
    BY <1>1, <1>2, <2>2 DEF IInv, ElementDue, Configured
  <2>6. FieldText'
    BY <1>1, <1>5, <2>1, <2>2 DEF IInv, FieldText, field
  <2> QED
    BY <1>3, <2>1, <2>2, <2>4, <2>5, <2>6 DEF IInv, UserText, ChildText, field
<1> QED
  BY <1>4, <1>5

LEMMA UserEditKeeps == ASSUME IInv, NEW x \in Texts, UserEdit(x) PROVE IInv'
<1>1. Mounted /\ focus' \in BOOLEAN /\ TimersOK' /\ Update(x, "user", TRUE)
  BY DEF UserEdit, IInv, TypeOK, PreviewTypeOK, TimersOK
<1> QED
  BY <1>1, UpdateKeeps DEF UserEdit, Authors

LEMMA ApplyKeeps == ASSUME IInv, NEW x \in Texts, Apply(x) PROVE IInv'
<1>1. Mounted /\ focus' \in BOOLEAN /\ TimersOK' /\ Update(x, "user", TRUE)
  BY DEF Apply, IInv, TypeOK, PreviewTypeOK, TimersOK
<1> QED
  BY <1>1, UpdateKeeps DEF Apply, Authors

LEMMA ResetTimerKeeps == ASSUME IInv, ResetTimer PROVE IInv'
<1>1. Mounted /\ raw \in Texts /\ TimersOK'
  <2>1. timer > 0 /\ timer' = timer - 1 /\ UNCHANGED stray /\ TimersOK
    BY DEF ResetTimer, IInv, TypeOK
  <2>2. TimersOK' /\ timer # 0
    BY <2>1, EditorAssumption DEF TimersOK
  <2> QED
    BY <2>2 DEF IInv, TypeOK
<1>2. CASE raw # doc
  <2>1. Update(raw, "reset", TRUE) /\ focus' \in BOOLEAN
    BY <1>2 DEF ResetTimer, SetValue, IInv, TypeOK, PreviewTypeOK
  <2> QED
    BY <1>1, <2>1, UpdateKeeps DEF ResetTimer, Authors
<1>3. CASE raw = doc
  <2>1. /\ UNCHANGED <<preview, field, author, told, menu>>
        /\ UNCHANGED <<disabled, connected, micro, records, pristine, editable>>
    BY <1>3 DEF ResetTimer, SetValue, Unwritten, preview
  <2>2. PreviewTypeOK' /\ (Mounted <=> Mounted') /\ Computed' /\ doc' = doc
    BY <2>1, SameView DEF preview
  <2>3. TypeOK'
    BY <1>1, <2>1, <2>2 DEF IInv, TypeOK, field
  <2>4. ElementDue' /\ RecordsDue' /\ Configured'
    BY <2>1, <2>2 DEF IInv, ElementDue, RecordsDue, Configured, Pending
  <2> QED
    BY <1>1, <1>3, <2>1, <2>2, <2>3, <2>4 DEF IInv, UserText, ChildText, FieldText, field
<1> QED
  BY <1>2, <1>3

LEMMA StrayTimerKeeps == ASSUME IInv, StrayTimer PROVE IInv'
<1>1. /\ stray' = stray - 1 /\ stray > 0
      /\ UNCHANGED <<preview, field, disabled, connected, micro, records, timer, pristine, editable, menu, history>>
  BY DEF StrayTimer
<1>2. PreviewTypeOK' /\ (Mounted <=> Mounted') /\ Computed' /\ doc' = doc
  BY <1>1, SameView DEF preview
<1>3. TimersOK'
  BY <1>1, EditorAssumption DEF IInv, TypeOK, TimersOK
<1>4. TypeOK'
  BY <1>1, <1>2, <1>3 DEF IInv, TypeOK, field, history
<1>5. ElementDue' /\ RecordsDue' /\ Configured'
  BY <1>1, <1>2 DEF IInv, ElementDue, RecordsDue, Configured, Pending
<1> QED
  BY <1>1, <1>2, <1>4, <1>5 DEF IInv, UserText, ChildText, FieldText, field, history

LEMMA OpenMenuKeeps == ASSUME IInv, OpenMenu PROVE IInv'
<1>1. /\ menu' = TRUE
      /\ UNCHANGED <<preview, field, disabled, connected, micro, records, timer, stray, pristine, editable, history>>
  BY DEF OpenMenu
<1>2. PreviewTypeOK' /\ (Mounted <=> Mounted') /\ Computed' /\ doc' = doc
  BY <1>1, SameView DEF preview
<1>3. Mounted
  BY DEF OpenMenu, IInv, TypeOK
<1>4. TypeOK'
  BY <1>1, <1>2, <1>3 DEF IInv, TypeOK, TimersOK, field, history
<1>5. ElementDue' /\ RecordsDue' /\ Configured'
  BY <1>1, <1>2 DEF IInv, ElementDue, RecordsDue, Configured, Pending
<1> QED
  BY <1>1, <1>2, <1>4, <1>5 DEF IInv, UserText, ChildText, FieldText, field, history

\* What the user does in the view keeps its text, and previews of it.
LEMMA ViewStep ==
    ASSUME IInv, View
    PROVE  PreviewTypeOK' /\ Mounted /\ Mounted' /\ Computed' /\ doc' = doc
<1>1. Mounted
  BY DEF View, Select, ClickWidget, FocusMoves, FocusReported, Parsed, IInv, Computed, Closed, Mounted
<1>2. /\ doc \in Texts /\ Lines[doc] \in Nat /\ sel \in SUBSET Nat
      /\ focus \in BOOLEAN /\ parsed \in BOOLEAN /\ TypeOK /\ Computed
  BY <1>1, TextsAssumption DEF IInv, TypeOK, PreviewTypeOK, Mounted
<1>3. ASSUME NEW s \in SUBSET Nat, NEW p \in BOOLEAN, Transaction(doc, s, p, focus), focus' \in BOOLEAN
      PROVE  PreviewTypeOK' /\ Mounted' /\ Computed' /\ doc' = doc
  <2>1. /\ doc' = doc /\ sel' = s /\ parsed' = p /\ focusState' = focus
        /\ inline' \subseteq NodeType \X Nat /\ block' \subseteq NodeType
        /\ Mounted' /\ Computed'
    BY <1>1, <1>2, <1>3, TransactionStep
  <2> QED
    BY <1>2, <1>3, <2>1 DEF PreviewTypeOK
<1>4. CASE Select
  <2>1. PICK s \in Selections(doc) : Transaction(doc, s, parsed, focus)
    BY <1>4 DEF Select
  <2>2. s \in SUBSET Nat
    BY <1>2 DEF Selections
  <2>3. focus' \in BOOLEAN
    BY <1>2, <1>4 DEF Select
  <2> QED
    BY <1>1, <1>2, <1>3, <2>1, <2>2, <2>3
<1>5. CASE ClickWidget
  <2>1. PICK n \in block : \E l \in n.lines : Transaction(doc, {l}, parsed, focus) /\ focus' = TRUE
    BY <1>5 DEF ClickWidget
  <2>2. PICK l \in n.lines : Transaction(doc, {l}, parsed, focus) /\ focus' = TRUE
    BY <2>1
  <2>3. {l} \in SUBSET Nat
    BY <1>2 DEF TypeOK, PreviewTypeOK, NodeType
  <2> QED
    BY <1>1, <1>2, <1>3, <2>2, <2>3
<1>6. CASE FocusMoves
  <2>1. /\ UNCHANGED <<doc, sel, focusState, parsed, inline, block>>
        /\ focus' \in BOOLEAN
    BY <1>2, <1>6 DEF FocusMoves
  <2> QED
    BY <1>1, <1>2, <2>1 DEF TypeOK, PreviewTypeOK, Computed, Mounted
<1>7. CASE FocusReported
  BY <1>1, <1>2, <1>3, <1>7 DEF FocusReported
<1>8. CASE Parsed
  BY <1>1, <1>2, <1>3, <1>8 DEF Parsed
<1> QED
  BY <1>4, <1>5, <1>6, <1>7, <1>8 DEF View

LEMMA LookKeeps == ASSUME IInv, Look PROVE IInv'
<1>1. /\ View
      /\ menu' = (menu /\ sel' = sel)
      /\ UNCHANGED <<field, disabled, connected, micro, records, timer, stray, pristine, editable, history>>
  BY DEF Look
<1>2. PreviewTypeOK' /\ Mounted /\ Mounted' /\ Computed' /\ doc' = doc
  BY <1>1, ViewStep
<1>3. TypeOK'
  BY <1>1, <1>2 DEF IInv, TypeOK, TimersOK, field, history
<1>4. ElementDue' /\ RecordsDue' /\ Configured'
  BY <1>1, <1>2 DEF IInv, ElementDue, RecordsDue, Configured, Pending
<1> QED
  BY <1>1, <1>2, <1>3, <1>4 DEF IInv, UserText, ChildText, FieldText, field, history

LEMMA StutterKeeps == ASSUME IInv, UNCHANGED vars PROVE IInv'
<1>1. UNCHANGED <<preview, field, disabled, connected, micro, records, editor, history>>
  BY DEF vars
<1>2. PreviewTypeOK' /\ (Mounted <=> Mounted') /\ Computed' /\ doc' = doc
  BY <1>1, SameView DEF preview
<1>3. TypeOK'
  BY <1>1, <1>2 DEF IInv, TypeOK, TimersOK, field, history, editor
<1>4. ElementDue' /\ RecordsDue' /\ Configured'
  BY <1>1, <1>2 DEF IInv, ElementDue, RecordsDue, Configured, Pending, editor
<1> QED
  BY <1>1, <1>2, <1>3, <1>4 DEF IInv, UserText, ChildText, FieldText, field, history, editor

LEMMA IInvInductive == IInv /\ [Next]_vars => IInv'
<1> SUFFICES ASSUME IInv, [Next]_vars PROVE IInv'
  OBVIOUS
<1>1. CASE UNCHANGED vars
  BY <1>1, StutterKeeps
<1>2. CASE \E x \in Texts : Write(x) \/ Insert(x) \/ Rerender(x) \/ UserEdit(x) \/ Apply(x)
  BY <1>2, WriteKeeps, InsertKeeps, RerenderKeeps, UserEditKeeps, ApplyKeeps
<1>3. CASE Disable \/ Move \/ Reset
  BY <1>3, DisableKeeps, MoveKeeps, ResetKeeps
<1>4. CASE Mount \/ Drop \/ Observe
  BY <1>4, MountKeeps, DropKeeps, ObserveKeeps
<1>5. CASE ResetTimer \/ StrayTimer \/ OpenMenu \/ Look
  BY <1>5, ResetTimerKeeps, StrayTimerKeeps, OpenMenuKeeps, LookKeeps
<1> QED
  BY <1>1, <1>2, <1>3, <1>4, <1>5 DEF Next

\* The parts of the invariant hold in every state.
THEOREM Invariance == Spec => []IInv
<1>1. Init => IInv
  BY InitIInv
<1>2. IInv /\ [Next]_vars => IInv'
  BY IInvInductive
<1> QED
  BY <1>1, <1>2, PTL DEF Spec

-----------------------------------------------------------------------------
(* The theorems.                                                             *)

\* The field, its view and what is due have their types, and a destroyed editor
\* leaves no observer, no open menu and no timer that acts on the field (destroy:
\* the timers of resets before the last run on, and find a destroyed view).
THEOREM TypeCorrect == Spec => []TypeOK
<1>1. IInv => TypeOK
  BY DEF IInv
<1> QED
  BY <1>1, Invariance, PTL

\* With nothing due, the editor is mounted exactly while its element is in the
\* document, and the textarea holds the view's text (updateListener, setValue).
THEOREM StaysInSync == Spec => []InSync
<1>1. ASSUME IInv, Quiet PROVE Mounted <=> connected
  <2>1. ~Pending("mount") /\ ~Pending("drop") /\ connected \in BOOLEAN
    BY <1>1, QuietStep DEF Microtasks, IInv, TypeOK
  <2> QED
    BY <1>1, <2>1 DEF IInv, ElementDue, Mounted
<1>2. ASSUME IInv, Quiet, Mounted, timer = 0, dirty \/ doc = pristine PROVE raw = doc /\ told = raw
  <2>1. records = {}
    BY <1>2, QuietStep DEF Microtasks, IInv, RecordsDue
  <2> QED
    BY <1>2, <2>1 DEF IInv, FieldText
<1>3. IInv => InSync
  BY <1>1, <1>2 DEF InSync
<1> QED
  BY <1>3, Invariance, PTL

\* Nothing is hidden on a line being edited, and exactly the tables and diagrams
\* that are not edited are replaced, whatever the syntax (decorations, blocks).
THEOREM PreviewFollows == Spec => []PreviewFollowsCursor
<1>1. ASSUME IInv, doc # NoText, focus = focusState PROVE PreviewFollowsCursor
  <2> DEFINE active == Active(sel, focus)
  <2>1. /\ inline = Decorations(doc, parsed, active)
        /\ block = Blocks(doc, parsed, active)
    BY <1>1 DEF IInv, Computed, Mounted
  <2>2. active = IF focus THEN sel ELSE {}
    BY DEF Active
  <2>3. ASSUME NEW m \in inline PROVE ~(focus /\ {m[2]} \cap sel # {})
    <3>1. m[2] \notin active
      BY <2>1, <2>3 DEF Decorations
    <3> QED
      BY <2>2, <3>1
  <2>4. ASSUME NEW n \in Nodes[doc], n.kind \in {"table", "diagram"}, parsed \/ n.lines = {1}
        PROVE  n \in block <=> ~(focus /\ n.lines \cap sel # {})
    <3>1. n \in Tree(doc, parsed)
      BY <2>4 DEF Tree
    <3>2. n \in block <=> n.lines \cap active = {}
      BY <2>1, <2>4, <3>1 DEF Blocks
    <3> QED
      BY <2>2, <3>2
  <2>5. block \subseteq Nodes[doc]
    BY <2>1 DEF Blocks, Tree
  <2> QED
    BY <2>3, <2>4, <2>5 DEF PreviewFollowsCursor
<1>2. IInv => PreviewFollowsCursor
  BY <1>1 DEF PreviewFollowsCursor
<1> QED
  BY <1>2, Invariance, PTL

\* No re-render changes the text that the user wrote (follow).
THEOREM EditsSurvive == Spec => EditsKept
<1>1. ASSUME IInv, author = "user", Observe PROVE UNCHANGED <<doc, raw>>
  <2>1. CASE "text" \in records
    <3>1. Follow /\ Mounted
      BY <1>1, <2>1 DEF Observe, IInv, TypeOK
    <3>2. raw = doc
      BY <1>1, <3>1 DEF IInv, UserText
    <3> QED
      BY <3>1, <3>2 DEF Follow, Unwritten, field
  <2>2. CASE "text" \notin records
    BY <1>1, <2>2 DEF Observe, Unwritten, field
  <2> QED
    BY <2>1, <2>2
<1>2. ASSUME IInv, author = "user", NEW x \in Texts, Rerender(x) PROVE UNCHANGED <<doc, raw>>
  BY <1>2 DEF IInv, UserText, Rerender, preview
<1>3. IInv /\ [Next]_vars =>
        [(Observe \/ \E x \in Texts : Rerender(x)) /\ author = "user" => UNCHANGED <<doc, raw>>]_vars
  BY <1>1, <1>2
<1> QED
  BY <1>3, Invariance, PTL DEF Spec, EditsKept

\* No edit, insertion or slash command of the user reaches a locked field: the
\* view is never configured for an older lock when an event runs (locked, apply).
THEOREM LocksHold == Spec => LockHolds
<1> DEFINE Held == doc' \notin {doc, NoText} /\ author' = "user" /\ Mounted => ~disabled
<1>1. ASSUME IInv, Quiet, editable PROVE ~disabled
  <2>1. records = {}
    BY <1>1, QuietStep DEF Microtasks, IInv, RecordsDue
  <2>2. Mounted /\ disabled \in BOOLEAN
    BY <1>1 DEF IInv, TypeOK
  <2> QED
    BY <1>1, <2>1, <2>2 DEF IInv, Configured
<1>2. ASSUME IInv, NEW x \in Texts, NEW by \in {"page", "reset", "app"}, NEW notify \in BOOLEAN,
             Update(x, by, notify)
      PROVE  author' # "user"
  BY <1>2 DEF Update
<1>3. ASSUME IInv, NEW x \in Texts, Write(x) PROVE Held
  BY <1>2, <1>3 DEF Write
<1>4. ASSUME IInv, NEW x \in Texts, Insert(x) \/ UserEdit(x) \/ Apply(x) PROVE Held
  BY <1>1, <1>4 DEF Insert, UserEdit, Apply
<1>5. ASSUME IInv, NEW x \in Texts, Rerender(x) PROVE Held
  BY <1>5 DEF Rerender, preview
<1>6. ASSUME IInv, Disable \/ Move \/ Reset PROVE Held
  BY <1>6 DEF Disable, Move, Reset, preview
<1>7. ASSUME IInv, Mount \/ Drop PROVE Held
  BY <1>7 DEF Mount, Drop, Close, preview
<1>8. ASSUME IInv, Observe PROVE Held
  <2>1. CASE Update(raw, "page", FALSE)
    BY <1>2, <1>8, <2>1 DEF IInv, TypeOK
  <2>2. CASE Unwritten
    BY <2>2 DEF Unwritten
  <2> QED
    BY <1>8, <2>1, <2>2 DEF Observe, Follow, SetValue
<1>9. ASSUME IInv, ResetTimer PROVE Held
  <2>1. CASE Update(raw, "reset", TRUE)
    BY <1>2, <1>9, <2>1 DEF IInv, TypeOK
  <2>2. CASE Unwritten
    BY <2>2 DEF Unwritten
  <2> QED
    BY <1>9, <2>1, <2>2 DEF ResetTimer, SetValue
<1>10. ASSUME IInv, StrayTimer \/ OpenMenu \/ Look PROVE Held
  BY <1>10, ViewStep DEF StrayTimer, OpenMenu, Look, preview
<1>11. IInv /\ [Next]_vars => [Held]_vars
  BY <1>3, <1>4, <1>5, <1>6, <1>7, <1>8, <1>9, <1>10 DEF Next
<1> QED
  BY <1>11, Invariance, PTL DEF Spec, LockHolds
=============================================================================
