----------------------------- MODULE LivePreview -----------------------------
(***************************************************************************)
(* The live preview of oxidt-markdown-editor: what markdown-editor.js hides  *)
(* and replaces of the Markdown, away from the lines being edited.           *)
(*                                                                           *)
(* A text is a name; what the previews read of it is its lines and its       *)
(* syntax nodes: for each the lines it covers, and those with marks (its      *)
(* delimiters, URL or bullet) that a preview hides.  The whole text is in the *)
(* viewport.  CodeMirror is external: it runs the updates below with every    *)
(* transaction, reports a change of focus with a transaction of its own or    *)
(* with the next one, and parses a long text in the background.               *)
(***************************************************************************)
EXTENDS Naturals, FiniteSets

CONSTANTS
    Texts,
    NoText,
    Lines,      \* the number of lines of each text
    Nodes       \* its syntax nodes, records of the fields in NodeType

Kinds == {"heading", "emphasis", "code", "link", "image", "bullet", "html", "table", "diagram"}

\* within: the kind of the node around this one, or "none".
NodeType == [kind : Kinds, within : Kinds \cup {"none"}, lines : SUBSET Nat, marks : SUBSET Nat]

ASSUME TextsAssumption ==
    /\ NoText \notin Texts
    /\ Lines \in [Texts -> Nat \ {0}]
    /\ Nodes \in [Texts -> SUBSET NodeType]
    /\ \A x \in Texts : \A n \in Nodes[x] : n.marks \subseteq n.lines /\ n.lines \subseteq 1 .. Lines[x]

VARIABLES
    doc,        \* the text of the view, or NoText without one
    sel,        \* the lines of the selection
    focus,      \* view.hasFocus
    focusState, \* the focus mirrored into the state
    parsed,     \* the syntax tree covers the text
    inline,     \* livePreview.decorations: the marks hidden or replaced
    block       \* blockPreview: the nodes replaced by a widget

preview == <<doc, sel, focus, focusState, parsed, inline, block>>

-----------------------------------------------------------------------------

\* The lines from a to b.
Selections(x) == {a .. b : a, b \in 1 .. Lines[x]} \ {{}}

\* activeLines
Active(s, f) == IF f THEN s ELSE {}

\* syntaxTree: parsing gets past the first line at least.
Tree(x, p) == {n \in Nodes[x] : p \/ n.lines = {1}}

\* Nodes whose children are not visited.
Opaque == {"image", "html", "table", "code", "diagram"}

\* Each mark hides on its own line; or all of them, with no line being edited.
Apart == {"heading", "emphasis", "code"}
Together == {"link", "image", "bullet", "diagram"}

\* decorations
Decorations(x, p, active) ==
    {m \in Tree(x, p) \X (1 .. Lines[x]) :
        LET n == m[1] IN
        /\ n.within \notin Opaque
        /\ m[2] \in n.marks \ active
        /\ n.kind \in Apart \/ (n.kind \in Together /\ n.lines \cap active = {})}

\* blocks
Blocks(x, p, active) ==
    {n \in Tree(x, p) : n.kind \in {"table", "diagram"} /\ n.lines \cap active = {}}

\* Mutant of Transaction: a change of focus alone computes nothing.
TransactionIgnoringFocus(x, s, p, f) ==
    LET changed == x # doc \/ s # sel \/ p # parsed
    IN  /\ doc' = x
        /\ sel' = s
        /\ parsed' = p
        /\ focusState' = f
        /\ inline' = IF changed THEN Decorations(x, p, Active(s, f)) ELSE inline
        /\ block' = IF changed THEN Blocks(x, p, Active(s, f)) ELSE block

\* A transaction: the text, the selection and the tree it leaves, and whether
\* the view has the focus.  Each preview is computed again when one of them has
\* changed.
Transaction(x, s, p, f) ==
    LET changed == x # doc \/ s # sel \/ p # parsed \/ f # focusState
    IN  /\ doc' = x
        /\ sel' = s
        /\ parsed' = p
        /\ focusState' = f
        /\ inline' = IF changed THEN Decorations(x, p, Active(s, f)) ELSE inline
        /\ block' = IF changed THEN Blocks(x, p, Active(s, f)) ELSE block

\* One that changes the text: it may leave any selection in it (what was selected
\* whole stays selected when it is replaced), and the tree may lag behind.
Edit(x) == \E s \in Selections(x), p \in BOOLEAN : Transaction(x, s, p, focus)

\* Mounting the view on the textarea's selection: the previews start without the
\* focus.
Open(x) ==
    /\ doc' = x
    /\ focus' = FALSE
    /\ focusState' = FALSE
    /\ parsed' = TRUE
    /\ sel' \in Selections(x)
    /\ inline' = Decorations(x, TRUE, {})
    /\ block' = Blocks(x, TRUE, {})

Close ==
    /\ doc' = NoText
    /\ sel' = {}
    /\ focus' = FALSE
    /\ focusState' = FALSE
    /\ parsed' = TRUE
    /\ inline' = {}
    /\ block' = {}

Closed ==
    /\ doc = NoText
    /\ sel = {}
    /\ focus = FALSE
    /\ focusState = FALSE
    /\ parsed = TRUE
    /\ inline = {}
    /\ block = {}

-----------------------------------------------------------------------------
(* What touches nothing but the view.                                        *)

\* The user moves the selection, in the view that has the focus.
Select ==
    /\ focus
    /\ UNCHANGED focus
    /\ \E s \in Selections(doc) : Transaction(doc, s, parsed, focus)

\* A click on a widget moves the cursor to its first line, then takes the focus.
ClickWidget ==
    \E n \in block : \E l \in n.lines :
        /\ \A k \in n.lines : l <= k
        /\ Transaction(doc, {l}, parsed, focus)
        /\ focus' = TRUE

\* The focus comes or goes, unnoticed yet.
FocusMoves ==
    /\ doc # NoText
    /\ focus' = ~focus
    /\ UNCHANGED <<doc, sel, focusState, parsed, inline, block>>

\* CodeMirror reports it: focusChangeEffect.
FocusReported ==
    /\ focus # focusState
    /\ UNCHANGED focus
    /\ Transaction(doc, sel, parsed, focus)

\* The background parser is done.
Parsed ==
    /\ ~parsed
    /\ UNCHANGED focus
    /\ Transaction(doc, sel, TRUE, focus)

View == Select \/ ClickWidget \/ FocusMoves \/ FocusReported \/ Parsed

-----------------------------------------------------------------------------

PreviewTypeOK ==
    /\ doc \in Texts \cup {NoText}
    /\ sel \subseteq Nat
    /\ {focus, focusState, parsed} \subseteq BOOLEAN
    /\ inline \subseteq NodeType \X Nat
    /\ block \subseteq NodeType

\* "Syntax stays visible on selected lines and reappears when the cursor returns
\* to a line", "Leaving the block restores the preview": once the focus is
\* reported, nothing is hidden or replaced on a line being edited, and every
\* table and diagram that the parser knows is replaced unless it is edited.
PreviewFollowsCursor ==
    doc # NoText /\ focus = focusState =>
        LET edited(ls) == focus /\ ls \cap sel # {}
        IN  /\ \A m \in inline : ~edited({m[2]})
            /\ \A n \in Nodes[doc] :
                   n.kind \in {"table", "diagram"} /\ (parsed \/ n.lines = {1}) =>
                       (n \in block <=> ~edited(n.lines))
            /\ block \subseteq Nodes[doc]

=============================================================================
