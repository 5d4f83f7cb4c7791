--------------------------- MODULE MarkdownEditor ---------------------------
(***************************************************************************)
(* oxidt-markdown-editor's field: a textarea, the CodeMirror view that       *)
(* mountEditor keeps in step with it, and the custom element that mounts and *)
(* destroys the editor.                                                      *)
(*                                                                           *)
(* The browser is external.  It runs a script (the application's, or a       *)
(* framework's) to its end, then its microtasks in order, then the next      *)
(* event or timer.  A textarea follows the text of its children until its    *)
(* value is set (dirty); a form reset goes back to that text.                *)
(*                                                                           *)
(* Undo and redo are transactions like an edit that the length filter lets   *)
(* through.  Attributes other than disabled and readonly, the selection      *)
(* mirrored into the textarea and the field's move to another fieldset are   *)
(* left out.                                                                 *)
(***************************************************************************)
EXTENDS LivePreview, Sequences

CONSTANTS
    Size,       \* the length of each text
    Limit,      \* maxlength
    Commands,   \* the lines of each text that hold a slash command alone
    ResetLimit  \* bound: the reset timers that run at once

ASSUME EditorAssumption ==
    /\ Size \in [Texts -> Nat]
    /\ Limit \in Nat
    /\ Commands \in [Texts -> SUBSET Nat]
    /\ ResetLimit \in Nat

VARIABLES
    raw,        \* the value of the textarea
    dirty,      \* ... which was set, and no longer follows its children
    default,    \* the text of its children
    disabled,   \* :disabled, of the field or its fieldset, or readonly
    connected,  \* the element is in the document
    micro,      \* the microtasks due, in order
    records,    \* the mutations the observers have not seen
    timer,      \* the reset timers that run, of this editor
    stray,      \* ... and of editors that were destroyed
    pristine,
    editable,   \* what the view was configured with
    menu,       \* the slash menu is open
    author,     \* history: who wrote the text: the page it was rendered in, a
                \* reset, the application or the user
    told        \* history: the value the application wrote, rendered or was told

field == <<raw, dirty, default>>
history == <<author, told>>
editor == <<timer, stray, pristine, editable, menu>>
vars == <<preview, field, disabled, connected, micro, records, editor, history>>

-----------------------------------------------------------------------------

Mounted == doc # NoText

Quiet == micro = <<>>

Due(m) == micro' = IF \E i \in DOMAIN micro : micro[i] = m THEN micro ELSE Append(micro, m)

\* The transaction filter, of a user's edit.
Fits(x) == Size[x] <= Limit \/ Size[x] <= Size[doc]

\* updateListener: the textarea takes the text of the view; with notify an input
\* event tells the application, whose listener may write another at once.
Update(x, by, notify) ==
    \E y \in IF notify THEN Texts ELSE {x} :
        /\ Edit(y)
        /\ raw' = y
        /\ dirty' = TRUE
        /\ author' = IF y = x THEN by ELSE "app"
        /\ told' = IF notify \/ author' \in {"app", "page"} THEN y ELSE told
        /\ menu' = FALSE
        /\ UNCHANGED default

\* No transaction.
Unwritten == UNCHANGED <<doc, sel, focusState, parsed, inline, block, field, author, told, menu>>

\* Mutant of SetValue: every write is silent.
SetValueSilently(x, by, notify) ==
    \/ /\ x # doc
       /\ Update(x, by, FALSE)
    \/ /\ x = doc
       /\ Unwritten

\* api.setValue
SetValue(x, by, notify) ==
    \/ /\ x # doc
       /\ Update(x, by, notify)
    \/ /\ x = doc
       /\ Unwritten

-----------------------------------------------------------------------------
(* The application and the framework.                                        *)

\* textarea.value = x, or setValue(x, false)
Write(x) ==
    /\ IF Mounted /\ x # doc
       THEN Update(x, "app", FALSE)
       ELSE /\ raw' = x
            /\ dirty' = TRUE
            /\ author' = "app"
            /\ told' = x
            /\ UNCHANGED <<doc, sel, focusState, parsed, inline, block, default, menu>>
    /\ UNCHANGED <<focus, disabled, connected, micro, records, timer, stray, pristine, editable>>

\* api.insert: x is the text with the insertion; the view takes the focus.
Insert(x) ==
    /\ Mounted
    /\ ~disabled
    /\ \/ /\ x # doc
          /\ Fits(x)
          /\ Update(x, "user", TRUE)
       \/ /\ ~Fits(x)
          /\ Unwritten
    /\ focus' = TRUE
    /\ UNCHANGED <<disabled, connected, micro, records, timer, stray, pristine, editable>>

\* The framework renders x as the text of the textarea.
Rerender(x) ==
    /\ default' = x
    /\ raw' = IF dirty THEN raw ELSE x
    /\ told' = IF dirty THEN told ELSE x
    /\ IF Mounted
       THEN records' = records \cup {"text"} /\ Due("observe")
       ELSE UNCHANGED <<records, micro>>
    /\ UNCHANGED <<preview, dirty, disabled, connected, editor, author>>

Disable ==
    /\ disabled' = ~disabled
    /\ IF Mounted
       THEN records' = records \cup {"attributes"} /\ Due("observe")
       ELSE UNCHANGED <<records, micro>>
    /\ UNCHANGED <<preview, field, connected, editor, history>>

\* connectedCallback and disconnectedCallback
Move ==
    /\ connected' = ~connected
    /\ Due(IF connected THEN "drop" ELSE "mount")
    /\ UNCHANGED <<preview, field, disabled, records, editor, history>>

\* The form is reset, by its button or a script: each reset of a mounted editor
\* starts a timer, and forgets the handle of the one before.
Reset ==
    /\ connected
    /\ Mounted => timer + stray < ResetLimit
    /\ raw' = default
    /\ dirty' = FALSE
    /\ timer' = IF Mounted THEN timer + 1 ELSE timer
    /\ author' = "reset"
    /\ told' = IF Mounted THEN told ELSE default
    /\ UNCHANGED <<preview, default, disabled, connected, micro, records, stray, pristine, editable, menu>>

-----------------------------------------------------------------------------
(* Microtasks.                                                               *)

Take(m) ==
    /\ ~Quiet
    /\ Head(micro) = m
    /\ micro' = Tail(micro)

Mount ==
    /\ Take("mount")
    /\ IF connected /\ ~Mounted
       THEN /\ Open(raw)
            /\ pristine' = raw
            /\ editable' = ~disabled
            /\ told' = raw
       ELSE UNCHANGED <<preview, pristine, editable, told>>
    /\ UNCHANGED <<field, disabled, connected, records, timer, stray, menu, author>>

\* The last reset timer is cleared; the earlier ones run on.
Cleared ==
    /\ timer' = 0
    /\ stray' = IF timer = 0 THEN stray ELSE stray + timer - 1

\* Mutant of Drop: destroy leaves the follow observer connected.
DropObserving ==
    /\ Take("drop")
    /\ IF ~connected
       THEN /\ Close
            /\ Cleared
            /\ records' = records \ {"attributes"}
            /\ pristine' = NoText
            /\ editable' = FALSE
            /\ menu' = FALSE
       ELSE UNCHANGED <<preview, records, editor>>
    /\ UNCHANGED <<field, disabled, connected, history>>

\* disconnectedCallback's microtask and destroy
Drop ==
    /\ Take("drop")
    /\ IF ~connected
       THEN /\ Close
            /\ Cleared
            /\ records' = {}
            /\ pristine' = NoText
            /\ editable' = FALSE
            /\ menu' = FALSE
       ELSE UNCHANGED <<preview, records, editor>>
    /\ UNCHANGED <<field, disabled, connected, history>>

\* Mutant of Follow: whatever the page renders replaces what is edited.
FollowDefault ==
    /\ pristine' = default
    /\ SetValue(default, "page", FALSE)

\* The follow observer, of an editor that still shows what the page rendered.
Follow ==
    /\ pristine' = raw
    /\ IF doc = pristine /\ raw # pristine
       THEN SetValue(raw, "page", FALSE)
       ELSE Unwritten

\* The mutation observers: follow, then controls.
Observe ==
    /\ Take("observe")
    /\ IF "text" \in records
       THEN Follow
       ELSE Unwritten /\ UNCHANGED pristine
    /\ editable' = IF "attributes" \in records THEN ~disabled ELSE editable
    /\ records' = {}
    /\ UNCHANGED <<focus, disabled, connected, timer, stray>>

-----------------------------------------------------------------------------
(* The user and the timers.                                                  *)

UserEdit(x) ==
    /\ Quiet
    /\ focus
    /\ editable
    /\ x # doc
    /\ Fits(x)
    /\ Update(x, "user", TRUE)
    /\ UNCHANGED <<focus, disabled, connected, micro, records, timer, stray, pristine, editable>>

ResetTimer ==
    /\ Quiet
    /\ timer > 0
    /\ timer' = timer - 1
    /\ SetValue(raw, "reset", TRUE)
    /\ UNCHANGED <<focus, disabled, connected, micro, records, stray, pristine, editable>>

\* It calls setValue of a destroyed view, which changes nothing.
StrayTimer ==
    /\ Quiet
    /\ stray > 0
    /\ stray' = stray - 1
    /\ UNCHANGED <<preview, field, disabled, connected, micro, records, timer, pristine, editable, menu, history>>

\* slashSource: a command alone on the line of the cursor, and not in code or HTML.
OpenMenu ==
    /\ Quiet
    /\ focus
    /\ editable
    /\ \E l \in Commands[doc] :
          /\ sel = {l}
          /\ \A n \in Tree(doc, parsed) : n.kind \in {"code", "diagram", "html"} => l \notin n.lines
    /\ menu' = TRUE
    /\ UNCHANGED <<preview, field, disabled, connected, micro, records, timer, stray, pristine, editable, history>>

\* Mutant of Apply: the menu trusts that the view it opened in can be edited.
ApplyUnchecked(x) ==
    /\ Quiet
    /\ menu
    /\ x # doc
    /\ Fits(x)
    /\ Update(x, "user", TRUE)
    /\ UNCHANGED <<focus, disabled, connected, micro, records, timer, stray, pristine, editable>>

\* command.apply: x is the text with the command's insertion.
Apply(x) ==
    /\ Quiet
    /\ menu
    /\ editable
    /\ x # doc
    /\ Fits(x)
    /\ Update(x, "user", TRUE)
    /\ UNCHANGED <<focus, disabled, connected, micro, records, timer, stray, pristine, editable>>

\* A change of the selection closes the menu.
Look ==
    /\ Quiet
    /\ View
    /\ menu' = (menu /\ sel' = sel)
    /\ UNCHANGED <<field, disabled, connected, micro, records, timer, stray, pristine, editable, history>>

-----------------------------------------------------------------------------

\* The page is parsed, and the user may have typed before the module ran.
Init ==
    /\ Closed
    /\ default \in Texts
    /\ dirty \in BOOLEAN
    /\ raw \in IF dirty THEN Texts ELSE {default}
    /\ disabled \in BOOLEAN
    /\ connected = TRUE
    /\ micro = <<"mount">>
    /\ records = {}
    /\ timer = 0
    /\ stray = 0
    /\ pristine = NoText
    /\ editable = FALSE
    /\ menu = FALSE
    /\ author = IF dirty THEN "user" ELSE "page"
    /\ told = raw

Next ==
    \/ \E x \in Texts : Write(x) \/ Insert(x) \/ Rerender(x) \/ UserEdit(x) \/ Apply(x)
    \/ Disable \/ Move \/ Reset
    \/ Mount \/ Drop \/ Observe
    \/ ResetTimer \/ StrayTimer \/ OpenMenu \/ Look

Spec == Init /\ [][Next]_vars

-----------------------------------------------------------------------------
(* Properties.                                                               *)

TimersOK == timer \in Nat /\ stray \in Nat /\ timer + stray <= ResetLimit

\* The field, the view on it and what is due; a destroyed editor leaves no
\* observer, no open menu and no timer that acts on the field.
TypeOK ==
    /\ PreviewTypeOK
    /\ {raw, default, told} \subseteq Texts
    /\ pristine \in Texts \cup {NoText}
    /\ {dirty, disabled, connected, editable, menu} \subseteq BOOLEAN
    /\ author \in {"page", "reset", "app", "user"}
    /\ micro \in Seq({"mount", "drop", "observe"})
    /\ records \subseteq {"text", "attributes"}
    /\ TimersOK
    /\ Mounted \/ <<timer, pristine, editable, menu, records>> = <<0, NoText, FALSE, FALSE, {}>>

\* "keeps its value and selection in sync": with nothing due, the editor is
\* mounted exactly while the element is in the document, the textarea holds the
\* text of the view, and the application wrote it, rendered it or was told.  Save
\* where a reset finds the view on the text it goes back to: the field follows
\* its children again, and the view of it may not (see FollowsRerender).
InSync ==
    Quiet => /\ Mounted <=> connected
             /\ Mounted /\ timer = 0 /\ (dirty \/ doc = pristine) => raw = doc /\ told = raw

\* "edits in progress are kept": no re-render changes what the user wrote.
EditsKept == [][(Observe \/ \E x \in Texts : Rerender(x)) /\ author = "user" => UNCHANGED <<doc, raw>>]_vars

\* `disabled` and `readonly` are supported: no edit, insertion or slash command
\* of the user reaches a field that is locked.
LockHolds == [][doc' \notin {doc, NoText} /\ author' = "user" /\ Mounted => ~disabled]_vars

\* "If the re-rendered text changes while the user has not edited the field, the
\* editor follows it."
FollowsRerender == Quiet /\ Mounted /\ timer = 0 /\ author \in {"page", "reset"} => doc = default

=============================================================================
