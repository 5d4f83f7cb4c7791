-------------------------- MODULE MCMarkdownEditor --------------------------
(* Instances of MarkdownEditor for TLC: a line that holds a slash command    *)
(* alone, and a link above a table with emphasis in one of its cells.        *)
EXTENDS MarkdownEditor

Node(kind, within, lines, marks) ==
    [kind |-> kind, within |-> within, lines |-> lines, marks |-> marks]

MCTexts == {"command", "table"}
MCLines == [command |-> 1, table |-> 3]
MCNodes == [command |-> {},
            table |-> {Node("link", "none", {1}, {1}), Node("table", "none", {2, 3}, {}),
                       Node("emphasis", "table", {2}, {2})}]
MCSize == [command |-> 2, table |-> 1]
MCCommands == [command |-> {1}, table |-> {}]
=============================================================================
