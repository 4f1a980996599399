-------------------------------- MODULE Gitignore --------------------------------
(***************************************************************************)
(* The .gitignore of a project as the program reads and writes it          *)
(* (config.py, ensure_gitignore): a sequence of lines, some of them the    *)
(* markers of the block that belongs to the program. A configuration is    *)
(* known by the file names it gives to checkpoints, its pattern by the     *)
(* configuration. Newline styles are left out.                             *)
(***************************************************************************)
EXTENDS Naturals, Sequences, Places

CONSTANTS
    Config,     \* configurations: the names of the checkpoint files
    Rule,       \* lines that belong to the user
    Begin,      \* the line "# >>> agent-checkpoint >>>"
    End         \* the line "# <<< agent-checkpoint <<<"

ASSUME GitignoreAssumption ==
    /\ Begin # End /\ {Begin, End} \cap (Config \cup Rule) = {}
    /\ Config \cap Rule = {}

Line == Config \cup Rule \cup {Begin, End}

\* _render_managed_block: one pattern stands for the live and the archive file.
Block(config) == <<Begin, config, End>>

Lines(text) == {text[i] : i \in DOMAIN text}

\* Whether the marker before line i, if there is one, opened a block.
Opened(text, i) ==
    \E b \in DOMAIN text :
       b < i /\ text[b] = Begin /\ \A k \in b + 1 .. i - 1 : text[k] \notin {Begin, End}

\* _managed_block_spans: markers that do not alternate are refused.
WellMarked(text) ==
    /\ \A i \in DOMAIN text :
          /\ text[i] = Begin => ~Opened(text, i)
          /\ text[i] = End => Opened(text, i)
    /\ ~Opened(text, Len(text) + 1)

Marked(text) == Begin \in Lines(text)
InBlock(text, i) == Opened(text, i) \/ text[i] \in {Begin, End}
FirstMarker(text) ==
    CHOOSE i \in DOMAIN text : text[i] = Begin /\ \A j \in 1 .. i - 1 : text[j] # Begin

\* The user's lines, in order.
UserPlaces(text) == {i \in DOMAIN text : ~InBlock(text, i)}
UserLines(text) == At(text, UserPlaces(text))

\* What stands before the first block, and after it.
Above(text) == At(text, {i \in UserPlaces(text) : i < FirstMarker(text)})
Below(text) == At(text, {i \in UserPlaces(text) : i > FirstMarker(text)})

\* A replacement that drops what follows the first block.
ReplacedToTheEnd(text, config) == Above(text) \o Block(config)

\* _replace_managed_blocks: the first block is replaced, the others go.
Replaced(text, config) == Above(text) \o Block(config) \o Below(text)

\* ensure_gitignore, for a text whose markers are accepted.
Ensured(text, config) ==
    IF Marked(text) THEN Replaced(text, config) ELSE text \o Block(config)

\* What git makes of it, when no rule of the user's takes a progress file out of
\* the ignored ones again (a "!" rule below the block): then a pattern counts
\* wherever its line is.
Ignores(text, config) == config \in Lines(text)

\* "Add or replace only the checkpoint-owned block": one block is left, the
\* user's lines are as before, and a second call finds nothing to change.
EnsuresOneBlock(text, config) ==
    WellMarked(text) =>
       LET after == Ensured(text, config) IN
       /\ WellMarked(after)
       /\ UserLines(after) = UserLines(text)
       /\ Len(after) = Len(UserLines(after)) + Len(Block(config))
       /\ Ignores(after, config)
       /\ Ensured(after, config) = after
=============================================================================
