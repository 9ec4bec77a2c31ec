----------------------------- MODULE Frontmatter -----------------------------
(***************************************************************************)
(* parse_frontmatter (src/src/skills.rs): the fields of the YAML block at  *)
(* the top of a SKILL.md, and what a host makes of the same document.      *)
(*                                                                         *)
(* A document is a sequence of lines; what ends a line makes no difference. *)
(* A line is a field of a mapping, `---`, a line that only begins with     *)
(* `---` (a field whose key does, or not), or other text.  The parser is   *)
(* exact about documents of such lines; a value may be of any type, but    *)
(* nesting and scalar styles are serde_yaml's.                             *)
(***************************************************************************)
EXTENDS Integers, Sequences, SequencesExt

CONSTANTS
    Fields,        \* [key, value] records: the lines that are fields
    DashedFields   \* those whose key begins with three dashes

Fence  == [key |-> "---", value |-> ""]
Dashes == [key |-> "---", value |-> "and more"]
Prose  == [key |-> "", value |-> "prose"]
Lines  == Fields \cup {Fence, Dashes, Prose}

ASSUME FieldsAssumption ==
    DashedFields \subseteq Fields /\ \A f \in Fields : f.key \notin {"---", ""}

-----------------------------------------------------------------------------
\* serde_yaml: a block of fields with distinct keys is a mapping; an opening
\* `---` is YAML's document marker; an empty block is null.  A mapping is the
\* set of its fields, and {} is None.
Yaml(block) ==
    LET content == IF block # <<>> /\ Head(block) = Fence THEN Tail(block) ELSE block IN
    IF /\ content # <<>>
       /\ \A i \in DOMAIN content : content[i] \in Fields
       /\ \A i, j \in DOMAIN content : content[i].key = content[j].key => i = j
    THEN {ToSet(content)} ELSE {}

\* The block between the first line and the first line of `ends` after it.
BlockTo(doc, ends) ==
    {SubSeq(doc, 2, k - 1) : k \in {k \in ends : \A l \in ends : k <= l}}

\* find("\n---"): a line that begins with `---`, below the first line of the block.
Ends(doc) == {k \in 3..Len(doc) : doc[k] \in DashedFields \cup {Fence, Dashes}}

\* Mutant: the block ends at the last rule of the document (rfind).
FrontmatterToLast(doc) ==
    IF doc # <<>> /\ doc[1] = Fence
    THEN UNION {Yaml(SubSeq(doc, 2, k - 1)) :
                  k \in {k \in Ends(doc) : \A l \in Ends(doc) : k >= l}}
    ELSE {}

ParseFrontmatter(doc) ==
    IF doc # <<>> /\ doc[1] = Fence
    THEN UNION {Yaml(block) : block \in BlockTo(doc, Ends(doc))}
    ELSE {}

\* A host: the block ends at the first `---` that is a line of its own.
HostEnds(doc) == {k \in 2..Len(doc) : doc[k] = Fence}

HostFrontmatter(doc) ==
    IF doc # <<>> /\ doc[1] = Fence
    THEN UNION {Yaml(block) : block \in BlockTo(doc, HostEnds(doc))}
    ELSE {}

-----------------------------------------------------------------------------
\* The first line the code may end the block at, if there is one, is a `---` of its
\* own, and the block has not been closed before it by the second line.
RuledOff(doc) ==
    /\ 2 \notin HostEnds(doc)
    /\ \A k \in Ends(doc) : (\A l \in Ends(doc) : k <= l) => doc[k] = Fence

\* Code and host find the same fields, or both none, in a document that is ruled
\* off; of any other one the code finds some of the fields a host does, and may
\* find fields where a host finds none.
AsTheHostParses(doc) ==
    /\ RuledOff(doc) => ParseFrontmatter(doc) = HostFrontmatter(doc)
    /\ HostFrontmatter(doc) # {} =>
          UNION ParseFrontmatter(doc) \subseteq UNION HostFrontmatter(doc)
=============================================================================
