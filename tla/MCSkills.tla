------------------------------ MODULE MCSkills ------------------------------
EXTENDS Skills

F(path, text) == [path |-> path, text |-> text]
Skill(name, md, files) == [name |-> name, md |-> md, files |-> files]

\* The shape of the table in the repository: a playbook and one nested file.
Shipped == << Skill("s", "m1", <<F(<<"r", "f">>, "t1")>>) >>

\* Two skills with the same paths, a directory with several files, a nested
\* directory, and files whose path is also a directory.
Crowded ==
    << Skill("s", "m1", <<F(<<"r", "f">>, "t1"), F(<<"r", "g">>, "t2"),
                          F(<<"r", "f", "g">>, "t3")>>),
       Skill("t", "m2", <<F(<<"r">>, "t4"), F(<<"r", "f">>, "t5")>>) >>

\* Playbooks that begin like frontmatter: a block ended by dashes that are no rule,
\* one that is never closed, one with a key twice.
Shapes == << Skill("s", "m3", <<>>), Skill("t", "m4", <<>>), Skill("r", "m5", <<>>) >>

\* A key that begins with dashes, a description that is not a string, a block that
\* begins with a rule.
Kinds == << Skill("s", "m6", <<>>), Skill("t", "m7", <<>>), Skill("r", "m8", <<>>) >>

MCTables == {Shipped, Crowded, Shapes, Kinds}

MCTexts == {"m1", "m2", "m3", "m4", "m5", "m6", "m7", "m8", "t1", "t2", "t3", "t4", "t5"}
MCStrings == {"s", "t", "when"}
MCFields == [key : {"name", "description", "---name"}, value : MCStrings \cup {"[1, 2]"}]
MCDashedFields == {f \in MCFields : f.key = "---name"}
Field(key, value) == [key |-> key, value |-> value]

\* m1 has fields and rules below its frontmatter; the files that are no playbooks
\* have none.
MCDocument == [text \in MCTexts |->
    CASE text = "m1" -> <<Fence, Field("name", "s"), Field("description", "when"), Fence,
                          Prose, Dashes, Field("name", "t"), Fence>>
      [] text = "m2" -> <<Fence, Field("name", "t"), Fence, Prose>>
      [] text = "m3" -> <<Fence, Field("name", "s"), Dashes, Field("name", "t"), Fence>>
      [] text = "m4" -> <<Fence, Field("description", "when"), Prose>>
      [] text = "m5" -> <<Fence, Field("name", "s"), Field("name", "t"), Fence>>
      [] text = "m6" -> <<Fence, Field("name", "s"), Field("---name", "t"), Fence>>
      [] text = "m7" -> <<Fence, Field("name", "t"), Field("description", "[1, 2]"), Fence>>
      [] text = "m8" -> <<Fence, Fence, Field("description", "when"), Fence, Prose>>
      [] text = "t4" -> <<Fence, Prose, Fence>>
      [] OTHER       -> <<Prose>>]

\* All the URIs of at most three segments over the names in use and those that
\* mean something to a path, and the longest one of the tables.
MCSegments == {"s", "t", "r", "f", "g", "SKILL.md", "index.json", "", ".", ".."}
MCUris ==
    {<<>>, <<"s", "r", "f", "g">>, <<"s", "..", "s", "SKILL.md">>, <<"s", "r", ".", "f">>}
        \cup UNION {[1..n -> MCSegments \ {"."}] : n \in 1..3}
=============================================================================
