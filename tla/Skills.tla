------------------------------- MODULE Skills -------------------------------
(***************************************************************************)
(* The skill:// namespace (src/src/skills.rs) and the protocol handlers    *)
(* that serve it (src/src/server.rs), used by a client that explores it    *)
(* through any of their routes: the instructions, the discovery document   *)
(* (src/src/discovery.rs), skills/list, skills/get, the catalog resource,  *)
(* resources/list, resources/directory/read, resources/read.               *)
(*                                                                         *)
(* A URI is the sequence of the segments that follow skill://, split at    *)
(* every '/'; splitting never gives an empty sequence, which stands for    *)
(* every URI of another scheme.  An Option is the set of its values: {} is *)
(* None.                                                                   *)
(***************************************************************************)
EXTENDS Frontmatter

CONSTANTS
    Segments,  \* what stands between two slashes
    Texts,     \* contents of files
    Strings,   \* the values of fields that YAML reads as strings
    Document,  \* the lines of a text
    Tables,    \* the SKILLS tables considered: sequences of skills
    Uris       \* the URIs clients ask for

ENTRY      == "SKILL.md"
INDEX_URI  == <<"index.json">>
NotDirSegs == {"", ".", ".."}

Files(skill) == <<[path |-> <<ENTRY>>, text |-> skill.md]>> \o skill.files

\* What the tests of skills.rs and the URI scheme ask of a table: names and
\* paths identify, and a path is a plain relative path.
WellFormed(skills) ==
    /\ \A i, j \in DOMAIN skills : skills[i].name = skills[j].name => i = j
    /\ \A i \in DOMAIN skills :
          LET files == Files(skills[i]) IN
          /\ skills[i].name # ""
          /\ \A k, l \in DOMAIN files : files[k].path = files[l].path => k = l
          /\ \A k \in DOMAIN files :
                files[k].path # <<>> /\ ToSet(files[k].path) \cap NotDirSegs = {}

FileRecords  == [path : Seq(Segments), text : Texts]
SkillRecords == [name : Segments, md : Texts, files : Seq(FileRecords)]

ASSUME EntryAssumption  == ENTRY \in Segments
ASSUME TablesAssumption == \A t \in Tables : t \in Seq(SkillRecords) /\ WellFormed(t)
ASSUME DocumentAssumption == Document \in [Texts -> Seq(Lines)]
ASSUME UrisAssumption   == Uris \subseteq Seq(Segments)

VARIABLES
    table,     \* SKILLS, fixed when the component is built
    known,     \* skill entries the client has been given
    heard,     \* descriptions it has been told skills by
    found,     \* resources it has been shown in a listing
    walked,    \* directories it has read
    last       \* the last resource it read or skill it got

vars == <<table, known, heard, found, walked, last>>

-----------------------------------------------------------------------------
EntryUri(skill)      == <<skill.name, ENTRY>>
FileUri(skill, file) == <<skill.name>> \o file.path

\* SHA-256 is taken to be injective.
Digest(text) == <<"sha256", text>>

\* Mutant: every digest of the manifest is the playbook's.
BuildEntryOneDigest(skill) ==
    [uri |-> EntryUri(skill),
     frontmatter |-> UNION ParseFrontmatter(Document[skill.md]),
     resources |-> [k \in DOMAIN Files(skill) |->
                      [uri    |-> FileUri(skill, Files(skill)[k]),
                       digest |-> Digest(skill.md)]]]

\* A document without frontmatter gives an empty mapping (unwrap_or_default).
BuildEntry(skill) ==
    [uri |-> EntryUri(skill),
     frontmatter |-> UNION ParseFrontmatter(Document[skill.md]),
     resources |-> [k \in DOMAIN Files(skill) |->
                      [uri    |-> FileUri(skill, Files(skill)[k]),
                       digest |-> Digest(Files(skill)[k].text)]]]

Entries == [i \in DOMAIN table |-> BuildEntry(table[i])]

\* The entry of a skill, by its position in the table.
EntryParts(i) == Entries[i]

DescribedAs(value) == [key |-> "description", value |-> value]

\* Mutant: a value of another type is announced as it is written.
DescriptionAsWritten(fields) ==
    LET values == {f.value : f \in {f \in fields : f.key = "description"}} IN
    IF values = {} THEN "" ELSE CHOOSE value \in values : TRUE

\* The field of the frontmatter if it is there and a string (as_str), or "".
Description(fields) ==
    LET texts == {text \in Strings : DescribedAs(text) \in fields} IN
    IF texts = {} THEN "" ELSE CHOOSE text \in texts : TRUE

\* How a skill is announced: where its playbook is, and when to use it.
Trigger(i) ==
    [uri |-> EntryUri(table[i]), description |-> Description(EntryParts(i).frontmatter)]

\* The first skill of that name, and the first file at that path.
SkillNamed(name) ==
    {table[i] : i \in {i \in DOMAIN table :
        table[i].name = name /\ \A j \in 1..(i - 1) : table[j].name # name}}

\* Mutant: `.` and `..` are resolved away before the table is searched.
FileAtNormalised(skill, path) ==
    LET plain == SelectSeq(path, LAMBDA seg : seg \notin NotDirSegs)
        files == Files(skill) IN
    {files[k] : k \in {k \in DOMAIN files :
        files[k].path = plain /\ \A l \in 1..(k - 1) : files[l].path # plain}}

FileAt(skill, path) ==
    LET files == Files(skill) IN
    {files[k] : k \in {k \in DOMAIN files :
        files[k].path = path /\ \A l \in 1..(k - 1) : files[l].path # path}}

\* Mutant: any path below a skill names the skill.
EntryOfAnyPath(uri) ==
    IF Len(uri) >= 2 THEN {BuildEntry(s) : s \in SkillNamed(Head(uri))} ELSE {}

Entry(uri) ==
    IF Len(uri) >= 2 /\ Tail(uri) = <<ENTRY>>
    THEN {BuildEntry(s) : s \in SkillNamed(Head(uri))}
    ELSE {}

Read(uri) ==
    IF uri = INDEX_URI
    THEN {[text |-> "catalog", entries |-> ToSet(Entries)]}
    ELSE IF Len(uri) < 2 THEN {}
    ELSE {[text |-> file.text, entries |-> {}] :
            file \in UNION {FileAt(s, Tail(uri)) : s \in SkillNamed(Head(uri))}}

File(uri) == [uri |-> uri, kind |-> "file"]
Dir(uri)  == [uri |-> uri, kind |-> "directory"]

\* Mutant: a subdirectory is named relative to the skill's root.
ChildAtRoot(skill, dir, path) ==
    IF Len(path) = Len(dir) + 1
    THEN File(<<skill.name>> \o path)
    ELSE Dir(<<skill.name, path[Len(dir) + 1]>>)

\* What a file strictly below `dir` adds to the listing of `dir`.
Child(skill, dir, path) ==
    IF Len(path) = Len(dir) + 1
    THEN File(<<skill.name>> \o path)
    ELSE Dir(<<skill.name>> \o SubSeq(path, 1, Len(dir) + 1))

\* Mutant: a subdirectory is listed once for every file below it.
ListedAgain(out, child) == Append(out, child)

\* A subdirectory is listed once, where its first file stands.
Listed(out, child) ==
    IF child.kind = "directory" /\ child \in ToSet(out) THEN out ELSE Append(out, child)

\* The listing of `dir`: what each of the files adds, one after the other.
Listing(skill, dir, files) ==
    LET upTo[n \in 0..Len(files)] ==
            IF n = 0 THEN <<>>
            ELSE IF IsStrictPrefix(dir, files[n].path)
                 THEN Listed(upTo[n - 1], Child(skill, dir, files[n].path))
                 ELSE upTo[n - 1]
    IN  upTo[Len(files)]

\* Mutant: only the supporting files are walked.
ChildrenWithoutEntry(skill, dir) == Listing(skill, dir, skill.files)

Children(skill, dir) == Listing(skill, dir, Files(skill))

IsDirectory(skill, dir) ==
    dir = <<>> \/ \E file \in ToSet(Files(skill)) : IsStrictPrefix(dir, file.path)

Directory(uri) ==
    IF uri = <<>> \/ Head(uri) = "" \/ ToSet(Tail(uri)) \cap NotDirSegs # {}
    THEN {}
    ELSE {Children(s, Tail(uri)) :
            s \in {s \in SkillNamed(Head(uri)) : IsDirectory(s, Tail(uri))}}

Resources == {File(INDEX_URI)} \cup {File(EntryUri(table[i])) : i \in DOMAIN table}

-----------------------------------------------------------------------------
NoCall == [method |-> "none", uri |-> <<>>, text |-> ""]

Init ==
    /\ table \in Tables
    /\ known = {} /\ heard = {} /\ found = {} /\ walked = {}
    /\ last = NoCall

\* The catalog in the server's instructions: a line for every skill.  Its URI is
\* made of its name and the template skill://{skill}/SKILL.md.
Catalog == {Trigger(i) : i \in DOMAIN table}

GetInfo ==
    /\ heard' = heard \cup Catalog
    /\ UNCHANGED <<table, known, found, walked, last>>

\* The discovery document on the default route.
Discover ==
    /\ heard' = heard \cup {Trigger(i) : i \in DOMAIN table}
    /\ UNCHANGED <<table, known, found, walked, last>>

ListSkills ==
    /\ known' = known \cup ToSet(Entries)
    /\ UNCHANGED <<table, heard, found, walked, last>>

\* Every playbook with its description, and the catalog.
ListResources ==
    /\ found' = found \cup Resources
    /\ heard' = heard \cup {Trigger(i) : i \in DOMAIN table}
    /\ UNCHANGED <<table, known, walked, last>>

\* Errors (-32602, -32002) tell the client nothing.
GetSkill(uri) ==
    \E entry \in Entry(uri) :
        /\ known' = known \cup {entry}
        /\ last' = [method |-> "skills/get", uri |-> uri, text |-> ""]
        /\ UNCHANGED <<table, heard, found, walked>>

ReadDirectory(uri) ==
    \E resources \in Directory(uri) :
        /\ found' = found \cup ToSet(resources)
        /\ walked' = walked \cup {uri}
        /\ UNCHANGED <<table, known, heard, last>>

ReadResource(uri) ==
    \E contents \in Read(uri) :
        /\ known' = known \cup contents.entries
        /\ last' = [method |-> "resources/read", uri |-> uri, text |-> contents.text]
        /\ UNCHANGED <<table, heard, found, walked>>

Next ==
    \/ GetInfo \/ Discover \/ ListSkills \/ ListResources
    \/ \E uri \in Uris : GetSkill(uri) \/ ReadDirectory(uri) \/ ReadResource(uri)

Spec == Init /\ [][Next]_vars

-----------------------------------------------------------------------------
\* What the table holds, said without the lookups.
Held ==
    UNION {{[uri |-> FileUri(table[i], file), text |-> file.text] :
               file \in ToSet(Files(table[i]))} : i \in DOMAIN table}

\* Read as a file of the table, or as the catalog; never anything else: no
\* traversal, no normalisation, no other scheme reaches a file.
OnlyTheTable ==
    last.method = "resources/read" =>
        \/ last.uri = INDEX_URI
        \/ [uri |-> last.uri, text |-> last.text] \in Held

\* Only the exact SKILL.md URI names a skill: what skills/get returned is the
\* entry whose identity is the URI that was asked for.
GetIsExact ==
    last.method = "skills/get" => \E entry \in known : entry.uri = last.uri

\* Whichever routes a client took, the digest it was given for a URI is that of
\* the text it reads there.
DigestsHold ==
    last.method = "resources/read" =>
        \A entry \in known : \A r \in ToSet(entry.resources) :
            r.uri = last.uri => r.digest = Digest(last.text)

\* Everything a client is shown it can follow: a file listed by a directory, by
\* resources/list or by a manifest is readable, and a subdirectory is walkable.
NothingDangling ==
    /\ \A n \in found : IF n.kind = "file" THEN Read(n.uri) # {} ELSE Directory(n.uri) # {}
    /\ \A entry \in known : \A r \in ToSet(entry.resources) : Read(r.uri) # {}

\* `directoryRead: true`: a client that has walked every directory it was shown
\* under a root has found the files of the skill's manifest, all and only those.
WalkIsManifest ==
    \A i \in DOMAIN table :
        LET under == {n \in found : Head(n.uri) = table[i].name}
            files == {n.uri : n \in {n \in under : n.kind = "file"}}
            dirs  == {n.uri : n \in {n \in under : n.kind = "directory"}}
            root  == <<table[i].name>> IN
        ({root} \cup dirs) \subseteq walked =>
            files \ {INDEX_URI} = {r.uri : r \in ToSet(BuildEntry(table[i]).resources)}

\* What a skill is announced with is the description among these fields; it is
\* "" if they have none, or one that is not a string.
Announces(said, fields) ==
    /\ said \in Strings \cup {""}
    /\ said # "" => DescribedAs(said) \in fields
    /\ \A text \in Strings : DescribedAs(text) \in fields => said = text

\* "One catalog, three channels": whatever told a client of a skill announced it
\* with the description in the entry it has of the skill, and with the one a host
\* parses out of the playbook the client reads there, if that is ruled off.
OneCatalog ==
    \A h \in heard :
        /\ \A entry \in known : entry.uri = h.uri => Announces(h.description, entry.frontmatter)
        /\ last.method = "resources/read" /\ last.uri = h.uri =>
              LET doc == Document[last.text] IN
              RuledOff(doc) => Announces(h.description, UNION HostFrontmatter(doc))

\* The frontmatter of an entry is what a host parses out of the playbook read at
\* the entry's URI, to the field, if that is ruled off; it is part of it in
\* any playbook in which the host finds fields.
FrontmatterVerbatim ==
    last.method = "resources/read" =>
        \A entry \in known : entry.uri = last.uri =>
            LET doc == Document[last.text] IN
            /\ RuledOff(doc) => entry.frontmatter = UNION HostFrontmatter(doc)
            /\ HostFrontmatter(doc) # {} => entry.frontmatter \subseteq UNION HostFrontmatter(doc)

\* One listing names a child once.
ListedOnce ==
    \A uri \in walked : \A resources \in Directory(uri) : IsInjective(resources)

-----------------------------------------------------------------------------
(* What comments of the code say and the model refutes                     *)

\* skills.rs: the entry's frontmatter is "identical, field by field, to what a host
\* parses out of the served SKILL.md", whatever the document.
FrontmatterIdentical ==
    last.method = "resources/read" =>
        \A entry \in known : entry.uri = last.uri =>
            entry.frontmatter = UNION HostFrontmatter(Document[last.text])
=============================================================================
