---------------------------- MODULE SkillsProofs ----------------------------
(***************************************************************************)
(* What a client is told about a skill and what it reads agree, and both   *)
(* stay within the table; whatever it is shown it can follow, and a walk   *)
(* of a skill finds its manifest: for every well-formed table and every    *)
(* URI.                                                                    *)
(***************************************************************************)
EXTENDS Skills, FrontmatterProofs

\* Splitting off the first segment undoes putting the name in front of a path.
LEMMA SplitOnce ==
  ASSUME NEW S, NEW name \in S, NEW path \in Seq(S)
  PROVE  /\ <<name>> \o path \in Seq(S)
         /\ Len(<<name>> \o path) = Len(path) + 1
         /\ Head(<<name>> \o path) = name
         /\ Tail(<<name>> \o path) = path
<1> DEFINE uri == <<name>> \o path
<1>1. <<name>> \in Seq(S) /\ Len(<<name>>) = 1 /\ <<name>>[1] = name
  OBVIOUS
<1>2. /\ uri \in Seq(S) /\ Len(uri) = Len(path) + 1
      /\ \A i \in 1..(Len(path) + 1) : uri[i] = IF i <= 1 THEN name ELSE path[i - 1]
  BY <1>1, ConcatProperties
<1> HIDE DEF uri
<1>3. Len(path) \in Nat
  BY LenProperties
<1>4. uri # <<>> /\ Head(uri) = name
  BY <1>2, <1>3
<1>5. /\ Tail(uri) \in Seq(S) /\ Len(Tail(uri)) = Len(path)
      /\ \A i \in 1..Len(Tail(uri)) : Tail(uri)[i] = uri[i + 1]
  BY <1>2, <1>3, <1>4, HeadTailProperties
<1>6. \A i \in 1..Len(Tail(uri)) : Tail(uri)[i] = path[i]
  BY <1>2, <1>3, <1>5
<1>7. Tail(uri) = path
  BY <1>5, <1>6, SeqEqual
<1> QED
  BY <1>2, <1>4, <1>7 DEF uri

\* And putting it back undoes the split.
LEMMA JoinSplit ==
  ASSUME NEW S, NEW uri \in Seq(S), uri # <<>>
  PROVE  /\ Head(uri) \in S /\ Tail(uri) \in Seq(S)
         /\ uri = <<Head(uri)>> \o Tail(uri)
<1>1. uri # <<>> /\ Len(uri) \in Nat /\ Head(uri) = uri[1]
  BY LenProperties
<1>2. /\ Head(uri) \in S /\ Tail(uri) \in Seq(S)
      /\ Len(Tail(uri)) = Len(uri) - 1
      /\ \A i \in 1..Len(Tail(uri)) : Tail(uri)[i] = uri[i + 1]
  BY <1>1, HeadTailProperties
<1> DEFINE joined == <<Head(uri)>> \o Tail(uri)
<1>3. /\ joined \in Seq(S) /\ Len(joined) = Len(Tail(uri)) + 1
      /\ Head(joined) = Head(uri) /\ Tail(joined) = Tail(uri)
  BY <1>2, SplitOnce
<1> HIDE DEF joined
<1>4. /\ Len(joined) = Len(uri) /\ joined # <<>> /\ joined[1] = uri[1]
  BY <1>1, <1>2, <1>3
<1>5. \A i \in 1..Len(Tail(joined)) : Tail(joined)[i] = joined[i + 1]
  BY <1>3, <1>4, HeadTailProperties
<1>6. ASSUME NEW i \in 1..Len(joined) PROVE joined[i] = uri[i]
  <2>1. CASE i = 1  BY <2>1, <1>4
  <2>2. CASE i # 1
    <3>1. i - 1 \in 1..Len(Tail(uri)) /\ (i - 1) + 1 = i
      BY <2>2, <1>1, <1>2, <1>4
    <3> QED  BY <3>1, <1>2, <1>3, <1>5
  <2> QED  BY <2>1, <2>2
<1>7. joined = uri
  BY <1>3, <1>4, <1>6, SeqEqual
<1> QED
  BY <1>2, <1>7 DEF joined

\* What appending does to a sequence without repetitions.
LEMMA AppendNew ==
  ASSUME NEW S, NEW s \in Seq(S), NEW x \in S
  PROVE  /\ Append(s, x) \in Seq(S)
         /\ ToSet(Append(s, x)) = ToSet(s) \cup {x}
         /\ IsInjective(s) /\ x \notin ToSet(s) => IsInjective(Append(s, x))
<1>1. /\ Len(s) \in Nat /\ Append(s, x) \in Seq(S)
      /\ Len(Append(s, x)) = Len(s) + 1 /\ Append(s, x)[Len(s) + 1] = x
      /\ \A i \in 1..Len(s) : Append(s, x)[i] = s[i]
  BY AppendProperties, LenProperties
<1>2. DOMAIN s = 1..Len(s) /\ DOMAIN Append(s, x) = 1..(Len(s) + 1)
  BY <1>1, LenProperties
<1>3. \A i \in 1..(Len(s) + 1) : i \in 1..Len(s) \/ i = Len(s) + 1
  BY <1>1
<1>4. ToSet(Append(s, x)) = ToSet(s) \cup {x}
  BY <1>1, <1>2, <1>3 DEF ToSet
<1>5. ASSUME IsInjective(s), x \notin ToSet(s) PROVE IsInjective(Append(s, x))
  BY <1>1, <1>2, <1>3, <1>5 DEF ToSet, IsInjective
<1> QED  BY <1>1, <1>4, <1>5

\* With the least number of a set, induction needs no more than a set.
LEMMA Induction ==
  ASSUME NEW T, 0 \in T, \A n \in Nat : n \in T => n + 1 \in T
  PROVE  Nat \subseteq T
<1> SUFFICES ASSUME Nat \ T # {} PROVE FALSE
  OBVIOUS
<1>1. PICK n \in Nat \ T : \A m \in Nat \ T : n <= m
  BY Least
<1>2. n - 1 \in Nat /\ n - 1 \notin Nat \ T
  BY <1>1
<1> QED  BY <1>1, <1>2

\* A function can be defined by recursion on its argument.
ByRecursion(S, base, N, step) ==
    \E g \in [0..N -> S] : g[0] = base /\ \A n \in 1..N : g[n] = step[<<n, g[n - 1]>>]

LEMMA Recursion ==
  ASSUME NEW S, NEW base \in S, NEW N \in Nat, NEW step \in [(1..N) \X S -> S]
  PROVE  ByRecursion(S, base, N, step)
<1> DEFINE Upto(m, g) == /\ g \in [0..m -> S] /\ g[0] = base
                         /\ \A n \in 1..m : g[n] = step[<<n, g[n - 1]>>]
           T == {m \in Nat : m <= N => \E g : Upto(m, g)}
<1>1. 0 \in T
  <2>1. Upto(0, [n \in 0..0 |-> base])
    OBVIOUS
  <2> QED  BY <2>1
<1>2. ASSUME NEW m \in Nat, m \in T PROVE m + 1 \in T
  <2> SUFFICES ASSUME m + 1 <= N PROVE \E g : Upto(m + 1, g)
    OBVIOUS
  <2>1. PICK g : Upto(m, g)
    BY <1>2
  <2> DEFINE h == [n \in 0..(m + 1) |-> IF n = m + 1 THEN step[<<m + 1, g[m]>>] ELSE g[n]]
  <2>2. g[m] \in S /\ m + 1 \in 1..N
    BY <2>1
  <2>3. step[<<m + 1, g[m]>>] \in S
    BY <2>2
  <2>4. h \in [0..(m + 1) -> S] /\ h[0] = base
    BY <2>1, <2>3
  <2>5. ASSUME NEW n \in 1..(m + 1) PROVE h[n] = step[<<n, h[n - 1]>>]
    <3>1. CASE n = m + 1
      <4>1. h[n] = step[<<m + 1, g[m]>>] /\ h[n - 1] = g[m]
        BY <3>1
      <4> QED  BY <3>1, <4>1
    <3>2. CASE n # m + 1
      <4>1. h[n] = g[n] /\ h[n - 1] = g[n - 1] /\ n \in 1..m
        BY <3>2
      <4> QED  BY <4>1, <2>1
    <3> QED  BY <3>1, <3>2
  <2>6. Upto(m + 1, h)
    BY <2>4, <2>5
  <2> HIDE DEF Upto
  <2> QED  BY <2>6
<1>3. N \in T
  <2> HIDE DEF T
  <2> QED  BY <1>1, <1>2, Induction
<1> QED  BY <1>3 DEF ByRecursion

-----------------------------------------------------------------------------
\* The files of a skill are its playbook and its supporting files.
LEMMA FilesType ==
  ASSUME NEW skill \in SkillRecords
  PROVE  Files(skill) \in Seq(FileRecords)
<1>1. [path |-> <<ENTRY>>, text |-> skill.md] \in FileRecords
  <2>1. ENTRY \in Segments
    BY EntryAssumption
  <2>2. \A S : \A e \in S : <<e>> \in Seq(S)
    OBVIOUS
  <2>3. <<ENTRY>> \in Seq(Segments)
    BY <2>1, <2>2
  <2>4. skill.md \in Texts
    BY DEF SkillRecords
  <2> QED  BY <2>3, <2>4 DEF FileRecords
<1>2. <<[path |-> <<ENTRY>>, text |-> skill.md]>> \in Seq(FileRecords)
  BY <1>1
<1>3. skill.files \in Seq(FileRecords)
  BY DEF SkillRecords
<1> QED
  BY <1>2, <1>3, ConcatProperties DEF Files

-----------------------------------------------------------------------------
\* A file of the table, by the position of its skill and its own.
At(i, k) == Files(table[i])[k]
Places == {p \in (DOMAIN table) \X Nat : p[2] \in DOMAIN Files(table[p[1]])}

\* Every file has a URI of its own, which is not the catalog's.
LEMMA PlaceOfUri ==
  ASSUME table \in Tables
  PROVE  /\ \A p \in Places :
              /\ At(p[1], p[2]) \in FileRecords
              /\ FileUri(table[p[1]], At(p[1], p[2])) # INDEX_URI
         /\ \A p, q \in Places :
              FileUri(table[p[1]], At(p[1], p[2])) = FileUri(table[q[1]], At(q[1], q[2]))
                => p = q
<1>1. table \in Seq(SkillRecords) /\ WellFormed(table)
  BY TablesAssumption
<1>2. \A i \in DOMAIN table : table[i] \in SkillRecords /\ table[i].name \in Segments
  <2>1. ASSUME NEW i \in DOMAIN table PROVE table[i] \in SkillRecords
    BY <1>1, ElementOfSeq, LenProperties
  <2> QED  BY <2>1 DEF SkillRecords
<1>3. \A p \in Places : At(p[1], p[2]) \in FileRecords
  BY <1>2, FilesType DEF Places, At
<1>4. \A p \in Places : At(p[1], p[2]).path \in Seq(Segments) /\ At(p[1], p[2]).path # <<>>
  BY <1>1, <1>3 DEF WellFormed, Places, At, FileRecords
<1>5. ASSUME NEW p \in Places
      PROVE  /\ FileUri(table[p[1]], At(p[1], p[2])) # INDEX_URI
             /\ Head(FileUri(table[p[1]], At(p[1], p[2]))) = table[p[1]].name
             /\ Tail(FileUri(table[p[1]], At(p[1], p[2]))) = At(p[1], p[2]).path
  <2>1. table[p[1]].name \in Segments /\ At(p[1], p[2]).path \in Seq(Segments)
    BY <1>2, <1>4 DEF Places
  <2>2. Len(At(p[1], p[2]).path) >= 1
    BY <1>4, <2>1
  <2>3. Len(FileUri(table[p[1]], At(p[1], p[2]))) >= 2
    BY <2>1, <2>2, SplitOnce DEF FileUri
  <2> QED
    BY <2>1, <2>3, SplitOnce DEF FileUri, INDEX_URI
<1>6. ASSUME NEW p \in Places, NEW q \in Places,
             FileUri(table[p[1]], At(p[1], p[2])) = FileUri(table[q[1]], At(q[1], q[2]))
      PROVE  p = q
  <2>1. table[p[1]].name = table[q[1]].name /\ At(p[1], p[2]).path = At(q[1], q[2]).path
    BY <1>5, <1>6
  <2>2. p[1] = q[1]
    BY <1>1, <2>1 DEF WellFormed, Places
  <2>3. p[2] = q[2]
    BY <1>1, <2>1, <2>2 DEF WellFormed, Places, At
  <2> QED
    BY <2>2, <2>3 DEF Places
<1> QED
  BY <1>3, <1>5, <1>6
-----------------------------------------------------------------------------
Built == {BuildEntry(table[i]) : i \in DOMAIN table}

\* What a read answers with comes from the table, from the file of that URI.
LEMMA ReadFromTable ==
  ASSUME table \in Tables, NEW uri \in Uris, NEW contents \in Read(uri)
  PROVE  /\ contents.entries \subseteq Built
         /\ \/ uri = INDEX_URI
            \/ \E p \in Places : /\ uri = FileUri(table[p[1]], At(p[1], p[2]))
                               /\ contents.text = At(p[1], p[2]).text
<1>1. table \in Seq(SkillRecords) /\ uri \in Seq(Segments)
  BY TablesAssumption, UrisAssumption
<1>2. CASE uri = INDEX_URI
  <2>1. contents.entries = ToSet(Entries)
    BY <1>2 DEF Read
  <2> QED  BY <1>2, <2>1 DEF ToSet, Entries, Built
<1>3. CASE uri # INDEX_URI
  <2>1. ~(Len(uri) < 2)
    BY <1>3 DEF Read
  <2>2. PICK s \in SkillNamed(Head(uri)) :
          \E f \in FileAt(s, Tail(uri)) : contents = [text |-> f.text, entries |-> {}]
    BY <1>3, <2>1 DEF Read
  <2>8. PICK file \in FileAt(s, Tail(uri)) : contents = [text |-> file.text, entries |-> {}]
    BY <2>2
  <2>3. PICK i \in DOMAIN table : s = table[i] /\ table[i].name = Head(uri)
    BY <2>2 DEF SkillNamed
  <2>4. PICK k \in DOMAIN Files(s) : file = Files(s)[k] /\ file.path = Tail(uri)
    BY <2>8 DEF FileAt
  <2>5. uri = FileUri(s, file)
    <3>1. uri # <<>>
      BY <1>1, <2>1, EmptySeq
    <3> QED  BY <1>1, <2>3, <2>4, <3>1, JoinSplit DEF FileUri
  <2>6. k \in Nat
    <3>1. s \in SkillRecords
      BY <1>1, <2>3, ElementOfSeq, LenProperties
    <3> QED  BY <2>4, <3>1, FilesType, LenProperties
  <2>7. <<i, k>> \in Places /\ At(i, k) = file
    BY <2>3, <2>4, <2>6 DEF Places, At
  <2> QED  BY <2>8, <2>3, <2>5, <2>7
<1> QED  BY <1>2, <1>3

LEMMA Pair ==
  ASSUME NEW S, NEW a \in S, NEW b \in S
  PROVE  <<a>> \o <<b>> = <<a, b>>
<1>1. /\ <<a>> \in Seq(S) /\ Len(<<a>>) = 1 /\ <<a>>[1] = a
      /\ <<b>> \in Seq(S) /\ Len(<<b>>) = 1 /\ <<b>>[1] = b
  OBVIOUS
<1>2. /\ <<a>> \o <<b>> \in Seq(S) /\ Len(<<a>> \o <<b>>) = 2
      /\ \A i \in 1..2 : (<<a>> \o <<b>>)[i] = IF i <= 1 THEN a ELSE <<b>>[i - 1]
  BY <1>1, ConcatProperties
<1>3. <<a, b>> \in Seq(S) /\ Len(<<a, b>>) = 2 /\ <<a, b>>[1] = a /\ <<a, b>>[2] = b
  OBVIOUS
<1>4. \A i \in 1..Len(<<a>> \o <<b>>) : (<<a>> \o <<b>>)[i] = <<a, b>>[i]
  BY <1>1, <1>2, <1>3
<1> QED  BY <1>2, <1>3, <1>4, SeqEqual

\* skills/get answers with the entry of the URI it was asked for.
LEMMA EntryOfUri ==
  ASSUME table \in Tables, NEW uri \in Uris, NEW entry \in Entry(uri)
  PROVE  entry \in Built /\ entry.uri = uri
<1>1. uri \in Seq(Segments) /\ Len(uri) >= 2 /\ Tail(uri) = <<ENTRY>>
  BY UrisAssumption DEF Entry
<1>2. PICK i \in DOMAIN table : entry = BuildEntry(table[i]) /\ table[i].name = Head(uri)
  BY <1>1 DEF Entry, SkillNamed
<1>5. uri # <<>>
  BY <1>1, EmptySeq
<1>3. uri = <<Head(uri)>> \o <<ENTRY>>
  BY <1>1, <1>5, JoinSplit
<1>4. <<Head(uri)>> \o <<ENTRY>> = <<Head(uri), ENTRY>>
  BY <1>1, <1>5, EntryAssumption, JoinSplit, Pair
<1> QED  BY <1>2, <1>3, <1>4 DEF Built, BuildEntry, EntryUri

-----------------------------------------------------------------------------
\* The client knows entries of the table only, and what it has read is a file
\* of the table under that file's own URI.
IInv ==
    /\ table \in Tables
    /\ known \subseteq Built
    /\ heard \subseteq Catalog
    /\ last.method = "resources/read" =>
          \/ last.uri = INDEX_URI
          \/ \E p \in Places : /\ last.uri = FileUri(table[p[1]], At(p[1], p[2]))
                             /\ last.text = At(p[1], p[2]).text
    /\ GetIsExact

LEMMA InitInv == Init => IInv
<1> SUFFICES ASSUME Init PROVE IInv
  OBVIOUS
<1>1. table \in Tables /\ known = {} /\ heard = {} /\ last = NoCall
  BY DEF Init
<1>2. last.method = "none"
  BY <1>1 DEF NoCall
<1>3. known \subseteq Built /\ heard \subseteq Catalog
  BY <1>1
<1>4. last.method # "resources/read" /\ last.method # "skills/get"
  BY <1>2
<1> QED  BY <1>1, <1>3, <1>4 DEF IInv, GetIsExact

LEMMA StepInv == IInv /\ [Next]_vars => IInv'
<1> SUFFICES ASSUME IInv, [Next]_vars PROVE IInv'
  OBVIOUS
<1>1. table' = table
  BY DEF Next, vars, GetInfo, Discover, ListSkills, ListResources, GetSkill,
         ReadDirectory, ReadResource
<1>2. Places' = Places /\ Built' = Built /\ Catalog' = Catalog /\ \A i, k : At(i, k)' = At(i, k)
  BY <1>1 DEF Places, Built, At, Catalog, Trigger, EntryParts, Entries
<1>3. table' \in Tables
  BY <1>1 DEF IInv
<1> USE DEF IInv
<1>4. CASE ListSkills
  <2>1. ToSet(Entries) \subseteq Built
    BY DEF ToSet, Entries, Built
  <2> QED  BY <1>1, <1>2, <1>3, <1>4, <2>1 DEF ListSkills, GetIsExact
<1>5. CASE ListResources
  BY <1>1, <1>2, <1>3, <1>5 DEF ListResources, Catalog, GetIsExact
<1>6. ASSUME NEW uri \in Uris, GetSkill(uri) PROVE IInv'
  <2>1. PICK entry \in Entry(uri) :
           /\ known' = known \cup {entry} /\ heard' = heard
           /\ last' = [method |-> "skills/get", uri |-> uri, text |-> ""]
    BY <1>6 DEF GetSkill
  <2>2. entry \in Built /\ entry.uri = uri
    BY EntryOfUri
  <2> QED  BY <1>1, <1>2, <1>3, <2>1, <2>2 DEF GetIsExact
<1>7. ASSUME NEW uri \in Uris, ReadDirectory(uri) PROVE IInv'
  BY <1>1, <1>2, <1>3, <1>7 DEF ReadDirectory, GetIsExact
<1>8. ASSUME NEW uri \in Uris, ReadResource(uri) PROVE IInv'
  <2>1. PICK contents \in Read(uri) :
           /\ known' = known \cup contents.entries /\ heard' = heard
           /\ last' = [method |-> "resources/read", uri |-> uri, text |-> contents.text]
    BY <1>8 DEF ReadResource
  <2>2. /\ contents.entries \subseteq Built
        /\ \/ uri = INDEX_URI
           \/ \E p \in Places : /\ uri = FileUri(table[p[1]], At(p[1], p[2]))
                              /\ contents.text = At(p[1], p[2]).text
    BY ReadFromTable
  <2> QED  BY <1>1, <1>2, <1>3, <2>1, <2>2 DEF GetIsExact
<1>9. CASE GetInfo \/ Discover
  BY <1>1, <1>2, <1>3, <1>9 DEF GetInfo, Discover, Catalog, GetIsExact
<1>10. CASE UNCHANGED vars
  BY <1>1, <1>2, <1>3, <1>10 DEF vars, GetIsExact
<1> QED
  BY <1>4, <1>5, <1>6, <1>7, <1>8, <1>9, <1>10 DEF Next

THEOREM Invariance == Spec => []IInv
  BY InitInv, StepInv, PTL DEF Spec

\* No URI, well formed or not, reaches anything but the files of the table.
THEOREM ReadsOnlyTheTable == Spec => []OnlyTheTable
<1>1. IInv => OnlyTheTable
  <2> SUFFICES ASSUME IInv, last.method = "resources/read", last.uri # INDEX_URI
               PROVE  [uri |-> last.uri, text |-> last.text] \in Held
    BY DEF OnlyTheTable
  <2>1. PICK p \in Places : /\ last.uri = FileUri(table[p[1]], At(p[1], p[2]))
                            /\ last.text = At(p[1], p[2]).text
    BY DEF IInv
  <2>2. p[1] \in DOMAIN table /\ At(p[1], p[2]) \in ToSet(Files(table[p[1]]))
    BY DEF Places, At, ToSet
  <2> QED  BY <2>1, <2>2 DEF Held
<1> QED  BY <1>1, Invariance, PTL

\* skills/get never answers for a URI other than the skill's own.
THEOREM GetsExactly == Spec => []GetIsExact
  BY Invariance, PTL DEF IInv

\* A client that checks digests never rejects a file, whichever route the
\* manifest and the file came by.
THEOREM DigestsMatch == Spec => []DigestsHold
<1>1. IInv => DigestsHold
  <2> SUFFICES ASSUME IInv, last.method = "resources/read",
                      NEW entry \in known, NEW r \in ToSet(entry.resources), r.uri = last.uri
               PROVE  r.digest = Digest(last.text)
    BY DEF DigestsHold
  <2>1. table \in Tables /\ table \in Seq(SkillRecords)
    BY TablesAssumption DEF IInv
  <2>2. PICK i \in DOMAIN table : entry = BuildEntry(table[i])
    BY DEF IInv, Built
  <2>3. PICK k \in DOMAIN Files(table[i]) :
           r.uri = FileUri(table[i], At(i, k)) /\ r.digest = Digest(At(i, k).text)
    BY <2>2 DEF ToSet, BuildEntry, At
  <2>4. <<i, k>> \in Places
    <3>1. table[i] \in SkillRecords
      BY <2>1, ElementOfSeq, LenProperties
    <3>2. k \in Nat
      BY <3>1, FilesType, LenProperties
    <3> QED  BY <3>2 DEF Places
  <2>5. last.uri # INDEX_URI
    BY <2>1, <2>3, <2>4, PlaceOfUri
  <2>6. PICK p \in Places : /\ last.uri = FileUri(table[p[1]], At(p[1], p[2]))
                            /\ last.text = At(p[1], p[2]).text
    BY <2>5 DEF IInv
  <2>7. p = <<i, k>>
    BY <2>1, <2>3, <2>4, <2>6, PlaceOfUri
  <2> QED  BY <2>3, <2>6, <2>7
<1> QED  BY <1>1, Invariance, PTL

-----------------------------------------------------------------------------
\* A skill's playbook is the first of its files.
LEMMA Playbook ==
  ASSUME table \in Tables, NEW i \in DOMAIN table
  PROVE  /\ <<i, 1>> \in Places
         /\ EntryUri(table[i]) = FileUri(table[i], At(i, 1))
         /\ At(i, 1).text = table[i].md
         /\ Document[table[i].md] \in Seq(Lines)
<1>1. table[i] \in SkillRecords
  BY TablesAssumption, ElementOfSeq, LenProperties
<1>2. table[i].files \in Seq(FileRecords)
  BY <1>1 DEF SkillRecords
<1> DEFINE playbook == [path |-> <<ENTRY>>, text |-> table[i].md]
<1>3. Files(table[i]) = <<playbook>> \o table[i].files
  BY DEF Files
<1>4. playbook \in FileRecords
  <2>1. Files(table[i]) \in Seq(FileRecords)
    BY <1>1, FilesType
  <2>2. table[i].md \in Texts
    BY <1>1 DEF SkillRecords
  <2>3. ENTRY \in Segments
    BY EntryAssumption
  <2>4. \A S : \A e \in S : <<e>> \in Seq(S)
    OBVIOUS
  <2>5. <<ENTRY>> \in Seq(Segments)
    BY <2>3, <2>4
  <2> QED  BY <2>2, <2>5 DEF FileRecords
<1>5. At(i, 1) = playbook /\ 1 \in DOMAIN Files(table[i])
  <2> HIDE DEF playbook
  <2>1. /\ <<playbook>> \in Seq(FileRecords) /\ Len(<<playbook>>) = 1 /\ <<playbook>>[1] = playbook
    BY <1>4
  <2>2. /\ Len(Files(table[i])) = 1 + Len(table[i].files)
        /\ Files(table[i]) \in Seq(FileRecords)
        /\ \A k \in 1..(1 + Len(table[i].files)) :
              Files(table[i])[k] = IF k <= 1 THEN <<playbook>>[k] ELSE table[i].files[k - 1]
    BY <1>2, <1>3, <2>1, ConcatProperties
  <2>3. Len(table[i].files) \in Nat
    BY <1>2, LenProperties
  <2>4. Files(table[i])[1] = playbook
    BY <2>1, <2>2, <2>3
  <2>5. DOMAIN Files(table[i]) = 1..(1 + Len(table[i].files))
    BY <2>2, LenProperties
  <2> QED  BY <2>3, <2>4, <2>5 DEF At
<1>6. <<i, 1>> \in Places
  BY <1>5 DEF Places
<1>7. Document[table[i].md] \in Seq(Lines)
  <2>1. table[i].md \in Texts
    BY <1>1 DEF SkillRecords
  <2> QED  BY <2>1, DocumentAssumption
<1>8. EntryUri(table[i]) = FileUri(table[i], At(i, 1))
  <2>1. <<table[i].name>> \o <<ENTRY>> = <<table[i].name, ENTRY>>
    <3>1. \A S : \A a, b \in S : <<a>> \in Seq(S) /\ <<b>> \in Seq(S) /\ <<a, b>> \in Seq(S)
      OBVIOUS
    <3>2. table[i].name \in Segments /\ ENTRY \in Segments
      BY <1>1, EntryAssumption DEF SkillRecords
    <3> DEFINE a == table[i].name
               joined == <<a>> \o <<ENTRY>>
    <3> HIDE DEF a
    <3>3. a \in Segments
      BY <3>2 DEF a
    <3>4. /\ <<a>> \in Seq(Segments) /\ <<ENTRY>> \in Seq(Segments)
          /\ <<a, ENTRY>> \in Seq(Segments)
      BY <3>1, <3>2, <3>3
    <3>5. /\ joined \in Seq(Segments) /\ Len(joined) = 2
          /\ \A n \in 1..2 : joined[n] = IF n <= 1 THEN <<a>>[n] ELSE <<ENTRY>>[n - 1]
      BY <3>4, ConcatProperties
    <3>6. joined[1] = a /\ joined[2] = ENTRY
      BY <3>5
    <3> HIDE DEF joined
    <3>7. joined = <<a, ENTRY>>
      BY <3>4, <3>5, <3>6, SeqEqual
    <3> QED  BY <3>7 DEF joined, a
  <2>2. At(i, 1).path = <<ENTRY>>
    BY <1>5
  <2> QED  BY <2>1, <2>2 DEF EntryUri, FileUri
<1> QED  BY <1>5, <1>6, <1>7, <1>8

\* What is read at a skill's own URI is the playbook its entry was built from.
LEMMA ReadPlaybook ==
  ASSUME IInv, NEW i \in DOMAIN table,
         last.method = "resources/read", last.uri = EntryUri(table[i])
  PROVE  /\ Document[last.text] \in Seq(Lines)
         /\ BuildEntry(table[i]).frontmatter = UNION ParseFrontmatter(Document[last.text])
<1>1. table \in Tables
  BY DEF IInv
<1>2. /\ <<i, 1>> \in Places /\ last.uri = FileUri(table[i], At(i, 1))
      /\ At(i, 1).text = table[i].md /\ Document[table[i].md] \in Seq(Lines)
  BY <1>1, Playbook
<1>3. last.uri # INDEX_URI
  BY <1>1, <1>2, PlaceOfUri
<1>4. PICK p \in Places : /\ last.uri = FileUri(table[p[1]], At(p[1], p[2]))
                          /\ last.text = At(p[1], p[2]).text
  BY <1>3 DEF IInv
<1>5. p = <<i, 1>>
  BY <1>1, <1>2, <1>4, PlaceOfUri
<1>6. last.text = table[i].md
  BY <1>2, <1>4, <1>5
<1>7. BuildEntry(table[i]).frontmatter = UNION ParseFrontmatter(Document[table[i].md])
  BY DEF BuildEntry
<1> QED  BY <1>2, <1>6, <1>7

\* Of a playbook that is ruled off, the frontmatter a client is given is what a host
\* parses out of it, and of any other part of that, if the host finds any.
THEOREM FrontmatterIsVerbatim == Spec => []FrontmatterVerbatim
<1>1. IInv => FrontmatterVerbatim
  <2> DEFINE doc == Document[last.text]
  <2> SUFFICES ASSUME IInv, last.method = "resources/read",
                      NEW entry \in known, entry.uri = last.uri
               PROVE  /\ RuledOff(doc) => entry.frontmatter = UNION HostFrontmatter(doc)
                      /\ HostFrontmatter(doc) # {} =>
                            entry.frontmatter \subseteq UNION HostFrontmatter(doc)
    BY DEF FrontmatterVerbatim
  <2>1. PICK i \in DOMAIN table : entry = BuildEntry(table[i])
    BY DEF IInv, Built
  <2>2. last.uri = EntryUri(table[i])
    BY <2>1 DEF BuildEntry
  <2>3. doc \in Seq(Lines) /\ entry.frontmatter = UNION ParseFrontmatter(doc)
    BY <2>1, <2>2, ReadPlaybook
  <2> HIDE DEF doc
  <2>4. AsTheHostParses(doc)
    BY <2>3, EveryDocument
  <2> QED  BY <2>3, <2>4 DEF AsTheHostParses
<1> QED  BY <1>1, Invariance, PTL

\* What is announced is the description of the fields, if it is a string.
LEMMA DescriptionAnnounces ==
  ASSUME NEW doc \in Seq(Lines)
  PROVE  Announces(Description(UNION ParseFrontmatter(doc)), UNION ParseFrontmatter(doc))
<1> DEFINE fields == UNION ParseFrontmatter(doc)
           texts  == {text \in Strings : DescribedAs(text) \in fields}
<1>1. \A f, g \in fields : f.key = g.key => f = g
  BY KeysDistinct
<1> HIDE DEF fields
<1>2. \A a, b \in texts : a = b
  <2> SUFFICES ASSUME NEW a \in texts, NEW b \in texts PROVE a = b
    OBVIOUS
  <2>1. DescribedAs(a) = DescribedAs(b)
    <3>1. DescribedAs(a) \in fields /\ DescribedAs(b) \in fields
      OBVIOUS
    <3>2. DescribedAs(a).key = DescribedAs(b).key
      BY DEF DescribedAs
    <3> QED  BY <1>1, <3>1, <3>2
  <2>2. DescribedAs(a).value = a /\ DescribedAs(b).value = b
    BY DEF DescribedAs
  <2> QED  BY <2>1, <2>2
<1>3. Description(fields) = IF texts = {} THEN "" ELSE CHOOSE text \in texts : TRUE
  BY DEF Description
<1>4. CASE texts = {}
  BY <1>3, <1>4 DEF Announces, fields
<1>5. CASE texts # {}
  <2>1. Description(fields) \in texts
    BY <1>3, <1>5
  <2> QED  BY <1>2, <2>1 DEF Announces, fields
<1> QED  BY <1>4, <1>5

\* "One catalog, three channels": they cannot contradict each other.
THEOREM ChannelsAgree == Spec => []OneCatalog
<1>1. IInv => OneCatalog
  <2> DEFINE doc == Document[last.text]
  <2> SUFFICES ASSUME IInv, NEW h \in heard
               PROVE  /\ \A entry \in known :
                            entry.uri = h.uri => Announces(h.description, entry.frontmatter)
                      /\ last.method = "resources/read" /\ last.uri = h.uri =>
                            (RuledOff(doc) =>
                               Announces(h.description, UNION HostFrontmatter(doc)))
    BY DEF OneCatalog
  <2>1. PICK i \in DOMAIN table : h = Trigger(i)
    BY DEF IInv, Catalog
  <2> DEFINE fields == BuildEntry(table[i]).frontmatter
  <2>2. h.uri = EntryUri(table[i]) /\ h.description = Description(fields)
    BY <2>1 DEF Trigger, EntryParts, Entries
  <2>3. table \in Tables
    BY DEF IInv
  <2>4. Announces(h.description, fields)
    <3>1. Document[table[i].md] \in Seq(Lines)
      BY <2>3, Playbook
    <3>2. fields = UNION ParseFrontmatter(Document[table[i].md])
      BY DEF BuildEntry
    <3> HIDE DEF fields
    <3> QED  BY <2>2, <3>1, <3>2, DescriptionAnnounces
  <2>5. ASSUME NEW entry \in known, entry.uri = h.uri
        PROVE  Announces(h.description, entry.frontmatter)
    <3>1. PICK j \in DOMAIN table : entry = BuildEntry(table[j])
      BY DEF IInv, Built
    <3>2. EntryUri(table[j]) = EntryUri(table[i])
      BY <2>2, <2>5, <3>1 DEF BuildEntry
    <3>3. <<i, 1>> = <<j, 1>>
      <4>1. /\ <<i, 1>> \in Places /\ <<j, 1>> \in Places
            /\ FileUri(table[i], At(i, 1)) = FileUri(table[j], At(j, 1))
        BY <2>3, <3>2, Playbook
      <4> QED  BY <2>3, <4>1, PlaceOfUri
    <3> QED  BY <2>4, <3>1, <3>3
  <2>6. ASSUME last.method = "resources/read", last.uri = h.uri, RuledOff(doc)
        PROVE  Announces(h.description, UNION HostFrontmatter(doc))
    <3>1. doc \in Seq(Lines) /\ fields = UNION ParseFrontmatter(doc)
      BY <2>2, <2>6, ReadPlaybook
    <3> HIDE DEF doc, fields
    <3>2. ParseFrontmatter(doc) = HostFrontmatter(doc)
      BY <2>6, <3>1, EveryDocument DEF AsTheHostParses
    <3> QED  BY <2>4, <3>1, <3>2
  <2> QED  BY <2>5, <2>6
<1> QED  BY <1>1, Invariance, PTL

-----------------------------------------------------------------------------
\* A directory is a proper part of the path of each file below it.
LEMMA Below ==
  ASSUME NEW S, NEW path \in Seq(S)
  PROVE  /\ \A dir \in Seq(S) : IsStrictPrefix(dir, path) =>
               /\ Len(dir) < Len(path)
               /\ SubSeq(path, 1, Len(dir)) = dir
         /\ \A n \in 0..(Len(path) - 1) :
               /\ SubSeq(path, 1, n) \in Seq(S) /\ Len(SubSeq(path, 1, n)) = n
               /\ \A i \in 1..n : SubSeq(path, 1, n)[i] = path[i]
               /\ IsStrictPrefix(SubSeq(path, 1, n), path)
<1>1. Len(path) \in Nat /\ \A i \in 1..Len(path) : path[i] \in S
  BY LenProperties, ElementOfSeq
<1>2. ASSUME NEW dir \in Seq(S), IsStrictPrefix(dir, path)
      PROVE  Len(dir) < Len(path) /\ SubSeq(path, 1, Len(dir)) = dir
  <2>1. Len(dir) \in Nat /\ SubSeq(dir, 1, Len(dir)) = dir /\ SubSeq(path, 1, Len(path)) = path
    BY LenProperties, SubSeqFull
  <2> QED  BY <1>1, <1>2, <2>1 DEF IsStrictPrefix, IsPrefix
<1>3. ASSUME NEW n \in 0..(Len(path) - 1)
      PROVE  /\ SubSeq(path, 1, n) \in Seq(S) /\ Len(SubSeq(path, 1, n)) = n
             /\ \A i \in 1..n : SubSeq(path, 1, n)[i] = path[i]
             /\ IsStrictPrefix(SubSeq(path, 1, n), path)
  <2> DEFINE dir == SubSeq(path, 1, n)
  <2>1. n \in Nat /\ n < Len(path)
    BY <1>1
  <2>2. /\ dir \in Seq(S)
        /\ Len(dir) = IF 1 <= n THEN n - 1 + 1 ELSE 0
        /\ \A i \in 1..(n - 1 + 1) : dir[i] = path[1 + i - 1]
    <3>1. \A i \in 1..n : path[i] \in S
      BY <1>1, <2>1
    <3> QED  BY <2>1, <3>1, SubSeqProperties
  <2> HIDE DEF dir
  <2>3. Len(dir) = n /\ \A i \in 1..n : dir[i] = path[i]
    BY <2>1, <2>2
  <2>4. SubSeq(dir, 1, Len(dir)) = dir
    BY <2>2, SubSeqFull
  <2>5. dir # path
    BY <2>1, <2>3
  <2> QED  BY <2>1, <2>2, <2>3, <2>4, <2>5 DEF dir, IsStrictPrefix, IsPrefix
<1> QED  BY <1>2, <1>3

Nodes == [uri : Seq(Segments), kind : {"file", "directory"}]

LEMMA ChildType ==
  ASSUME NEW skill, skill.name \in Segments, NEW dir \in Seq(Segments),
         NEW path \in Seq(Segments), IsStrictPrefix(dir, path)
  PROVE  /\ Child(skill, dir, path) \in Nodes
         /\ Child(skill, dir, path) =
              IF Len(dir) = Len(path) - 1
              THEN File(<<skill.name>> \o path)
              ELSE Dir(<<skill.name>> \o SubSeq(path, 1, Len(dir) + 1))
         /\ Len(dir) # Len(path) - 1 => SubSeq(path, 1, Len(dir) + 1) \in Seq(Segments)
<1>1. Len(dir) \in Nat /\ Len(path) \in Nat /\ Len(dir) < Len(path)
  BY LenProperties, Below
<1>2. <<skill.name>> \o path \in Seq(Segments)
  BY SplitOnce
<1>3. CASE Len(dir) = Len(path) - 1
  BY <1>1, <1>2, <1>3 DEF Child, File, Nodes
<1>4. CASE Len(dir) # Len(path) - 1
  <2>1. Len(dir) + 1 \in 0..(Len(path) - 1)
    BY <1>1, <1>4
  <2>2. SubSeq(path, 1, Len(dir) + 1) \in Seq(Segments)
    BY <2>1, Below
  <2>3. <<skill.name>> \o SubSeq(path, 1, Len(dir) + 1) \in Seq(Segments)
    BY <2>2, SplitOnce
  <2> QED  BY <1>1, <1>4, <2>2, <2>3 DEF Child, Dir, Nodes
<1> QED  BY <1>3, <1>4

LEMMA ListedType ==
  ASSUME NEW out \in Seq(Nodes), NEW child \in Nodes
  PROVE  Listed(out, child) \in Seq(Nodes)
  BY AppendProperties DEF Listed


\* The listing of a directory, file by file.
LEMMA ListingUpTo ==
  ASSUME NEW skill, skill.name \in Segments, NEW dir \in Seq(Segments),
         NEW files \in Seq(FileRecords)
  PROVE  \E upTo \in [0..Len(files) -> Seq(Nodes)] :
            /\ upTo[0] = <<>>
            /\ \A n \in 1..Len(files) :
                  upTo[n] = IF IsStrictPrefix(dir, files[n].path)
                            THEN Listed(upTo[n - 1], Child(skill, dir, files[n].path))
                            ELSE upTo[n - 1]
            /\ Listing(skill, dir, files) = upTo[Len(files)]
<1> DEFINE Next1(n, out) == IF IsStrictPrefix(dir, files[n].path)
                            THEN Listed(out, Child(skill, dir, files[n].path))
                            ELSE out
           Body(f) == [n \in 0..Len(files) |->
                          IF n = 0 THEN <<>>
                          ELSE IF IsStrictPrefix(dir, files[n].path)
                               THEN Listed(f[n - 1], Child(skill, dir, files[n].path))
                               ELSE f[n - 1]]
<1>1. PICK N \in Nat : N = Len(files)
  BY LenProperties
<1> DEFINE step == [p \in (1..N) \X Seq(Nodes) |-> Next1(p[1], p[2])]
<1>2. ASSUME NEW n \in 1..N PROVE files[n].path \in Seq(Segments)
  <2>1. files[n] \in FileRecords
    BY <1>1, ElementOfSeq
  <2> QED  BY <2>1 DEF FileRecords
<1>3. ASSUME NEW n \in 1..N, NEW out \in Seq(Nodes) PROVE Next1(n, out) \in Seq(Nodes)
  BY <1>2, ChildType, ListedType
<1>4. step \in [(1..N) \X Seq(Nodes) -> Seq(Nodes)]
        /\ \A n \in 1..N : \A out \in Seq(Nodes) : step[<<n, out>>] = Next1(n, out)
  <2> HIDE DEF Next1
  <2> QED  BY <1>3
<1>5. PICK empty \in Seq(Nodes) : empty = <<>>
  BY EmptySeq
<1>6. PICK g \in [0..N -> Seq(Nodes)] :
         g[0] = empty /\ \A n \in 1..N : g[n] = step[<<n, g[n - 1]>>]
  <2>1. PICK st : st = step
    OBVIOUS
  <2> HIDE DEF step
  <2>2. st \in [(1..N) \X Seq(Nodes) -> Seq(Nodes)]
    BY <1>4, <2>1
  <2>3. ByRecursion(Seq(Nodes), empty, N, st)
    BY <2>2, Recursion
  <2> QED  BY <2>1, <2>3 DEF ByRecursion
<1>7. ASSUME NEW n \in 1..N PROVE n - 1 \in 0..N /\ g[n] = Next1(n, g[n - 1])
  <2> HIDE DEF step, Next1
  <2>1. n - 1 \in 0..N
    BY <1>1
  <2>2. g[n - 1] \in Seq(Nodes)
    BY <1>6, <2>1
  <2> QED  BY <1>4, <1>6, <2>1, <2>2
<1>8. g = Body(g)
  <2>1. ASSUME NEW n \in 0..N PROVE g[n] = Body(g)[n]
    <3>1. CASE n = 0
      BY <1>1, <1>5, <1>6, <3>1
    <3>2. CASE n # 0
      <4>1. n \in 1..N
        BY <3>2
      <4> QED  BY <1>1, <1>7, <4>1, <3>2
    <3> QED  BY <3>1, <3>2
  <2> QED  BY <1>1, <1>6, <2>1
<1> DEFINE f0 == CHOOSE f : f = Body(f)
<1>9. PICK f : f = f0
  OBVIOUS
<1>10. f = Body(f)
  <2>1. f0 = Body(f0)
    <3> HIDE DEF Body
    <3> QED  BY <1>8
  <2> HIDE DEF f0, Body
  <2> QED  BY <1>9, <2>1
<1>11. Listing(skill, dir, files) = f[N]
  BY <1>1, <1>9 DEF Listing
<1> HIDE DEF f0
<1>12. ASSUME NEW n \in 0..N
       PROVE  f[n] = IF n = 0 THEN <<>> ELSE Next1(n, f[n - 1])
  <2>1. f[n] = Body(f)[n]
    <3> HIDE DEF Body
    <3> QED  BY <1>10
  <2> QED  BY <1>1, <2>1
<1> HIDE DEF Body, Next1, step
<1>13. f[N] = g[N]
  <2> DEFINE T == {m \in Nat : m <= N => f[m] = g[m]}
  <2>1. 0 \in T
    BY <1>5, <1>6, <1>12
  <2>2. ASSUME NEW m \in Nat, m \in T PROVE m + 1 \in T
    <3> SUFFICES ASSUME m + 1 <= N PROVE f[m + 1] = g[m + 1]
      OBVIOUS
    <3>1. m + 1 \in 1..N /\ m + 1 \in 0..N /\ (m + 1) - 1 = m /\ f[m] = g[m] /\ m + 1 # 0
      BY <1>1, <2>2
    <3> QED  BY <1>7, <1>12, <3>1
  <2>3. N \in T
    <3> HIDE DEF T
    <3> QED  BY <1>1, <2>1, <2>2, Induction
  <2> QED  BY <1>1, <2>3
<1>14. \A n \in 1..Len(files) :
          g[n] = IF IsStrictPrefix(dir, files[n].path)
                 THEN Listed(g[n - 1], Child(skill, dir, files[n].path))
                 ELSE g[n - 1]
  BY <1>1, <1>7 DEF Next1
<1> QED
  BY <1>1, <1>5, <1>6, <1>11, <1>13, <1>14

\* A listing names each of the children once, and no other.
LEMMA ListingIsWhole ==
  ASSUME NEW skill, skill.name \in Segments, NEW dir \in Seq(Segments),
         NEW files \in Seq(FileRecords),
         \A k, l \in DOMAIN files : files[k].path = files[l].path => k = l
  PROVE  /\ Listing(skill, dir, files) \in Seq(Nodes)
         /\ IsInjective(Listing(skill, dir, files))
         /\ ToSet(Listing(skill, dir, files)) =
              {Child(skill, dir, files[k].path) :
                 k \in {k \in DOMAIN files : IsStrictPrefix(dir, files[k].path)}}
<1> DEFINE child(k) == Child(skill, dir, files[k].path)
           Kids(n) == {k \in 1..n : IsStrictPrefix(dir, files[k].path)}
<1>1. PICK upTo \in [0..Len(files) -> Seq(Nodes)] :
         /\ upTo[0] = <<>>
         /\ \A n \in 1..Len(files) :
               upTo[n] = IF IsStrictPrefix(dir, files[n].path)
                         THEN Listed(upTo[n - 1], child(n))
                         ELSE upTo[n - 1]
         /\ Listing(skill, dir, files) = upTo[Len(files)]
  BY ListingUpTo
<1>2. PICK N \in Nat : N = Len(files) /\ DOMAIN files = 1..N
  BY LenProperties
<1>3. ASSUME NEW n \in 1..N PROVE files[n].path \in Seq(Segments)
  <2>1. files[n] \in FileRecords
    BY <1>2, ElementOfSeq
  <2> QED  BY <2>1 DEF FileRecords
<1>4. \A n \in 1..N : IsStrictPrefix(dir, files[n].path) => child(n) \in Nodes
  BY <1>3, ChildType
<1>5. ASSUME NEW k \in 1..N, NEW l \in 1..N, child(k) = child(l), child(k).kind = "file",
             IsStrictPrefix(dir, files[k].path), IsStrictPrefix(dir, files[l].path)
      PROVE  k = l
  <2>1. /\ child(k).uri = <<skill.name>> \o files[k].path
        /\ child(l).uri = <<skill.name>> \o files[l].path
    BY <1>5 DEF Child, File, Dir
  <2>2. \A path \in Seq(Segments) : Tail(<<skill.name>> \o path) = path
    BY SplitOnce
  <2>3. files[k].path = files[l].path
    BY <1>3, <1>5, <2>1, <2>2
  <2> QED  BY <1>2, <2>3
<1> DEFINE Whole(n) == /\ IsInjective(upTo[n])
                       /\ ToSet(upTo[n]) = {child(k) : k \in Kids(n)}
           T == {n \in Nat : n <= N => Whole(n)}
<1>6. 0 \in T
  <2>1. Kids(0) = {}
    OBVIOUS
  <2> QED  BY <1>1, <2>1 DEF ToSet, IsInjective
<1>7. ASSUME NEW m \in Nat, m \in T PROVE m + 1 \in T
  <2> SUFFICES ASSUME m + 1 <= N PROVE Whole(m + 1)
    OBVIOUS
  <2>1. m + 1 \in 1..N /\ (m + 1) - 1 = m /\ m \in 0..N /\ m <= N
    BY <1>2
  <2>2. Whole(m)
    BY <1>7, <2>1
  <2> DEFINE strict == IsStrictPrefix(dir, files[m + 1].path)
  <2>3. /\ upTo[m] \in Seq(Nodes)
        /\ upTo[m + 1] = IF strict THEN Listed(upTo[m], child(m + 1)) ELSE upTo[m]
    BY <1>1, <1>2, <2>1
  <2>4. Kids(m + 1) = IF strict THEN Kids(m) \cup {m + 1} ELSE Kids(m)
    OBVIOUS
  <2>5. CASE ~strict
    BY <2>2, <2>3, <2>4, <2>5
  <2>6. CASE strict
    <3>1. {child(k) : k \in Kids(m + 1)} = {child(k) : k \in Kids(m)} \cup {child(m + 1)}
      BY <2>4, <2>6
    <3>2. child(m + 1) \in Nodes
      BY <1>4, <2>1, <2>6
    <3>3. CASE child(m + 1) \in ToSet(upTo[m])
      <4>1. child(m + 1).kind = "directory"
        <5>1. PICK k \in Kids(m) : child(m + 1) = child(k)
          BY <2>2, <3>3
        <5>2. k \in 1..N /\ k # m + 1
          BY <2>1
        <5> HIDE DEF child
        <5>3. child(m + 1).kind # "file"
          BY <1>5, <2>1, <2>6, <5>1, <5>2
        <5> QED  BY <3>2, <5>3 DEF Nodes
      <4>2. upTo[m + 1] = upTo[m]
        BY <2>3, <2>6, <3>3, <4>1 DEF Listed
      <4> QED  BY <2>2, <3>1, <3>3, <4>2
    <3>4. CASE child(m + 1) \notin ToSet(upTo[m])
      <4>1. upTo[m + 1] = Append(upTo[m], child(m + 1))
        BY <2>3, <2>6, <3>4 DEF Listed
      <4>2. PICK x \in Nodes : x = child(m + 1)
        BY <3>2
      <4>3. upTo[m + 1] = Append(upTo[m], x) /\ upTo[m] \in Seq(Nodes) /\ x \notin ToSet(upTo[m])
        BY <2>3, <3>4, <4>1, <4>2
      <4>4. /\ ToSet(upTo[m + 1]) = ToSet(upTo[m]) \cup {x}
            /\ IsInjective(upTo[m]) => IsInjective(upTo[m + 1])
        BY <4>3, AppendNew
      <4> QED  BY <2>2, <3>1, <4>2, <4>4
    <3> QED  BY <3>3, <3>4
  <2> QED  BY <2>5, <2>6
<1>8. N \in T
  <2> HIDE DEF T
  <2> QED  BY <1>6, <1>7, Induction
<1>9. Whole(N) /\ upTo[N] \in Seq(Nodes)
  <2>1. N \in 0..Len(files) /\ N <= N
    BY <1>2
  <2> QED  BY <1>1, <1>8, <2>1
<1> QED  BY <1>1, <1>2, <1>9

-----------------------------------------------------------------------------
UriOf(p) == FileUri(table[p[1]], At(p[1], p[2]))

\* What a table in use holds: plain paths, no two of them the same in a skill.
LEMMA InTable ==
  ASSUME table \in Tables, NEW i \in DOMAIN table
  PROVE  /\ table[i].name \in Segments /\ table[i].name # ""
         /\ \A j \in DOMAIN table : table[j].name = table[i].name => j = i
         /\ Files(table[i]) \in Seq(FileRecords)
         /\ \A k \in DOMAIN Files(table[i]) :
               /\ <<i, k>> \in Places
               /\ At(i, k).path \in Seq(Segments)
               /\ At(i, k).path # <<>>
               /\ ToSet(At(i, k).path) \cap NotDirSegs = {}
         /\ \A k, l \in DOMAIN Files(table[i]) : At(i, k).path = At(i, l).path => k = l
<1>1. table \in Seq(SkillRecords) /\ WellFormed(table)
  BY TablesAssumption
<1>2. table[i] \in SkillRecords
  BY <1>1, ElementOfSeq, LenProperties
<1>3. Files(table[i]) \in Seq(FileRecords)
  BY <1>2, FilesType
<1>4. ASSUME NEW k \in DOMAIN Files(table[i])
      PROVE  <<i, k>> \in Places /\ At(i, k).path \in Seq(Segments)
  <2>1. k \in 1..Len(Files(table[i])) /\ k \in Nat
    BY <1>3, LenProperties
  <2>2. Files(table[i])[k] \in FileRecords
    BY <1>3, <2>1, ElementOfSeq
  <2> QED  BY <2>1, <2>2 DEF Places, At, FileRecords
<1>5. table[i].name \in Segments
  BY <1>2 DEF SkillRecords
<1> QED  BY <1>1, <1>3, <1>4, <1>5 DEF WellFormed, At

LEMMA PlaceIn ==
  ASSUME table \in Tables, NEW p \in Places
  PROVE  /\ p[1] \in DOMAIN table /\ p[2] \in DOMAIN Files(table[p[1]])
         /\ p = <<p[1], p[2]>>
         /\ At(p[1], p[2]).path \in Seq(Segments)
         /\ Head(UriOf(p)) = table[p[1]].name
         /\ Tail(UriOf(p)) = At(p[1], p[2]).path
         /\ Len(UriOf(p)) = Len(At(p[1], p[2]).path) + 1
         /\ Len(At(p[1], p[2]).path) >= 1
<1>1. p[1] \in DOMAIN table /\ p[2] \in DOMAIN Files(table[p[1]]) /\ p = <<p[1], p[2]>>
  BY DEF Places
<1>2. /\ At(p[1], p[2]).path \in Seq(Segments) /\ At(p[1], p[2]).path # <<>>
      /\ table[p[1]].name \in Segments
  BY <1>1, InTable
<1>3. Len(At(p[1], p[2]).path) >= 1
  BY <1>2, LenProperties, EmptySeq
<1> QED  BY <1>1, <1>2, <1>3, SplitOnce DEF UriOf, FileUri

\* A name finds its skill.
LEMMA Named ==
  ASSUME table \in Tables, NEW i \in DOMAIN table
  PROVE  SkillNamed(table[i].name) = {table[i]}
<1>1. \A j \in DOMAIN table : table[j].name = table[i].name => j = i
  BY InTable
<1>2. table \in Seq(SkillRecords)
  BY TablesAssumption
<1>3. DOMAIN table = 1..Len(table) /\ Len(table) \in Nat
  BY <1>2, LenProperties
<1>4. \A j \in 1..(i - 1) : j \in DOMAIN table /\ j # i
  BY <1>3
<1> QED  BY <1>1, <1>4 DEF SkillNamed

\* A path finds its file.
LEMMA Readable ==
  ASSUME table \in Tables
  PROVE  /\ Read(INDEX_URI) # {}
         /\ \A p \in Places : Read(UriOf(p)) # {}
<1>1. Read(INDEX_URI) # {}
  BY DEF Read
<1>2. ASSUME NEW p \in Places PROVE Read(UriOf(p)) # {}
  <2>1. /\ p[1] \in DOMAIN table /\ p[2] \in DOMAIN Files(table[p[1]])
        /\ Head(UriOf(p)) = table[p[1]].name
        /\ Tail(UriOf(p)) = At(p[1], p[2]).path
        /\ Len(UriOf(p)) = Len(At(p[1], p[2]).path) + 1
        /\ Len(At(p[1], p[2]).path) >= 1 /\ Len(At(p[1], p[2]).path) \in Nat
    BY PlaceIn, LenProperties
  <2>2. SkillNamed(Head(UriOf(p))) = {table[p[1]]}
    BY <2>1, Named
  <2>3. At(p[1], p[2]) \in FileAt(table[p[1]], Tail(UriOf(p)))
    <3> DEFINE files == Files(table[p[1]])
    <3>1. /\ files \in Seq(FileRecords)
          /\ \A k, l \in DOMAIN files : files[k].path = files[l].path => k = l
      BY <2>1, InTable DEF At
    <3>2. DOMAIN files = 1..Len(files) /\ Len(files) \in Nat
      BY <3>1, LenProperties
    <3>3. \A l \in 1..(p[2] - 1) : l \in DOMAIN files /\ l # p[2]
      BY <2>1, <3>2
    <3> QED  BY <2>1, <3>1, <3>3 DEF FileAt, At
  <2>4. ~(Len(UriOf(p)) < 2)
    BY <2>1
  <2> DEFINE here == UNION {FileAt(s, Tail(UriOf(p))) : s \in SkillNamed(Head(UriOf(p)))}
  <2>5. here # {}
    BY <2>2, <2>3
  <2> HIDE DEF here
  <2>6. {[text |-> file.text, entries |-> {}] : file \in here} # {}
    BY <2>5
  <2> QED  BY <2>4, <2>6 DEF Read, here
<1> QED  BY <1>1, <1>2

\* The listing of a directory of a skill.
LEMMA ChildrenAre ==
  ASSUME table \in Tables, NEW i \in DOMAIN table, NEW dir \in Seq(Segments)
  PROVE  /\ IsInjective(Children(table[i], dir))
         /\ ToSet(Children(table[i], dir)) =
              {Child(table[i], dir, At(i, k).path) :
                 k \in {k \in DOMAIN Files(table[i]) : IsStrictPrefix(dir, At(i, k).path)}}
<1> DEFINE files == Files(table[i])
<1>1. /\ table[i].name \in Segments /\ files \in Seq(FileRecords)
      /\ \A k, l \in DOMAIN files : files[k].path = files[l].path => k = l
  BY InTable DEF At
<1> HIDE DEF files
<1>2. /\ IsInjective(Listing(table[i], dir, files))
      /\ ToSet(Listing(table[i], dir, files)) =
            {Child(table[i], dir, files[k].path) :
               k \in {k \in DOMAIN files : IsStrictPrefix(dir, files[k].path)}}
  BY <1>1, ListingIsWhole
<1> QED  BY <1>2 DEF Children, files, At

\* The directories of a skill are walkable, each with its own listing.
LEMMA Walkable ==
  ASSUME table \in Tables, NEW i \in DOMAIN table, NEW dir \in Seq(Segments),
         IsDirectory(table[i], dir)
  PROVE  Directory(<<table[i].name>> \o dir) = {Children(table[i], dir)}
<1>1. table[i].name \in Segments /\ table[i].name # ""
  BY InTable
<1> DEFINE uri == <<table[i].name>> \o dir
<1>2. Head(uri) = table[i].name /\ Tail(uri) = dir /\ uri # <<>>
  <2>1. Len(uri) = Len(dir) + 1 /\ Len(dir) \in Nat /\ Len(<<>>) = 0
    BY <1>1, SplitOnce, LenProperties
  <2>2. Head(uri) = table[i].name /\ Tail(uri) = dir
    BY <1>1, SplitOnce
  <2> HIDE DEF uri
  <2> QED  BY <2>1, <2>2
<1>3. ToSet(dir) \cap NotDirSegs = {}
  <2>1. CASE dir = <<>>
    BY <2>1 DEF ToSet
  <2>2. CASE dir # <<>>
    <3>1. PICK k \in DOMAIN Files(table[i]) : IsStrictPrefix(dir, At(i, k).path)
      BY <2>2 DEF IsDirectory, ToSet, At
    <3>2. PICK path \in Seq(Segments) : path = At(i, k).path
      BY InTable
    <3>3. ToSet(path) \cap NotDirSegs = {}
      BY <3>2, InTable
    <3>4. Len(dir) < Len(path) /\ SubSeq(path, 1, Len(dir)) = dir
      BY <3>1, <3>2, Below
    <3>5. /\ DOMAIN dir = 1..Len(dir) /\ Len(dir) \in Nat
          /\ DOMAIN path = 1..Len(path) /\ Len(path) \in Nat
      BY LenProperties
    <3>6. \A n \in 1..Len(dir) : SubSeq(path, 1, Len(dir))[n] = path[n]
      <4>1. Len(dir) \in 0..(Len(path) - 1)
        BY <3>4, <3>5
      <4> QED  BY <4>1, Below
    <3>7. \A n \in DOMAIN dir : n \in DOMAIN path /\ dir[n] = path[n]
      BY <3>4, <3>5, <3>6
    <3> QED  BY <3>3, <3>7 DEF ToSet
  <2> QED  BY <2>1, <2>2
<1>4. SkillNamed(Head(uri)) = {table[i]}
  BY <1>2, Named
<1> HIDE DEF uri
<1>5. {s \in SkillNamed(Head(uri)) : IsDirectory(s, Tail(uri))} = {table[i]}
  BY <1>2, <1>4
<1>6. {Children(s, dir) : s \in {table[i]}} = {Children(table[i], dir)}
  OBVIOUS
<1>7. ~(uri = <<>> \/ Head(uri) = "" \/ ToSet(Tail(uri)) \cap NotDirSegs # {})
  BY <1>1, <1>2, <1>3
<1>8. Directory(uri) = {Children(table[i], dir)}
  BY <1>2, <1>5, <1>6, <1>7 DEF Directory
<1> QED  BY <1>8 DEF uri

\* And nothing else is.
LEMMA WalkedIsDirectory ==
  ASSUME table \in Tables, NEW uri \in Uris, NEW resources \in Directory(uri)
  PROVE  \E i \in DOMAIN table : \E dir \in Seq(Segments) :
            /\ uri = <<table[i].name>> \o dir
            /\ IsDirectory(table[i], dir)
            /\ resources = Children(table[i], dir)
<1>1. uri \in Seq(Segments) /\ uri # <<>>
  BY UrisAssumption DEF Directory
<1>2. PICK s \in SkillNamed(Head(uri)) : IsDirectory(s, Tail(uri)) /\ resources = Children(s, Tail(uri))
  BY DEF Directory
<1>3. PICK i \in DOMAIN table : s = table[i] /\ table[i].name = Head(uri)
  BY <1>2 DEF SkillNamed
<1>4. /\ Head(uri) \in Segments /\ Tail(uri) \in Seq(Segments)
      /\ uri = <<Head(uri)>> \o Tail(uri)
  BY <1>1, JoinSplit
<1> QED  BY <1>2, <1>3, <1>4

-----------------------------------------------------------------------------
\* A listing shows files and directories of its skill.
Shown(n) ==
    \/ n = File(INDEX_URI)
    \/ \E p \in Places : n = File(UriOf(p))
    \/ \E i \in DOMAIN table : \E dir \in Seq(Segments) :
          IsDirectory(table[i], dir) /\ n = Dir(<<table[i].name>> \o dir)

LEMMA ChildIsShown ==
  ASSUME table \in Tables, NEW i \in DOMAIN table, NEW dir \in Seq(Segments),
         NEW n \in ToSet(Children(table[i], dir))
  PROVE  Shown(n)
<1>1. PICK k \in DOMAIN Files(table[i]) :
         IsStrictPrefix(dir, At(i, k).path) /\ n = Child(table[i], dir, At(i, k).path)
  BY ChildrenAre
<1>2. PICK path \in Seq(Segments) : path = At(i, k).path
  BY InTable
<1>3. table[i].name \in Segments /\ <<i, k>> \in Places
  BY InTable
<1>4. Len(dir) \in Nat /\ Len(path) \in Nat /\ Len(dir) < Len(path)
  BY <1>1, <1>2, LenProperties, Below
<1>5. CASE Len(dir) = Len(path) - 1
  <2>1. n = File(<<table[i].name>> \o path)
    BY <1>1, <1>2, <1>3, <1>5, ChildType
  <2>2. UriOf(<<i, k>>) = <<table[i].name>> \o path
    BY <1>2 DEF UriOf, FileUri
  <2> QED  BY <1>3, <2>1, <2>2 DEF Shown
<1>6. CASE Len(dir) # Len(path) - 1
  <2> DEFINE sub == SubSeq(path, 1, Len(dir) + 1)
  <2>1. n = Dir(<<table[i].name>> \o sub) /\ sub \in Seq(Segments)
    BY <1>1, <1>2, <1>3, <1>6, ChildType
  <2>2. Len(dir) + 1 \in 0..(Len(path) - 1)
    BY <1>4, <1>6
  <2>3. IsStrictPrefix(sub, path)
    BY <2>2, Below
  <2> HIDE DEF sub
  <2>4. IsDirectory(table[i], sub)
    BY <1>2, <2>3 DEF IsDirectory, ToSet, At
  <2> QED  BY <2>1, <2>4 DEF Shown
<1> QED  BY <1>5, <1>6

\* The client is shown what the table holds, and what it walked it has seen.
WalkInv ==
    /\ walked \subseteq Uris
    /\ \A n \in found : Shown(n)
    /\ \A uri \in walked : \A resources \in Directory(uri) : ToSet(resources) \subseteq found

LEMMA WalkInit == Init => WalkInv
  BY DEF Init, WalkInv

LEMMA WalkStep == IInv /\ WalkInv /\ [Next]_vars => WalkInv'
<1> SUFFICES ASSUME IInv, WalkInv, [Next]_vars PROVE WalkInv'
  OBVIOUS
<1>1. table' = table
  BY DEF Next, vars, GetInfo, Discover, ListSkills, ListResources, GetSkill,
         ReadDirectory, ReadResource
<1>2. table \in Tables
  BY DEF IInv
<1>3. /\ \A n : Shown(n)' <=> Shown(n)
      /\ \A uri : Directory(uri)' = Directory(uri)
  BY <1>1 DEF Shown, Places, UriOf, At, Directory, SkillNamed
<1>4. ASSUME UNCHANGED <<found, walked>> PROVE WalkInv'
  BY <1>3, <1>4 DEF WalkInv
<1>5. CASE ListResources
  <2>1. found' = found \cup Resources /\ walked' = walked
    BY <1>5 DEF ListResources
  <2>2. ASSUME NEW n \in Resources PROVE Shown(n)
    <3>1. ASSUME NEW i \in DOMAIN table PROVE Shown(File(EntryUri(table[i])))
      BY <1>2, Playbook DEF Shown, UriOf
    <3> QED  BY <2>2, <3>1 DEF Resources, Shown
  <2> QED  BY <1>3, <2>1, <2>2 DEF WalkInv
<1>6. ASSUME NEW uri \in Uris, ReadDirectory(uri) PROVE WalkInv'
  <2>1. PICK resources \in Directory(uri) :
           found' = found \cup ToSet(resources) /\ walked' = walked \cup {uri}
    BY <1>6 DEF ReadDirectory
  <2>2. PICK i \in DOMAIN table : \E dir \in Seq(Segments) :
           /\ uri = <<table[i].name>> \o dir
           /\ IsDirectory(table[i], dir)
           /\ resources = Children(table[i], dir)
    BY <1>2, WalkedIsDirectory
  <2>3. PICK dir \in Seq(Segments) :
           /\ uri = <<table[i].name>> \o dir
           /\ IsDirectory(table[i], dir)
           /\ resources = Children(table[i], dir)
    BY <2>2
  <2>4. \A n \in ToSet(resources) : Shown(n)
    BY <1>2, <2>3, ChildIsShown
  <2>5. Directory(uri) = {resources}
    BY <1>2, <2>3, Walkable
  <2> QED  BY <1>3, <2>1, <2>4, <2>5 DEF WalkInv
<1>7. ASSUME NEW uri \in Uris, GetSkill(uri) \/ ReadResource(uri) PROVE WalkInv'
  BY <1>4, <1>7 DEF GetSkill, ReadResource
<1>8. CASE GetInfo \/ Discover \/ ListSkills \/ UNCHANGED vars
  BY <1>4, <1>8 DEF GetInfo, Discover, ListSkills, vars
<1> QED
  BY <1>5, <1>6, <1>7, <1>8 DEF Next

THEOREM WalkInvariance == Spec => [](IInv /\ WalkInv)
<1>1. Init => IInv /\ WalkInv
  BY InitInv, WalkInit
<1>2. IInv /\ WalkInv /\ [Next]_vars => (IInv /\ WalkInv)'
  BY StepInv, WalkStep
<1> QED  BY <1>1, <1>2, PTL DEF Spec

\* Whatever a client is shown it can follow: a file it can read, a directory it
\* can walk, for every well-formed table.
THEOREM NothingDangles == Spec => []NothingDangling
<1>1. IInv /\ WalkInv => NothingDangling
  <2> SUFFICES ASSUME IInv, WalkInv PROVE NothingDangling
    OBVIOUS
  <2>1. table \in Tables
    BY DEF IInv
  <2>2. ASSUME NEW n \in found
        PROVE  IF n.kind = "file" THEN Read(n.uri) # {} ELSE Directory(n.uri) # {}
    <3>1. Shown(n)
      BY DEF WalkInv
    <3>2. CASE n = File(INDEX_URI)
      BY <2>1, <3>2, Readable DEF File
    <3>3. ASSUME NEW p \in Places, n = File(UriOf(p)) PROVE n.kind = "file" /\ Read(n.uri) # {}
      BY <2>1, <3>3, Readable DEF File
    <3>4. ASSUME NEW i \in DOMAIN table, NEW dir \in Seq(Segments),
                 IsDirectory(table[i], dir), n = Dir(<<table[i].name>> \o dir)
          PROVE  n.kind = "directory" /\ Directory(n.uri) # {}
      <4>1. Directory(<<table[i].name>> \o dir) # {}
        BY <2>1, <3>4, Walkable
      <4> QED  BY <3>4, <4>1 DEF Dir
    <3> QED  BY <3>1, <3>2, <3>3, <3>4 DEF Shown
  <2>3. ASSUME NEW entry \in known, NEW r \in ToSet(entry.resources)
        PROVE  Read(r.uri) # {}
    <3>1. PICK i \in DOMAIN table : entry = BuildEntry(table[i])
      BY DEF IInv, Built
    <3>2. PICK k \in DOMAIN Files(table[i]) : r.uri = FileUri(table[i], At(i, k))
      BY <3>1 DEF ToSet, BuildEntry, At
    <3>3. <<i, k>> \in Places /\ r.uri = UriOf(<<i, k>>)
      BY <2>1, <3>2, InTable DEF UriOf
    <3> QED  BY <2>1, <3>3, Readable
  <2> QED  BY <2>2, <2>3 DEF NothingDangling
<1> QED  BY <1>1, WalkInvariance, PTL

\* No listing names a child twice.
THEOREM ListsOnce == Spec => []ListedOnce
<1>1. IInv /\ WalkInv => ListedOnce
  <2> SUFFICES ASSUME IInv, WalkInv, NEW uri \in walked, NEW resources \in Directory(uri)
               PROVE  IsInjective(resources)
    BY DEF ListedOnce
  <2>1. table \in Tables /\ uri \in Uris
    BY DEF IInv, WalkInv
  <2> QED  BY <2>1, WalkedIsDirectory, ChildrenAre
<1> QED  BY <1>1, WalkInvariance, PTL

-----------------------------------------------------------------------------
\* A client that walked every directory it was shown under a skill walked every
\* directory above each of the files, from the root down.
LEMMA WalkedDown ==
  ASSUME IInv, WalkInv, NEW i \in DOMAIN table, NEW k \in DOMAIN Files(table[i]),
         <<table[i].name>> \in walked,
         \A n \in found : n.kind = "directory" /\ Head(n.uri) = table[i].name => n.uri \in walked
  PROVE  File(UriOf(<<i, k>>)) \in found
<1>1. table \in Tables /\ table[i].name \in Segments
  <2>1. table \in Tables
    BY DEF IInv
  <2> QED  BY <2>1, InTable
<1>2. PICK path \in Seq(Segments) : path = At(i, k).path /\ path # <<>>
  BY <1>1, InTable
<1>3. Len(path) \in Nat /\ Len(path) >= 1
  BY <1>2, LenProperties, EmptySeq
<1> DEFINE above(d) == SubSeq(path, 1, d)
           uri(d) == <<table[i].name>> \o above(d)
<1>4. ASSUME NEW d \in 0..(Len(path) - 1), uri(d) \in walked
      PROVE  Child(table[i], above(d), path) \in found
  <2>1. above(d) \in Seq(Segments) /\ IsStrictPrefix(above(d), path)
    BY <1>3, Below
  <2> HIDE DEF above
  <2>2. IsDirectory(table[i], above(d))
    BY <1>2, <2>1 DEF IsDirectory, ToSet, At
  <2>3. Directory(uri(d)) = {Children(table[i], above(d))}
    BY <1>1, <2>1, <2>2, Walkable
  <2>4. Child(table[i], above(d), path) \in ToSet(Children(table[i], above(d)))
    BY <1>1, <1>2, <2>1, ChildrenAre
  <2> QED  BY <1>4, <2>3, <2>4 DEF WalkInv
<1>5. ASSUME NEW d \in 0..(Len(path) - 1)
      PROVE  Child(table[i], above(d), path) =
               IF d = Len(path) - 1 THEN File(<<table[i].name>> \o path) ELSE Dir(uri(d + 1))
  <2>1. above(d) \in Seq(Segments) /\ IsStrictPrefix(above(d), path) /\ Len(above(d)) = d
    BY <1>3, Below
  <2> DEFINE dir == above(d)
  <2>2. dir \in Seq(Segments) /\ IsStrictPrefix(dir, path) /\ Len(dir) = d
    BY <2>1
  <2> HIDE DEF dir
  <2>3. Child(table[i], dir, path) =
              IF Len(dir) = Len(path) - 1
              THEN File(<<table[i].name>> \o path)
              ELSE Dir(<<table[i].name>> \o SubSeq(path, 1, Len(dir) + 1))
    BY <1>1, <2>2, ChildType
  <2> QED  BY <2>2, <2>3 DEF dir
<1> DEFINE T == {d \in Nat : d <= Len(path) - 1 => uri(d) \in walked}
<1>6. 0 \in T
  <2>1. above(0) \in Seq(Segments) /\ Len(above(0)) = 0
    BY <1>3, Below
  <2>2. above(0) = <<>>
    BY <2>1, EmptySeq
  <2>3. uri(0) = <<table[i].name>>
    <3>1. \A name \in Segments : <<name>> \o <<>> = <<name>>
      BY ConcatEmptySeq
    <3> HIDE DEF above
    <3> QED  BY <1>1, <2>2, <3>1
  <2> QED  BY <2>3
<1>7. ASSUME NEW d \in Nat, d \in T PROVE d + 1 \in T
  <2> SUFFICES ASSUME d + 1 <= Len(path) - 1 PROVE uri(d + 1) \in walked
    OBVIOUS
  <2>1. d \in 0..(Len(path) - 1) /\ d # Len(path) - 1
    BY <1>3
  <2>2. uri(d) \in walked
    BY <1>7, <2>1
  <2>3. Dir(uri(d + 1)) \in found
    <3> HIDE DEF uri, above
    <3> QED  BY <1>4, <1>5, <2>1, <2>2
  <2>4. Head(uri(d + 1)) = table[i].name
    <3>1. d + 1 \in 0..(Len(path) - 1)
      BY <1>3
    <3>2. above(d + 1) \in Seq(Segments)
      BY <3>1, Below
    <3> HIDE DEF above
    <3> QED  BY <1>1, <3>2, SplitOnce
  <2> HIDE DEF uri
  <2> QED  BY <2>3, <2>4 DEF Dir
<1>8. Len(path) - 1 \in T
  <2>1. Len(path) - 1 \in Nat
    BY <1>3
  <2> HIDE DEF T
  <2> QED  BY <1>6, <1>7, <2>1, Induction
<1>9. File(<<table[i].name>> \o path) \in found
  <2>1. Len(path) - 1 \in 0..(Len(path) - 1) /\ uri(Len(path) - 1) \in walked
    BY <1>3, <1>8
  <2> HIDE DEF uri, above
  <2> QED  BY <1>4, <1>5, <2>1
<1> QED  BY <1>2, <1>9 DEF UriOf, FileUri

\* What a walk of a skill finds is its manifest, whatever else it was shown.
THEOREM WalkFindsManifest == Spec => []WalkIsManifest
<1>1. IInv /\ WalkInv => WalkIsManifest
  <2> SUFFICES ASSUME IInv, WalkInv, NEW i \in DOMAIN table PROVE
        LET under == {n \in found : Head(n.uri) = table[i].name}
            files == {n.uri : n \in {n \in under : n.kind = "file"}}
            dirs  == {n.uri : n \in {n \in under : n.kind = "directory"}}
            root  == <<table[i].name>> IN
        ({root} \cup dirs) \subseteq walked =>
            files \ {INDEX_URI} = {r.uri : r \in ToSet(BuildEntry(table[i]).resources)}
    BY DEF WalkIsManifest
  <2> DEFINE under == {n \in found : Head(n.uri) = table[i].name}
             files == {n.uri : n \in {n \in under : n.kind = "file"}}
             dirs  == {n.uri : n \in {n \in under : n.kind = "directory"}}
  <2> SUFFICES ASSUME ({<<table[i].name>>} \cup dirs) \subseteq walked
               PROVE  files \ {INDEX_URI} = {r.uri : r \in ToSet(BuildEntry(table[i]).resources)}
    OBVIOUS
  <2>1. table \in Tables
    BY DEF IInv
  <2>2. {r.uri : r \in ToSet(BuildEntry(table[i]).resources)}
           = {UriOf(<<i, k>>) : k \in DOMAIN Files(table[i])}
    <3> DEFINE resources == BuildEntry(table[i]).resources
    <3>1. /\ DOMAIN resources = DOMAIN Files(table[i])
          /\ \A k \in DOMAIN Files(table[i]) : resources[k].uri = UriOf(<<i, k>>)
      BY DEF BuildEntry, UriOf, At
    <3> HIDE DEF resources
    <3>2. {r.uri : r \in ToSet(resources)} = {UriOf(<<i, k>>) : k \in DOMAIN Files(table[i])}
      BY <3>1 DEF ToSet
    <3> QED  BY <3>2 DEF resources
  <2>3. ASSUME NEW n \in under, n.kind = "file", n.uri # INDEX_URI
        PROVE  \E k \in DOMAIN Files(table[i]) : n.uri = UriOf(<<i, k>>)
    <3>1. Shown(n) /\ n # File(INDEX_URI)
      BY <2>3 DEF WalkInv, File
    <3>2. \A u : n # Dir(u)
      BY <2>3 DEF Dir
    <3>3. PICK p \in Places : n = File(UriOf(p))
      BY <3>1, <3>2 DEF Shown
    <3>4. Head(UriOf(p)) = table[i].name
      BY <3>3 DEF File
    <3>5. /\ p[1] \in DOMAIN table /\ p[2] \in DOMAIN Files(table[p[1]])
          /\ p = <<p[1], p[2]>> /\ table[p[1]].name = table[i].name
      BY <2>1, <3>4, PlaceIn
    <3>6. p[1] = i
      BY <2>1, <3>5, InTable
    <3> QED  BY <3>3, <3>5, <3>6 DEF File
  <2>4. ASSUME NEW k \in DOMAIN Files(table[i])
        PROVE  UriOf(<<i, k>>) \in files \ {INDEX_URI}
    <3>1. <<i, k>> \in Places
      BY <2>1, InTable
    <3>2. Head(UriOf(<<i, k>>)) = table[i].name /\ UriOf(<<i, k>>) # INDEX_URI
      BY <2>1, <3>1, PlaceIn, PlaceOfUri DEF UriOf
    <3>3. File(UriOf(<<i, k>>)) \in found
      BY WalkedDown
    <3> QED  BY <3>2, <3>3 DEF File
  <2> QED  BY <2>2, <2>3, <2>4
<1> QED  BY <1>1, WalkInvariance, PTL
=============================================================================
