-------------------------- MODULE FrontmatterProofs --------------------------
(***************************************************************************)
(* What parse_frontmatter finds against what a host finds, in documents of *)
(* any length.                                                             *)
(***************************************************************************)
EXTENDS Frontmatter, SequenceTheorems, WellFoundedInduction, TLAPS

\* There is a least number in every set of numbers that has one.
LEMMA Least ==
  ASSUME NEW T, T \subseteq Nat, T # {}
  PROVE  \E n \in T : \A m \in T : n <= m
<1> DEFINE R == OpToRel(<, Nat)
<1>1. \A m, n \in Nat : m < n => <<m, n>> \in R
  BY DEF OpToRel
<1>2. IsWellFoundedOn(R, Nat)
  BY NatLessThanWellFounded
<1> HIDE DEF R
<1>3. PICK n \in T : \A m \in T : ~(<<m, n>> \in R)
  BY <1>2, WFMin
<1>4. \A m \in T : ~(m < n)
  BY <1>1, <1>3
<1> QED  BY <1>4

\* A mapping has lines of its block as fields, all of them unless the first is a
\* marker, and no key twice.
LEMMA YamlFields ==
  ASSUME NEW block \in Seq(Lines)
  PROVE  /\ UNION Yaml(block) \subseteq ToSet(block)
         /\ Yaml(block) # {} /\ Head(block) # Fence =>
               block # <<>> /\ UNION Yaml(block) = ToSet(block)
         /\ \A f, g \in UNION Yaml(block) : f.key = g.key => f = g
<1> DEFINE marked  == block # <<>> /\ Head(block) = Fence
           content == IF marked THEN Tail(block) ELSE block
<1>1. CASE Yaml(block) = {}
  BY <1>1
<1>2. CASE Yaml(block) # {}
  <2>1. /\ Yaml(block) = {ToSet(content)} /\ content # <<>>
        /\ \A i, j \in DOMAIN content : content[i].key = content[j].key => i = j
    BY <1>2 DEF Yaml
  <2>2. UNION Yaml(block) = ToSet(content)
    BY <2>1
  <2>3. ToSet(content) \subseteq ToSet(block)
    <3>1. CASE marked
      <4>1. /\ Tail(block) \in Seq(Lines) /\ Len(Tail(block)) = Len(block) - 1
            /\ \A j \in 1..Len(Tail(block)) : Tail(block)[j] = block[j + 1]
        BY <3>1, HeadTailProperties
      <4>2. /\ Len(block) \in Nat /\ DOMAIN block = 1..Len(block)
            /\ DOMAIN Tail(block) = 1..(Len(block) - 1)
        BY <4>1, LenProperties
      <4>3. \A j \in DOMAIN Tail(block) : j + 1 \in DOMAIN block
        BY <4>2
      <4> QED  BY <3>1, <4>1, <4>2, <4>3 DEF ToSet
    <3> QED  BY <3>1
  <2>4. ASSUME NEW f \in ToSet(content), NEW g \in ToSet(content), f.key = g.key
        PROVE  f = g
    <3> HIDE DEF content
    <3>1. PICK i \in DOMAIN content : content[i] = f
      BY DEF ToSet
    <3>2. PICK j \in DOMAIN content : content[j] = g
      BY DEF ToSet
    <3> QED  BY <2>1, <2>4, <3>1, <3>2
  <2>5. Head(block) # Fence => content = block
    OBVIOUS
  <2> HIDE DEF content
  <2> QED  BY <2>1, <2>2, <2>3, <2>4, <2>5
<1> QED  BY <1>1, <1>2

\* Of the lines a block may end at one is the first.
LEMMA OneBlock ==
  ASSUME NEW doc, NEW ends \in SUBSET Nat, NEW a \in BlockTo(doc, ends),
         NEW b \in BlockTo(doc, ends)
  PROVE  a = b
<1>1. PICK k \in ends : (\A l \in ends : k <= l) /\ a = SubSeq(doc, 2, k - 1)
  BY DEF BlockTo
<1>2. PICK l \in ends : (\A n \in ends : l <= n) /\ b = SubSeq(doc, 2, l - 1)
  BY DEF BlockTo
<1>3. k = l
  <2>1. k <= l /\ l <= k /\ k \in Nat /\ l \in Nat
    BY <1>1, <1>2
  <2> QED  BY <2>1
<1> QED  BY <1>1, <1>2, <1>3

\* The lines between the first and the k-th.
Between(doc, k) == {doc[n] : n \in 2..(k - 1)}

\* A block is the lines between the opening and its end.
LEMMA BlockLines ==
  ASSUME NEW doc \in Seq(Lines), NEW ends \in SUBSET (2..Len(doc)),
         NEW block \in BlockTo(doc, ends)
  PROVE  /\ block \in Seq(Lines)
         /\ \E k \in ends : /\ \A l \in ends : k <= l
                            /\ Len(block) = k - 2
                            /\ \A i \in 1..(k - 2) : block[i] = doc[i + 1]
                            /\ ToSet(block) = Between(doc, k)
<1>1. PICK k \in ends : (\A l \in ends : k <= l) /\ block = SubSeq(doc, 2, k - 1)
  BY DEF BlockTo
<1>2. Len(doc) \in Nat /\ k \in 2..Len(doc)
  BY LenProperties
<1>3. /\ block \in Seq(Lines)
      /\ Len(block) = IF 2 <= k - 1 THEN (k - 1) - 2 + 1 ELSE 0
      /\ \A i \in 1..((k - 1) - 2 + 1) : block[i] = doc[2 + i - 1]
  BY <1>1, <1>2, SubSeqProperties
<1>4. Len(block) = k - 2 /\ \A i \in 1..(k - 2) : block[i] = doc[i + 1]
  BY <1>2, <1>3
<1>5. DOMAIN block = 1..(k - 2)
  BY <1>3, <1>4, LenProperties
<1>6. ToSet(block) = Between(doc, k)
  <2>1. \A i \in 1..(k - 2) : i + 1 \in 2..(k - 1)
    BY <1>2
  <2>2. \A n \in 2..(k - 1) : n - 1 \in 1..(k - 2) /\ (n - 1) + 1 = n
    BY <1>2
  <2>3. ASSUME NEW n \in 2..(k - 1) PROVE doc[n] \in ToSet(block)
    BY <1>4, <1>5, <2>2 DEF ToSet
  <2> QED  BY <1>4, <1>5, <2>1, <2>3 DEF ToSet, Between
<1> QED  BY <1>1, <1>3, <1>4, <1>6

\* In a document that is ruled off, the first line the code may end the block at is
\* the first one a host may.
LEMMA SameEnd ==
  ASSUME NEW doc \in Seq(Lines), RuledOff(doc)
  PROVE  BlockTo(doc, Ends(doc)) = BlockTo(doc, HostEnds(doc))
<1>1. Len(doc) \in Nat /\ Ends(doc) \subseteq Nat /\ HostEnds(doc) \subseteq Nat
  BY LenProperties DEF Ends, HostEnds
<1>2. HostEnds(doc) \subseteq Ends(doc)
  BY <1>1 DEF RuledOff, HostEnds, Ends
<1>3. ASSUME NEW k \in Ends(doc), \A l \in Ends(doc) : k <= l
      PROVE  k \in HostEnds(doc) /\ \A l \in HostEnds(doc) : k <= l
  <2>1. doc[k] = Fence
    BY <1>3 DEF RuledOff
  <2>2. k \in 2..Len(doc)
    BY <1>1 DEF Ends
  <2> QED  BY <1>2, <1>3, <2>1, <2>2 DEF HostEnds
<1>4. ASSUME NEW k \in HostEnds(doc), \A l \in HostEnds(doc) : k <= l
      PROVE  k \in Ends(doc) /\ \A l \in Ends(doc) : k <= l
  <2>1. k \in Ends(doc)
    BY <1>2
  <2>2. PICK m \in Ends(doc) : \A l \in Ends(doc) : m <= l
    BY <1>1, <2>1, Least
  <2>3. m \in HostEnds(doc) /\ m <= k
    BY <1>3, <2>1, <2>2
  <2>4. m = k
    <3>1. k <= m /\ m <= k /\ k \in Nat /\ m \in Nat
      BY <1>1, <1>4, <2>3
    <3> QED  BY <3>1
  <2> QED  BY <2>1, <2>2, <2>4
<1>5. {k \in Ends(doc) : \A l \in Ends(doc) : k <= l}
        = {k \in HostEnds(doc) : \A l \in HostEnds(doc) : k <= l}
  BY <1>3, <1>4
<1> QED  BY <1>5 DEF BlockTo

\* No field is there twice: the mapping comes from one block.
LEMMA KeysDistinct ==
  ASSUME NEW doc \in Seq(Lines)
  PROVE  \A f, g \in UNION ParseFrontmatter(doc) : f.key = g.key => f = g
<1> SUFFICES ASSUME NEW f \in UNION ParseFrontmatter(doc),
                    NEW g \in UNION ParseFrontmatter(doc), f.key = g.key
             PROVE  f = g
  OBVIOUS
<1>1. Len(doc) \in Nat /\ Ends(doc) \in SUBSET Nat /\ Ends(doc) \in SUBSET (2..Len(doc))
  BY LenProperties DEF Ends
<1>2. ParseFrontmatter(doc) = UNION {Yaml(block) : block \in BlockTo(doc, Ends(doc))}
  BY DEF ParseFrontmatter
<1>3. PICK a \in BlockTo(doc, Ends(doc)) : f \in UNION Yaml(a)
  BY <1>2
<1>4. PICK b \in BlockTo(doc, Ends(doc)) : g \in UNION Yaml(b)
  BY <1>2
<1>5. a = b
  BY <1>1, OneBlock
<1>6. a \in Seq(Lines)
  BY <1>1, BlockLines
<1> QED  BY <1>3, <1>4, <1>5, <1>6, YamlFields

\* "Identical, field by field, to what a host parses out of the served SKILL.md":
\* true of each document that is ruled off; where a host finds fields in another,
\* its block runs on past the code's, which found no field the host has not.
THEOREM EveryDocument == \A doc \in Seq(Lines) : AsTheHostParses(doc)
<1> SUFFICES ASSUME NEW doc \in Seq(Lines) PROVE AsTheHostParses(doc)
  OBVIOUS
<1>1. /\ Len(doc) \in Nat
      /\ Ends(doc) \in SUBSET (2..Len(doc)) /\ HostEnds(doc) \in SUBSET (2..Len(doc))
      /\ Ends(doc) \in SUBSET Nat
  BY LenProperties DEF Ends, HostEnds
<1>2. RuledOff(doc) => ParseFrontmatter(doc) = HostFrontmatter(doc)
  BY SameEnd DEF ParseFrontmatter, HostFrontmatter
<1>3. ASSUME HostFrontmatter(doc) # {}, NEW f \in UNION ParseFrontmatter(doc)
      PROVE  f \in UNION HostFrontmatter(doc)
  <2>1. /\ HostFrontmatter(doc) = UNION {Yaml(block) : block \in BlockTo(doc, HostEnds(doc))}
        /\ ParseFrontmatter(doc) = UNION {Yaml(block) : block \in BlockTo(doc, Ends(doc))}
    BY <1>3 DEF HostFrontmatter, ParseFrontmatter
  <2>2. PICK b \in BlockTo(doc, HostEnds(doc)) : Yaml(b) # {}
    BY <1>3, <2>1
  <2>3. PICK a \in BlockTo(doc, Ends(doc)) : f \in UNION Yaml(a)
    BY <2>1
  <2>4. b \in Seq(Lines) /\ a \in Seq(Lines)
    BY <1>1, BlockLines
  <2>5. PICK k \in HostEnds(doc) : /\ \A l \in HostEnds(doc) : k <= l
                                   /\ Len(b) = k - 2
                                   /\ \A i \in 1..(k - 2) : b[i] = doc[i + 1]
                                   /\ ToSet(b) = Between(doc, k)
    BY <1>1, BlockLines
  <2>6. PICK l \in Ends(doc) : /\ \A n \in Ends(doc) : l <= n
                               /\ ToSet(a) = Between(doc, l)
    BY <1>1, BlockLines
  <2>7. k \in 2..Len(doc) /\ l \in 2..Len(doc)
    BY <1>1
  <2>8. b # <<>>
    BY <2>2 DEF Yaml
  <2>9. Head(b) # Fence /\ k >= 3
    <3>1. Len(b) \in Nat \ {0} /\ Head(b) = b[1]
      BY <2>4, <2>8, EmptySeq, LenProperties
    <3>2. k >= 3 /\ 1 \in 1..(k - 2) /\ 1 + 1 = 2 /\ 2 \in 2..Len(doc) /\ ~(k <= 2)
      BY <1>1, <2>5, <2>7, <3>1
    <3>3. Head(b) = doc[2]
      BY <2>5, <3>1, <3>2
    <3>4. doc[2] # Fence
      BY <2>5, <3>2 DEF HostEnds
    <3> QED  BY <3>2, <3>3, <3>4
  <2>10. l <= k
    <3>1. k \in Ends(doc)
      BY <1>1, <2>7, <2>9 DEF Ends, HostEnds
    <3> QED  BY <2>6, <3>1
  <2>11. f \in ToSet(a) /\ ToSet(a) \subseteq ToSet(b)
    <3>1. 2..(l - 1) \subseteq 2..(k - 1)
      BY <1>1, <2>7, <2>10
    <3>2. Between(doc, l) \subseteq Between(doc, k)
      BY <3>1 DEF Between
    <3> QED  BY <2>3, <2>4, <2>5, <2>6, <3>2, YamlFields
  <2>12. f \in UNION Yaml(b)
    BY <2>2, <2>4, <2>9, <2>11, YamlFields
  <2> QED  BY <2>1, <2>2, <2>12
<1> QED  BY <1>2, <1>3 DEF AsTheHostParses
=============================================================================
