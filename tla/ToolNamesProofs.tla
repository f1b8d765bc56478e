--------------------------- MODULE ToolNamesProofs ---------------------------
(***************************************************************************)
(* What ToolNames computes, for names of any characters and any length.    *)
(***************************************************************************)
EXTENDS ToolNames, SequenceTheorems, WellFoundedInduction, TLAPS

LEMMA PairOf == \A S, u : u \in S =>
  <<u, u>> \in Seq(S) /\ Len(<<u, u>>) = 2 /\ <<u, u>>[1] = u /\ <<u, u>>[2] = u
OBVIOUS

LEMMA ConcatParts ==
  ASSUME NEW S, NEW a \in Seq(S), NEW b \in Seq(S), NEW c, c = a \o b
  PROVE  /\ c \in Seq(S) /\ Len(c) = Len(a) + Len(b)
         /\ \A i \in 1..Len(a) : c[i] = a[i]
         /\ \A i \in 1..Len(b) : c[Len(a) + i] = b[i]
<1>1. Len(a) \in Nat /\ Len(b) \in Nat
  BY LenProperties
<1> QED
  BY <1>1, ConcatProperties

\* A concatenation is cut into its parts again where the first one ends.
LEMMA CutConcat ==
  ASSUME NEW S, NEW a \in Seq(S), NEW b \in Seq(S), NEW c, c = a \o b
  PROVE  SubSeq(c, 1, Len(a)) = a /\ SubSeq(c, Len(a) + 1, Len(c)) = b
<1>1. PICK k : k = Len(a)
  OBVIOUS
<1>2. k \in Nat /\ Len(b) \in Nat
  BY <1>1, LenProperties
<1>3. /\ c \in Seq(S) /\ Len(c) = k + Len(b)
      /\ \A i \in 1..k : c[i] = a[i]
      /\ \A i \in 1..Len(b) : c[k + i] = b[i]
  BY <1>1, ConcatParts
<1>4. \A i \in 1..Len(c) : c[i] \in S
  BY <1>3, ElementOfSeq
<1>5. SubSeq(c, 1, k) = a
  <2>1. PICK first : first = SubSeq(c, 1, k)
    OBVIOUS
  <2>2. first \in Seq(S) /\ Len(first) = k /\ \A i \in 1..k : first[i] = c[i]
    <3>1. /\ \A i \in 1..k : i \in 1..Len(c) /\ 1 + i - 1 = i
          /\ (IF 1 <= k THEN k - 1 + 1 ELSE 0) = k /\ k - 1 + 1 = k /\ k \in Int
      BY <1>2, <1>3
    <3> QED
      BY <1>4, <2>1, <3>1, SubSeqProperties
  <2> QED
    BY <1>1, <1>3, <2>1, <2>2, SeqEqual
<1>6. SubSeq(c, k + 1, Len(c)) = b
  <2>1. PICK rest : rest = SubSeq(c, k + 1, Len(c))
    OBVIOUS
  <2>2. rest \in Seq(S) /\ Len(rest) = Len(b) /\ \A i \in 1..Len(b) : rest[i] = c[k + i]
    <3>1. PICK l, m : l = Len(b) /\ m = Len(c)
      OBVIOUS
    <3>2. l \in Nat /\ m = k + l
      BY <1>2, <1>3, <3>1
    <3>3. /\ \A i \in (k + 1)..m : i \in 1..m
          /\ (IF k + 1 <= m THEN m - (k + 1) + 1 ELSE 0) = l
          /\ m - (k + 1) + 1 = l /\ k + 1 \in Int /\ m \in Int
      BY ONLY <1>2, <3>2
    <3>4. \A i \in 1..l : (k + 1) + i - 1 = k + i
      BY ONLY <1>2, <3>2
    <3>5. \A i \in (k + 1)..m : c[i] \in S
      BY <1>4, <3>1, <3>3
    <3>6. /\ rest \in Seq(S) /\ Len(rest) = l
          /\ \A i \in 1..l : rest[i] = c[(k + 1) + i - 1]
      BY ONLY <2>1, <3>1, <3>3, <3>5, SubSeqProperties
    <3> QED
      BY ONLY <3>1, <3>4, <3>6
  <2> QED
    BY <1>3, <2>1, <2>2, SeqEqual
<1> QED
  BY <1>1, <1>5, <1>6

\* The prefix that was put before a name is found there, and taken off again.
THEOREM StripJoined ==
  ASSUME NEW S, Underscore \in S, NEW key \in Seq(S), NEW tool \in Seq(S)
  PROVE  Prefixed(key, Joined(key, tool)) /\ Stripped(key, Joined(key, tool)) = tool
<1>1. PICK bar : bar = <<Underscore, Underscore>>
  OBVIOUS
<1>2. bar \in Seq(S)
  BY <1>1, PairOf
<1>3. PICK front : front = Prefix(key)
  OBVIOUS
<1>4. front \in Seq(S)
  <2>1. front = key \o bar
    BY <1>1, <1>3 DEF Prefix
  <2> QED
    BY ONLY <1>2, <2>1, key \in Seq(S), ConcatParts
<1>5. PICK name : name = Joined(key, tool)
  OBVIOUS
<1>6. name = front \o tool
  BY <1>3, <1>5 DEF Joined
<1>7. SubSeq(name, 1, Len(front)) = front /\ SubSeq(name, Len(front) + 1, Len(name)) = tool
  BY ONLY <1>4, <1>6, tool \in Seq(S), CutConcat
<1>8. Len(front) <= Len(name)
  <2>1. Len(name) = Len(front) + Len(tool)
    BY ONLY <1>4, <1>6, tool \in Seq(S), ConcatParts
  <2> QED
    BY <1>4, <2>1, LenProperties
<1>9. Prefixed(key, name)
  BY <1>3, <1>7, <1>8 DEF Prefixed
<1> QED
  BY <1>3, <1>5, <1>7, <1>9 DEF Stripped

LEMMA Associative ==
  ASSUME NEW S, NEW a \in Seq(S), NEW b \in Seq(S), NEW c \in Seq(S)
  PROVE  (a \o b) \o c = a \o (b \o c)
BY ONLY ConcatAssociative, a \in Seq(S), b \in Seq(S), c \in Seq(S)

\* Whatever a device and a tool are called, a device with one more "_" at its end has
\* with that tool the name that the first device has with a tool that begins with it.
THEOREM NamesCoincide ==
  ASSUME NEW S, Underscore \in S, NEW key \in Seq(S), NEW tool \in Seq(S)
  PROVE  Joined(key \o <<Underscore>>, tool) = Joined(key, <<Underscore>> \o tool)
<1>1. PICK one : one = <<Underscore>>
  OBVIOUS
<1>2. PICK bar : bar = <<Underscore, Underscore>>
  OBVIOUS
<1>3. one \in Seq(S)
  BY <1>1
<1>4. bar \in Seq(S)
  BY <1>2, PairOf
<1>5. one \o bar = bar \o one
  BY ONLY <1>1, <1>2
<1>6. (key \o one) \o bar = key \o (one \o bar)
  BY ONLY <1>3, <1>4, key \in Seq(S), Associative
<1>7. (key \o bar) \o one = key \o (bar \o one)
  BY ONLY <1>3, <1>4, key \in Seq(S), Associative
<1>8. PICK front : front = key \o bar
  OBVIOUS
<1>9. front \in Seq(S)
  BY ONLY <1>4, <1>8, key \in Seq(S), ConcatParts
<1>10. (front \o one) \o tool = front \o (one \o tool)
  BY ONLY <1>3, <1>9, tool \in Seq(S), Associative
<1> QED
  BY <1>1, <1>2, <1>5, <1>6, <1>7, <1>8, <1>10 DEF Joined, Prefix

\* What the characters of a joined name are.
IsJoined(S, name, key, tool) ==
  /\ name \in Seq(S) /\ Len(name) = Len(key) + 2 + Len(tool)
  /\ \A i \in 1..Len(key) : name[i] = key[i]
  /\ name[Len(key) + 1] = Underscore /\ name[Len(key) + 2] = Underscore
  /\ \A i \in 1..Len(tool) : name[Len(key) + 2 + i] = tool[i]

LEMMA JoinedChars ==
  ASSUME NEW S, Underscore \in S, NEW key \in Seq(S), NEW tool \in Seq(S),
         NEW name, name = Joined(key, tool)
  PROVE  IsJoined(S, name, key, tool)
<1>0. Len(key) \in Nat /\ Len(tool) \in Nat
  BY LenProperties
<1>1. PICK bar : bar = <<Underscore, Underscore>>
  OBVIOUS
<1>2. bar \in Seq(S) /\ Len(bar) = 2 /\ bar[1] = Underscore /\ bar[2] = Underscore
  BY <1>1, PairOf
<1>3. PICK left : left = key \o bar
  OBVIOUS
<1>4. /\ left \in Seq(S) /\ Len(left) = Len(key) + 2
      /\ \A i \in 1..Len(key) : left[i] = key[i]
      /\ \A i \in 1..2 : left[Len(key) + i] = bar[i]
  <2>1. key \in Seq(S) /\ bar \in Seq(S) /\ left = key \o bar
    BY <1>2, <1>3
  <2>2. left \in Seq(S) /\ Len(left) = Len(key) + Len(bar)
    BY ONLY <2>1, ConcatParts
  <2>3. \A i \in 1..Len(key) : left[i] = key[i]
    BY ONLY <2>1, ConcatParts
  <2>4. \A i \in 1..Len(bar) : left[Len(key) + i] = bar[i]
    BY ONLY <2>1, ConcatParts
  <2> QED
    BY <1>2, <2>2, <2>3, <2>4
<1>5. left[Len(key) + 1] = Underscore /\ left[Len(key) + 2] = Underscore
  BY <1>2, <1>4
<1>6. name = left \o tool
  BY <1>1, <1>3 DEF Joined, Prefix
<1>7. /\ name \in Seq(S) /\ Len(name) = Len(left) + Len(tool)
      /\ \A i \in 1..Len(left) : name[i] = left[i]
      /\ \A i \in 1..Len(tool) : name[Len(left) + i] = tool[i]
  <2>1. left \in Seq(S) /\ tool \in Seq(S) /\ name = left \o tool
    BY <1>4, <1>6
  <2>2. name \in Seq(S) /\ Len(name) = Len(left) + Len(tool)
    BY ONLY <2>1, ConcatParts
  <2>3. \A i \in 1..Len(left) : name[i] = left[i]
    BY ONLY <2>1, ConcatParts
  <2>4. \A i \in 1..Len(tool) : name[Len(left) + i] = tool[i]
    BY ONLY <2>1, ConcatParts
  <2> QED
    BY <2>2, <2>3, <2>4
<1>8. /\ Len(name) = Len(key) + 2 + Len(tool)
      /\ \A i \in 1..Len(key) : name[i] = key[i]
      /\ name[Len(key) + 1] = Underscore /\ name[Len(key) + 2] = Underscore
      /\ \A i \in 1..Len(tool) : name[Len(key) + 2 + i] = tool[i]
  BY <1>0, <1>4, <1>5, <1>7
<1> QED
  BY <1>7, <1>8 DEF IsJoined

\* The first separator of a joined name is the one that was put there.
LEMMA SeparatorFound ==
  ASSUME NEW S, Underscore \in S, NEW key \in Seq(S), NEW tool \in Seq(S), Findable(key)
  PROVE  Separator(Joined(key, tool)) = Len(key) + 1
<1>1. PICK name : name = Joined(key, tool)
  OBVIOUS
<1>2. PICK k : k = Len(key)
  OBVIOUS
<1>3. k \in Nat /\ Len(tool) \in Nat
  BY <1>2, LenProperties
<1>4. /\ Len(name) = k + 2 + Len(tool)
      /\ \A i \in 1..k : name[i] = key[i]
      /\ name[k + 1] = Underscore /\ name[k + 2] = Underscore
  <2>1. IsJoined(S, name, key, tool)
    BY <1>1, JoinedChars
  <2> QED
    BY ONLY <1>2, <2>1 DEF IsJoined
<1>5. SeparatorAt(name, k + 1)
  <2>1. k + 1 + 1 = k + 2 /\ k + 1 \in 1..(Len(name) - 1)
    BY <1>3, <1>4
  <2> QED
    BY <2>1, <1>4 DEF SeparatorAt
<1>6. ASSUME NEW i \in Nat, SeparatorAt(name, i) PROVE k + 1 <= i
  <2> SUFFICES ASSUME i <= k PROVE FALSE
    BY <1>3
  <2>1. i \in 1..k /\ name[i] = Underscore /\ name[i + 1] = Underscore
    BY <1>3, <1>6 DEF SeparatorAt
  <2>2. CASE i = k
    <3>1. key[k] = Underscore /\ k > 0
      BY <1>3, <1>4, <2>1, <2>2
    <3> QED
      BY <1>2, <3>1 DEF Findable
  <2>3. CASE i < k
    <3>1. i \in 1..(k - 1) /\ i + 1 \in 1..k
      BY <1>3, <2>1, <2>3
    <3>2. key[i] = Underscore /\ key[i + 1] = Underscore
      BY <1>4, <2>1, <3>1
    <3> QED
      BY <1>2, <2>1, <3>1, <3>2 DEF Findable, SeparatorAt
  <2> QED
    BY <1>3, <2>2, <2>3
<1>7. k + 1 \in 1..Len(name)
  BY <1>3, <1>4
<1>8. \A j \in 1..Len(name) : SeparatorAt(name, j) => k + 1 <= j
  BY <1>3, <1>6
<1>9. ASSUME NEW i \in 1..Len(name), SeparatorAt(name, i),
             \A j \in 1..Len(name) : SeparatorAt(name, j) => i <= j
      PROVE  i = k + 1
  <2>1. k + 1 <= i /\ i <= k + 1
    BY <1>5, <1>7, <1>8, <1>9
  <2> QED
    BY <1>3, <2>1
<1>10. Separator(name) = k + 1
  BY <1>5, <1>7, <1>8, <1>9 DEF Separator
<1> QED
  BY <1>1, <1>2, <1>10

\* A name the agent made of a findable key and any tool name is split into the two.
THEOREM NamesSplit ==
  ASSUME NEW S, Underscore \in S, NEW key \in Seq(S), NEW tool \in Seq(S), Findable(key)
  PROVE  ServerOf(Joined(key, tool)) = key /\ ToolOf(Joined(key, tool)) = tool
<1>1. PICK name : name = Joined(key, tool)
  OBVIOUS
<1>2. PICK k : k = Len(key)
  OBVIOUS
<1>3. k \in Nat /\ Len(tool) \in Nat
  BY <1>2, LenProperties
<1>4. /\ name \in Seq(S) /\ Len(name) = k + 2 + Len(tool)
      /\ \A i \in 1..k : name[i] = key[i]
      /\ \A i \in 1..Len(tool) : name[k + 2 + i] = tool[i]
  <2>1. IsJoined(S, name, key, tool)
    BY <1>1, JoinedChars
  <2> QED
    BY ONLY <1>2, <2>1 DEF IsJoined
<1>5. Separator(name) = k + 1
  BY <1>1, <1>2, SeparatorFound
<1>6. ServerOf(name) = SubSeq(name, 1, k)
  BY <1>3, <1>5 DEF ServerOf
<1>7. ToolOf(name) = SubSeq(name, k + 3, Len(name))
  BY <1>3, <1>5 DEF ToolOf
<1>8. SubSeq(name, 1, k) = key
  <2>1. PICK first : first = SubSeq(name, 1, k)
    OBVIOUS
  <2>2. /\ first \in Seq(S) /\ Len(first) = k
        /\ \A i \in 1..k : first[i] = name[i]
    <3>1. \A i \in 1..k : name[i] \in S
      BY <1>2, <1>4, ElementOfSeq
    <3>2. k \in Int /\ (IF 1 <= k THEN k - 1 + 1 ELSE 0) = k /\ k - 1 + 1 = k
          /\ \A i \in 1..k : 1 + i - 1 = i
      BY <1>3
    <3> QED
      BY <2>1, <3>1, <3>2, SubSeqProperties
  <2>3. \A i \in 1..k : first[i] = key[i]
    BY <1>4, <2>2
  <2> QED
    BY <1>2, <2>1, <2>2, <2>3, SeqEqual
<1>9. SubSeq(name, k + 3, Len(name)) = tool
  <2>1. PICK rest : rest = SubSeq(name, k + 3, Len(name))
    OBVIOUS
  <2>2. /\ rest \in Seq(S) /\ Len(rest) = Len(tool)
        /\ \A i \in 1..Len(tool) : rest[i] = name[k + 2 + i]
    <3>1. \A i \in (k + 3)..Len(name) : name[i] \in S
      <4>1. \A i \in (k + 3)..Len(name) : i \in 1..Len(name)
        BY <1>3
      <4> QED
        BY <1>4, <4>1, ElementOfSeq
    <3>2. /\ k + 3 \in Int /\ Len(name) \in Int
          /\ (IF k + 3 <= Len(name) THEN Len(name) - (k + 3) + 1 ELSE 0) = Len(tool)
          /\ Len(name) - (k + 3) + 1 = Len(tool)
          /\ \A i \in 1..Len(tool) : (k + 3) + i - 1 = k + 2 + i
      BY <1>3, <1>4
    <3> QED
      BY <2>1, <3>1, <3>2, SubSeqProperties
  <2>3. \A i \in 1..Len(tool) : rest[i] = tool[i]
    BY <1>4, <2>2
  <2> QED
    BY <2>1, <2>2, <2>3, SeqEqual
<1> QED
  BY <1>1, <1>6, <1>7, <1>8, <1>9

\* A set of natural numbers that is not empty has a least member.
LEMMA Least ==
  ASSUME NEW T \in SUBSET Nat, NEW t \in T
  PROVE  \E m \in T : \A n \in T : m <= n
<1> DEFINE R == {ss \in Nat \X Nat : ss[1] < ss[2]}
<1>1. IsWellFoundedOn(R, Nat)
  BY NatLessThanWellFounded DEF OpToRel
<1>2. PICK m \in T : \A n \in T : ~(<<n, m>> \in R)
  BY <1>1, WFMin
<1>3. ASSUME NEW n \in T PROVE m <= n
  <2>1. m \in Nat /\ n \in Nat /\ ~(n < m)
    BY <1>2
  <2> QED
    BY <2>1
<1> QED
  BY <1>3

\* A name with a separator has a first one, and Separator is that one.
LEMMA SeparatorLeast ==
  ASSUME NEW name, Len(name) \in Nat, NEW s, SeparatorAt(name, s)
  PROVE  /\ Separator(name) \in 1..s
         /\ \A i : SeparatorAt(name, i) => Separator(name) <= i
<1> DEFINE T == {i \in 1..Len(name) : SeparatorAt(name, i)}
<1>1. \A i : SeparatorAt(name, i) => i \in T
  BY DEF SeparatorAt
<1>2. PICK m \in T : \A i \in T : m <= i
  <2>1. s \in T /\ T \in SUBSET Nat
    BY <1>1
  <2> HIDE DEF T
  <2> QED
    BY <2>1, Least
<1>3. \E i \in 1..Len(name) :
        SeparatorAt(name, i) /\ \A j \in 1..Len(name) : SeparatorAt(name, j) => i <= j
  BY <1>2
<1>4. /\ Separator(name) \in 1..Len(name)
      /\ \A j \in 1..Len(name) : SeparatorAt(name, j) => Separator(name) <= j
  BY <1>3 DEF Separator
<1>5. \A i : SeparatorAt(name, i) => Separator(name) <= i
  BY <1>1, <1>4
<1>6. s \in 1..Len(name) /\ Separator(name) <= s
  BY <1>1, <1>5
<1> QED
  BY <1>4, <1>5, <1>6

\* Whatever the key, some tool name is found in the names the agent made.
LEMMA ToolOfTyped ==
  ASSUME NEW S, Underscore \in S, NEW key \in Seq(S), NEW tool \in Seq(S)
  PROVE  ToolOf(Joined(key, tool)) \in Seq(S)
<1>1. PICK name : name = Joined(key, tool)
  OBVIOUS
<1>2. PICK k, l : k = Len(key) /\ l = Len(tool)
  OBVIOUS
<1>3. k \in Nat /\ l \in Nat
  BY <1>2, LenProperties
<1>4. /\ name \in Seq(S) /\ Len(name) = k + 2 + l
      /\ name[k + 1] = Underscore /\ name[k + 2] = Underscore
  <2>1. IsJoined(S, name, key, tool)
    BY <1>1, JoinedChars
  <2> QED
    BY ONLY <1>2, <2>1 DEF IsJoined
<1>5. Separator(name) \in 1..(k + 1)
  <2>1. k + 1 + 1 = k + 2 /\ k + 1 \in 1..(Len(name) - 1) /\ Len(name) \in Nat
    BY <1>3, <1>4
  <2>2. SeparatorAt(name, k + 1)
    BY <2>1, <1>4 DEF SeparatorAt
  <2> QED
    BY <2>1, <2>2, SeparatorLeast
<1>6. PICK p, n : p = Separator(name) + 2 /\ n = Len(name)
  OBVIOUS
<1>7. /\ p \in Int /\ n \in Int
      /\ \A i \in p..n : i \in 1..n
  BY <1>3, <1>4, <1>5, <1>6
<1>8. \A i \in p..n : name[i] \in S
  BY <1>4, <1>6, <1>7, ElementOfSeq
<1>9. SubSeq(name, p, n) \in Seq(S)
  BY <1>7, <1>8, SubSeqProperties
<1> QED
  BY <1>1, <1>6, <1>9 DEF ToolOf

\* Findable is exactly what the configuration should ask of a server's key: under
\* any other key no tool is ever found again, whatever its name, because the first
\* "__" of the joined name lies inside the key or across its end.
THEOREM FindableExactly ==
  ASSUME NEW S, Underscore \in S, NEW key \in Seq(S), NEW tool \in Seq(S)
  PROVE  ServerOf(Joined(key, tool)) = key <=> Findable(key)
<1>1. Findable(key) => ServerOf(Joined(key, tool)) = key
  BY NamesSplit
<1>2. ASSUME ServerOf(Joined(key, tool)) = key PROVE Findable(key)
  <2>1. PICK name : name = Joined(key, tool)
    OBVIOUS
  <2>2. PICK k : k = Len(key)
    OBVIOUS
  <2>3. k \in Nat /\ Len(tool) \in Nat
    BY <2>2, LenProperties
  <2>4. /\ name \in Seq(S) /\ Len(name) = k + 2 + Len(tool)
        /\ \A i \in 1..k : name[i] = key[i]
        /\ name[k + 1] = Underscore /\ name[k + 2] = Underscore
    <3>1. IsJoined(S, name, key, tool)
      BY <2>1, JoinedChars
    <3> QED
      BY ONLY <2>2, <3>1 DEF IsJoined
  <2>5. SeparatorAt(name, k + 1)
    <3>1. k + 1 + 1 = k + 2 /\ k + 1 \in 1..(Len(name) - 1)
      BY <2>3, <2>4
    <3> QED
      BY <2>4, <3>1 DEF SeparatorAt
  <2>6. PICK p : p = Separator(name)
    OBVIOUS
  <2>7. p \in 1..(k + 1) /\ \A i : SeparatorAt(name, i) => p <= i
    <3>1. Len(name) \in Nat
      BY <2>3, <2>4
    <3> QED
      BY <2>5, <2>6, <3>1, SeparatorLeast
  <2>8. p = k + 1
    <3>1. key = SubSeq(name, 1, p - 1)
      BY <1>2, <2>1, <2>6 DEF ServerOf
    <3>2. \A i \in 1..(p - 1) : name[i] \in S
      <4>1. \A i \in 1..(p - 1) : i \in 1..Len(name)
        BY <2>3, <2>4, <2>7
      <4> QED
        BY <2>4, <4>1, ElementOfSeq
    <3>3. p \in Nat /\ 1 \in Int /\ p - 1 \in Int
      BY <2>3, <2>7
    <3>4. Len(key) = IF 1 <= p - 1 THEN p - 1 - 1 + 1 ELSE 0
      BY <3>1, <3>2, <3>3, SubSeqProperties
    <3> QED
      BY <2>2, <2>3, <2>7, <3>3, <3>4
  <2>9. \A i \in 1..k : ~SeparatorAt(name, i)
    BY <2>3, <2>7, <2>8
  <2>10. ASSUME k > 0, key[k] = Underscore PROVE FALSE
    <3>1. k \in 1..k /\ k \in 1..(Len(name) - 1)
      BY <2>3, <2>4, <2>10
    <3>2. SeparatorAt(name, k)
      BY <2>4, <2>10, <3>1 DEF SeparatorAt
    <3> QED
      BY <2>9, <3>1, <3>2
  <2>11. ASSUME NEW i \in 1..k, SeparatorAt(key, i) PROVE FALSE
    <3>1. i \in 1..(k - 1) /\ key[i] = Underscore /\ key[i + 1] = Underscore
      BY <2>2, <2>11 DEF SeparatorAt
    <3>2. i + 1 \in 1..k /\ i \in 1..(Len(name) - 1)
      BY <2>3, <2>4, <3>1
    <3>3. SeparatorAt(name, i)
      BY <2>4, <2>11, <3>1, <3>2 DEF SeparatorAt
    <3> QED
      BY <2>9, <3>3
  <2> QED
    BY <2>2, <2>10, <2>11 DEF Findable
<1> QED
  BY <1>1, <1>2

=============================================================================
