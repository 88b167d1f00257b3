------------------------- MODULE GenOtaFilesProofs --------------------------
(***************************************************************************)
(* What a package of gen_ota_zip.py holds when the tool has run to its     *)
(* end, for any set of files, any order of the list that the loop over new *)
(* partitions modifies and any number of user files.                       *)
(***************************************************************************)
EXTENDS GenOtaFiles, FiniteSetTheorems, SequenceTheorems, TLAPS

----------------------------------------------------------------------------
(* The inductive invariant behind PackedAtEnd.                             *)

\* The files at the positions that the loop has visited.
Passed == {newpartition_list[k] : k \in {j \in DOMAIN newpartition_list : j < cursor}}

\* The list holds each new file at most once.
ListInv ==
  /\ old \subseteq Files /\ new \subseteq Files
  /\ newpartition_list \in Seq(new \ old) /\ IsInjective(newpartition_list)
  /\ cursor \in Nat \ {0} /\ user_file \in Seq(BOOLEAN)

\* Of the invalid files that the loop has left behind there are no more than it has
\* removed.
Behind == IF pc = "filter" THEN InvalidNew \intersect Passed ELSE Kept
CountInv == Cardinality(Behind) <= Cardinality(Removed)

\* No valid file leaves the list.
ValidInv ==
  newpartition =>
    \A f \in new \ old : ~ Invalid(f) => f \in ToSet(newpartition_list)

\* What each part of the tool has packed when the next one begins.
PackInv ==
  /\ full => differ = {} /\ pc # "filter"
  /\ ~ full => pc # "full"
  /\ differ \subseteq old \intersect new
  /\ pc \in {"add", "user", "sign", "done"} =>
       IF full
         THEN /\ bin_list = {f \in new : kind[f] = "firmware"}
              /\ \A f \in new : ~ Invalid(f) => <<"file", f>> \in zip
         ELSE \A f \in Patched : <<"patch", f>> \in zip
  /\ pc \in {"user", "sign", "done"} =>
       \A f \in ToSet(newpartition_list) : <<"file", f>> \in zip
  /\ pc = "sign" => sign
  /\ pc = "done" => output = IF sign THEN "signed" ELSE "unsigned"

\* The user files are packed up to the first missing one: behind it the loop has run
\* past all the others.
UserInv ==
  /\ pc \in {"full", "filter", "add"} =>
       \A k \in DOMAIN user_file : <<"user", k>> \notin zip
  /\ pc = "user" /\ cursor <= Len(user_file) =>
       \A j \in 1..(cursor - 1) : user_file[j]
  /\ pc \in {"user", "sign", "done"} =>
       \A k \in DOMAIN user_file :
         <<"user", k>> \in zip <=> k < cursor /\ \A j \in 1..k : user_file[j]
  /\ pc \in {"sign", "done"} => cursor > Len(user_file)

----------------------------------------------------------------------------
(* Removing from a list.                                                   *)

\* list.remove(list[c]) in a list without duplicates takes out position c.
LEMMA RemoveFirstAt ==
  ASSUME NEW S, NEW s \in Seq(S), NEW c \in 1..Len(s),
         IsInjective(s)
  PROVE  RemoveFirst(s, s[c]) = RemoveAt(s, c)
<1> DEFINE Positions == {i \in 1..Len(s) : s[i] = s[c]}
<1>1. DOMAIN s = 1..Len(s) /\ Len(s) \in Nat
  OBVIOUS
<1>2. Positions = {c}
  BY <1>1 DEF IsInjective
<1>3. Min(Positions) = c
  <2>1. \A x \in Positions : (\A y \in Positions : x <= y) <=> x = c
    BY <1>2
  <2> HIDE DEF Positions
  <2> QED
    BY <1>2, <2>1 DEF Min
<1>4. SelectInSeq(s, LAMBDA v : v = s[c]) = c
  <2>1. Positions # {}
    BY <1>2
  <2> QED
    BY <1>3, <2>1 DEF SelectInSeq
<1> QED
  BY <1>1, <1>4 DEF RemoveFirst

\* The elements behind position c move one place forward.
LEMMA RemoveAtElements ==
  ASSUME NEW S, NEW s \in Seq(S), NEW c \in 1..Len(s)
  PROVE  /\ RemoveAt(s, c) \in Seq(S) /\ Len(RemoveAt(s, c)) = Len(s) - 1
         /\ \A k \in 1..(Len(s) - 1) :
              RemoveAt(s, c)[k] = IF k < c THEN s[k] ELSE s[k + 1]
<1> DEFINE a == SubSeq(s, 1, c - 1)
           b == SubSeq(s, c + 1, Len(s))
<1>1. Len(s) \in Nat /\ c \in Nat /\ 1 <= c /\ c <= Len(s)
  OBVIOUS
<1>2. a \in Seq(S) /\ Len(a) = c - 1 /\ \A k \in 1..(c - 1) : a[k] = s[k]
  BY <1>1
<1>3. /\ b \in Seq(S) /\ Len(b) = Len(s) - c
      /\ \A k \in 1..(Len(s) - c) : b[k] = s[c + k]
  BY <1>1
<1> HIDE DEF a, b
<1>4. /\ a \o b \in Seq(S) /\ Len(a \o b) = Len(a) + Len(b)
      /\ \A k \in 1..(Len(a) + Len(b)) :
           (a \o b)[k] = IF k <= Len(a) THEN a[k] ELSE b[k - Len(a)]
  BY <1>2, <1>3, ConcatProperties
<1>5. Len(a) + Len(b) = Len(s) - 1
  BY <1>1, <1>2, <1>3
<1>6. ASSUME NEW k \in 1..(Len(s) - 1)
      PROVE  (a \o b)[k] = IF k < c THEN s[k] ELSE s[k + 1]
  <2>1. CASE k < c
    BY <1>1, <1>2, <1>4, <1>5, <2>1
  <2>2. CASE k >= c
    <3>1. (a \o b)[k] = b[k - (c - 1)] /\ k - (c - 1) \in 1..(Len(s) - c)
      BY <1>1, <1>2, <1>4, <1>5, <2>2
    <3>2. b[k - (c - 1)] = s[c + (k - (c - 1))] /\ c + (k - (c - 1)) = k + 1
      BY <1>1, <1>3, <3>1
    <3> QED
      BY <1>1, <2>2, <3>1, <3>2
  <2>3. k < c \/ k >= c
    BY <1>1
  <2> QED
    BY <2>1, <2>2, <2>3
<1> QED
  BY <1>4, <1>5, <1>6 DEF RemoveAt, a, b

\* t is s without its element at c.
Without(t, s, c) ==
  /\ Len(t) = Len(s) - 1
  /\ \A k \in DOMAIN t : t[k] = IF k < c THEN s[k] ELSE s[k + 1]
  /\ IsInjective(t)
  /\ ToSet(t) = ToSet(s) \ {s[c]}

\* So it is the list without that file, and still without duplicates.
LEMMA RemoveFirstFacts ==
  ASSUME NEW S, NEW s \in Seq(S), NEW c \in 1..Len(s), IsInjective(s)
  PROVE  /\ RemoveFirst(s, s[c]) \in Seq(S)
         /\ Without(RemoveFirst(s, s[c]), s, c)
<1> DEFINE t == RemoveFirst(s, s[c])
<1>1. /\ DOMAIN s = 1..Len(s) /\ Len(s) \in Nat /\ c \in Nat /\ 1 <= c /\ c <= Len(s)
  OBVIOUS
<1>2. /\ t \in Seq(S) /\ Len(t) = Len(s) - 1
      /\ \A k \in 1..(Len(s) - 1) : t[k] = IF k < c THEN s[k] ELSE s[k + 1]
  <2>1. t = RemoveAt(s, c)
    BY RemoveFirstAt
  <2> HIDE DEF t
  <2> QED
    BY <2>1, RemoveAtElements
<1> HIDE DEF t
<1>3. DOMAIN t = 1..(Len(s) - 1)
  BY <1>2
<1> DEFINE at(k) == IF k < c THEN k ELSE k + 1
<1>4. /\ \A k \in DOMAIN t : at(k) \in DOMAIN s /\ at(k) # c /\ t[k] = s[at(k)]
      /\ \A j, k \in DOMAIN t : at(j) = at(k) => j = k
  <2>1. ASSUME NEW k \in DOMAIN t
        PROVE  at(k) \in DOMAIN s /\ at(k) # c /\ t[k] = s[at(k)]
    <3>1. k \in Nat /\ 1 <= k /\ k <= Len(s) - 1
      BY <1>1, <1>3
    <3>2. t[k] = s[at(k)]
      BY <1>2, <1>3
    <3> QED
      BY <1>1, <3>1, <3>2
  <2>2. \A j, k \in DOMAIN t : at(j) = at(k) => j = k
    BY <1>1, <1>3
  <2> QED
    BY <2>1, <2>2
<1>5. \A j \in DOMAIN s : j # c => \E k \in DOMAIN t : at(k) = j
  <2> SUFFICES ASSUME NEW j \in DOMAIN s, j # c PROVE \E k \in DOMAIN t : at(k) = j
    OBVIOUS
  <2>1. CASE j < c
    <3>1. j \in DOMAIN t /\ at(j) = j
      BY <1>1, <1>3, <2>1
    <3> QED
      BY <3>1
  <2>2. CASE j > c
    <3>1. (j - 1) \in DOMAIN t /\ at(j - 1) = j
      BY <1>1, <1>3, <2>2
    <3> QED
      BY <3>1
  <2> QED
    BY <1>1, <2>1, <2>2
<1> HIDE DEF at
<1>6. IsInjective(t)
  BY <1>4 DEF IsInjective
<1>7. ToSet(t) = ToSet(s) \ {s[c]}
  <2>1. ASSUME NEW x \in ToSet(t) PROVE x \in ToSet(s) /\ x # s[c]
    BY <1>1, <1>4 DEF ToSet, IsInjective
  <2>2. ASSUME NEW x \in ToSet(s), x # s[c] PROVE x \in ToSet(t)
    <3>1. PICK j \in DOMAIN s : x = s[j]
      BY DEF ToSet
    <3>2. PICK k \in DOMAIN t : at(k) = j
      BY <1>5, <2>2, <3>1
    <3> QED
      BY <1>4, <3>1, <3>2 DEF ToSet
  <2> QED
    BY <2>1, <2>2
<1> QED
  BY <1>2, <1>3, <1>6, <1>7 DEF Without, t

----------------------------------------------------------------------------
(* The loop over the list.                                                 *)

\* The sets that the loop counts are finite.
LEMMA Finite ==
  ASSUME ListInv
  PROVE  IsFiniteSet(Removed) /\ IsFiniteSet(Behind)
<1>1. InvalidNew \in SUBSET Files
  BY DEF ListInv, InvalidNew
<1>2. IsFiniteSet(InvalidNew)
  BY <1>1, FilesAssumption, FS_Subset
<1>3. Removed \in SUBSET InvalidNew /\ Behind \in SUBSET InvalidNew
  BY DEF Removed, Behind, Kept
<1> QED
  BY <1>2, <1>3, FS_Subset

\* One turn of the loop, which leaves at most one more file behind when it removes one.
LEMMA FilterStep == ListInv /\ CountInv /\ Filter => ListInv' /\ CountInv'
<1> SUFFICES ASSUME ListInv, CountInv, Filter PROVE ListInv' /\ CountInv'
  OBVIOUS
<1> DEFINE s == newpartition_list
           t == newpartition_list'
           c == cursor
<1>1. /\ s \in Seq(new \ old) /\ c \in Nat /\ 1 <= c /\ c <= Len(s)
      /\ Len(s) \in Nat /\ DOMAIN s = 1..Len(s)
      /\ IsInjective(s)
      /\ Cardinality(Behind) <= Cardinality(Removed)
  BY DEF ListInv, CountInv, Filter
<1>2. /\ old' = old /\ new' = new /\ kind' = kind /\ user_file' = user_file
      /\ cursor' = c + 1 /\ pc' = pc
      /\ pc = "filter" /\ t = IF Invalid(s[c]) THEN RemoveFirst(s, s[c]) ELSE s
  BY DEF Filter, input
<1>3. /\ InvalidNew' = InvalidNew /\ Behind = InvalidNew \intersect Passed
      /\ Behind' = InvalidNew \intersect Passed'
  BY <1>2 DEF InvalidNew, Invalid, Behind
<1>4. IsFiniteSet(Removed) /\ IsFiniteSet(Behind)
  BY Finite
<1>5. Cardinality(Removed) \in Nat /\ Cardinality(Behind) \in Nat
  BY <1>4, FS_CardinalityType
<1>6. /\ cursor' \in Nat \ {0} /\ old' \subseteq Files /\ new' \subseteq Files
      /\ user_file' \in Seq(BOOLEAN)
  BY <1>1, <1>2 DEF ListInv
<1>7. CASE ~ Invalid(s[c])
  <2>1. t = s
    BY <1>2, <1>7
  <2>2. Behind' = Behind
    <3>1. Passed' = Passed \union {s[c]}
      BY <1>1, <1>2, <2>1 DEF Passed
    <3>2. s[c] \notin InvalidNew
      BY <1>7 DEF InvalidNew
    <3> QED
      BY <1>3, <3>1, <3>2
  <2>3. Removed' = Removed
    BY <1>3, <2>1 DEF Removed
  <2>4. CountInv'
    BY <1>1, <2>2, <2>3 DEF CountInv
  <2> QED
    BY <1>1, <1>2, <2>1, <2>4 DEF ListInv
<1>8. CASE Invalid(s[c])
  <2>1. /\ t \in Seq(new \ old) /\ Len(t) = Len(s) - 1
        /\ \A k \in DOMAIN t : t[k] = IF k < c THEN s[k] ELSE s[k + 1]
        /\ IsInjective(t)
        /\ ToSet(t) = ToSet(s) \ {s[c]}
    <3>1. c \in 1..Len(s) /\ t = RemoveFirst(s, s[c])
      BY <1>1, <1>2, <1>8
    <3>2. t \in Seq(new \ old) /\ Without(t, s, c)
      BY <1>1, <3>1, RemoveFirstFacts
    <3> QED
      BY <3>2 DEF Without
  <2>2. Cardinality(Removed') = Cardinality(Removed) + 1
    <3>1. s[c] \in InvalidNew /\ s[c] \in ToSet(s)
      BY <1>1, <1>8 DEF InvalidNew, ToSet
    <3>2. Removed' = Removed \union {s[c]} /\ s[c] \notin Removed
      BY <1>3, <2>1, <3>1 DEF Removed
    <3> QED
      BY <1>4, <3>2, FS_AddElement
  <2>3. \E x : Behind' \subseteq Behind \union {x}
    <3>1. Passed' \subseteq Passed \union {s[c + 1]}
      <4> SUFFICES ASSUME NEW k \in DOMAIN t, k < c + 1
                   PROVE  t[k] \in Passed \union {s[c + 1]}
        BY <1>2 DEF Passed
      <4>1. DOMAIN t = 1..(Len(s) - 1)
        BY <1>1, <2>1
      <4>2. CASE k < c
        BY <1>1, <2>1, <4>1, <4>2 DEF Passed
      <4>3. CASE k = c
        BY <1>1, <2>1, <4>1, <4>3
      <4> QED
        BY <1>1, <4>1, <4>2, <4>3
    <3> QED
      BY <1>3, <3>1
  <2>4. PICK x : Behind' \subseteq Behind \union {x}
    BY <2>3
  <2>5. /\ IsFiniteSet(Behind \union {x})
        /\ Cardinality(Behind \union {x}) <= Cardinality(Behind) + 1
    <3>1. /\ IsFiniteSet(Behind \union {x})
          /\ Cardinality(Behind \union {x}) =
               IF x \in Behind THEN Cardinality(Behind) ELSE Cardinality(Behind) + 1
      BY <1>4, FS_AddElement
    <3> QED
      BY <1>5, <3>1
  <2>6. /\ Cardinality(Behind') <= Cardinality(Behind \union {x})
        /\ IsFiniteSet(Behind')
    BY <2>4, <2>5, FS_Subset
  <2>7. /\ Cardinality(Behind') \in Nat
        /\ Cardinality(Behind \union {x}) \in Nat
    BY <2>5, <2>6, FS_CardinalityType
  <2>8. CountInv'
    <3>1. Cardinality(Behind') <= Cardinality(Removed) + 1
      BY <1>1, <1>5, <2>5, <2>6, <2>7
    <3> QED
      BY <2>2, <3>1 DEF CountInv
  <2>9. ListInv'
    <3>1. /\ t \in Seq(new' \ old')
          /\ IsInjective(t)
      BY <1>2, <2>1
    <3> QED
      BY <1>6, <3>1 DEF ListInv
  <2> QED
    BY <2>8, <2>9
<1> QED
  BY <1>7, <1>8

\* The steps other than the turns of the loop leave the list alone.
Later ==
  /\ UNCHANGED input /\ newpartition_list' = newpartition_list
  /\ pc' # "filter" /\ cursor' \in Nat \ {0}
  /\ pc = "filter" => cursor > Len(newpartition_list)

\* Every step is a turn of the loop or one of those.
LEMMA LaterSteps ==
  ASSUME ListInv, Next
  PROVE  Filter \/ Later
<1>1. cursor \in Nat \ {0}
  BY DEF ListInv
<1>2. CASE Match \/ MatchFails \/ Full
  BY <1>1, <1>2 DEF Match, MatchFails, Exit, Full, Later
<1>3. CASE AddNew
  BY <1>3 DEF AddNew, Exit, Later
<1>4. CASE AddUserFile
  <2>1. Len(user_file) \in Nat
    BY DEF ListInv
  <2> QED
    BY <1>1, <1>4, <2>1 DEF AddUserFile, Later
<1>5. CASE Close \/ Sign
  BY <1>1, <1>5 DEF Close, Sign, Exit, Later
<1> QED
  BY <1>2, <1>3, <1>4, <1>5 DEF Next

\* They keep what the loop has established.
LEMMA LaterStep == ListInv /\ CountInv /\ Later => ListInv' /\ CountInv'
<1> SUFFICES ASSUME ListInv, CountInv, Later PROVE ListInv' /\ CountInv'
  OBVIOUS
<1>1. /\ newpartition_list' = newpartition_list /\ old' = old /\ new' = new
      /\ kind' = kind /\ user_file' = user_file
      /\ pc' # "filter" /\ cursor' \in Nat \ {0}
  BY DEF Later, input
<1>2. ListInv'
  BY <1>1 DEF ListInv
<1>3. /\ InvalidNew' = InvalidNew /\ Removed' = Removed /\ Kept' = Kept
  BY <1>1 DEF InvalidNew, Invalid, Removed, Kept
<1>4. Kept = Behind
  <2>1. CASE pc # "filter"
    BY <2>1 DEF Behind
  <2>2. CASE pc = "filter"
    <3>1. /\ newpartition_list \in Seq(new \ old) /\ cursor \in Nat
          /\ cursor > Len(newpartition_list)
      BY <2>2 DEF ListInv, Later
    <3>2. \A j \in DOMAIN newpartition_list : j < cursor
      BY <3>1
    <3>3. Passed = ToSet(newpartition_list)
      BY <3>2 DEF Passed, ToSet
    <3> QED
      BY <2>2, <3>3 DEF Behind, Kept
  <2> QED
    BY <2>1, <2>2
<1>5. Behind' = Behind
  BY <1>1, <1>3, <1>4 DEF Behind
<1> QED
  BY <1>2, <1>3, <1>5 DEF CountInv

\* list(set(new_files) - set(old_files)) lists every new file once.
LEMMA Listed ==
  ASSUME NEW S, IsFiniteSet(S), NEW s \in SetToSeqs(S)
  PROVE  s \in Seq(S) /\ IsInjective(s) /\ ToSet(s) = S
<1>1. Cardinality(S) \in Nat
  BY FS_CardinalityType
<1> DEFINE D == 1..Cardinality(S)
<1>2. s \in [D -> S] /\ \A i, j \in D : i # j => s[i] # s[j]
  BY DEF SetToSeqs
<1>3. IsFiniteSet(D) /\ Cardinality(D) = Cardinality(S)
  <2>1. /\ IsFiniteSet(D)
        /\ Cardinality(D) = IF 1 > Cardinality(S) THEN 0 ELSE Cardinality(S) - 1 + 1
    BY <1>1, FS_Interval
  <2> QED
    BY <1>1, <2>1
<1>4. s \in Seq(S)
  BY <1>1, <1>2
<1>5. IsInjective(s)
  BY <1>2 DEF IsInjective
<1>6. s \in Surjection(D, S)
  <2>1. s \in Injection(D, S)
    BY <1>2, <1>5 DEF Injection, IsInjective
  <2> HIDE DEF D
  <2> QED
    BY <1>3, <2>1, FS_Injection
<1>7. ToSet(s) = S
  BY <1>2, <1>6 DEF Surjection, ToSet
<1> QED
  BY <1>4, <1>5, <1>7

\* The list holds when the loop begins.
LEMMA InitList == Init => ListInv /\ CountInv /\ ValidInv
<1> SUFFICES ASSUME Init PROVE ListInv /\ CountInv /\ ValidInv
  OBVIOUS
<1> DEFINE S == new \ old
<1>1. old \subseteq Files /\ new \subseteq Files /\ cursor = 1
  BY DEF Init
<1>2. IsFiniteSet(S)
  <2>1. S \in SUBSET Files
    BY <1>1
  <2> QED
    BY <2>1, FilesAssumption, FS_Subset
<1>3. newpartition_list = <<>> \/ newpartition_list \in SetToSeqs(S)
  BY DEF Init
<1>4. <<>> \in Seq(S) /\ IsInjective(<<>>) /\ ToSet(<<>>) = {}
  BY DEF IsInjective, ToSet
<1>5. /\ newpartition_list \in Seq(S) /\ IsInjective(newpartition_list)
      /\ newpartition_list = <<>> \/ ToSet(newpartition_list) = S
  <2> HIDE DEF S
  <2> QED
    BY <1>2, <1>3, <1>4, Listed
<1>6. user_file \in Seq(BOOLEAN)
  <2>1. PICK n \in 0..MaxUserFiles : user_file \in [1..n -> BOOLEAN]
    BY DEF Init
  <2>2. n \in Nat
    BY <2>1, FilesAssumption
  <2> QED
    BY <2>1, <2>2
<1>7. ListInv
  BY <1>1, <1>5, <1>6 DEF ListInv
<1>8. CountInv
  <2>1. Behind = {}
    <3>1. CASE pc = "filter"
      <4>1. Passed = {}
        BY <1>1, <1>5 DEF Passed
      <4> QED
        BY <3>1, <4>1 DEF Behind
    <3>2. CASE pc # "filter"
      <4>1. newpartition_list = <<>>
        BY <3>2 DEF Init
      <4> QED
        BY <3>2, <1>4, <4>1 DEF Behind, Kept
    <3> QED
      BY <3>1, <3>2
  <2>2. IsFiniteSet(Removed)
    BY <1>7, Finite
  <2>3. Cardinality(Removed) \in Nat
    BY <2>2, FS_CardinalityType
  <2>4. Cardinality(Behind) = 0
    BY <2>1, FS_EmptySet
  <2> QED
    BY <2>3, <2>4 DEF CountInv
<1>9. ValidInv
  <2>1. newpartition => newpartition_list \in SetToSeqs(S)
    BY DEF Init
  <2>2. newpartition => ToSet(newpartition_list) = S
    <3> HIDE DEF S
    <3> QED
      BY <1>2, <2>1, Listed
  <2> QED
    BY <2>2 DEF ValidInv
<1> QED
  BY <1>7, <1>8, <1>9

\* The loop removes only invalid files.
LEMMA ValidStep == ListInv /\ ValidInv /\ [Next]_vars => ValidInv'
<1> SUFFICES ASSUME ListInv, ValidInv, [Next]_vars PROVE ValidInv'
  OBVIOUS
<1>1. old' = old /\ new' = new /\ kind' = kind /\ newpartition' = newpartition
  BY DEF Next, Filter, Match, MatchFails, Full, AddNew, AddUserFile, Close, Sign,
         input, vars
<1>2. newpartition_list' = newpartition_list \/ Filter
  BY LaterSteps DEF Later, vars
<1>3. ASSUME NEW f, ~ Invalid(f), f \in ToSet(newpartition_list)
      PROVE  f \in ToSet(newpartition_list')
  <2>1. CASE newpartition_list' = newpartition_list
    BY <1>3, <2>1
  <2>2. CASE Filter /\ newpartition_list' # newpartition_list
    <3> DEFINE s == newpartition_list
               c == cursor
    <3>1. /\ s \in Seq(new \ old) /\ IsInjective(s) /\ c \in 1..Len(s)
          /\ Invalid(s[c]) /\ newpartition_list' = RemoveFirst(s, s[c])
      BY <2>2 DEF ListInv, Filter
    <3>2. Without(newpartition_list', s, c)
      BY <3>1, RemoveFirstFacts
    <3>3. ToSet(newpartition_list') = ToSet(s) \ {s[c]}
      BY <3>2 DEF Without
    <3> QED
      BY <1>3, <3>1, <3>3
  <2> QED
    BY <1>2, <2>1, <2>2
<1> QED
  BY <1>1, <1>3 DEF ValidInv, Invalid

----------------------------------------------------------------------------
(* The package.                                                            *)

\* Nothing is packed when gen_ota_zip.py starts, and none of its parts is passed.
LEMMA PackInit == Init => PackInv
BY DEF Init, PackInv

\* Every step of the tool keeps it: the files of a step are packed once the step is
\* passed, and no later step takes one out.
LEMMA PackStep == PackInv /\ [Next]_vars => PackInv'
<1> SUFFICES ASSUME PackInv, [Next]_vars PROVE PackInv'
  OBVIOUS
<1>1. /\ UNCHANGED input /\ Patched' = Patched
      /\ \A f : Invalid(f)' <=> Invalid(f)
  BY DEF Next, Filter, Match, MatchFails, Full, AddNew, AddUserFile, Close, Sign,
         input, vars, Patched, Invalid
<1> USE DEF PackInv, input
<1>2. CASE Filter
  BY <1>1, <1>2 DEF Filter
<1>3. CASE Match
  BY <1>1, <1>3 DEF Match, Packed, Matching, Patched
<1>4. CASE MatchFails
  BY <1>1, <1>4 DEF MatchFails, Exit
<1>5. CASE Full
  BY <1>1, <1>5 DEF Full
<1>6. CASE AddNew
  BY <1>1, <1>6 DEF AddNew, Exit
<1>7. CASE AddUserFile
  BY <1>1, <1>7 DEF AddUserFile
<1>8. CASE Close
  BY <1>1, <1>8 DEF Close
<1>9. CASE Sign
  BY <1>1, <1>9 DEF Sign, Exit
<1>10. CASE UNCHANGED vars
  BY <1>1, <1>10 DEF vars
<1> QED
  BY <1>2, <1>3, <1>4, <1>5, <1>6, <1>7, <1>8, <1>9, <1>10 DEF Next

\* Every step keeps what is known of the user files: only the loop over them packs
\* one, and it goes on only behind a path that exists.
LEMMA UserStep == ListInv /\ UserInv /\ [Next]_vars => UserInv'
<1> SUFFICES ASSUME ListInv, UserInv, [Next]_vars PROVE UserInv'
  OBVIOUS
<1>1. user_file' = user_file
  BY DEF Next, Filter, Match, MatchFails, Full, AddNew, AddUserFile, Close, Sign,
         input, vars
<1>2. /\ user_file \in Seq(BOOLEAN) /\ DOMAIN user_file = 1..Len(user_file)
      /\ Len(user_file) \in Nat /\ cursor \in Nat /\ cursor >= 1
  BY DEF ListInv
<1>3. CASE Filter
  BY <1>1, <1>3 DEF Filter, UserInv
<1>4. CASE Match
  BY <1>1, <1>4 DEF Match, Packed, UserInv
<1>5. CASE MatchFails
  BY <1>5 DEF MatchFails, Exit, UserInv
<1>6. CASE Full
  BY <1>1, <1>6 DEF Full, UserInv
<1>7. CASE AddNew
  <2>1. pc' \in {"user", "error"}
    BY <1>7 DEF AddNew, Exit
  <2>2. \A k \in DOMAIN user_file : <<"user", k>> \notin zip'
    BY <1>7 DEF AddNew, UserInv
  <2>3. cursor' = 1
    BY <1>7 DEF AddNew
  <2> QED
    BY <1>1, <1>2, <2>1, <2>2, <2>3 DEF UserInv
<1>8. CASE AddUserFile
  <2>1. /\ pc = "user" /\ pc' = "user" /\ cursor <= Len(user_file)
        /\ \A j \in 1..(cursor - 1) : user_file[j]
        /\ \A k \in DOMAIN user_file :
             <<"user", k>> \in zip <=> k < cursor /\ \A j \in 1..k : user_file[j]
    BY <1>8 DEF AddUserFile, UserInv
  <2>2. CASE user_file[cursor]
    <3>1. zip' = zip \union {<<"user", cursor>>} /\ cursor' = cursor + 1
      BY <1>8, <2>2 DEF AddUserFile
    <3>2. \A j \in 1..cursor : user_file[j]
      BY <1>2, <2>1, <2>2
    <3>3. ASSUME NEW k \in DOMAIN user_file
          PROVE  <<"user", k>> \in zip' <=> k < cursor' /\ \A j \in 1..k : user_file[j]
      BY <1>2, <2>1, <3>1, <3>2
    <3> QED
      BY <1>1, <1>2, <2>1, <3>1, <3>2, <3>3 DEF UserInv
  <2>3. CASE ~ user_file[cursor]
    <3>1. zip' = zip /\ cursor' = Len(user_file) + 1
      BY <1>8, <2>3 DEF AddUserFile
    <3>2. ASSUME NEW k \in DOMAIN user_file
          PROVE  <<"user", k>> \in zip' <=> k < cursor' /\ \A j \in 1..k : user_file[j]
      BY <1>2, <2>1, <2>3, <3>1
    <3> QED
      BY <1>1, <1>2, <2>1, <3>1, <3>2 DEF UserInv
  <2> QED
    BY <2>2, <2>3
<1>9. CASE Close
  BY <1>1, <1>9 DEF Close, UserInv
<1>10. CASE Sign
  BY <1>1, <1>10 DEF Sign, Exit, UserInv
<1>11. CASE UNCHANGED vars
  BY <1>1, <1>11 DEF vars, UserInv
<1> QED
  BY <1>3, <1>4, <1>5, <1>6, <1>7, <1>8, <1>9, <1>10, <1>11 DEF Next

\* The list, the count of invalid files and the contents of the package are right at
\* every step of gen_ota_zip.py.
THEOREM FilesInvariant ==
  Spec => [](ListInv /\ CountInv /\ ValidInv /\ PackInv /\ UserInv)
<1> DEFINE I == ListInv /\ CountInv /\ ValidInv /\ PackInv /\ UserInv
<1>1. Init => I
  <2>1. Init => UserInv
    BY DEF Init, UserInv
  <2> QED
    BY <2>1, InitList, PackInit
<1>2. I /\ [Next]_vars => I'
  <2> SUFFICES ASSUME I, [Next]_vars PROVE ListInv' /\ CountInv'
    BY ValidStep, PackStep, UserStep
  <2>1. CASE Next
    BY <2>1, FilterStep, LaterSteps, LaterStep
  <2>2. CASE UNCHANGED vars
    <3>1. ListInv'
      BY <2>2 DEF vars, input, ListInv
    <3>2. Behind' = Behind /\ Removed' = Removed
      BY <2>2 DEF vars, input, Behind, Removed, Kept, Passed, InvalidNew, Invalid
    <3> QED
      BY <3>1, <3>2 DEF CountInv
  <2> QED
    BY <2>1, <2>2
<1> HIDE DEF I
<1>3. Spec => []I
  BY <1>1, <1>2, PTL DEF Spec
<1> QED
  BY <1>3 DEF I

\* When gen_ota_zip.py has run to its end, no changed and no new firmware is left out
\* of the package, it holds what ota.sh installs and the user files up to the first
\* missing one, is signed when asked to be, and no more invalid files slip through
\* than were removed, for any files in any order.  An end by exit(ret) is no such end,
\* though it may have exit code 0 as well.
THEOREM PackageComplete == Spec => []PackedAtEnd
<1>1. ListInv /\ CountInv /\ ValidInv /\ PackInv /\ UserInv => PackedAtEnd
  <2> SUFFICES ASSUME ListInv, CountInv, ValidInv, PackInv, UserInv, pc = "done"
               PROVE  PackedAtEnd
    BY DEF PackedAtEnd
  <2>1. \A f \in differ : kind[f] = "firmware" => <<"patch", f>> \in zip
    BY DEF PackInv, Patched
  <2>2. /\ full => \A f \in new : kind[f] = "firmware" => f \in bin_list
        /\ full => \A f \in bin_list : <<"file", f>> \in zip
    BY DEF PackInv, Invalid
  <2>3. \A f \in ToSet(newpartition_list) : <<"file", f>> \in zip
    BY DEF PackInv
  <2>4. newpartition =>
          \A f \in new \ old : ~ Invalid(f) => f \in ToSet(newpartition_list)
    BY DEF ValidInv
  <2>5. Cardinality(Kept) <= Cardinality(Removed)
    BY DEF CountInv, Behind
  <2>6. output = IF sign THEN "signed" ELSE "unsigned"
    BY DEF PackInv
  <2>7. \A k \in DOMAIN user_file :
          <<"user", k>> \in zip <=> \A j \in 1..k : user_file[j]
    <3>1. /\ cursor \in Nat /\ Len(user_file) \in Nat /\ cursor > Len(user_file)
          /\ DOMAIN user_file = 1..Len(user_file)
      BY DEF ListInv, UserInv
    <3>2. \A k \in DOMAIN user_file : k < cursor
      BY <3>1
    <3> QED
      BY <3>2 DEF UserInv
  <2> QED
    BY <2>1, <2>2, <2>3, <2>4, <2>5, <2>6, <2>7 DEF PackedAtEnd
<1> QED
  BY <1>1, FilesInvariant, PTL

\* Exit code 0 after gen_ota_zip.py --sign means a signed package if every failure of
\* ddelta_generate and signapk leaves something in the low byte that exit(ret) passes
\* on.  The condition is needed: os.system returns 256 for exit status 1, and then a
\* partial or unsigned package comes with exit code 0.
THEOREM SignedWhenZero ==
  ASSUME \A ret \in Failures : ret % 256 # 0
  PROVE  Spec => []ZeroMeansSigned
<1> DEFINE ZeroInv == exit_code = 0 => pc = "done"
<1>1. Init => ZeroInv
  BY DEF Init, RUNNING
<1>2. ZeroInv /\ [Next]_vars => ZeroInv'
  <2> SUFFICES ASSUME ZeroInv, [Next]_vars PROVE ZeroInv'
    OBVIOUS
  <2>1. CASE Filter \/ Match \/ Full \/ AddUserFile
    BY <2>1 DEF Filter, Match, Full, AddUserFile
  <2>2. CASE MatchFails
    BY <2>2 DEF MatchFails, Exit
  <2>3. CASE AddNew
    BY <2>3 DEF AddNew, Exit
  <2>4. CASE Close \/ Sign
    BY <2>4 DEF Close, Sign, Exit
  <2>5. CASE UNCHANGED vars
    BY <2>5 DEF vars
  <2> QED
    BY <2>1, <2>2, <2>3, <2>4, <2>5 DEF Next
<1>3. ZeroInv /\ PackInv => ZeroMeansSigned
  BY DEF PackInv, ZeroMeansSigned
<1> HIDE DEF ZeroInv
<1> QED
  BY <1>1, <1>2, <1>3, FilesInvariant, PTL DEF Spec
=============================================================================
