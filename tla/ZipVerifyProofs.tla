--------------------------- MODULE ZipVerifyProofs --------------------------
(***************************************************************************)
(* zip_verify finds the parts of every signing block of the format, and    *)
(* accepts the genuine packages and no others, for every chunk size,       *)
(* buffer size and package length and however its reads are cut.           *)
(***************************************************************************)
EXTENDS ZipVerify, SequenceTheorems, TLAPS

----------------------------------------------------------------------------
(* The inductive invariants.                                               *)

\* Behind AcceptsOnlyGenuine: what has been checked when the program has come to a
\* step.
CheckedInv ==
  /\ pc \notin {"main", "parse", "end"} => pkg.format
  /\ pc \notin {"main", "parse", "signing", "end"} => SameAlgorithm \/ garbled
  /\ pc \in {"digest", "block", "eocd", "compare"} => avb_rsa_verify
  /\ AcceptsOnlyGenuine

\* Behind AcceptsGenuine: as long as nothing has failed, the chunks digested
\* so far are the first ones of those that were signed, and length is what the
\* block has left.
DigestInv ==
  ~ faults =>
    /\ ~ garbled
    /\ pc \in {"main", "parse", "signing", "stat", "cert", "signature", "digest"}
         => hashed = <<>>
    /\ pc = "block" =>
         /\ i <= ChunkCount(blk)
         /\ i < ChunkCount(blk) => length = BlockLength(blk) - i * CHUNK
         /\ Len(hashed) = i + (IF blk = 1 THEN 0 ELSE ChunkCount(1))
         /\ \A k \in DOMAIN hashed : hashed[k] = SignedChunks[k]
    /\ pc \in {"eocd", "compare"} => hashed = SignedChunks
    /\ AcceptsGenuine

----------------------------------------------------------------------------
(* The parser against the encoder.                                         *)

Words == Seq(Nat)

\* The words s are in memory from address p on.
Holds(mem, p, s) ==
  /\ p \in Nat \ {0} /\ p + Len(s) <= Len(mem) + 1
  /\ \A j \in 1..Len(s) : mem[p + j - 1] = s[j]

\* Two parts that lie one behind the other.
LEMMA HoldsConcat ==
  ASSUME NEW mem \in Words, NEW p \in Nat, NEW s \in Words, NEW t \in Words,
         Holds(mem, p, s \o t)
  PROVE  Holds(mem, p, s) /\ Holds(mem, p + Len(s), t)
<1> USE DEF Words
<1>1. /\ Len(s \o t) = Len(s) + Len(t)
      /\ Len(s) \in Nat /\ Len(t) \in Nat /\ Len(mem) \in Nat
  OBVIOUS
<1>2. \A j \in 1..Len(s) : (s \o t)[j] = s[j]
  OBVIOUS
<1>3. \A j \in 1..Len(t) : (s \o t)[Len(s) + j] = t[j]
  OBVIOUS
<1>4. Holds(mem, p, s)
  BY <1>1, <1>2 DEF Holds
<1>5. \A j \in 1..Len(t) : mem[p + Len(s) + j - 1] = t[j]
  <2> SUFFICES ASSUME NEW j \in 1..Len(t) PROVE mem[p + Len(s) + j - 1] = t[j]
    OBVIOUS
  <2>1. Len(s) + j \in 1..Len(s \o t) /\ p + (Len(s) + j) - 1 = p + Len(s) + j - 1
    BY <1>1
  <2> QED
    BY <1>3, <2>1 DEF Holds
<1> QED
  BY <1>1, <1>4, <1>5 DEF Holds

\* A part with its length in front, as parse_block expects it.
LEMMA HoldsPrefixed ==
  ASSUME NEW mem \in Words, NEW p \in Nat, NEW s \in Words,
         Holds(mem, p, Prefixed(s))
  PROVE  mem[p] = Len(s) /\ Holds(mem, p + 1, s)
<1>1. Holds(mem, p, <<Len(s)>>) /\ Holds(mem, p + 1, s)
  <2>1. <<Len(s)>> \in Words /\ Len(<<Len(s)>>) = 1
    BY DEF Words
  <2> QED
    BY <2>1, HoldsConcat DEF Prefixed
<1>2. mem[p] = Len(s)
  BY <1>1 DEF Holds
<1> QED
  BY <1>1, <1>2

\* The words of a part are what content takes.
LEMMA HoldsContent ==
  ASSUME NEW mem \in Words, NEW p \in Nat, NEW s \in Words, Holds(mem, p, s)
  PROVE  SubSeq(mem, p, p + Len(s) - 1) = s
<1>1. Len(s) \in Nat /\ Len(mem) \in Nat
  BY DEF Words
<1>2. \A k \in p .. p + Len(s) - 1 : mem[k] \in Nat
  BY <1>1 DEF Holds, Words
<1>3. /\ SubSeq(mem, p, p + Len(s) - 1) \in Seq(Nat)
      /\ Len(SubSeq(mem, p, p + Len(s) - 1)) = Len(s)
      /\ \A j \in 1..Len(s) : SubSeq(mem, p, p + Len(s) - 1)[j] = s[j]
  <2>1. p + Len(s) - 1 \in Int
    BY <1>1
  <2> QED
  BY <1>1, <1>2, <2>1, SubSeqProperties DEF Holds
<1> QED
  BY <1>3, SeqEqual DEF Words

\* What the encoder puts together are words.
LEMMA WordsFacts ==
  /\ \A w, v \in Words : w \o v \in Words
  /\ \A w \in Words : /\ Prefixed(w) \in Words /\ Len(w) \in Nat
                      /\ Len(Prefixed(w)) = Len(w) + 1
  /\ \A w \in Words : \A g \in Nat : Entry(g, w) \in Words
<1>1. \A w, v \in Words : w \o v \in Words
  BY DEF Words
<1>2. \A w \in Words : /\ Prefixed(w) \in Words /\ Len(w) \in Nat
                       /\ Len(Prefixed(w)) = Len(w) + 1
  BY DEF Words, Prefixed
<1>3. \A g \in Nat : <<g>> \in Words
  BY DEF Words
<1> QED
  BY <1>1, <1>2, <1>3 DEF Entry

\* An algorithm id with its digest or signature.
LEMMA HoldsEntry ==
  ASSUME NEW mem \in Words, NEW p \in Nat, NEW g \in Nat, NEW w \in Words,
         Holds(mem, p, Entry(g, w))
  PROVE  mem[p + 1] = g /\ mem[p + 2] = Len(w) /\ Holds(mem, p + 3, w)
<1>1. Prefixed(w) \in Words /\ <<g>> \in Words /\ Len(<<g>>) = 1 /\ p + 1 \in Nat
  BY WordsFacts DEF Words
<1>2. Holds(mem, p + 1, <<g>> \o Prefixed(w))
  BY <1>1, WordsFacts, HoldsPrefixed DEF Entry
<1>3. Holds(mem, p + 1, <<g>>) /\ Holds(mem, p + 1 + 1, Prefixed(w))
  <2>1. Holds(mem, p + 1, <<g>>) /\ Holds(mem, p + 1 + Len(<<g>>), Prefixed(w))
    BY <1>1, <1>2, HoldsConcat
  <2> QED
    BY <1>1, <2>1
<1>4. mem[p + 1] = g
  BY <1>3 DEF Holds
<1>5. mem[p + 1 + 1] = Len(w) /\ Holds(mem, p + 1 + 1 + 1, w)
  BY <1>3, HoldsPrefixed
<1>6. p + 1 + 1 = p + 2 /\ p + 1 + 1 + 1 = p + 3
  OBVIOUS
<1> QED
  BY <1>4, <1>5, <1>6

\* The parts of a signing block are words.
LEMMA PartsAreWords ==
  ASSUME NEW a \in Nat, NEW n, NEW s \in Nat
  PROVE  /\ Digest(1) \in Words /\ Digest(2) \in Words /\ Signature \in Words
         /\ Certificate \in Words /\ PublicKey \in Words /\ <<>> \in Words
         /\ Digests(a, n) \in Words /\ SignedData(a, n) \in Words
         /\ Signer(a, n, s) \in Words
<1>1. /\ Digest(1) \in Words /\ Digest(2) \in Words /\ Signature \in Words
      /\ Certificate \in Words /\ PublicKey \in Words /\ <<>> \in Words
  BY DEF Words, Digest, Signature, Certificate, PublicKey
<1>2. a + 1 \in Nat
  OBVIOUS
<1>3. Digests(a, n) \in Words
  BY <1>1, <1>2, WordsFacts DEF Digests
<1>4. SignedData(a, n) \in Words
  BY <1>1, <1>3, WordsFacts DEF SignedData
<1>5. Signer(a, n, s) \in Words
  BY <1>1, <1>4, WordsFacts DEF Signer
<1> QED
  BY <1>1, <1>3, <1>4, <1>5

\* Where the parts of a signer lie in a signing block.
LEMMA Layout ==
  ASSUME NEW mem \in Words, NEW a \in Nat, NEW n, NEW s \in Nat,
         Holds(mem, 6, Signer(a, n, s))
  PROVE  LET d == SignedData(a, n)
         IN  /\ mem[6] = Len(d) /\ Holds(mem, 7, d)
             /\ mem[9] = a /\ mem[10] = 2 /\ Holds(mem, 11, Digest(1))
             /\ mem[Len(d) + 9] = s /\ mem[Len(d) + 10] = 3
             /\ Holds(mem, Len(d) + 11, Signature)
<1> DEFINE d == SignedData(a, n)
           e == Entry(s, Signature)
<1>1. /\ d \in Words /\ Len(d) \in Nat /\ e \in Words
      /\ Len(Prefixed(d)) = Len(d) + 1
      /\ {Prefixed(d), Prefixed(e), Prefixed(PublicKey)} \subseteq Words
      /\ {Signature, Digest(1), Digests(a, n), Prefixed(Digests(a, n))} \subseteq Words
      /\ {Prefixed(Prefixed(Certificate)), Prefixed(<<>>)} \subseteq Words
  BY WordsFacts, PartsAreWords
<1>2. d = (Prefixed(Digests(a, n)) \o Prefixed(Prefixed(Certificate))) \o Prefixed(<<>>)
  BY DEF SignedData
<1>3. Holds(mem, 6, (Prefixed(d) \o Prefixed(e)) \o Prefixed(PublicKey))
  BY DEF Signer
<1> HIDE DEF d, e
<1>4. Holds(mem, 6, Prefixed(d)) /\ Holds(mem, 6 + (Len(d) + 1), Prefixed(e))
  <2>1. Prefixed(d) \o Prefixed(e) \in Words
    BY <1>1, WordsFacts
  <2>2. Holds(mem, 6, Prefixed(d) \o Prefixed(e))
    BY <1>1, <1>3, <2>1, HoldsConcat
  <2> QED
    BY <1>1, <2>2, HoldsConcat
<1>5. mem[6] = Len(d) /\ Holds(mem, 7, d)
  BY <1>1, <1>4, HoldsPrefixed
<1>6. Holds(mem, 7, Prefixed(Digests(a, n)))
  <2>1. Prefixed(Digests(a, n)) \o Prefixed(Prefixed(Certificate)) \in Words
    BY <1>1, WordsFacts
  <2>2. Holds(mem, 7, Prefixed(Digests(a, n)) \o Prefixed(Prefixed(Certificate)))
    BY <1>1, <1>2, <1>5, <2>1, HoldsConcat
  <2> QED
    BY <1>1, <2>2, HoldsConcat
<1>7. Holds(mem, 8, Entry(a, Digest(1)))
  <2>1. Holds(mem, 8, Digests(a, n))
    BY <1>1, <1>6, HoldsPrefixed
  <2>2. CASE n = 1
    BY <2>1, <2>2 DEF Digests
  <2>3. CASE n # 1
    <3>1. Entry(a, Digest(1)) \in Words /\ Entry(a + 1, Digest(2)) \in Words
      BY PartsAreWords, WordsFacts
    <3>2. Holds(mem, 8, Entry(a, Digest(1)) \o Entry(a + 1, Digest(2)))
      BY <2>1, <2>3 DEF Digests
    <3> QED
      BY <3>1, <3>2, HoldsConcat
  <2> QED
    BY <2>2, <2>3
<1>8. mem[9] = a /\ mem[10] = 2 /\ Holds(mem, 11, Digest(1))
  <2>1. Len(Digest(1)) = 2
    BY DEF Digest
  <2> DEFINE p == 8
  <2>2. p + 1 = 9 /\ p + 2 = 10 /\ p + 3 = 11 /\ p \in Nat
    OBVIOUS
  <2>3. Holds(mem, p, Entry(a, Digest(1)))
    BY <1>7
  <2> HIDE DEF p
  <2>4. mem[p + 1] = a /\ mem[p + 2] = Len(Digest(1)) /\ Holds(mem, p + 3, Digest(1))
    BY <1>1, <2>2, <2>3, HoldsEntry
  <2> QED
    BY <2>1, <2>2, <2>4
<1>9. mem[Len(d) + 9] = s /\ mem[Len(d) + 10] = 3 /\ Holds(mem, Len(d) + 11, Signature)
  <2> DEFINE p == 6 + (Len(d) + 1) + 1
  <2>1. Holds(mem, p, e) /\ p \in Nat
    BY <1>1, <1>4, HoldsPrefixed
  <2>2. Len(Signature) = 3
    BY DEF Signature
  <2>3. /\ p + 1 = Len(d) + 9 /\ p + 2 = Len(d) + 10 /\ p + 3 = Len(d) + 11
    BY <1>1
  <2> HIDE DEF p
  <2>4. mem[p + 1] = s /\ mem[p + 2] = Len(Signature) /\ Holds(mem, p + 3, Signature)
    BY <1>1, <2>1, HoldsEntry DEF e
  <2> QED
    BY <2>2, <2>3, <2>4
<1> QED
  BY <1>5, <1>8, <1>9 DEF d

\* get_signature_info finds the signed data, the first digest and the signature
\* with their algorithms in every signing block, whatever the algorithms and the
\* number of digests.
LEMMA ParserFindsParts ==
  ASSUME NEW a \in Nat, NEW n, NEW s \in Nat, NEW mem,
         mem = SigningBlockWords(a, n, s)
  PROVE  LET si == signature_info(mem)
         IN  /\ content(mem, si.signed_data) = SignedData(a, n)
             /\ content(mem, si.signatures_content) = Signature
             /\ content(mem, si.one_digest) = Digest(1)
             /\ si.digests_signatures_algorithm_id = a
             /\ si.signatures_algorithm_id = s
<1> DEFINE value == Prefixed(Prefixed(Signer(a, n, s)))
           head == <<Len(value) + 1, 0, V2_ID>>
           d == SignedData(a, n)
<1>1. /\ Signer(a, n, s) \in Words /\ value \in Words
      /\ Prefixed(Signer(a, n, s)) \in Words
      /\ Len(value) \in Nat /\ Digest(1) \in Words /\ Signature \in Words
      /\ d \in Words /\ Len(d) \in Nat
  BY PartsAreWords, WordsFacts
<1>2. mem = head \o value
  BY DEF SigningBlockWords
<1>3. head \in Words /\ Len(head) = 3
  BY <1>1 DEF Words, V2_ID
<1>4. mem \in Words
  BY <1>1, <1>2, <1>3, WordsFacts
<1> HIDE DEF head
<1>5. Holds(mem, 6, Signer(a, n, s))
  <2>1. Holds(mem, 1, mem)
    BY <1>4 DEF Holds, Words
  <2>2. Holds(mem, 1 + Len(head), value)
    <3> HIDE DEF value
    <3> QED
      BY <1>1, <1>2, <1>3, <1>4, <2>1, HoldsConcat
  <2>3. Holds(mem, 5, Prefixed(Signer(a, n, s)))
    BY <1>1, <1>3, <1>4, <2>2, HoldsPrefixed
  <2> QED
    BY <1>1, <1>4, <2>3, HoldsPrefixed
<1>6. /\ mem[6] = Len(d) /\ Holds(mem, 7, d)
      /\ mem[9] = a /\ mem[10] = 2 /\ Holds(mem, 11, Digest(1))
      /\ mem[Len(d) + 9] = s /\ mem[Len(d) + 10] = 3
      /\ Holds(mem, Len(d) + 11, Signature)
  BY <1>4, <1>5, Layout
<1>7. /\ SubSeq(mem, 7, 7 + Len(d) - 1) = d
      /\ SubSeq(mem, 11, 11 + Len(Digest(1)) - 1) = Digest(1)
      /\ SubSeq(mem, Len(d) + 11, Len(d) + 11 + Len(Signature) - 1) = Signature
  <2>1. Len(d) + 11 \in Nat
    BY <1>1
  <2> HIDE DEF d
  <2> QED
    BY <1>1, <1>4, <1>6, <2>1, HoldsContent
<1>8. Len(Digest(1)) = 2 /\ Len(Signature) = 3
  BY DEF Digest, Signature
<1> DEFINE si == signature_info(mem)
<1> HIDE DEF d
<1>9. /\ si.signed_data.data = 7 /\ si.signed_data.length = Len(d)
      /\ si.digests_signatures_algorithm_id = a
      /\ si.one_digest.data = 11 /\ si.one_digest.length = 2
      /\ si.signatures_algorithm_id = s
      /\ si.signatures_content.data = Len(d) + 11
      /\ si.signatures_content.length = 3
  <2>1. parse_block(mem, parse_kv_block(mem, 1).value).data = 5
    BY DEF parse_block, parse_kv_block
  <2>2. parse_block(mem, parse_block(mem, 5).data)
          = [length |-> Len(d), data |-> 7, next |-> 7 + Len(d)]
    BY <1>1, <1>6 DEF parse_block
  <2>3. parse_block(mem, parse_block(mem, 7 + Len(d)).data).data = Len(d) + 9
    BY <1>1 DEF parse_block
  <2>4. parse_block(mem, 7).data = 8
    BY DEF parse_block
  <2>5. parse_block(mem, 8 + 2) = [length |-> 2, data |-> 11, next |-> 13]
    BY <1>6 DEF parse_block
  <2>6. /\ parse_block(mem, Len(d) + 9 + 1).length = 3
        /\ parse_block(mem, Len(d) + 9 + 1).data = Len(d) + 11
    <3>1. Len(d) + 9 + 1 = Len(d) + 10 /\ Len(d) + 10 + 1 = Len(d) + 11
      BY <1>1
    <3> QED
      BY <1>6, <3>1 DEF parse_block
  <2> DEFINE signed_data == parse_block(mem, parse_block(mem, 5).data)
             signature == parse_block(mem, parse_block(mem, signed_data.next).data)
             digests == parse_block(mem, signed_data.data)
  <2>7. si = [signed_data |-> signed_data,
              digests_signatures_algorithm_id |-> mem[digests.data + 1],
              one_digest |-> parse_block(mem, digests.data + 2),
              signatures_algorithm_id |-> mem[signature.data],
              signatures_content |-> parse_block(mem, signature.data + 1)]
    BY <2>1 DEF signature_info, get_signature_info
  <2>8. /\ signed_data = [length |-> Len(d), data |-> 7, next |-> 7 + Len(d)]
        /\ signature.data = Len(d) + 9 /\ digests.data = 8
    BY <2>2, <2>3, <2>4
  <2> HIDE DEF si, signed_data, signature, digests
  <2> QED
    BY <1>6, <2>5, <2>6, <2>7, <2>8
<1> QED
  <2> HIDE DEF si
  <2>1. /\ content(mem, si.signed_data) = d
        /\ content(mem, si.signatures_content) = Signature
        /\ content(mem, si.one_digest) = Digest(1)
    BY <1>7, <1>8, <1>9 DEF content
  <2> QED
    BY <1>9, <2>1 DEF si, d
----------------------------------------------------------------------------
(* Chunks.                                                                 *)

\* Rounding up counts the chunks that begin before the end of the block.
LEMMA CountFacts ==
  ASSUME NEW L \in Nat, NEW C \in Nat \ {0}
  PROVE  LET n == (L + C - 1) \div C
         IN  n \in Nat /\ \A k \in Nat : k < n <=> k * C < L
<1> DEFINE n == (L + C - 1) \div C
           r == (L + C - 1) % C
<1>1. n \in Int /\ r \in 0..(C - 1) /\ L + C - 1 = C * n + r
  OBVIOUS
<1>2. n \in Nat
  OBVIOUS
<1> HIDE DEF n, r
<1>3. ASSUME NEW k \in Nat PROVE k < n <=> k * C < L
  <2>1. CASE k < n
    <3>1. (k + 1) * C <= n * C
      BY <1>1, <2>1
    <3> QED
    BY <1>1, <2>1, <3>1
  <2>2. CASE n <= k
    <3>1. n * C <= k * C
      BY <1>1, <2>2
    <3> QED
    BY <1>1, <2>2, <3>1
  <2> QED
    BY <1>1, <2>1, <2>2
<1> QED
  BY <1>2, <1>3 DEF n

\* The length of the last chunk when it is not a full one.
LEMMA RestFacts ==
  ASSUME NEW L \in Nat, NEW C \in Nat \ {0}, NEW k \in Nat,
         k * C <= L, L < (k + 1) * C
  PROVE  L % C = L - k * C
<1> DEFINE q == L \div C
           r == L % C
<1>1. q \in Nat /\ r \in 0..(C - 1) /\ L = C * q + r
  OBVIOUS
<1> HIDE DEF q, r
<1>2. ~ (q < k)
  <2> SUFFICES ASSUME q < k PROVE FALSE
    OBVIOUS
  <2>1. (q + 1) * C <= k * C
    BY <1>1
  <2> QED
    BY <1>1, <2>1
<1>3. ~ (k < q)
  <2> SUFFICES ASSUME k < q PROVE FALSE
    OBVIOUS
  <2>1. (k + 1) * C <= q * C
    BY <1>1
  <2> QED
    BY <1>1, <2>1
<1>4. q = k
  <2>1. q \in Nat
    BY <1>1
  <2> QED
    BY <1>2, <1>3, <2>1
<1>5. r = L - k * C
  BY <1>1, <1>4
<1> QED
  BY <1>5 DEF r
\* A value in the range of a word is not reduced.
LEMMA SmallMod ==
  ASSUME NEW a \in Nat, NEW C \in Nat \ {0}, a < C
  PROVE  a % C = a
OBVIOUS
----------------------------------------------------------------------------
(* Types.                                                                  *)

\* The lengths of a package and where its blocks begin.
LEMMA PackageFacts ==
  ASSUME TypeOK
  PROVE  /\ pkg.data \in DataLengths /\ pkg.dir \in DirLengths
         /\ pkg.data \in Nat /\ pkg.dir \in Nat /\ CHUNK \in Nat \ {0}
         /\ \A b \in {1, 2} : BlockLength(b) \in Nat /\ BlockStart(b) \in Nat
         /\ pkg.format \in BOOLEAN /\ pkg.signed \in BOOLEAN
         /\ pkg.intact \in BOOLEAN /\ pkg.block \in SigningBlocks
<1>1. /\ pkg.data \in DataLengths /\ pkg.dir \in DirLengths
      /\ pkg.format \in BOOLEAN /\ pkg.signed \in BOOLEAN
      /\ pkg.intact \in BOOLEAN /\ pkg.block \in SigningBlocks
  BY DEF TypeOK, Package
<1>2. CHUNK \in Nat \ {0} /\ pkg.data \in Nat /\ pkg.dir \in Nat
  BY <1>1, ZipAssumption
<1>3. \A b \in {1, 2} : BlockLength(b) \in Nat /\ BlockStart(b) \in Nat
  BY <1>2 DEF BlockLength, BlockStart
<1> QED
  BY <1>1, <1>2, <1>3

\* A chunk is an offset and a length.
LEMMA ChunkType == TypeOK => Chunk \in Span
<1> SUFFICES ASSUME TypeOK PROVE Chunk \in Span
  OBVIOUS
<1>1. /\ BlockStart(blk) \in Nat /\ i \in Nat /\ CHUNK \in Nat /\ length \in Nat
  BY PackageFacts DEF TypeOK
<1>2. i * CHUNK \in Nat
  BY <1>1
<1>3. BlockStart(blk) + i * CHUNK \in Nat /\ ChunkLength \in Nat
  BY <1>1, <1>2 DEF ChunkLength
<1> QED
  BY <1>3 DEF Chunk, Span

\* Steps that do not touch the digest.
LEMMA GoType ==
  ASSUME TypeOK,
         NEW nx \in {"parse", "signing", "stat", "cert", "signature", "digest",
                     "compare", "end"},
         NEW v \in {-1, 0, 1},
         Go(nx, v), garbled' \in BOOLEAN, faults' \in BOOLEAN
  PROVE  TypeOK'
BY DEF Go, TypeOK

\* The state of zip_verify keeps its types.
THEOREM TypeCorrect == Spec => []TypeOK
<1>1. Init => TypeOK
  <2>1. 0 \in 0..CHUNK /\ <<>> \in Seq(Span)
    BY ZipAssumption
  <2>2. Init => garbled \in BOOLEAN /\ faults \in BOOLEAN
    BY Zenon DEF Init
  <2> QED
    BY <2>1, <2>2 DEF Init, TypeOK
<1>2. TypeOK /\ [Next]_vars => TypeOK'
  <2> SUFFICES ASSUME TypeOK, [Next]_vars PROVE TypeOK'
    OBVIOUS
  <2> USE DEF Proceed, Reject, Fault, Keep
  <2>0. garbled \in BOOLEAN /\ faults \in BOOLEAN /\ res \in {-1, 0, 1}
    BY DEF TypeOK
  <2>1. CASE Open
    BY <2>0, <2>1, GoType DEF Open
  <2>2. CASE ParseAppBlock
    BY <2>0, <2>2, GoType DEF ParseAppBlock
  <2>3. CASE SigningBlock
    BY <2>0, <2>3, GoType DEF SigningBlock
  <2>4. CASE StatCert
    BY <2>0, <2>4, GoType DEF StatCert
  <2>5. CASE OpenCert
    BY <2>0, <2>5, GoType DEF OpenCert
  <2>6. CASE verify_signature
    BY <2>0, <2>6, GoType DEF verify_signature
  <2>7. CASE ReadEocd
    BY <2>0, <2>7, GoType DEF ReadEocd
  <2>8. CASE Compare
    <3>1. (IF DigestMatches THEN 0 ELSE 1) \in {-1, 0, 1}
      OBVIOUS
    <3> QED
      BY <2>0, <2>8, <3>1, GoType DEF Compare
  <2>9. CASE OpenDigest
    <3>1. CASE Fault(-1)
      BY <2>0, <3>1, GoType
    <3>2. CASE ~ Fault(-1)
      BY <2>9, <3>2, PackageFacts DEF OpenDigest, TypeOK
    <3> QED
      BY <3>1, <3>2
  <2>10. NextBlock /\ UNCHANGED <<pkg, res, hashed, garbled>> /\ faults' \in BOOLEAN
           => TypeOK'
    BY PackageFacts DEF NextBlock, TypeOK
  <2>11. CASE EndBlock
    BY <2>0, <2>10, <2>11 DEF EndBlock
  <2>12. CASE ReadChunk
    <3>1. ChunkLength <= CHUNK /\ ChunkLength \in Nat
      BY PackageFacts DEF ChunkLength, TypeOK
    <3>2. CASE \E n \in 1..BUFSIZE : sum + n <= ChunkLength /\ sum' = sum + n
      <4>1. sum' \in 0..CHUNK
        BY <3>1, <3>2, PackageFacts, ZipAssumption DEF TypeOK
      <4> QED
        BY <2>10, <2>12, <4>1 DEF ReadChunk, TypeOK
    <3> QED
      BY <2>10, <2>12, <3>2 DEF ReadChunk, TypeOK
  <2>13. CASE EndChunk
    <3>1. Chunk \in Span
      BY ChunkType
    <3>2. hashed' \in Seq(Span)
      BY <2>13, <3>1 DEF EndChunk, TypeOK
    <3>3. length' \in Nat
      BY <2>13, PackageFacts DEF EndChunk, TypeOK
    <3> QED
      BY <2>13, <3>2, <3>3, PackageFacts DEF EndChunk, TypeOK
  <2>14. CASE UNCHANGED vars
    BY <2>14 DEF vars, TypeOK
  <2> QED
    BY <2>1, <2>2, <2>3, <2>4, <2>5, <2>6, <2>7, <2>8, <2>9, <2>11, <2>12,
       <2>13, <2>14 DEF Next
<1> QED
  BY <1>1, <1>2, PTL DEF Spec
----------------------------------------------------------------------------
(* Acceptance.                                                             *)

\* What verify_app compares: the algorithms agree exactly for the algorithm of the
\* key, and the signature is accepted exactly if it is the right one and was read.
LEMMA Parsed ==
  ASSUME TypeOK
  PROVE  /\ SameAlgorithm <=> pkg.block.alg = KEY_ALGORITHM
         /\ avb_rsa_verify <=> pkg.signed /\ ~ garbled
         /\ content(pkg.block.words, info.one_digest) = Digest(1)
<1>1. PICK a \in {1, 2}, n \in {1, 2} :
        pkg.block = [alg |-> a, signed_data |-> SignedData(a, n),
                     words |-> SigningBlockWords(a, n, KEY_ALGORITHM)]
  BY PackageFacts DEF SigningBlocks
<1>2. /\ pkg.block.alg = a /\ pkg.block.signed_data = SignedData(a, n)
      /\ pkg.block.words = SigningBlockWords(a, n, KEY_ALGORITHM)
  BY <1>1
<1>3. /\ content(pkg.block.words, info.signed_data) = SignedData(a, n)
      /\ content(pkg.block.words, info.signatures_content) = Signature
      /\ content(pkg.block.words, info.one_digest) = Digest(1)
      /\ info.digests_signatures_algorithm_id = a
      /\ info.signatures_algorithm_id = KEY_ALGORITHM
  <2>1. a \in Nat /\ KEY_ALGORITHM \in Nat
    BY DEF KEY_ALGORITHM
  <2> QED
    BY <1>2, <2>1, ParserFindsParts DEF info
<1> QED
  BY <1>2, <1>3 DEF SameAlgorithm, avb_rsa_verify

\* The checks read only the package and the flag.
LEMMA SameChecks ==
  ASSUME pkg' = pkg
  PROVE  /\ SameAlgorithm' <=> SameAlgorithm
         /\ garbled' = garbled => (avb_rsa_verify' <=> avb_rsa_verify)
         /\ Genuine' <=> Genuine
BY DEF SameAlgorithm, avb_rsa_verify, Genuine, info

\* When verify_app and verify_digest have come to a step, the checks before it have
\* succeeded; the open of the certificate and the read of the EOCD, whose failure
\* leaves a 0 in res, are assumed not to fail that way.
THEOREM CheckedInvariant ==
  ASSUME ~ CertOpenFails, ~ EocdReadEmpty
  PROVE  Spec => []CheckedInv
<1>1. Init => CheckedInv
  BY DEF Init, CheckedInv, AcceptsOnlyGenuine
<1>2. TypeOK /\ CheckedInv /\ [Next]_vars => CheckedInv'
  <2> SUFFICES ASSUME TypeOK, CheckedInv, [Next]_vars PROVE CheckedInv'
    OBVIOUS
  <2> USE DEF Proceed, Reject, Fault, Keep, Go, CheckedInv, AcceptsOnlyGenuine
  <2>1. CASE Open
    BY <2>1, SameChecks DEF Open
  <2>2. CASE ParseAppBlock
    BY <2>2, SameChecks DEF ParseAppBlock
  <2>3. CASE SigningBlock
    BY <2>3, SameChecks DEF SigningBlock
  <2>4. CASE StatCert
    BY <2>4, SameChecks DEF StatCert
  <2>5. CASE OpenCert
    BY <2>5, SameChecks DEF OpenCert
  <2>6. CASE verify_signature
    BY <2>6, SameChecks DEF verify_signature
  <2>7. CASE ReadEocd
    BY <2>7, SameChecks DEF ReadEocd
  <2>8. CASE Compare
    <3>1. DigestMatches => Genuine
      BY <2>8, Parsed DEF Compare, DigestMatches, Genuine, avb_rsa_verify
    <3> QED
      BY <2>8, <3>1, SameChecks DEF Compare
  <2>9. CASE OpenDigest
    BY <2>9, SameChecks DEF OpenDigest
  <2>10. CASE EndBlock
    BY <2>10, SameChecks DEF EndBlock, NextBlock
  <2>11. CASE ReadChunk
    BY <2>11, SameChecks DEF ReadChunk, NextBlock
  <2>12. CASE EndChunk
    BY <2>12, SameChecks DEF EndChunk
  <2>13. CASE UNCHANGED vars
    BY <2>13, SameChecks DEF vars
  <2> QED
    BY <2>1, <2>2, <2>3, <2>4, <2>5, <2>6, <2>7, <2>8, <2>9, <2>10, <2>11,
       <2>12, <2>13 DEF Next
<1> QED
  BY <1>1, <1>2, TypeCorrect, PTL DEF Spec

\* Then zip_verify returns 0 only for a package with the signature of the device's
\* key and the digest of its contents.
THEOREM OnlyGenuineAccepted ==
  ASSUME ~ CertOpenFails, ~ EocdReadEmpty
  PROVE  Spec => []AcceptsOnlyGenuine
<1>1. CheckedInv => AcceptsOnlyGenuine
  BY DEF CheckedInv
<1> QED
  BY <1>1, CheckedInvariant, PTL

----------------------------------------------------------------------------
(* The digest.                                                             *)

\* The lengths that data_block_t.length can round up to a chunk.
NoWrap == \A len \in DataLengths \union DirLengths : len + CHUNK - 1 < WORD

\* calc_chunk_count counts the chunks of a block.
LEMMA Counts ==
  ASSUME TypeOK, NoWrap, NEW b \in {1, 2}
  PROVE  /\ ChunkCount(b) \in Nat
         /\ calc_chunk_count(BlockLength(b)) = ChunkCount(b)
         /\ \A k \in Nat : k < ChunkCount(b) <=> k * CHUNK < BlockLength(b)
<1> DEFINE len == BlockLength(b)
<1>1. len \in Nat /\ len + CHUNK - 1 < WORD /\ CHUNK \in Nat \ {0} /\ WORD \in Nat \ {0}
  BY PackageFacts, ZipAssumption DEF NoWrap, BlockLength
<1>2. (len + CHUNK - 1) % WORD = len + CHUNK - 1
  BY <1>1, SmallMod
<1>3. calc_chunk_count(len) = ChunkCount(b)
  BY <1>2 DEF calc_chunk_count, ChunkCount
<1>4. /\ (len + CHUNK - 1) \div CHUNK \in Nat
      /\ \A k \in Nat : k < (len + CHUNK - 1) \div CHUNK <=> k * CHUNK < len
  BY <1>1, CountFacts
<1> QED
  BY <1>3, <1>4 DEF ChunkCount

\* The chunks of the two blocks one behind the other.
LEMMA Signed ==
  ASSUME TypeOK, NoWrap
  PROVE  /\ SignedChunks \in Seq(Span)
         /\ Len(SignedChunks) = ChunkCount(1) + ChunkCount(2)
         /\ \A k \in 1..ChunkCount(1) : SignedChunks[k] = Chunks(1)[k]
         /\ \A k \in 1..ChunkCount(2) :
              SignedChunks[ChunkCount(1) + k] = Chunks(2)[k]
<1>1. ASSUME NEW b \in {1, 2}
      PROVE  Chunks(b) \in Seq(Span) /\ Len(Chunks(b)) = ChunkCount(b)
  <2>1. ChunkCount(b) \in Nat /\ BlockLength(b) \in Nat /\ BlockStart(b) \in Nat
        /\ CHUNK \in Nat \ {0}
    BY Counts, PackageFacts
  <2>2. BlockLength(b) % CHUNK \in Nat
    BY <2>1
  <2>3. \A k \in 1..ChunkCount(b) :
           <<BlockStart(b) + (k - 1) * CHUNK,
             IF k * CHUNK <= BlockLength(b) THEN CHUNK ELSE BlockLength(b) % CHUNK>>
           \in Span
    <3> SUFFICES ASSUME NEW k \in 1..ChunkCount(b)
                 PROVE  BlockStart(b) + (k - 1) * CHUNK \in Nat
      BY <2>1, <2>2 DEF Span
    <3>1. (k - 1) * CHUNK \in Nat
      BY <2>1
    <3> QED
      BY <2>1, <3>1
  <2> DEFINE e(k) == <<BlockStart(b) + (k - 1) * CHUNK,
                       IF k * CHUNK <= BlockLength(b) THEN CHUNK
                       ELSE BlockLength(b) % CHUNK>>
  <2>4. /\ Chunks(b) = [k \in 1..ChunkCount(b) |-> e(k)]
        /\ \A k \in 1..ChunkCount(b) : e(k) \in Span
    BY <2>3 DEF Chunks
  <2> HIDE DEF e
  <2> QED
    BY <2>1, <2>4
<1>2. Chunks(1) \in Seq(Span) /\ Len(Chunks(1)) = ChunkCount(1)
  BY <1>1
<1>3. Chunks(2) \in Seq(Span) /\ Len(Chunks(2)) = ChunkCount(2)
  BY <1>1
<1>4. ChunkCount(1) \in Nat /\ ChunkCount(2) \in Nat
  BY Counts
<1> DEFINE s == Chunks(1)
           t == Chunks(2)
           m == ChunkCount(1)
           n == ChunkCount(2)
<1>5. SignedChunks = s \o t /\ s \in Seq(Span) /\ t \in Seq(Span)
      /\ Len(s) = m /\ Len(t) = n /\ m \in Nat /\ n \in Nat
  BY <1>2, <1>3, <1>4 DEF SignedChunks
<1> SUFFICES /\ SignedChunks \in Seq(Span) /\ Len(SignedChunks) = m + n
             /\ \A k \in 1..m : SignedChunks[k] = s[k]
             /\ \A k \in 1..n : SignedChunks[m + k] = t[k]
  OBVIOUS
<1> HIDE DEF s, t, m, n
<1>6. \A k \in 1..(m + n) : SignedChunks[k] = IF k <= m THEN s[k] ELSE t[k - m]
  BY <1>5, ConcatProperties
<1>7. \A k \in 1..n : SignedChunks[m + k] = t[k]
  <2> SUFFICES ASSUME NEW k \in 1..n PROVE SignedChunks[m + k] = t[k]
    OBVIOUS
  <2> DEFINE l == m + k
  <2>1. l \in 1..(m + n) /\ ~ (l <= m) /\ l - m = k
    BY <1>5
  <2> HIDE DEF l
  <2>2. SignedChunks[l] = t[l - m]
    BY <1>6, <2>1
  <2> QED
    BY <2>1, <2>2 DEF l
<1>8. \A k \in 1..m : SignedChunks[k] = s[k]
  BY <1>5, <1>6
<1>9. SignedChunks \in Seq(Span) /\ Len(SignedChunks) = m + n
  BY <1>5, ConcatProperties
<1> QED
  BY <1>7, <1>8, <1>9

\* The chunk that md_file_block is at is the next one of those signed.
LEMMA NextChunk ==
  ASSUME TypeOK, NoWrap, i < ChunkCount(blk), length = BlockLength(blk) - i * CHUNK
  PROVE  /\ Chunk = Chunks(blk)[i + 1]
         /\ i + 1 < ChunkCount(blk)
              => (IF length > CHUNK THEN length - CHUNK ELSE length)
                   = BlockLength(blk) - (i + 1) * CHUNK
<1>1. /\ i \in Nat /\ blk \in {1, 2} /\ CHUNK \in Nat \ {0}
      /\ BlockLength(blk) \in Nat /\ BlockStart(blk) \in Nat /\ ChunkCount(blk) \in Nat
  BY Counts, PackageFacts DEF TypeOK
<1>2. i * CHUNK \in Nat /\ (i + 1) * CHUNK = i * CHUNK + CHUNK
  BY <1>1
<1>3. i * CHUNK < BlockLength(blk)
  BY <1>1, Counts
<1>4. i + 1 \in 1..ChunkCount(blk) /\ (i + 1) - 1 = i
  BY <1>1
<1>5. Chunks(blk)[i + 1] =
        <<BlockStart(blk) + i * CHUNK,
          IF (i + 1) * CHUNK <= BlockLength(blk) THEN CHUNK
          ELSE BlockLength(blk) % CHUNK>>
  BY <1>4 DEF Chunks
<1>6. ChunkLength = IF (i + 1) * CHUNK <= BlockLength(blk) THEN CHUNK
                    ELSE BlockLength(blk) % CHUNK
  <2>1. CASE (i + 1) * CHUNK <= BlockLength(blk)
    BY <1>1, <1>2, <2>1 DEF ChunkLength
  <2>2. CASE ~ ((i + 1) * CHUNK <= BlockLength(blk))
    <3>1. BlockLength(blk) % CHUNK = BlockLength(blk) - i * CHUNK
      BY <1>1, <1>2, <1>3, <2>2, RestFacts
    <3> QED
      BY <1>1, <1>2, <2>2, <3>1 DEF ChunkLength
  <2> QED
    BY <2>1, <2>2
<1>7. i + 1 < ChunkCount(blk) => (i + 1) * CHUNK < BlockLength(blk)
  BY <1>1, Counts
<1> QED
  BY <1>1, <1>2, <1>5, <1>6, <1>7 DEF Chunk

\* The package does not change while it is checked.
LEMMA SameDigest ==
  ASSUME pkg' = pkg
  PROVE  /\ Genuine' <=> Genuine
         /\ SignedChunks' = SignedChunks
         /\ \A b \in {1, 2} : /\ ChunkCount(b)' = ChunkCount(b)
                              /\ BlockLength(b)' = BlockLength(b)
BY DEF Genuine, SignedChunks, Chunks, ChunkCount, BlockLength, BlockStart

\* md_file_block has digested a whole block.
LEMMA EndBlockDigest ==
  ASSUME TypeOK, NoWrap, DigestInv, EndBlock PROVE DigestInv'
<1> SUFFICES ASSUME ~ faults PROVE DigestInv'
  BY DEF DigestInv, EndBlock
<1>1. /\ pc = "block" /\ blk \in {1, 2} /\ i \in Nat /\ hashed \in Seq(Span)
      /\ pkg' = pkg /\ hashed' = hashed /\ faults' = faults /\ garbled' = garbled
      /\ pc' = (IF blk = 1 THEN "block" ELSE "eocd") /\ blk' = 2 /\ i' = 0
      /\ length' = BlockLength(2)
  BY DEF TypeOK, EndBlock, NextBlock
<1>2. i = ChunkCount(blk)
  BY <1>1, Counts DEF EndBlock, DigestInv
<1>3. /\ ChunkCount(1) \in Nat /\ ChunkCount(2) \in Nat
      /\ BlockLength(2) \in Nat /\ CHUNK \in Nat
  BY Counts, PackageFacts
<1>4. CASE blk = 1
  <2>1. /\ Len(hashed) = ChunkCount(1) /\ ~ garbled
        /\ \A k \in DOMAIN hashed : hashed[k] = SignedChunks[k]
    BY <1>1, <1>2, <1>3, <1>4 DEF DigestInv
  <2> QED
    BY <1>1, <1>3, <1>4, <2>1, SameDigest DEF DigestInv, AcceptsGenuine
<1>5. CASE blk = 2
  <2>1. /\ Len(hashed) = Len(SignedChunks) /\ ~ garbled
        /\ \A k \in 1..Len(hashed) : hashed[k] = SignedChunks[k]
        /\ SignedChunks \in Seq(Span)
    <3>1. /\ Len(hashed) = ChunkCount(2) + ChunkCount(1) /\ ~ garbled
          /\ \A k \in DOMAIN hashed : hashed[k] = SignedChunks[k]
      BY <1>1, <1>2, <1>3, <1>5 DEF DigestInv
    <3>2. DOMAIN hashed = 1..Len(hashed)
      BY <1>1
    <3>3. /\ SignedChunks \in Seq(Span)
          /\ Len(SignedChunks) = ChunkCount(1) + ChunkCount(2)
      BY Signed
    <3> QED
      BY <1>3, <3>1, <3>2, <3>3
  <2>2. hashed = SignedChunks
    BY <1>1, <2>1, SeqEqual
  <2> QED
    BY <1>1, <1>5, <2>1, <2>2, SameDigest DEF DigestInv, AcceptsGenuine
<1> QED
  BY <1>1, <1>4, <1>5

\* md_one_chunk has digested the next chunk.
LEMMA EndChunkDigest ==
  ASSUME TypeOK, NoWrap, DigestInv, EndChunk PROVE DigestInv'
<1> SUFFICES ASSUME ~ faults PROVE DigestInv'
  BY DEF DigestInv, EndChunk
<1> DEFINE before == IF blk = 1 THEN 0 ELSE ChunkCount(1)
<1>1. /\ pc = "block" /\ blk \in {1, 2} /\ i \in Nat /\ hashed \in Seq(Span)
      /\ pkg' = pkg /\ faults' = faults /\ garbled' = garbled /\ pc' = pc
      /\ blk' = blk /\ i' = i + 1 /\ hashed' = Append(hashed, Chunk)
      /\ length' = IF length > CHUNK THEN length - CHUNK ELSE length
  BY DEF TypeOK, EndChunk
<1>2. /\ ChunkCount(1) \in Nat /\ ChunkCount(2) \in Nat
      /\ ChunkCount(blk) \in Nat /\ i < ChunkCount(blk)
  BY <1>1, Counts DEF EndChunk
<1>3. /\ length = BlockLength(blk) - i * CHUNK /\ Len(hashed) = i + before
      /\ \A k \in DOMAIN hashed : hashed[k] = SignedChunks[k]
      /\ ~ garbled
  BY <1>1, <1>2 DEF DigestInv
<1>4. /\ Chunk = Chunks(blk)[i + 1]
      /\ i + 1 < ChunkCount(blk) => length' = BlockLength(blk) - (i + 1) * CHUNK
  BY <1>1, <1>2, <1>3, NextChunk
<1>5. SignedChunks[before + (i + 1)] = Chunks(blk)[i + 1]
  <2>1. i + 1 \in 1..ChunkCount(blk) /\ 0 + (i + 1) = i + 1
    BY <1>1, <1>2
  <2>2. CASE blk = 1
    BY <2>1, <2>2, Signed
  <2>3. CASE blk = 2
    BY <2>1, <2>3, Signed
  <2> QED
    BY <1>1, <2>2, <2>3
<1>6. before \in Nat
  BY <1>2
<1> HIDE DEF before
<1>7. /\ Len(hashed') = i + 1 + before
      /\ \A k \in DOMAIN hashed' : hashed'[k] = SignedChunks[k]
  <2>1. Chunk \in Span
    BY ChunkType
  <2>2. /\ Len(hashed') = Len(hashed) + 1 /\ DOMAIN hashed' = 1..(Len(hashed) + 1)
        /\ hashed'[Len(hashed) + 1] = Chunk
        /\ \A k \in 1..Len(hashed) : hashed'[k] = hashed[k]
    BY <1>1, <2>1
  <2>3. DOMAIN hashed = 1..Len(hashed) /\ Len(hashed) + 1 = before + (i + 1)
    BY <1>1, <1>3, <1>6
  <2> QED
    BY <1>1, <1>3, <1>4, <1>5, <1>6, <2>2, <2>3
<1> QED
  BY <1>1, <1>2, <1>3, <1>4, <1>7, SameDigest DEF DigestInv, AcceptsGenuine, before

\* While nothing fails, md_file_block feeds exactly the signed chunks to the digest,
\* in their order, for every chunk size and every way the reads are cut.
THEOREM DigestInvariant ==
  ASSUME NoWrap PROVE Spec => []DigestInv
<1>1. Init => DigestInv
  BY DEF Init, DigestInv, AcceptsGenuine
<1>2. TypeOK /\ DigestInv /\ [Next]_vars => DigestInv'
  <2> SUFFICES ASSUME TypeOK, DigestInv, [Next]_vars PROVE DigestInv'
    OBVIOUS
  <2> USE DEF Proceed, Reject, Fault, Keep, Go
  <2>1. CASE Open
    BY <2>1, SameDigest DEF Open, DigestInv, AcceptsGenuine
  <2>2. CASE ParseAppBlock
    BY <2>2, SameDigest DEF ParseAppBlock, DigestInv, AcceptsGenuine, Genuine
  <2>3. CASE SigningBlock
    <3>1. Genuine => SameAlgorithm
      BY Parsed DEF Genuine
    <3> QED
      BY <2>3, <3>1, SameDigest DEF SigningBlock, DigestInv, AcceptsGenuine
  <2>4. CASE StatCert
    BY <2>4, SameDigest DEF StatCert, DigestInv, AcceptsGenuine
  <2>5. CASE OpenCert
    BY <2>5, SameDigest DEF OpenCert, DigestInv, AcceptsGenuine
  <2>6. CASE verify_signature
    <3>1. Genuine /\ ~ faults => avb_rsa_verify
      BY Parsed DEF Genuine, DigestInv
    <3> QED
      BY <2>6, <3>1, SameDigest DEF verify_signature, DigestInv, AcceptsGenuine
  <2>7. CASE ReadEocd
    BY <2>7, SameDigest DEF ReadEocd, DigestInv, AcceptsGenuine
  <2>8. CASE Compare
    <3>1. Genuine /\ ~ faults => DigestMatches
      <4>1. chunk_count = Len(SignedChunks) + 1
        <5>1. /\ pkg.data = BlockLength(1) /\ pkg.dir = BlockLength(2)
          BY DEF BlockLength
        <5>2. chunk_count = ChunkCount(1) + ChunkCount(2) + 1
          BY <5>1, Counts DEF chunk_count
        <5> QED
          BY <5>2, Signed
      <4> QED
        BY <2>8, <4>1, Parsed DEF Compare, DigestMatches, Genuine, DigestInv
    <3> QED
      BY <2>8, <3>1, SameDigest DEF Compare, DigestInv, AcceptsGenuine
  <2>9. CASE OpenDigest
    <3>1. CASE Fault(-1)
      BY <3>1 DEF DigestInv
    <3>2. CASE ~ Fault(-1)
      <4>1. 0 <= ChunkCount(1) /\ BlockLength(1) \in Nat /\ CHUNK \in Nat
            /\ BlockLength(1) - 0 * CHUNK = BlockLength(1)
        BY Counts, PackageFacts
      <4> QED
        <5>1. ~ faults => hashed = <<>> /\ ~ garbled
          BY <2>9 DEF OpenDigest, DigestInv
        <5>2. /\ pc' = "block" /\ blk' = 1 /\ i' = 0 /\ length' = BlockLength(1)
              /\ hashed' = hashed /\ faults' = faults /\ garbled' = garbled
              /\ pkg' = pkg
          BY <2>9, <3>2 DEF OpenDigest
        <5>3. ~ faults => Len(hashed') = 0 /\ DOMAIN hashed' = {}
          BY <5>1, <5>2
        <5> QED
          BY <4>1, <5>1, <5>2, <5>3, SameDigest DEF DigestInv, AcceptsGenuine
    <3> QED
      BY <3>1, <3>2
  <2>10. CASE EndBlock
    BY <2>10, EndBlockDigest
  <2>11. CASE ReadChunk
    BY <2>11, SameDigest DEF ReadChunk, DigestInv, AcceptsGenuine, TypeOK
  <2>12. CASE EndChunk
    BY <2>12, EndChunkDigest
  <2>13. CASE UNCHANGED vars
    BY <2>13, SameDigest DEF vars, DigestInv, AcceptsGenuine, TypeOK
  <2> QED
    BY <2>1, <2>2, <2>3, <2>4, <2>5, <2>6, <2>7, <2>8, <2>9, <2>10, <2>11,
       <2>12, <2>13 DEF Next
<1> QED
  BY <1>1, <1>2, TypeCorrect, PTL DEF Spec

\* Then zip_verify returns 0 for every genuine package.
THEOREM GenuineAccepted ==
  ASSUME NoWrap PROVE Spec => []AcceptsGenuine
<1>1. DigestInv => AcceptsGenuine
  BY DEF DigestInv, AcceptsGenuine
<1> QED
  BY <1>1, DigestInvariant, PTL
=============================================================================
