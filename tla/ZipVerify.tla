------------------------------ MODULE ZipVerify -----------------------------
(***************************************************************************)
(* verify/zip_verify.c: the check of an upgrade package's signature block  *)
(* (APK Signature Scheme v2) against the device's key.  The steps are      *)
(* those of verify, verify_app and verify_digest, each with the ways its   *)
(* system calls can fail; res is the value the program exits with, and     *)
(* "goto error" is a step to "end".  A digest is modelled by what was fed  *)
(* to it: the chunk count and the sequence of chunks, each an offset and a *)
(* length of the file.                                                     *)
(***************************************************************************)
EXTENDS Integers, Sequences, ZipBlocks

CONSTANTS
  CHUNK,            \* DIGESTED_CHUNK_MAX_SIZE
  BUFSIZE,          \* CONFIG_UTILS_ZIP_VERIFY_BUFSIZE
  WORD,             \* 2^32, the range of data_block_t.length
  DataLengths,      \* lengths of the zip entries
  DirLengths,       \* lengths of the central directory
  CertOpenFails,    \* may open(cert_path) fail after stat succeeded?
  EocdReadEmpty     \* may the read of the EOCD return 0?

ASSUME ZipAssumption ==
  /\ {CHUNK, BUFSIZE, WORD} \subseteq Nat \ {0}
  /\ DataLengths \subseteq Nat /\ DirLengths \subseteq Nat
  /\ CertOpenFails \in BOOLEAN /\ EocdReadEmpty \in BOOLEAN

VARIABLES
  pkg,     \* the package: its layout and whether it is genuine
  pc,
  res,     \* the variable res of the function that runs, and the exit value
  blk,     \* the block md_file_block works on: 1 data, 2 central directory
  i,       \* its loop variable
  length,  \* what is left of the block
  sum,     \* bytes of the chunk that md_one_chunk has read
  hashed,  \* chunks fed to the digest so far
  garbled, \* the signing block was not read as far as it is used
  faults   \* history: some call of the program failed

vars == <<pkg, pc, res, blk, i, length, sum, hashed, garbled, faults>>

\* The algorithm of the signatures that the device's key makes.
KEY_ALGORITHM == 1

\* Signing blocks: one or two digests, the first of algorithm alg.
SigningBlocks ==
  {[alg |-> a, signed_data |-> SignedData(a, n),
    words |-> SigningBlockWords(a, n, KEY_ALGORITHM)] : a \in {1, 2}, n \in {1, 2}}

\* signed: the signature is that of the signed data under the device's key;
\* intact: the first digest is that of this file's contents.
Package ==
  [data : DataLengths, dir : DirLengths, format : BOOLEAN,
   block : SigningBlocks, signed : BOOLEAN, intact : BOOLEAN]

Genuine ==
  pkg.format /\ pkg.block.alg = KEY_ALGORITHM /\ pkg.signed /\ pkg.intact

BlockLength(b) == IF b = 1 THEN pkg.data ELSE pkg.dir
\* The signature block lies between the two blocks that are digested.
BlockStart(b)  == IF b = 1 THEN 0 ELSE pkg.data + 1

calc_chunk_count(len) == ((len + CHUNK - 1) % WORD) \div CHUNK

Init ==
  /\ pkg \in Package
  /\ pc = "main" /\ res = -1
  /\ blk = 1 /\ i = 0 /\ length = 0 /\ sum = 0
  /\ hashed = <<>> /\ garbled = FALSE /\ faults = FALSE

Go(next, value) ==
  /\ pc' = next /\ res' = value
  /\ UNCHANGED <<pkg, blk, i, length, sum, hashed>>

Keep == UNCHANGED <<garbled, faults>>
Fault(value)   == Go("end", value) /\ faults' = TRUE /\ UNCHANGED garbled
Reject(value)  == Go("end", value) /\ Keep
Proceed(next, value) == Go(next, value) /\ Keep

\* main and verify: both files are there and the package opens as a zip.
Open ==
  /\ pc = "main"
  /\ Proceed("parse", -1) \/ Fault(-1)

\* parse_app_block: the magic of the signing block is found.
ParseAppBlock ==
  /\ pc = "parse"
  /\ \/ pkg.format /\ Proceed("signing", -1)
     \/ ~ pkg.format /\ Reject(-1)
     \/ Fault(-1)

info == signature_info(pkg.block.words)

SameAlgorithm ==
  info.digests_signatures_algorithm_id = info.signatures_algorithm_id

\* The signing block is read and parsed, and its algorithms compared.  The result
\* of the read is not looked at: when it ends before the signature, algorithms,
\* digest or signature are what malloc left there.
SigningBlock ==
  /\ pc = "signing"
  /\ \/ SameAlgorithm /\ Proceed("stat", -1)
     \/ ~ SameAlgorithm /\ Reject(-1)
     \/ Fault(-1)
     \/ Go("stat", -1) /\ garbled' = TRUE /\ faults' = TRUE

StatCert ==
  /\ pc = "stat"
  /\ Proceed("cert", 0) \/ Fault(-1)

\* res still holds the 0 of stat when the open fails.
OpenCert ==
  /\ pc = "cert"
  /\ \/ Proceed("signature", res)
     \/ CertOpenFails /\ Fault(res)

\* avb_rsa_verify accepts the words that were signed with the signature made for
\* them (external), and no others.
avb_rsa_verify ==
  /\ pkg.signed /\ ~ garbled
  /\ content(pkg.block.words, info.signed_data) = pkg.block.signed_data
  /\ content(pkg.block.words, info.signatures_content) = Signature

\* The key is read, and the signature of signed_data checked with it.  The results
\* of the malloc and the read are not looked at: a key that did not arrive whole
\* verifies nothing (external).
verify_signature ==
  /\ pc = "signature"
  /\ \/ avb_rsa_verify /\ Proceed("digest", 0)
     \/ ~ avb_rsa_verify /\ Reject(1)
     \/ Fault(1)

\* verify_digest up to the first block.
OpenDigest ==
  /\ pc = "digest"
  /\ \/ Fault(-1)
     \/ /\ pc' = "block" /\ res' = -1
        /\ blk' = 1 /\ i' = 0 /\ length' = BlockLength(1) /\ sum' = 0
        /\ UNCHANGED <<pkg, hashed, garbled, faults>>

----------------------------------------------------------------------------
(* md_file_block.                                                          *)

ChunkLength == IF length > CHUNK THEN CHUNK ELSE length
Chunk == <<BlockStart(blk) + i * CHUNK, ChunkLength>>

\* Mutant: the same block is digested again.
NextBlock_repeat ==
  /\ pc' = "block"
  /\ blk' = blk /\ i' = 0 /\ sum' = 0
  /\ length' = BlockLength(blk)

NextBlock ==
  /\ pc' = IF blk = 1 THEN "block" ELSE "eocd"
  /\ blk' = 2 /\ i' = 0 /\ sum' = 0
  /\ length' = BlockLength(2)

EndBlock ==
  /\ pc = "block" /\ i >= calc_chunk_count(BlockLength(blk))
  /\ NextBlock
  /\ UNCHANGED <<pkg, res, hashed, garbled, faults>>

\* Mutant: a read is not limited to the rest of the chunk.
ReadChunk_overread ==
  /\ pc = "block" /\ i < calc_chunk_count(BlockLength(blk)) /\ sum < ChunkLength
  /\ \E n \in 1..BUFSIZE : sum' = sum + n
  /\ UNCHANGED <<pkg, pc, res, blk, i, length, hashed, garbled, faults>>

\* One read of md_one_chunk.  When it fails md_file_block gives up the block,
\* which verify_digest ignores.
ReadChunk ==
  /\ pc = "block" /\ i < calc_chunk_count(BlockLength(blk)) /\ sum < ChunkLength
  /\ \/ /\ \E n \in 1..BUFSIZE : sum + n <= ChunkLength /\ sum' = sum + n
        /\ UNCHANGED <<pkg, pc, res, blk, i, length, hashed, garbled, faults>>
     \/ NextBlock /\ faults' = TRUE /\ UNCHANGED <<pkg, res, hashed, garbled>>

\* Mutant: the length of the rest is not updated.
EndChunk_stale_length ==
  /\ pc = "block" /\ i < calc_chunk_count(BlockLength(blk)) /\ sum >= ChunkLength
  /\ hashed' = Append(hashed, Chunk)
  /\ i' = i + 1 /\ sum' = 0
  /\ UNCHANGED <<pkg, pc, res, blk, length, garbled, faults>>

EndChunk ==
  /\ pc = "block" /\ i < calc_chunk_count(BlockLength(blk)) /\ sum >= ChunkLength
  /\ hashed' = Append(hashed, Chunk)
  /\ i' = i + 1 /\ sum' = 0
  /\ length' = IF length > CHUNK THEN length - CHUNK ELSE length
  /\ UNCHANGED <<pkg, pc, res, blk, garbled, faults>>

\* The end of central directory is read into one buffer, short reads end the
\* check with the number of bytes read in res.
ReadEocd ==
  /\ pc = "eocd"
  /\ \/ Proceed("compare", 1)
     \/ \E n \in {-1, 1} : Fault(n)
     \/ EocdReadEmpty /\ Fault(0)

\* The digest an intact signed file carries: contiguous chunks of each block,
\* all of them full except the last.
ChunkCount(b) == (BlockLength(b) + CHUNK - 1) \div CHUNK
Chunks(b) ==
  [k \in 1..ChunkCount(b) |->
     <<BlockStart(b) + (k - 1) * CHUNK,
       IF k * CHUNK <= BlockLength(b) THEN CHUNK ELSE BlockLength(b) % CHUNK>>]
SignedChunks == Chunks(1) \o Chunks(2)

chunk_count == calc_chunk_count(pkg.data) + calc_chunk_count(pkg.dir) + 1

\* memcmp with the first digest.
DigestMatches ==
  /\ pkg.intact
  /\ content(pkg.block.words, info.one_digest) = Digest(1)
  /\ hashed = SignedChunks /\ chunk_count = Len(SignedChunks) + 1

\* Mutant: the result of the comparison is dropped.
Compare_ignored == pc = "compare" /\ Reject(0)

Compare ==
  /\ pc = "compare"
  /\ Reject(IF DigestMatches THEN 0 ELSE 1)

Next ==
  \/ Open \/ ParseAppBlock \/ SigningBlock \/ StatCert \/ OpenCert
  \/ verify_signature \/ OpenDigest \/ EndBlock \/ ReadChunk \/ EndChunk
  \/ ReadEocd \/ Compare

Spec == Init /\ [][Next]_vars

FairSpec == Spec /\ WF_vars(Next)

----------------------------------------------------------------------------
\* An offset and a length.
Span == Nat \X Nat

TypeOK ==
  /\ pkg \in Package
  /\ pc \in {"main", "parse", "signing", "stat", "cert", "signature", "digest",
             "block", "eocd", "compare", "end"}
  /\ res \in {-1, 0, 1} /\ blk \in {1, 2}
  /\ garbled \in BOOLEAN /\ faults \in BOOLEAN
  /\ i \in Nat /\ length \in Nat /\ sum \in 0..CHUNK
  /\ hashed \in Seq(Span)

\* "app Signature verification" (zip_verify.c): the program exits with 0 only
\* for a package whose signature and digest have both been checked and match.
AcceptsOnlyGenuine == pc = "end" /\ res = 0 => Genuine

\* When nothing fails a genuine package is accepted: the chunks that the two
\* loops cut and read are those that were signed.
AcceptsGenuine == pc = "end" /\ Genuine /\ ~ faults => res = 0

\* The program ends, whatever its reads return.
Terminates == <>(pc = "end")
=============================================================================
