------------------------------ MODULE ZipBlocks -----------------------------
(***************************************************************************)
(* The signing block of a package (APK Signature Scheme v2) as zip_verify  *)
(* parses it.  Memory is a sequence of words, one for every four bytes of  *)
(* the file; an address is a position in it and a length counts words, so  *)
(* that the code's "offset += 4" is one position.  Below the parser is the *)
(* encoder, which belongs to signapk and is external.                      *)
(***************************************************************************)
EXTENDS Naturals, Sequences

\* len-data: the block at address p, and the address behind it.
parse_block(mem, p) ==
  [length |-> mem[p], data |-> p + 1, next |-> p + 1 + mem[p]]

\* len-id-data, with a length of eight bytes that counts the id.
parse_kv_block(mem, p) ==
  [key |-> mem[p + 2], value |-> p + 3, next |-> p + 2 + mem[p]]

\* The words of a block.
content(mem, block) == SubSeq(mem, block.data, block.data + block.length - 1)

\* Mutant: the digest is looked for where its algorithm is.
get_signature_info_at_algorithm(mem, p) ==
  LET signed_data == parse_block(mem, parse_block(mem, p).data)
      signatures  == parse_block(mem, signed_data.next)
      digests     == parse_block(mem, signed_data.data)
      signature   == parse_block(mem, signatures.data)
  IN  [signed_data                     |-> signed_data,
       digests_signatures_algorithm_id |-> mem[digests.data + 1],
       one_digest                      |-> parse_block(mem, digests.data + 1),
       signatures_algorithm_id         |-> mem[signature.data],
       signatures_content              |-> parse_block(mem, signature.data + 1)]

\* The parts of the first signer that verify_app uses: the first digest with its
\* algorithm, the first signature with its.  The public key and the
\* certificate are parsed and never used.
get_signature_info(mem, p) ==
  LET one_sign_block == parse_block(mem, p)
      signed_data    == parse_block(mem, one_sign_block.data)
      signatures     == parse_block(mem, signed_data.next)
      digests        == parse_block(mem, signed_data.data)
      signature      == parse_block(mem, signatures.data)
  IN  [signed_data                     |-> signed_data,
       digests_signatures_algorithm_id |-> mem[digests.data + 1],
       one_digest                      |-> parse_block(mem, digests.data + 2),
       signatures_algorithm_id         |-> mem[signature.data],
       signatures_content              |-> parse_block(mem, signature.data + 1)]

\* How verify_app gets there from the start of the signing block.
signature_info(mem) ==
  get_signature_info(mem, parse_block(mem, parse_kv_block(mem, 1).value).data)

----------------------------------------------------------------------------
(* What signapk writes.                                                    *)

\* Words that occur in no length: ids, a digest's, a signature's and others.
V2_ID == 100
Digest(k) == <<200 + k, 210 + k>>
Signature == <<300, 301, 302>>
Certificate == <<400>>
PublicKey == <<500, 501>>

Prefixed(words) == <<Len(words)>> \o words
Entry(algorithm, words) == Prefixed(<<algorithm>> \o Prefixed(words))

\* One digest of algorithm alg, or a second one behind it.
Digests(alg, n) ==
  IF n = 1 THEN Entry(alg, Digest(1))
           ELSE Entry(alg, Digest(1)) \o Entry(alg + 1, Digest(2))

SignedData(alg, n) ==
  Prefixed(Digests(alg, n)) \o Prefixed(Prefixed(Certificate)) \o Prefixed(<<>>)

Signer(alg, n, sig_alg) ==
  Prefixed(SignedData(alg, n)) \o Prefixed(Entry(sig_alg, Signature))
    \o Prefixed(PublicKey)

\* The pair of the v2 scheme, which comes first in the signing block.
SigningBlockWords(alg, n, sig_alg) ==
  LET value == Prefixed(Prefixed(Signer(alg, n, sig_alg)))
  IN  <<Len(value) + 1, 0, V2_ID>> \o value
=============================================================================
