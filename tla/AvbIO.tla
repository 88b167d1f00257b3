-------------------------------- MODULE AvbIO -------------------------------
(***************************************************************************)
(* The partition operations that verify/avb_verify.c hands to libavb:      *)
(* read_from_partition, write_to_partition, get_preloaded_partition, the   *)
(* key comparison of validate_public_key_for_partition, and avb_hash_desc  *)
(* with option -I of avb_main.c.  One call is followed from open to its    *)
(* result; every system call may fail, transfer less than asked for or be  *)
(* interrupted.  A partition is a sequence of bytes of fixed length.       *)
(***************************************************************************)
EXTENDS Integers, Sequences

CONSTANTS
  Byte,            \* the values of a byte, 0 among them
  MaxSize,         \* bound on the bytes of a partition, a buffer or a key
  MaxInterrupts,   \* bound on EINTR per call
  DigestSize       \* sizeof(desc->digest)

ASSUME ByteAssumption == 0 \in Byte
ASSUME SizesAssumption ==
  MaxSize \in Nat /\ MaxInterrupts \in Nat /\ DigestSize \in Nat

VARIABLES
  call,         \* the operation and its arguments
  file,         \* what the partition or the key file holds
  step,         \* the system call that comes next
  pos,          \* the file offset
  num_bytes,    \* bytes still to transfer
  nread,        \* bytes transferred
  buffer,       \* the destination of a read, 0 where nothing was read (in the
                \* malloc'ed buffer of avb_hash_desc: anything)
  result,       \* what the operation returned
  trusted,      \* *out_is_trusted
  desc,         \* what was copied to main's hash_desc, if anything
  interrupts,   \* interrupted calls so far
  failed,       \* history: a read or write failed for another reason
  was           \* history: what the partition held before the call

vars == <<call, file, step, pos, num_bytes, nread, buffer, result, trusted,
          desc, interrupts, failed, was>>

\* A value that nothing was assigned to.
UNSET == "unset"
Bytes(k) == [1..k -> Byte]
Zero(k) == [i \in 1..k |-> 0]

\* The first descriptor of a vbmeta image, as libavb's checks see it
\* (external): there may be none, and it may be invalid or not of a hash.  The
\* descriptors end at byte "end" of the image, before the public key and padding.
Descriptor == [tag : {"hash", "other", "invalid", "bad_hash", "none"},
               digest_len : 0..DigestSize + 1]

\* The calls: libavb's reads of a partition at any offset and its loads of a
\* whole image, a write, the validation of a key, and avb_verify -I on an image
\* with a footer.
Call ==
  [op : {"read"}, offset : -MaxSize..MaxSize, num : 0..MaxSize]
    \union [op : {"image"}, offset : {0}, num : 0..MaxSize]
    \union [op : {"write"}, offset : -MaxSize..MaxSize,
            data : UNION {Bytes(k) : k \in 0..MaxSize}]
    \union [op : {"key"}, offset : {0},
            key : UNION {Bytes(k) : k \in 1..MaxSize}]
    \union [op : {"info"}, offset : 0..MaxSize, num : 1..MaxSize,
            first : Descriptor, end : 1..MaxSize]

\* The bytes a call asks for.
size(c) == CASE c.op = "write" -> Len(c.data)
             [] c.op = "key"   -> Len(c.key)
             [] OTHER          -> c.num

Init ==
  /\ call \in Call
  /\ file \in UNION {Bytes(k) : k \in 0..MaxSize} /\ was = file
  /\ step = IF call.op = "image" THEN "preload"
            ELSE IF call.op = "info" THEN "footer"
            ELSE IF call.op = "key" THEN "calloc" ELSE "open"
  /\ pos = 0 /\ num_bytes = size(call) /\ nread = 0
  /\ buffer = Zero(IF call.op = "write" THEN 0 ELSE size(call))
  /\ result = UNSET /\ trusted = UNSET /\ desc = {}
  /\ interrupts = 0 /\ failed = FALSE

Idle == UNCHANGED <<call, file, was, trusted, desc>>
NoTransfer == UNCHANGED <<num_bytes, nread, buffer>> /\ Idle

Give(r) == step' = "returned" /\ result' = r

----------------------------------------------------------------------------
(* The calls of one transfer.                                              *)

\* get_preloaded_partition: with BIOC_XIPBASE libavb uses the bytes in place, and
\* otherwise it calls read_from_partition (external).  The code returns num_bytes
\* unchecked: that libavb asks for no more than the partition has is assumed.
Preload ==
  /\ step = "preload"
  /\ \/ Give("NO_SUCH_PARTITION") /\ NoTransfer
     \/ /\ num_bytes <= Len(file) /\ Give("OK")
        /\ buffer' = SubSeq(file, 1, num_bytes)
        /\ nread' = num_bytes /\ num_bytes' = 0 /\ Idle
     \/ step' = "open" /\ UNCHANGED result /\ NoTransfer
  /\ UNCHANGED <<pos, interrupts, failed>>

\* avb_footer and the allocation of the vbmeta buffer in avb_hash_desc.
Footer ==
  /\ step = "footer"
  /\ \/ Give("FOOTER") \/ Give("OOM")
     \/ step' = "open" /\ UNCHANGED result
  /\ NoTransfer /\ UNCHANGED <<pos, interrupts, failed>>

\* The buffer of validate_public_key_for_partition.
Calloc ==
  /\ step = "calloc"
  /\ \/ Give("OOM")
     \/ step' = "open" /\ UNCHANGED result
  /\ NoTransfer /\ UNCHANGED <<pos, interrupts, failed>>

Open ==
  /\ step = "open"
  /\ \/ Give("NO_SUCH_PARTITION")
     \/ step' = "seek" /\ UNCHANGED result
  /\ NoTransfer /\ UNCHANGED <<pos, interrupts, failed>>

\* The position that lseek(fd, offset, offset >= 0 ? SEEK_SET : SEEK_END)
\* gives.
lseek(offset) == IF offset >= 0 THEN offset ELSE Len(file) + offset

\* lseek may fail for a reason of its own.
Seek ==
  /\ step = "seek"
  /\ \/ Give("RANGE_OUTSIDE_PARTITION") /\ UNCHANGED pos
     \/ /\ lseek(call.offset) >= 0
        /\ pos' = lseek(call.offset) /\ step' = "io" /\ UNCHANGED result
  /\ NoTransfer /\ UNCHANGED <<interrupts, failed>>

Transferring == step = "io" /\ num_bytes > 0
Advance(k) == num_bytes' = num_bytes - k /\ nread' = nread + k /\ pos' = pos + k

\* Mutant: the buffer pointer is not moved behind what was read.
Read_overwrites ==
  /\ Transferring /\ call.op # "write"
  /\ \E k \in 1..num_bytes :
       /\ pos + k <= Len(file)
       /\ buffer' = [i \in DOMAIN buffer |->
                       IF i <= k THEN file[pos + i] ELSE buffer[i]]
       /\ Advance(k)
  /\ UNCHANGED <<step, result, interrupts, failed>> /\ Idle

\* read returns k > 0 bytes.
Read ==
  /\ Transferring /\ call.op # "write"
  /\ \E k \in 1..num_bytes :
       /\ pos + k <= Len(file)
       /\ buffer' = [i \in DOMAIN buffer |->
                       IF i \in nread + 1 .. nread + k THEN file[pos + i - nread]
                       ELSE buffer[i]]
       /\ Advance(k)
  /\ UNCHANGED <<step, result, interrupts, failed>> /\ Idle

\* write takes k > 0 bytes.
Write ==
  /\ Transferring /\ call.op = "write"
  /\ \E k \in 1..num_bytes :
       /\ pos + k <= Len(file)
       /\ file' = [i \in DOMAIN file |->
                     IF i \in pos + 1 .. pos + k THEN call.data[nread + i - pos]
                     ELSE file[i]]
       /\ Advance(k)
  /\ UNCHANGED <<call, step, buffer, result, trusted, desc, interrupts, failed,
                 was>>

\* EINTR: the loop calls again.
Interrupted ==
  /\ Transferring
  /\ interrupts < MaxInterrupts /\ interrupts' = interrupts + 1
  /\ UNCHANGED <<step, pos, result, failed>> /\ NoTransfer

\* Mutant: a call that transfers nothing is repeated.
AtEnd_again ==
  /\ Transferring /\ pos >= Len(file)
  /\ UNCHANGED vars

\* The call returns 0 at the end of the partition, and the loop ends.
AtEnd ==
  /\ Transferring /\ pos >= Len(file)
  /\ step' = "close"
  /\ UNCHANGED <<pos, result, interrupts, failed>> /\ NoTransfer

\* The call fails, and the loop ends.
Fault ==
  /\ Transferring
  /\ step' = "close" /\ failed' = TRUE
  /\ UNCHANGED <<pos, result, interrupts>> /\ NoTransfer

----------------------------------------------------------------------------
(* What the callers make of the bytes.                                     *)

\* The result of the transfer: a read is an error only when there was nothing
\* to read, a write unless everything was written.
io_result ==
  IF num_bytes > 0 /\ (call.op = "write" \/ nread = 0) THEN "IO" ELSE "OK"

\* Mutant: only the bytes read are compared.
is_trusted_prefix == \A i \in 1..nread : buffer[i] = call.key[i]

\* memcmp(key_data, public_key_data, public_key_length) == 0.
is_trusted == \A i \in 1..Len(call.key) : buffer[i] = call.key[i]

\* Mutant: a descriptor of another kind leaves ret as the read set it.
hash_desc_ret_stale(d) ==
  IF d.tag \in {"invalid", "bad_hash"} THEN "INVALID_METADATA"
  ELSE IF d.tag = "hash" /\ d.digest_len > DigestSize THEN "INVALID_ARGUMENT"
  ELSE "OK"

\* What avb_hash_desc returns once the vbmeta image is read.
hash_desc_ret(d) ==
  IF d.tag \in {"invalid", "bad_hash", "other"} THEN "INVALID_METADATA"
  ELSE IF d.digest_len > DigestSize THEN "INVALID_ARGUMENT"
  ELSE "OK"

\* Mutant: the size of the image is passed instead of the number of bytes read.
first_descriptor_size ==
  IF call.num < call.end THEN [call.first EXCEPT !.tag = "none"] ELSE call.first

\* avb_descriptor_get_all(vbmeta_buf, vbmeta_num_read, ...) finds the descriptors
\* when their end lies within the bytes read, be they the whole image or not.
first_descriptor ==
  IF nread < call.end THEN [call.first EXCEPT !.tag = "none"] ELSE call.first

Transferred == step = "close" \/ (step = "io" /\ num_bytes = 0)

Close ==
  /\ Transferred /\ call.op \in {"read", "image", "write"}
  /\ Give(io_result)
  /\ UNCHANGED <<pos, interrupts, failed>> /\ NoTransfer

\* The end of validate_public_key_for_partition.
Compare ==
  /\ Transferred /\ call.op = "key"
  /\ Give(io_result)
  /\ trusted' = IF io_result # "OK" THEN UNSET
                ELSE IF is_trusted THEN "yes" ELSE "no"
  /\ UNCHANGED <<call, file, pos, num_bytes, nread, buffer, desc, interrupts,
                 failed, was>>

\* The rest of avb_hash_desc.  Without a descriptor, descriptors[0] is a null
\* pointer: the program stops, or finds no valid descriptor at address 0.
Describe ==
  /\ Transferred /\ call.op = "info"
  /\ LET d == first_descriptor IN
     IF io_result # "OK" THEN Give(io_result) /\ UNCHANGED desc
     ELSE \/ /\ d.tag = "none" /\ UNCHANGED desc
             /\ Give("crash") \/ Give("INVALID_METADATA")
          \/ /\ d.tag # "none" /\ Give(hash_desc_ret(d))
             /\ desc' = IF d.tag = "hash" /\ d.digest_len <= DigestSize
                          THEN {[digest_len |-> d.digest_len,
                                 bytes |-> SubSeq(buffer, 1, call.end)]}
                          ELSE desc
  /\ UNCHANGED <<call, file, pos, num_bytes, nread, buffer, trusted,
                 interrupts, failed, was>>

\* The steps that do not need an error.
Run ==
  \/ Preload \/ Footer \/ Calloc \/ Open \/ Seek \/ Read \/ Write
  \/ Interrupted \/ AtEnd \/ Close \/ Compare \/ Describe

Next == Run \/ Fault

Spec == Init /\ [][Next]_vars

\* The program runs on, and nothing makes a read or a write fail.
FairSpec == Spec /\ WF_vars(Run)
----------------------------------------------------------------------------
(* Properties.                                                             *)

\* Where the bytes a call asks for begin.
Start == IF call.offset < 0 THEN Len(was) + call.offset ELSE call.offset

\* What was read is in the buffer, and nothing else.
ReadExact ==
  \A i \in DOMAIN buffer : buffer[i] = IF i <= nread THEN was[Start + i] ELSE 0

\* What was written is in the partition, and nothing else.
WriteExact ==
  \A i \in DOMAIN file :
    file[i] = IF call.op = "write" /\ i - Start \in 1..nread
                THEN call.data[i - Start] ELSE was[i]

\* However the transfer is cut into pieces, interrupted or broken off: a read
\* fills the buffer with the bytes from its offset on and touches nothing else, a
\* write leaves a prefix of its data at its offset and everything else as it was,
\* a read that reports OK with fewer bytes met an error or the end of the
\* partition, and a write that reports OK has written all.
TransferExact ==
  /\ ReadExact /\ WriteExact
  /\ result = "OK" /\ num_bytes > 0
       => /\ call.op # "write" /\ nread > 0
          /\ failed \/ Start + nread = Len(was)

\* A key is trusted only if every byte of it that is not zero is in the key file
\* at its place, although a short read leaves the rest of the zeroed buffer to the
\* comparison; and a key that begins the file is refused only after an error.
TrustMeansEqual ==
  /\ trusted = "yes" => \A i \in DOMAIN call.key :
       call.key[i] # 0 => i \in DOMAIN file /\ file[i] = call.key[i]
  /\ trusted = "no" /\ ~ failed => \E i \in DOMAIN call.key :
       i \notin DOMAIN file \/ file[i] # call.key[i]

\* avb_verify -I prints a descriptor (avb_hash_desc returned 0) only if one with a
\* digest that fits was filled in, and from bytes that the partition holds: however
\* short the read was, nothing of the unread rest of the buffer is printed.  The
\* image need not have been read to its end: a read that fails behind the descriptors
\* prints with OK.
PrintedWasRead ==
  call.op = "info" /\ result = "OK"
    => \E d \in desc :
         /\ d.digest_len <= DigestSize
         /\ \A i \in DOMAIN d.bytes :
              Start + i \in DOMAIN was /\ d.bytes[i] = was[Start + i]

\* Every call of an operation returns.
Ends == <>(step = "returned")
=============================================================================
