----------------------------- MODULE AvbIOProofs ----------------------------
(***************************************************************************)
(* The partition operations of avb_verify.c transfer exactly the bytes     *)
(* asked for, for every size of partitions, buffers and keys and however   *)
(* the system calls cut a transfer into pieces.                            *)
(***************************************************************************)
EXTENDS AvbIO, TLAPS

----------------------------------------------------------------------------
(* The inductive invariant.                                                *)

\* The types of the variables,
TypeOK ==
  /\ call \in Call
  /\ was \in UNION {Bytes(k) : k \in 0..MaxSize} /\ file \in Bytes(Len(was))
  /\ step \in {"preload", "footer", "calloc", "open", "seek", "io", "close",
               "returned"}
  /\ pos \in Nat /\ nread \in 0..size(call) /\ num_bytes = size(call) - nread
  /\ buffer \in Bytes(IF call.op = "write" THEN 0 ELSE size(call))
  /\ failed \in BOOLEAN

\* the place of the transfer in the partition, and why it has ended,
InPlace ==
  /\ nread > 0 => Start >= 0 /\ Start + nread <= Len(was)
  /\ step \in {"io", "close"} => Start >= 0 /\ pos = Start + nread
  /\ step = "close" => failed \/ pos >= Len(was)
  /\ step \notin {"io", "close", "returned"} => nread = 0
  /\ step = "preload" => call.op = "image"

\* and what the results say about it.
ResultInv ==
  /\ step # "returned" => result = UNSET /\ trusted = UNSET
  /\ result = "OK" /\ num_bytes > 0
       => /\ call.op # "write" /\ nread > 0
          /\ failed \/ Start + nread >= Len(was)
  /\ trusted # UNSET => /\ call.op = "key" /\ result = "OK"
                        /\ trusted = IF is_trusted THEN "yes" ELSE "no"

\* At every step of the loops the counters agree with the bytes that have
\* arrived, and a result is given only with what it says done.
IOInv ==
  /\ TypeOK /\ InPlace /\ ReadExact /\ WriteExact /\ ResultInv
  /\ PrintedWasRead

----------------------------------------------------------------------------
(* Byte strings and calls.                                                 *)

\* A string of k bytes has the length k.
LEMMA BytesFacts ==
  ASSUME NEW k \in Nat, NEW f \in Bytes(k)
  PROVE  /\ f \in Seq(Byte) /\ Len(f) = k /\ DOMAIN f = 1..k
         /\ \A i \in 1..k : f[i] \in Byte
BY DEF Bytes

\* What the calls of libavb carry.
LEMMA CallFacts ==
  ASSUME NEW c \in Call
  PROVE  /\ c.op \in {"read", "image", "write", "key", "info"}
         /\ c.offset \in Int /\ size(c) \in Nat
         /\ c.op = "write" => c.data \in Bytes(size(c))
         /\ c.op = "key" => c.key \in Bytes(size(c)) /\ c.offset = 0
         /\ c.op = "image" => c.offset = 0
         /\ c.op = "info" => c.first \in Descriptor /\ c.end \in Nat
<1>1. CASE c \in [op : {"read"}, offset : -MaxSize..MaxSize, num : 0..MaxSize]
  BY <1>1, SizesAssumption DEF size
<1>2. CASE c \in [op : {"image"}, offset : {0}, num : 0..MaxSize]
  BY <1>2, SizesAssumption DEF size
<1>3. CASE c \in [op : {"write"}, offset : -MaxSize..MaxSize,
                  data : UNION {Bytes(k) : k \in 0..MaxSize}]
  <2>1. PICK k \in 0..MaxSize : c.data \in Bytes(k)
    BY <1>3
  <2>2. Len(c.data) = k
    BY <2>1, BytesFacts, SizesAssumption
  <2> QED
    BY <1>3, <2>1, <2>2, SizesAssumption DEF size
<1>4. CASE c \in [op : {"key"}, offset : {0},
                  key : UNION {Bytes(k) : k \in 1..MaxSize}]
  <2>1. PICK k \in 1..MaxSize : c.key \in Bytes(k)
    BY <1>4
  <2>2. Len(c.key) = k
    BY <2>1, BytesFacts, SizesAssumption
  <2> QED
    BY <1>4, <2>1, <2>2, SizesAssumption DEF size
<1>5. CASE c \in [op : {"info"}, offset : 0..MaxSize, num : 1..MaxSize,
                  first : Descriptor, end : 1..MaxSize]
  BY <1>5, SizesAssumption DEF size
<1> QED
  BY <1>1, <1>2, <1>3, <1>4, <1>5 DEF Call

\* The types in a form that the steps below use.
LEMMA TypeFacts ==
  ASSUME TypeOK
  PROVE  /\ Len(was) \in Nat /\ was \in Bytes(Len(was)) /\ Len(file) = Len(was)
         /\ DOMAIN file = 1..Len(was) /\ Start \in Int /\ size(call) \in Nat
         /\ nread \in Nat /\ num_bytes \in Nat
         /\ DOMAIN buffer = 1..(IF call.op = "write" THEN 0 ELSE size(call))
<1>1. PICK k \in 0..MaxSize : was \in Bytes(k)
  BY DEF TypeOK
<1>2. Len(was) = k /\ k \in Nat
  BY <1>1, BytesFacts, SizesAssumption
<1>3. Len(file) = Len(was) /\ DOMAIN file = 1..Len(was)
  BY <1>2, BytesFacts DEF TypeOK
<1>4. call.offset \in Int /\ size(call) \in Nat
  BY CallFacts DEF TypeOK
<1>5. DOMAIN buffer = 1..(IF call.op = "write" THEN 0 ELSE size(call))
  BY <1>4 DEF TypeOK, Bytes
<1> QED
  BY <1>1, <1>2, <1>3, <1>4, <1>5 DEF TypeOK, Start
----------------------------------------------------------------------------
(* The invariant.                                                          *)

\* Before the first system call nothing is transferred.
LEMMA InitIO == Init => IOInv
<1> SUFFICES ASSUME Init PROVE IOInv
  OBVIOUS
<1>1. /\ call \in Call /\ size(call) \in Nat
      /\ call.op \in {"read", "image", "write", "key", "info"}
  BY CallFacts DEF Init
<1>2. PICK k \in 0..MaxSize : file \in Bytes(k)
  BY DEF Init
<1>3. Len(file) = k /\ was = file /\ DOMAIN file = 1..k
  BY <1>2, BytesFacts, SizesAssumption DEF Init
<1>4. TypeOK
  <2>1. \A n \in Nat : Zero(n) \in Bytes(n)
    BY ByteAssumption DEF Zero, Bytes
  <2>2. buffer \in Bytes(IF call.op = "write" THEN 0 ELSE size(call))
    BY <1>1, <2>1 DEF Init
  <2>3. step \in {"preload", "footer", "calloc", "open"} /\ pos = 0 /\ nread = 0
        /\ num_bytes = size(call) /\ failed = FALSE
    BY DEF Init
  <2>4. was \in UNION {Bytes(n) : n \in 0..MaxSize} /\ file \in Bytes(Len(was))
    BY <1>2, <1>3
  <2>5. nread \in 0..size(call) /\ num_bytes = size(call) - nread
    BY <1>1, <2>3
  <2> QED
    BY <1>1, <2>2, <2>3, <2>4, <2>5 DEF TypeOK
<1>5. InPlace /\ ResultInv /\ PrintedWasRead
  BY <1>1 DEF Init, InPlace, ResultInv, PrintedWasRead, UNSET
<1>6. ReadExact /\ WriteExact
  <2>1. nread = 0 /\ DOMAIN buffer \subseteq Nat \ {0}
        /\ \A i \in DOMAIN buffer : buffer[i] = 0
    BY <1>1 DEF Init, Zero
  <2> QED
    BY <1>3, <2>1 DEF ReadExact, WriteExact
<1> QED
  BY <1>4, <1>5, <1>6 DEF IOInv
\* The steps before the transfer.
LEMMA OpenIO ==
  IOInv /\ (Preload \/ Footer \/ Calloc \/ Open \/ Seek) => IOInv'
<1> SUFFICES ASSUME IOInv, Preload \/ Footer \/ Calloc \/ Open \/ Seek PROVE IOInv'
  OBVIOUS
<1>1. /\ call' = call /\ file' = file /\ was' = was /\ trusted' = trusted
      /\ desc' = desc /\ failed' = failed /\ nread = 0 /\ trusted = UNSET
      /\ Start' = Start /\ result = UNSET /\ step # "returned"
  BY DEF IOInv, InPlace, ResultInv, Preload, Footer, Calloc, Open, Seek,
         NoTransfer, Idle, Start
<1>2. CASE /\ Preload /\ num_bytes <= Len(file) /\ Give("OK")
           /\ buffer' = SubSeq(file, 1, num_bytes)
           /\ nread' = num_bytes /\ num_bytes' = 0
  <2>1. /\ call.op = "image" /\ call.offset = 0 /\ Start = 0
        /\ num_bytes = size(call) /\ size(call) \in Nat /\ pos' = pos
        /\ step' = "returned" /\ result' = "OK" /\ file = was
        /\ Len(was) \in Nat /\ was \in Bytes(Len(was)) /\ size(call) <= Len(was)
    <3>1. call.op = "image" /\ call.offset = 0 /\ num_bytes = size(call)
      BY <1>1, <1>2, CallFacts, TypeFacts DEF IOInv, TypeOK, InPlace, Preload
    <3>2. file = was
      BY <1>1, <3>1, TypeFacts DEF IOInv, TypeOK, WriteExact, Bytes
    <3> QED
      BY <1>2, <3>1, <3>2, TypeFacts DEF IOInv, Preload, Give, Start
  <2>2. /\ DOMAIN buffer' = 1..size(call)
        /\ \A i \in 1..size(call) : buffer'[i] = was[i] /\ was[i] \in Byte
    <3>1. was \in Seq(Byte) /\ DOMAIN was = 1..Len(was)
      BY <2>1, BytesFacts
    <3> QED
      BY <1>2, <2>1, <3>1
  <2>3. buffer' \in Bytes(size(call))
    <3>1. buffer' = [i \in 1..size(call) |-> was[i]]
      BY <1>2, <2>1, <2>2
    <3> QED
      BY <2>2, <3>1 DEF Bytes
  <2>4. TypeOK'
    BY <1>1, <1>2, <2>1, <2>3 DEF IOInv, TypeOK
  <2>5. InPlace' /\ ResultInv' /\ PrintedWasRead'
    BY <1>1, <1>2, <2>1 DEF IOInv, InPlace, ResultInv, PrintedWasRead, UNSET
  <2>6. ReadExact' /\ WriteExact'
    BY <1>1, <1>2, <2>1, <2>2 DEF IOInv, ReadExact, WriteExact
  <2> QED
    BY <2>4, <2>5, <2>6 DEF IOInv
<1>3. CASE NoTransfer /\ result' # "OK"
  <2>1. /\ step' \in {"open", "seek", "io", "returned"} /\ pos' \in Nat
        /\ step' = "io" => pos' = Start /\ Start >= 0
        /\ step' # "returned" => result' = result
    <3>1. CASE Seek
      <4>1. call.offset \in Int
        BY CallFacts DEF IOInv, TypeOK
      <4> QED
        BY <1>1, <3>1, <4>1, TypeFacts DEF IOInv, TypeOK, Seek, Give, lseek, Start
    <3>2. CASE Preload \/ Footer \/ Calloc \/ Open
      BY <1>3, <3>2 DEF IOInv, TypeOK, Preload, Footer, Calloc, Open, Give
    <3> QED
      BY <3>1, <3>2
  <2>2. num_bytes' = num_bytes /\ nread' = nread /\ buffer' = buffer
    BY <1>3 DEF NoTransfer
  <2>3. TypeOK'
    BY <1>1, <2>1, <2>2 DEF IOInv, TypeOK
  <2>4. InPlace'
    BY <1>1, <2>1, <2>2 DEF IOInv, TypeOK, InPlace
  <2>5. ResultInv' /\ PrintedWasRead'
    BY <1>1, <1>3, <2>1 DEF ResultInv, PrintedWasRead, UNSET
  <2>6. ReadExact' /\ WriteExact'
    BY <1>1, <2>2 DEF IOInv, ReadExact, WriteExact
  <2> QED
    BY <2>3, <2>4, <2>5, <2>6 DEF IOInv
<1> QED
  BY <1>1, <1>2, <1>3 DEF Preload, Footer, Calloc, Open, Seek, Give, UNSET
\* A read that returns bytes puts them behind those that are there.
LEMMA ReadIO == IOInv /\ Read => IOInv'
<1> SUFFICES ASSUME IOInv, Read PROVE IOInv'
  OBVIOUS
<1>1. PICK k \in 1..num_bytes :
        /\ pos + k <= Len(file)
        /\ buffer' = [i \in DOMAIN buffer |->
                        IF i \in nread + 1 .. nread + k THEN file[pos + i - nread]
                        ELSE buffer[i]]
        /\ num_bytes' = num_bytes - k /\ nread' = nread + k /\ pos' = pos + k
  BY DEF Read, Advance
<1>2. /\ call' = call /\ file' = file /\ was' = was /\ trusted' = trusted
      /\ desc' = desc /\ failed' = failed /\ step' = step /\ result' = result
      /\ Start' = Start /\ step = "io" /\ call.op # "write"
  BY DEF Read, Transferring, Idle, Start
<1>3. /\ Start >= 0 /\ pos = Start + nread /\ Start \in Int
      /\ nread \in Nat /\ num_bytes \in Nat /\ size(call) \in Nat
      /\ num_bytes = size(call) - nread /\ nread \in 0..size(call)
      /\ Len(was) \in Nat /\ Len(file) = Len(was)
      /\ DOMAIN file = 1..Len(was) /\ DOMAIN buffer = 1..size(call)
      /\ result = UNSET /\ trusted = UNSET /\ pos \in Nat
  BY <1>2, TypeFacts DEF IOInv, TypeOK, InPlace, ResultInv
<1>4. \A i \in 1..Len(was) : file[i] = was[i] /\ file[i] \in Byte
  BY <1>2, <1>3 DEF IOInv, TypeOK, WriteExact, Bytes
<1>5. \A i \in 1..size(call) : i \in nread + 1 .. nread + k
        => pos + i - nread = Start + i /\ pos + i - nread \in 1..Len(was)
  <2>1. k \in Nat /\ pos + k <= Len(was)
    BY <1>1, <1>3
  <2> QED
    BY <1>3, <2>1
<1>6. ReadExact'
  <2> SUFFICES ASSUME NEW i \in 1..size(call)
               PROVE  buffer'[i] = IF i <= nread + k THEN was[Start + i] ELSE 0
    BY <1>1, <1>2, <1>3 DEF ReadExact
  <2>1. buffer[i] = IF i <= nread THEN was[Start + i] ELSE 0
    BY <1>3 DEF IOInv, ReadExact
  <2>2. CASE i \in nread + 1 .. nread + k
    BY <1>1, <1>3, <1>4, <1>5, <2>2
  <2>3. CASE i \notin nread + 1 .. nread + k
    BY <1>1, <1>3, <2>1, <2>3
  <2> QED
    BY <2>2, <2>3
<1>7. WriteExact'
  BY <1>2 DEF IOInv, WriteExact
<1>8. TypeOK'
  <2>1. buffer' \in Bytes(size(call))
    <3>1. \A i \in 1..size(call) : buffer[i] \in Byte
      BY <1>2 DEF IOInv, TypeOK, Bytes
    <3> QED
      BY <1>1, <1>3, <1>4, <1>5, <3>1 DEF Bytes
  <2>2. nread' \in 0..size(call) /\ num_bytes' = size(call) - nread' /\ pos' \in Nat
    BY <1>1, <1>3
  <2> QED
    BY <1>2, <2>1, <2>2 DEF IOInv, TypeOK
<1>9. InPlace'
  BY <1>1, <1>2, <1>3 DEF IOInv, InPlace
<1>10. ResultInv' /\ PrintedWasRead'
  BY <1>2, <1>3 DEF ResultInv, PrintedWasRead, UNSET
<1> QED
  BY <1>6, <1>7, <1>8, <1>9, <1>10 DEF IOInv

\* A write that takes bytes puts them where the next ones belong.
LEMMA WriteIO == IOInv /\ Write => IOInv'
<1> SUFFICES ASSUME IOInv, Write PROVE IOInv'
  OBVIOUS
<1>1. PICK k \in 1..num_bytes :
        /\ pos + k <= Len(file)
        /\ file' = [i \in DOMAIN file |->
                      IF i \in pos + 1 .. pos + k THEN call.data[nread + i - pos]
                      ELSE file[i]]
        /\ num_bytes' = num_bytes - k /\ nread' = nread + k /\ pos' = pos + k
  BY DEF Write, Advance
<1>2. /\ call' = call /\ buffer' = buffer /\ was' = was /\ trusted' = trusted
      /\ desc' = desc /\ failed' = failed /\ step' = step /\ result' = result
      /\ Start' = Start /\ step = "io" /\ call.op = "write"
  BY DEF Write, Transferring, Start
<1>3. /\ Start >= 0 /\ pos = Start + nread /\ Start \in Int
      /\ nread \in Nat /\ num_bytes \in Nat /\ size(call) \in Nat
      /\ num_bytes = size(call) - nread /\ nread \in 0..size(call)
      /\ Len(was) \in Nat /\ Len(file) = Len(was)
      /\ DOMAIN file = 1..Len(was) /\ DOMAIN buffer = 1..0
      /\ result = UNSET /\ trusted = UNSET /\ pos \in Nat
  BY <1>2, TypeFacts DEF IOInv, TypeOK, InPlace, ResultInv
<1>4. \A i \in 1..Len(was) : i \in pos + 1 .. pos + k
        => nread + i - pos = i - Start /\ nread + i - pos \in 1..size(call)
  BY <1>1, <1>3
<1>5. \A j \in 1..size(call) : call.data[j] \in Byte
  BY <1>2, <1>3, CallFacts, BytesFacts DEF IOInv, TypeOK
<1>6. WriteExact'
  <2> SUFFICES ASSUME NEW i \in 1..Len(was)
               PROVE  file'[i] = IF i - Start \in 1..(nread + k)
                                   THEN call.data[i - Start] ELSE was[i]
    BY <1>1, <1>2, <1>3 DEF WriteExact
  <2>1. file[i] = IF i - Start \in 1..nread THEN call.data[i - Start] ELSE was[i]
    BY <1>2, <1>3 DEF IOInv, WriteExact
  <2>2. CASE i \in pos + 1 .. pos + k
    <3>1. i - Start \in 1..(nread + k)
      BY <1>1, <1>3, <2>2
    <3> QED
      BY <1>1, <1>3, <1>4, <2>2, <3>1
  <2>3. CASE i \notin pos + 1 .. pos + k
    <3>1. k \in Nat
      BY <1>1, <1>3
    <3>2. i - Start \in 1..(nread + k) <=> i - Start \in 1..nread
      BY <1>3, <2>3, <3>1
    <3> QED
      BY <1>1, <1>3, <2>1, <2>3, <3>2
  <2> QED
    BY <2>2, <2>3
<1>7. ReadExact'
  BY <1>2, <1>3 DEF ReadExact
<1>8. TypeOK'
  <2>1. file' \in Bytes(Len(was))
    <3>1. \A i \in 1..Len(was) : file[i] \in Byte
      BY DEF IOInv, TypeOK, Bytes
    <3> QED
      BY <1>1, <1>3, <1>4, <1>5, <3>1 DEF Bytes
  <2>2. nread' \in 0..size(call) /\ num_bytes' = size(call) - nread' /\ pos' \in Nat
    BY <1>1, <1>3
  <2> QED
    BY <1>2, <2>1, <2>2 DEF IOInv, TypeOK
<1>9. InPlace'
  BY <1>1, <1>2, <1>3 DEF IOInv, InPlace
<1>10. ResultInv' /\ PrintedWasRead'
  BY <1>2, <1>3 DEF ResultInv, PrintedWasRead, UNSET
<1> QED
  BY <1>6, <1>7, <1>8, <1>9, <1>10 DEF IOInv

\* A call that transfers nothing.
LEMMA NothingIO == IOInv /\ (Interrupted \/ AtEnd \/ Fault) => IOInv'
<1> SUFFICES ASSUME IOInv, Interrupted \/ AtEnd \/ Fault PROVE IOInv'
  OBVIOUS
<1>1. /\ call' = call /\ file' = file /\ was' = was /\ trusted' = trusted
      /\ desc' = desc /\ num_bytes' = num_bytes /\ nread' = nread
      /\ buffer' = buffer /\ pos' = pos /\ result' = result /\ Start' = Start
      /\ step = "io" /\ step' \in {"io", "close"} /\ failed' \in BOOLEAN
      /\ step' = "close" => failed' \/ pos >= Len(file)
  BY DEF IOInv, TypeOK, Interrupted, AtEnd, Fault, Transferring, NoTransfer, Idle, Start
<1>2. TypeOK'
  BY <1>1 DEF IOInv, TypeOK
<1>3. InPlace'
  BY <1>1, TypeFacts DEF IOInv, InPlace
<1>4. ResultInv' /\ PrintedWasRead'
  BY <1>1 DEF IOInv, ResultInv, PrintedWasRead, UNSET
<1>5. ReadExact' /\ WriteExact'
  BY <1>1 DEF IOInv, ReadExact, WriteExact
<1> QED
  BY <1>2, <1>3, <1>4, <1>5 DEF IOInv

\* What the callers make of a finished transfer.
LEMMA CloseIO == IOInv /\ (Close \/ Compare \/ Describe) => IOInv'
<1> SUFFICES ASSUME IOInv, Close \/ Compare \/ Describe PROVE IOInv'
  OBVIOUS
<1>1. /\ call' = call /\ file' = file /\ was' = was /\ pos' = pos
      /\ num_bytes' = num_bytes /\ nread' = nread /\ buffer' = buffer
      /\ failed' = failed /\ Start' = Start /\ step' = "returned"
      /\ step = "close" \/ (step = "io" /\ num_bytes = 0)
  BY DEF Close, Compare, Describe, Transferred, Give, NoTransfer, Idle, Start
<1>2. trusted = UNSET /\ nread \in Nat /\ num_bytes \in Nat /\ Start \in Int
      /\ num_bytes = size(call) - nread /\ size(call) \in Nat /\ Len(was) \in Nat
  BY <1>1, TypeFacts DEF IOInv, TypeOK, ResultInv
<1>3. io_result = "OK" /\ num_bytes > 0
        => /\ call.op # "write" /\ nread > 0
           /\ failed \/ Start + nread >= Len(was)
  BY <1>1, <1>2 DEF IOInv, InPlace, io_result
<1>4. TypeOK' /\ InPlace' /\ ReadExact' /\ WriteExact'
  BY <1>1 DEF IOInv, TypeOK, InPlace, ReadExact, WriteExact
<1>5. CASE Close
  <2>1. result' = io_result /\ trusted' = UNSET /\ call.op # "info"
    BY <1>2, <1>5 DEF Close, Give, NoTransfer, Idle
  <2>2. ResultInv' /\ PrintedWasRead'
    BY <1>1, <1>3, <2>1 DEF ResultInv, PrintedWasRead
  <2> QED
    BY <1>4, <2>2 DEF IOInv
<1>6. CASE Compare
  <2>1. /\ result' = io_result /\ call.op = "key"
        /\ trusted' # UNSET => io_result = "OK"
        /\ trusted' # UNSET => trusted' = IF is_trusted THEN "yes" ELSE "no"
    BY <1>6 DEF Compare, Give, UNSET
  <2>2. is_trusted' = is_trusted
    BY <1>1 DEF is_trusted
  <2>3. ResultInv' /\ PrintedWasRead'
    BY <1>1, <1>3, <2>1, <2>2 DEF ResultInv, PrintedWasRead
  <2> QED
    BY <1>4, <2>3 DEF IOInv
<1>7. CASE Describe
  <2>1. /\ trusted' = UNSET /\ call.op = "info"
        /\ result' = "OK" => io_result = "OK"
    BY <1>2, <1>7 DEF Describe, Give, io_result
  <2>2. ResultInv'
    BY <1>1, <1>3, <2>1 DEF ResultInv
  <2>3. PrintedWasRead'
    <3> SUFFICES ASSUME result' = "OK"
                 PROVE  \E d \in desc' :
                          /\ d.digest_len <= DigestSize
                          /\ \A i \in DOMAIN d.bytes :
                               Start + i \in DOMAIN was /\ d.bytes[i] = was[Start + i]
      BY <1>1 DEF PrintedWasRead
    <3> DEFINE d == first_descriptor
    <3>1. /\ d.tag # "none" /\ hash_desc_ret(d) = "OK"
          /\ desc' = IF d.tag = "hash" /\ d.digest_len <= DigestSize
                        THEN {[digest_len |-> d.digest_len,
                               bytes |-> SubSeq(buffer, 1, call.end)]}
                        ELSE desc
      BY <1>7, <2>1 DEF Describe, Give
    <3>2. call.first \in Descriptor /\ call.end \in Nat
      BY <2>1, CallFacts DEF IOInv, TypeOK
    <3>3. d = call.first /\ call.end <= nread
      BY <1>2, <3>1, <3>2 DEF first_descriptor, Descriptor
    <3>4. d.tag = "hash" /\ d.digest_len <= DigestSize
      BY <3>1, <3>2, <3>3, SizesAssumption DEF hash_desc_ret, Descriptor
    <3> DEFINE bytes == SubSeq(buffer, 1, call.end)
    <3>5. /\ DOMAIN bytes = 1..call.end
          /\ \A i \in 1..call.end : bytes[i] = buffer[i]
      <4>1. /\ buffer \in Bytes(size(call)) /\ nread <= size(call)
        BY <1>2, <2>1 DEF IOInv, TypeOK
      <4>2. buffer \in Seq(Byte) /\ Len(buffer) = size(call)
        BY <1>2, <4>1, BytesFacts
      <4> QED
        BY <1>2, <3>2, <3>3, <4>1, <4>2
    <3>6. \A i \in 1..call.end :
            Start + i \in DOMAIN was /\ bytes[i] = was[Start + i]
      <4>1. nread > 0 => Start >= 0 /\ Start + nread <= Len(was)
        BY DEF IOInv, InPlace
      <4>2. DOMAIN was = 1..Len(was)
        BY TypeFacts, BytesFacts DEF IOInv
      <4>3. DOMAIN buffer = 1..size(call) /\ nread <= size(call)
        BY <1>2, <2>1, TypeFacts DEF IOInv, TypeOK
      <4>4. \A i \in 1..call.end : i \in DOMAIN buffer /\ i <= nread
        BY <1>2, <3>2, <3>3, <4>3
      <4>5. \A i \in 1..call.end : buffer[i] = was[Start + i]
        BY <4>4 DEF IOInv, ReadExact
      <4>6. \A i \in 1..call.end : Start + i \in 1..Len(was)
        BY <1>2, <3>2, <3>3, <4>1
      <4> QED
        BY <3>5, <4>2, <4>5, <4>6
    <3> HIDE DEF bytes
    <3>7. desc' = {[digest_len |-> d.digest_len, bytes |-> bytes]}
      BY <3>1, <3>4 DEF bytes
    <3> HIDE DEF d
    <3> QED
      BY <3>4, <3>5, <3>6, <3>7
  <2> QED
    BY <1>4, <2>2, <2>3 DEF IOInv
<1> QED
  BY <1>5, <1>6, <1>7

\* Every step preserves the invariant.
LEMMA NextIO == IOInv /\ [Next]_vars => IOInv'
<1>1. IOInv /\ UNCHANGED vars => IOInv'
  BY DEF vars, IOInv, TypeOK, InPlace, ReadExact, WriteExact, ResultInv,
         PrintedWasRead, Start, is_trusted
<1> QED
  BY <1>1, OpenIO, ReadIO, WriteIO, NothingIO, CloseIO DEF Next, Run

\* The counters of read_from_partition and write_to_partition agree with the
\* bytes that have arrived at every step, for every size.
THEOREM IOInvariant == Spec => []IOInv
BY InitIO, NextIO, PTL DEF Spec

\* However a transfer is cut into pieces, interrupted or broken off, it moves
\* exactly the bytes asked for, and OK with fewer bytes is a read that met an error
\* or the end of the partition.
THEOREM TransfersExact == Spec => []TransferExact
<1>1. IOInv => TransferExact
  <2> SUFFICES ASSUME IOInv, result = "OK", num_bytes > 0
               PROVE  /\ call.op # "write" /\ nread > 0
                      /\ failed \/ Start + nread = Len(was)
    BY DEF IOInv, TransferExact
  <2> QED
    BY TypeFacts DEF IOInv, InPlace, ResultInv
<1> QED
  BY <1>1, IOInvariant, PTL

\* validate_public_key_for_partition trusts a key only if the key file has every
\* byte of it that is not zero, and refuses the key of the file only after a
\* failed read.
THEOREM TrustIsEqual == Spec => []TrustMeansEqual
<1>1. IOInv => TrustMeansEqual
  <2> SUFFICES ASSUME IOInv, trusted # UNSET PROVE TrustMeansEqual
    BY DEF TrustMeansEqual, UNSET
  <2>1. /\ call.op = "key" /\ call.offset = 0 /\ Start = 0 /\ result = "OK"
        /\ call.key \in Bytes(size(call))
        /\ trusted = IF is_trusted THEN "yes" ELSE "no"
    BY CallFacts DEF IOInv, TypeOK, ResultInv, Start
  <2>2. /\ nread \in Nat /\ num_bytes \in Nat /\ size(call) \in Nat
        /\ num_bytes = size(call) - nread
        /\ Len(was) \in Nat /\ DOMAIN file = 1..Len(was)
        /\ DOMAIN buffer = 1..size(call)
        /\ nread > 0 => nread <= Len(was)
    BY <2>1, TypeFacts DEF IOInv, TypeOK, InPlace
  <2>3. DOMAIN call.key = 1..size(call) /\ Len(call.key) = size(call)
    BY <2>1, <2>2, BytesFacts
  <2>4. \A i \in 1..size(call) :
          /\ i <= nread => i \in DOMAIN file /\ buffer[i] = file[i]
          /\ i > nread => buffer[i] = 0
    BY <2>1, <2>2 DEF IOInv, ReadExact, WriteExact
  <2>5. CASE is_trusted
    BY <2>1, <2>2, <2>3, <2>4, <2>5 DEF TrustMeansEqual, is_trusted
  <2>6. CASE ~ is_trusted
    <3>1. PICK i \in 1..size(call) : buffer[i] # call.key[i]
      BY <2>3, <2>6 DEF is_trusted
    <3>2. CASE i <= nread
      BY <2>1, <2>3, <2>4, <2>6, <3>1, <3>2 DEF TrustMeansEqual
    <3>3. CASE i > nread /\ ~ failed
      <4>1. num_bytes > 0
        BY <2>2, <3>3
      <4>2. nread >= Len(was)
        BY <2>1, <2>2, <3>3, <4>1 DEF IOInv, ResultInv
      <4> QED
        BY <2>1, <2>2, <2>3, <2>6, <3>3, <4>2 DEF TrustMeansEqual
    <3> QED
      BY <2>1, <2>2, <2>6, <3>2, <3>3 DEF TrustMeansEqual
  <2> QED
    BY <2>5, <2>6
<1> QED
  BY <1>1, IOInvariant, PTL

\* avb_verify -I prints a descriptor only if avb_hash_desc filled it in, with a digest
\* that fits, from bytes that the partition holds at its place, however short the read.
THEOREM InfoIsRead == Spec => []PrintedWasRead
<1>1. IOInv => PrintedWasRead
  BY DEF IOInv
<1> QED
  BY <1>1, IOInvariant, PTL
=============================================================================
