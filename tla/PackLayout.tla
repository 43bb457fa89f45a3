----------------------------- MODULE PackLayout -----------------------------
(***************************************************************************)
(* The single-file model pack of storage/pack.py: how pack_tensors lays    *)
(* the tensors out after a header whose size depends on the layout, what   *)
(* it writes, and what load_pack_manifest accepts.                         *)
(*                                                                         *)
(* A tensor is its byte count, whether its loader gives another value in   *)
(* the writing pass, and the length of its manifest entry.                 *)
(* Payload and checksum contents are left out; a checksum mismatch is      *)
(* storage corruption.                                                     *)
(***************************************************************************)
EXTENDS Integers, Sequences, FiniteSets

CONSTANTS
  Sizes,       \* payload byte counts
  EntryBytes,  \* manifest bytes of a block without its CRC
  Alignments,  \* powers of two
  MaxTensors   \* bound on the tensors of a pack

Preamble == 16      \* magic, version, manifest length
EmptyManifest == 48 \* the JSON around the entries
CrcBytes == 30      \* ', "checksum_crc32": 4294967295'
Attempts == 8

VARIABLES pc, tensors, align, attempt, reserve, offsets, written, file

vars == <<pc, tensors, align, attempt, reserve, offsets, written, file>>

Larger(a, b) == IF a >= b THEN a ELSE b
Align(offset, a) == ((offset + a - 1) \div a) * a

RECURSIVE Place(_, _, _)
(* The offsets of one layout attempt. *)
Place(ts, offset, a) ==
  IF ts = <<>> THEN <<>>
  ELSE LET at == Align(offset, a) IN <<at>> \o Place(Tail(ts), at + Head(ts).nbytes, a)

RECURSIVE EntriesBytes(_)
EntriesBytes(ts) == IF ts = <<>> THEN 0 ELSE Head(ts).entry + EntriesBytes(Tail(ts))

(* _manifest_bytes in the layout pass: no CRC is known yet. *)
Estimate(ts) == EmptyManifest + EntriesBytes(ts)

----------------------------------------------------------------------------
(* Mutant: payloads are placed after the preamble, not after the reserve. *)
LayFromPreamble ==
  /\ pc = "layout" /\ attempt < Attempts
  /\ attempt' = attempt + 1
  /\ offsets' = Place(tensors, Preamble, align)
  /\ pc' = "write"
  /\ UNCHANGED <<tensors, align, reserve, written, file>>

(* One pass of the for loop of pack_tensors; what follows the eighth is   *)
(* never reached (WrittenPackLoads).                                       *)
Lay ==
  LET needed == Preamble + Estimate(tensors)
  IN  /\ pc = "layout" /\ attempt < Attempts
      /\ attempt' = attempt + 1
      /\ offsets' = Place(tensors, reserve, align)
      /\ IF needed <= reserve
         THEN pc' = "write" /\ UNCHANGED reserve
         ELSE /\ reserve' = Align(needed + needed \div 8 + 1024, align)
              /\ UNCHANGED pc
      /\ UNCHANGED <<tensors, align, written, file>>

(* The next payload, from a loader called again: _assert_same_layout and   *)
(* _write_payload_chunked refuse a changed size.                           *)
WritePayload ==
  LET i == written + 1
      t == tensors[i]
  IN  /\ pc = "write" /\ written < Len(tensors)
      /\ IF t.changes
         THEN pc' = "failed" /\ UNCHANGED <<written, file>>
         ELSE /\ written' = i
              /\ file' = IF t.nbytes = 0 THEN Larger(file, reserve)
                         ELSE Larger(Larger(file, reserve), offsets[i] + t.nbytes)
              /\ UNCHANGED pc
      /\ UNCHANGED <<tensors, align, attempt, reserve, offsets>>

(* The header, with the checksums, and os.replace. *)
WriteHeader ==
  /\ pc = "write" /\ written = Len(tensors)
  /\ pc' = IF Preamble + Estimate(tensors) + CrcBytes * Len(tensors) > reserve
           THEN "failed" ELSE "packed"
  /\ file' = Larger(file, reserve)
  /\ UNCHANGED <<tensors, align, attempt, reserve, offsets, written>>

----------------------------------------------------------------------------
Block(i) == [from |-> offsets[i], to |-> offsets[i] + tensors[i].nbytes]
HeaderBytes == Preamble + Estimate(tensors) + CrcBytes * Len(tensors)

(* The sweep of validate_pack_manifest over spans sorted by (offset, end). *)
Before(a, b) == a.from < b.from \/ (a.from = b.from /\ a.to < b.to)
RECURSIVE Sweep(_, _)
Sweep(spans, active) ==
  \/ spans = {}
  \/ LET s == CHOOSE x \in spans : \A y \in spans \ {x} : ~Before(y, x)
     IN  /\ ~(active # -1 /\ s.from < active /\ s.from < s.to)
         /\ Sweep(spans \ {s}, IF s.from < s.to /\ s.to > active THEN s.to ELSE active)

Accepts ==
  /\ \A i \in 1..Len(tensors) :
       /\ offsets[i] >= HeaderBytes
       /\ offsets[i] % align = 0
       /\ offsets[i] <= file /\ Block(i).to <= file
  /\ Sweep({Block(i) : i \in 1..Len(tensors)}, -1)

Load ==
  /\ pc = "packed"
  /\ pc' = IF Accepts THEN "loaded" ELSE "refused"
  /\ UNCHANGED <<tensors, align, attempt, reserve, offsets, written, file>>

(* What _describe_value tells the layout of a tensor. *)
Tensor == [nbytes : Sizes, changes : BOOLEAN, entry : EntryBytes]

Init ==
  /\ tensors \in UNION {[1..n -> Tensor] : n \in 0..MaxTensors}
  /\ align \in Alignments
  /\ pc = "layout" /\ attempt = 0 /\ offsets = <<>> /\ written = 0 /\ file = 0
  /\ reserve = Larger(4096, 512 * (Len(tensors) + 1))

Next == Lay \/ WritePayload \/ WriteHeader \/ Load

Spec == Init /\ [][Next]_vars

----------------------------------------------------------------------------
EndsInEmpty == tensors # <<>> /\ tensors[Len(tensors)].nbytes = 0

(* A pack that was written can be loaded, and its blocks share no byte     *)
(* with each other or with the header, whatever the sizes, the alignment   *)
(* and the growth of the header; only a pack that ends in an empty tensor  *)
(* may be refused.  The header settles at the second attempt.              *)
WrittenPackLoads ==
  /\ pc = "layout" => attempt <= 1
  /\ pc = "refused" => EndsInEmpty
  /\ pc = "loaded" =>
       \A i \in 1..Len(tensors) :
         /\ tensors[i].nbytes > 0 => offsets[i] >= HeaderBytes
         /\ \A j \in 1..(i - 1) :
              (offsets[i]..(Block(i).to - 1)) \cap (offsets[j]..(Block(j).to - 1)) = {}

=============================================================================
