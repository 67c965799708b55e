---------------------------- MODULE MFile_proofs ----------------------------
(***************************************************************************)
(* The contract of m_file::write, proved for every page size, granularity  *)
(* and set of system calls that fail: it keeps FileInv, never takes back a *)
(* view, and either hands out the next bytes of the file or changes no     *)
(* byte of it.                                                             *)
(***************************************************************************)
EXTENDS MFile, SequenceTheorems, TLAPS

(* write(src) handed out nothing: the bytes of the file stay as they were. *)
WriteFailed ==
  /\ offset' = offset
  /\ size <= size'
  /\ \A k \in 0 .. size - 1 : content'[k] = content[k]

(* write(src) handed out the piece of the file from offset on, the bytes   *)
(* before the piece stay as they were.                                     *)
WriteSucceeded(src) ==
  /\ offset' = offset + Len(src)
  /\ currentMap' \in 1 .. Len(views')
  /\ Len(src) <= mapOffset' /\ mapOffset' <= views'[currentMap'].len
  /\ views'[currentMap'].base + mapOffset' = offset'
  /\ \A k \in 0 .. offset - 1 : content'[k] = content[k]
  /\ \A i \in 1 .. Len(src) : content'[offset + i - 1] = src[i]

(* Views are only ever added.                                              *)
ViewsKept ==
  /\ Len(views) <= Len(views')
  /\ \A m \in 1 .. Len(views) : views'[m] = views[m]

-----------------------------------------------------------------------------

(* Rounding up to whole pages never shortens.                              *)
LEMMA AlignUpBound ==
  ASSUME NEW n \in Nat
  PROVE  AlignUp(n) \in Nat /\ AlignUp(n) >= n
<1> DEFINE q == (n + PageSize - 1) \div PageSize
<1>1. PageSize \in Nat /\ PageSize > 0
  BY PageSizeAssumption
<1>2. q \in Nat /\ q * PageSize <= n + PageSize - 1 /\ n + PageSize - 1 < (q + 1) * PageSize
  BY <1>1
<1>3. q * PageSize \in Nat /\ (q + 1) * PageSize = q * PageSize + PageSize
  BY <1>1, <1>2
<1>4. QED
  BY <1>1, <1>2, <1>3 DEF AlignUp

(* expand_size() never shortens the file, whether it succeeds or not.      *)
LEMMA ExpandGrows ==
  ASSUME FileInv, NEW n \in Nat, NEW s \in ExpandSize(n)
  PROVE  s \in Nat /\ size <= s
<1>1. (size + n) * 2 \in Nat /\ size \in Nat
  BY DEF FileInv, FileTypeOK
<1>2. AlignUp((size + n) * 2) \in Nat /\ AlignUp((size + n) * 2) >= (size + n) * 2
  BY <1>1, AlignUpBound
<1>3. s = AlignUp((size + n) * 2) \/ s = size
  BY DEF ExpandSize
<1>4. QED
  BY <1>1, <1>2, <1>3

(* Patch keeps the domain and the bytes outside the patched interval.      *)
LEMMA PatchContent ==
  ASSUME NEW n \in Nat, NEW file \in [0 .. n - 1 -> Bytes],
         NEW src \in Seq(Bytes), NEW at \in Nat
  PROVE  LET new == Patch(file, at, src) IN
         /\ new \in [0 .. n - 1 -> Bytes]
         /\ \A k \in 0 .. n - 1 : k < at \/ k >= at + Len(src) => new[k] = file[k]
         /\ at + Len(src) <= n => \A i \in 1 .. Len(src) : new[at + i - 1] = src[i]
<1>1. \A k \in 0 .. n - 1 : k \in at .. at + Len(src) - 1 => src[k - at + 1] \in Bytes
  OBVIOUS
<1>2. Patch(file, at, src) \in [0 .. n - 1 -> Bytes]
  BY <1>1 DEF Patch
<1>3. \A k \in 0 .. n - 1 : k < at \/ k >= at + Len(src) => Patch(file, at, src)[k] = file[k]
  BY DEF Patch
<1>4. ASSUME at + Len(src) <= n, NEW i \in 1 .. Len(src)
      PROVE  Patch(file, at, src)[at + i - 1] = src[i]
  <2>1. at + i - 1 \in 0 .. n - 1 /\ at + i - 1 \in at .. at + Len(src) - 1
    BY <1>4
  <2>2. (at + i - 1) - at + 1 = i
    BY <1>4
  <2>3. QED
    BY <2>1, <2>2 DEF Patch
<1>5. QED
  BY <1>2, <1>3, <1>4

(* A file that grew has its old bytes in front.                            *)
LEMMA ResizeContent ==
  ASSUME NEW n \in Nat, NEW s \in Nat, n <= s, NEW file \in [0 .. n - 1 -> Bytes]
  PROVE  /\ Resize(file, n, s) \in [0 .. s - 1 -> Bytes]
         /\ \A k \in 0 .. n - 1 : Resize(file, n, s)[k] = file[k]
  BY ZeroAssumption DEF Resize

(* What write() has in hand when it stores src: views vs, of which m is    *)
(* current and at the place in it, and the file of length s.               *)
Ready(vs, m, at, s, file) ==
  /\ vs \in Seq(View)
  /\ Len(views) <= Len(vs)
  /\ \A k \in 1 .. Len(views) : vs[k] = views[k]
  /\ \A k \in 1 .. Len(vs) : vs[k].base + vs[k].len <= s
  /\ m \in 0 .. Len(vs)
  /\ at \in Nat
  /\ m # NoMap => vs[m].base + at = offset
  /\ s \in Nat
  /\ size <= s
  /\ file \in [0 .. s - 1 -> Bytes]
  /\ \A k \in 0 .. size - 1 : file[k] = content[k]
  /\ size' = s
  /\ valid' = valid

(* Storing src keeps the file invariant, with or without room for src.     *)
LEMMA StoreContract ==
  ASSUME FileInv, process = "running", NEW src \in Seq(Bytes), src # << >>,
         NEW vs, NEW m, NEW at, NEW s, NEW file, Ready(vs, m, at, s, file),
         Store(vs, m, at, file, src)
  PROVE  FileInv' /\ ViewsKept /\ (WriteFailed \/ WriteSucceeded(src))
<1>1. /\ vs \in Seq(View) /\ m \in 0 .. Len(vs) /\ at \in Nat /\ s \in Nat
      /\ size <= s /\ size' = s /\ valid' = valid
      /\ m # NoMap => vs[m].base + at = offset
  BY Zenon DEF Ready
<1>2. /\ \A k \in 1 .. Len(vs) : vs[k].base + vs[k].len <= s
      /\ \A k \in 0 .. size - 1 : file[k] = content[k]
      /\ file \in [0 .. s - 1 -> Bytes]
  BY Zenon DEF Ready
<1>3. /\ valid \in BOOLEAN /\ size \in Nat /\ offset \in Nat /\ mapOffset \in Nat
      /\ offset <= size /\ Len(src) \in Nat /\ Len(src) > 0
  BY DEF FileInv, FileTypeOK
<1>4. views' = vs /\ currentMap' = m
  BY DEF Store
<1>5. ViewsKept
  BY <1>4 DEF Ready, ViewsKept
<1>6. ASSUME process' # "running", process' \in {"running", "nullDeref", "overrun", "wholeFile"},
             content' = file, UNCHANGED <<offset, mapOffset>>
      PROVE  FileInv' /\ WriteFailed
  <2>1. FileTypeOK'
    BY <1>1, <1>2, <1>3, <1>4, <1>6 DEF FileTypeOK
  <2>2. offset' <= size' /\ \A k \in 1 .. Len(views') : views'[k].base + views'[k].len <= size'
    BY <1>1, <1>2, <1>3, <1>4, <1>6
  <2>3. FileInv'
    BY <1>6, <2>1, <2>2 DEF FileInv
  <2>4. WriteFailed
    BY <1>1, <1>2, <1>6 DEF WriteFailed
  <2>5. QED
    BY <2>3, <2>4
<1>7. CASE m = NoMap
  <2>1. process' = "nullDeref" /\ content' = file /\ UNCHANGED <<offset, mapOffset>>
    BY <1>7 DEF Store
  <2>2. QED
    BY <1>5, <1>6, <2>1
<1>8. CASE m # NoMap /\ at + Len(src) > vs[m].len /\ ~ (at + Len(src) <= vs[m].len)
  <2>1. process' = "overrun" /\ content' = file /\ UNCHANGED <<offset, mapOffset>>
    BY <1>8 DEF Store
  <2>2. QED
    BY <1>5, <1>6, <2>1
<1>9. CASE m # NoMap /\ at + Len(src) <= vs[m].len /\ ~ (at + Len(src) > vs[m].len)
  <2>1. m \in 1 .. Len(vs)
    BY <1>1, <1>9 DEF NoMap
  <2> DEFINE v == vs[m]
  <2>2. v \in View
    BY <1>1, <2>1, ElementOfSeq, Zenon
  <2>3. v.base \in Nat /\ v.len \in Nat
    BY <2>2 DEF View
  <2>4. v.base + at = offset /\ v.base + v.len <= s /\ at + Len(src) <= v.len
    BY <1>1, <1>2, <1>9, <2>1
  <2>5. /\ content' = Patch(file, offset, src)
        /\ offset' = offset + Len(src) /\ mapOffset' = at + Len(src)
        /\ process' = process
    BY <1>9, <2>4 DEF Store
  <2>6. offset + Len(src) <= s
    BY <1>1, <1>3, <2>3, <2>4
  <2>7. /\ content' \in [0 .. s - 1 -> Bytes]
        /\ \A k \in 0 .. s - 1 : k < offset => content'[k] = file[k]
        /\ \A i \in 1 .. Len(src) : content'[offset + i - 1] = src[i]
    <3>1. s \in Nat /\ offset \in Nat /\ file \in [0 .. s - 1 -> Bytes]
      BY <1>1, <1>2, <1>3, Zenon
    <3> DEFINE new == Patch(file, offset, src)
    <3>2. /\ new \in [0 .. s - 1 -> Bytes]
          /\ \A k \in 0 .. s - 1 : k < offset \/ k >= offset + Len(src) => new[k] = file[k]
          /\ offset + Len(src) <= s => \A i \in 1 .. Len(src) : new[offset + i - 1] = src[i]
      BY <3>1, PatchContent, Zenon
    <3>3. QED
      BY <2>5, <2>6, <3>2, Zenon
  <2>8. \A k \in 0 .. offset - 1 : content'[k] = content[k]
    BY <1>1, <1>2, <1>3, <2>7
  <2>9. v.base + (at + Len(src)) = offset + Len(src) /\ Len(src) <= at + Len(src)
    <3>1. at \in Nat
      BY <1>1
    <3> HIDE DEF v
    <3>2. QED
      BY <1>3, <2>3, <2>4, <3>1
  <2>10. views'[currentMap'] = v
    BY <1>4
  <2>11. WriteSucceeded(src)
    <3>1. currentMap' \in 1 .. Len(views')
      BY <1>4, <2>1, Zenon
    <3>2. /\ Len(src) <= mapOffset' /\ mapOffset' <= views'[currentMap'].len
          /\ views'[currentMap'].base + mapOffset' = offset'
      BY <2>4, <2>5, <2>9, <2>10, Zenon
    <3>3. QED
      BY <2>5, <2>7, <2>8, <3>1, <3>2, Zenon DEF WriteSucceeded
  <2>12. FileTypeOK'
    <3>1. process' \in {"running", "nullDeref", "overrun", "wholeFile"} /\ valid' \in BOOLEAN
      BY <1>1, <1>3, <2>5
    <3>2. size' \in Nat /\ offset' \in Nat /\ mapOffset' \in Nat
      BY <1>1, <1>3, <2>5
    <3>3. views' \in Seq(View) /\ currentMap' \in 0 .. Len(views')
      BY <1>1, <1>4, Zenon
    <3>4. content' \in [0 .. size' - 1 -> Bytes]
      BY <1>1, <2>7
    <3>5. QED
      BY <3>1, <3>2, <3>3, <3>4 DEF FileTypeOK
  <2>13. offset' <= size' /\ \A k \in 1 .. Len(views') : views'[k].base + views'[k].len <= size'
    BY <1>1, <1>2, <1>4, <2>5, <2>6
  <2>14. views'[currentMap'].base + mapOffset' = offset'
    BY <2>11 DEF WriteSucceeded
  <2>15. FileInv'
    BY <2>12, <2>13, <2>14 DEF FileInv
  <2>16. QED
    BY <1>5, <2>11, <2>15
<1>10. m # NoMap => at + Len(src) \in Nat /\ vs[m].len \in Nat
  <2>1. ASSUME m # NoMap PROVE m \in 1 .. Len(vs)
    BY <1>1, <2>1 DEF NoMap
  <2>2. ASSUME m # NoMap PROVE vs[m] \in View
    BY <1>1, <2>1, <2>2, ElementOfSeq, Zenon
  <2>3. QED
    BY <1>1, <1>3, <2>2 DEF View
<1>11. QED
  BY <1>7, <1>8, <1>9, <1>10

(* m_file::write as dumpable::write_data sees it, whichever system calls   *)
(* fail: it keeps the two offsets in step, and either hands out the next   *)
(* bytes of the file or changes no byte of it.                             *)
LEMMA WriteContract ==
  ASSUME FileInv, NEW src \in Seq(Bytes), src # << >>, Write(src)
  PROVE  FileInv' /\ ViewsKept /\ (WriteFailed \/ WriteSucceeded(src))
<1>1. process = "running" /\ valid' = valid
  BY DEF Write
<1>2. /\ valid \in BOOLEAN /\ size \in Nat /\ offset \in Nat /\ offset <= size
      /\ views \in Seq(View) /\ mapOffset \in Nat /\ currentMap \in 0 .. Len(views)
      /\ content \in [0 .. size - 1 -> Bytes]
      /\ Len(src) \in Nat /\ Len(src) > 0
  BY DEF FileInv, FileTypeOK
<1>3. /\ \A k \in 1 .. Len(views) : views[k].base + views[k].len <= size
      /\ currentMap # NoMap => views[currentMap].base + mapOffset = offset
  BY <1>1 DEF FileInv
<1>4. \A k \in 1 .. Len(views) : views[k] \in View /\ views[k].base \in Nat /\ views[k].len \in Nat
  <2>1. ASSUME NEW k \in 1 .. Len(views) PROVE views[k] \in View
    BY <1>2, ElementOfSeq, Zenon
  <2>2. QED
    BY <2>1 DEF View
<1>5. CASE WriteFits(src)
  <2>1. size' = size /\ Store(views, currentMap, mapOffset, content, src)
    BY <1>5 DEF WriteFits
  <2>2. Ready(views, currentMap, mapOffset, size, content)
    BY <1>1, <1>2, <1>3, <2>1 DEF Ready
  <2>3. QED
    BY <1>1, <2>1, <2>2, StoreContract, Zenon
<1>6. CASE WriteGrows(src)
  <2>1. PICK s \in ExpandSize(Len(src)) :
          /\ size' = s
          /\ \/ /\ << >> \in DoMap(offset, s)
                /\ content' = Resize(content, size, s)
                /\ UNCHANGED <<process, offset, views, currentMap, mapOffset>>
             \/ \E v \in DoMap(offset, s) \ {<< >>} :
                  Store(views \o v, Len(views) + 1, 0, Resize(content, size, s), src)
    BY <1>6, Zenon DEF WriteGrows
  <2>2. s \in Nat /\ size <= s /\ size' = s
    BY <1>2, <2>1, ExpandGrows, Zenon
  <2> DEFINE file == Resize(content, size, s)
  <2>3. /\ file \in [0 .. s - 1 -> Bytes]
        /\ \A k \in 0 .. size - 1 : file[k] = content[k]
    BY <1>2, <2>2, ResizeContent
  <2> HIDE DEF file
  <2>4. ASSUME content' = file, UNCHANGED <<process, offset, views, currentMap, mapOffset>>
        PROVE  FileInv' /\ ViewsKept /\ WriteFailed
    <3>1. FileTypeOK'
      BY <1>1, <1>2, <2>2, <2>3, <2>4 DEF FileTypeOK
    <3>2. \A k \in 1 .. Len(views) : views[k].base + views[k].len <= s
      BY <1>2, <1>3, <1>4, <2>2
    <3>3. FileInv'
      BY <1>2, <1>3, <2>2, <2>4, <3>1, <3>2 DEF FileInv
    <3>4. ViewsKept /\ WriteFailed
      BY <1>2, <2>2, <2>3, <2>4 DEF ViewsKept, WriteFailed
    <3>5. QED
      BY <3>3, <3>4
  <2>5. ASSUME NEW v \in DoMap(offset, s) \ {<< >>},
               Store(views \o v, Len(views) + 1, 0, file, src)
        PROVE  FileInv' /\ ViewsKept /\ (WriteFailed \/ WriteSucceeded(src))
    <3> DEFINE view == [base |-> offset, len |-> s - offset]
    <3>1. v = <<view>>
      BY <2>5 DEF DoMap
    <3>2. s - offset \in Nat /\ view \in View
      BY <1>2, <2>2 DEF View
    <3>3. view.base + 0 = offset /\ view.base + view.len <= s
      BY <1>2, <2>2
    <3> DEFINE vs == views \o v
    <3> HIDE DEF view
    <3>4. /\ vs \in Seq(View) /\ Len(vs) = Len(views) + 1 /\ vs[Len(views) + 1] = view
          /\ \A k \in 1 .. Len(views) : vs[k] = views[k]
      BY <1>2, <3>1, <3>2
    <3>5. \A k \in 1 .. Len(vs) : vs[k].base + vs[k].len <= s
      <4>1. ASSUME NEW k \in 1 .. Len(views) PROVE vs[k].base + vs[k].len <= s
        BY <1>2, <1>3, <1>4, <2>2, <3>4
      <4>2. vs[Len(views) + 1].base + vs[Len(views) + 1].len <= s
        BY <3>3, <3>4
      <4>3. \A k \in 1 .. Len(vs) : k \in 1 .. Len(views) \/ k = Len(views) + 1
        BY <1>2, <3>4
      <4>4. QED
        BY <4>1, <4>2, <4>3, Zenon
    <3> HIDE DEF vs
    <3>6. vs[Len(views) + 1].base + 0 = offset
      BY <3>3, <3>4
    <3>7. Len(views) + 1 \in 0 .. Len(vs) /\ Len(views) <= Len(vs) /\ 0 \in Nat
      BY <1>2, <3>4
    <3>8. Ready(vs, Len(views) + 1, 0, s, file)
      BY <1>1, <2>2, <2>3, <3>4, <3>5, <3>6, <3>7, Zenon DEF Ready
    <3>9. Store(vs, Len(views) + 1, 0, file, src)
      BY <2>5 DEF vs
    <3>10. QED
      BY <1>1, <3>8, <3>9, StoreContract, Zenon
  <2>6. QED
    BY <2>1, <2>4, <2>5 DEF file
<1>7. CASE WriteWholeFile(src)
  <2>1. /\ process' = "wholeFile" /\ valid' = valid
        /\ UNCHANGED <<size, offset, views, currentMap, mapOffset, content>>
    BY <1>1, <1>7 DEF WriteWholeFile
  <2>2. FileInv'
    BY <2>1 DEF FileInv, FileTypeOK
  <2>3. ViewsKept /\ WriteFailed
    BY <1>2, <2>1 DEF ViewsKept, WriteFailed
  <2>4. QED
    BY <2>2, <2>3
<1>8. QED
  BY <1>5, <1>6, <1>7 DEF Write

-----------------------------------------------------------------------------

(* The environment in which write() stays in its views: m_file(name) found *)
(* no file it could not delete, and the file can be grown and mapped.      *)
(* Opening it may still fail, and every ReadProcessMemory may.             *)
StorageWorks ==
  /\ "expand" \notin Faults /\ "map" \notin Faults
  /\ InitialSizes = {} /\ StaleSizes = {}

(* While storage works, a piece that fits the file fits the current view,  *)
(* and a piece that does not gets a view that is long enough: write()      *)
(* never leaves the view it stores through.                                *)
LEMMA WriteStaysInView ==
  ASSUME StorageWorks, FileInv, StorageInv, NEW src \in Seq(Bytes), src # << >>, Write(src)
  PROVE  StorageInv'
<1>1. /\ process = "running" /\ valid' = valid /\ valid \in BOOLEAN
      /\ size \in Nat /\ offset \in Nat /\ offset <= size
      /\ views \in Seq(View) /\ mapOffset \in Nat /\ currentMap \in 0 .. Len(views)
      /\ Len(src) \in Nat /\ Len(src) > 0
  BY DEF FileInv, FileTypeOK, Write
<1>2. CASE WriteFits(src)
  <2>1. /\ size' = size /\ offset + Len(src) <= size
        /\ Store(views, currentMap, mapOffset, content, src)
    BY <1>2 DEF WriteFits
  <2>2. size > 0 /\ valid /\ currentMap # NoMap
    BY <1>1, <2>1 DEF StorageInv
  <2> DEFINE v == views[currentMap]
  <2>3. v \in View
    <3>1. currentMap \in 1 .. Len(views)
      BY <1>1, <2>2 DEF NoMap
    <3>2. QED
      BY <1>1, <3>1, ElementOfSeq, Zenon
  <2>4. v.base \in Nat /\ v.len \in Nat
    BY <2>3 DEF View
  <2>5. v.base + mapOffset = offset /\ v.base + v.len = size
    BY <1>1, <2>2, Zenon DEF FileInv, StorageInv
  <2>6. ~ (mapOffset + Len(src) > v.len)
    <3> HIDE DEF v
    <3>1. QED
      BY <1>1, <2>1, <2>4, <2>5
  <2>7. UNCHANGED process /\ views' = views /\ currentMap' = currentMap
    BY <2>1, <2>2, <2>6 DEF Store
  <2>8. QED
    BY <1>1, <2>1, <2>2, <2>5, <2>7, Zenon DEF StorageInv
<1>3. CASE WriteGrows(src)
  <2>1. PICK s \in ExpandSize(Len(src)) :
          /\ size' = s
          /\ \/ /\ << >> \in DoMap(offset, s)
                /\ content' = Resize(content, size, s)
                /\ UNCHANGED <<process, offset, views, currentMap, mapOffset>>
             \/ \E v \in DoMap(offset, s) \ {<< >>} :
                  Store(views \o v, Len(views) + 1, 0, Resize(content, size, s), src)
    BY <1>3, Zenon DEF WriteGrows
  <2>2. s = IF valid THEN AlignUp((size + Len(src)) * 2) ELSE size
    BY DEF ExpandSize, StorageWorks
  <2>3. CASE ~ valid
    <3>1. DoMap(offset, s) = {<< >>} /\ s = size
      <4>1. s = 0 /\ offset = 0 /\ s = size
        BY <1>1, <2>2, <2>3 DEF StorageInv
      <4>2. LengthToMap(offset, s) = 0
        BY <4>1, GranularityAssumption DEF LengthToMap
      <4>3. QED
        BY <4>1, <4>2 DEF DoMap, StorageWorks
    <3>2. size' = size /\ UNCHANGED <<process, views, currentMap>>
      BY <2>1, <3>1
    <3>3. QED
      BY <1>1, <3>2, Zenon DEF StorageInv
  <2>4. CASE valid
    <3>1. s \in Nat /\ offset + Len(src) <= s
      <4>1. (size + Len(src)) * 2 \in Nat /\ offset + Len(src) <= (size + Len(src)) * 2
        BY <1>1
      <4>2. AlignUp((size + Len(src)) * 2) \in Nat
            /\ AlignUp((size + Len(src)) * 2) >= (size + Len(src)) * 2
        BY <4>1, AlignUpBound
      <4>3. QED
        BY <1>1, <2>2, <2>4, <4>1, <4>2
    <3> DEFINE view == [base |-> offset, len |-> s - offset]
    <3>2. DoMap(offset, s) = {<<view>>}
      <4>1. offset % Granularity \in Nat
        BY <1>1, GranularityAssumption
      <4>2. LengthToMap(offset, s) > 0
        BY <1>1, <3>1, <4>1 DEF LengthToMap
      <4>3. QED
        BY <2>4, <4>2 DEF DoMap, StorageWorks
    <3> DEFINE vs == views \o <<view>>
    <3>3. Store(vs, Len(views) + 1, 0, Resize(content, size, s), src) /\ size' = s
      BY <2>1, <3>2
    <3>4. vs[Len(views) + 1] = view /\ Len(views) + 1 # NoMap
      BY <1>1 DEF NoMap
    <3>5. /\ view.base + view.len = s
          /\ ~ (0 + Len(src) > view.len)
      BY <1>1, <3>1
    <3> HIDE DEF vs, view
    <3>6. UNCHANGED process /\ views' = vs /\ currentMap' = Len(views) + 1
      BY <3>3, <3>4, <3>5 DEF Store
    <3>7. QED
      BY <1>1, <2>4, <3>3, <3>4, <3>5, <3>6, Zenon DEF StorageInv
  <2>5. QED
    BY <1>1, <2>3, <2>4
<1>4. ~ WriteWholeFile(src)
  BY DEF WriteWholeFile, StorageWorks
<1>5. QED
  BY <1>2, <1>3, <1>4 DEF Write

=============================================================================
