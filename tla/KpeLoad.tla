------------------------------ MODULE KpeLoad ------------------------------
(***************************************************************************)
(* The KPE image format: how tools/kpepack.ps1 packs a program, and how    *)
(* the two loaders, LoadKpeImage of boot/uefi/bootx64.c for the kernel and *)
(* PsSpawnUserKpeFromBuffer of kernel/ps/init.c for user images, bring it  *)
(* into memory.                                                            *)
(*                                                                         *)
(* The unit is the 8-byte word, which is what a DIR64 relocation patches.  *)
(* A program is a sequence of items, one for each word.  An item holds     *)
(* code or data with some value, or the address of the program's word      *)
(* number value, or the low word of such an address that is not aligned.   *)
(* Sizes inside the relocation directory are counted in 2-byte entries, a  *)
(* block header being four of them.  The magic numbers and counts of the   *)
(* headers are right in every packed file; a file may be read short.       *)
(***************************************************************************)
EXTENDS Integers, Sequences

CONSTANTS
  PageWords,    \* MM_PAGE_SIZE, which is also SectionAlignment and SectionRva
  FileAlign,    \* FileAlignment
  UserTop,      \* PS_USER_TOP
  ImageMaxSize  \* PS_IMAGE_MAX_SIZE

ASSUME KpeConstants ==
  /\ {PageWords, FileAlign, UserTop, ImageMaxSize} \subseteq Nat \ {0}
  /\ PageWords % FileAlign = 0 /\ PageWords > 1

HeaderWord == -1
BlockHeader == 4
HeaderWords == FileAlign \* SizeOfHeaders
SectionRva  == PageWords

AlignUp64(value, alignment) == ((value + alignment - 1) \div alignment) * alignment

Items == [holds : {"data", "address", "unaligned"}, value : Nat]

(* The words of a program linked to run at a base.  An address stored one  *)
(* byte behind a word boundary shows in its first word moved up by a byte. *)
AddressOf(item, base) == base + SectionRva + item.value - 1
LinkedWord(item, base) ==
  CASE item.holds = "data"      -> item.value
    [] item.holds = "address"   -> AddressOf(item, base)
    [] item.holds = "unaligned" -> 256 * AddressOf(item, base)

LinkedAt(program, base) == [i \in DOMAIN program |-> LinkedWord(program[i], base)]

-----------------------------------------------------------------------------
(* Get-AutoRelocBytes: every word that looks like an RVA or an address of  *)
(* the payload is relocated; one block per page, padded to four bytes with *)
(* an ABSOLUTE entry.                                                      *)
LooksLikeAddress(word, length, base) ==
  \/ word \in SectionRva .. SectionRva + length - 1
  \/ word \in base + SectionRva .. base + SectionRva + length - 1

CandidateRvas(payload, base) ==
  {SectionRva + i - 1 : i \in {j \in DOMAIN payload :
                                 LooksLikeAddress(payload[j], Len(payload), base)}}

(* The members of S below a bound, in ascending order. *)
Ascending(S, bound) ==
  LET below[n \in 0 .. bound] ==
        IF n = 0 THEN <<>>
        ELSE IF n - 1 \in S THEN Append(below[n - 1], n - 1) ELSE below[n - 1]
  IN  below[bound]

PageOf(rva)  == rva - (rva % PageWords)
Dir64(offset) == [type |-> "DIR64", offset |-> offset]
Absolute     == [type |-> "ABSOLUTE", offset |-> 0]

RelocBlock(page, rvas) ==
  LET offsets == Ascending({r - page : r \in {x \in rvas : PageOf(x) = page}}, PageWords)
      entries == [i \in DOMAIN offsets |-> Dir64(offsets[i])]
  IN  [va |-> page,
       entries |-> IF Len(entries) % 2 = 0 THEN entries ELSE Append(entries, Absolute)]

AutoRelocBlocks(payload, base) ==
  LET rvas  == CandidateRvas(payload, base)
      pages == Ascending({PageOf(r) : r \in rvas}, SectionRva + Len(payload))
  IN  [i \in DOMAIN pages |-> RelocBlock(pages[i], rvas)]

SizeOfBlock(block) == BlockHeader + Len(block.entries)
DirectorySize(blocks) ==
  LET total[n \in 0 .. Len(blocks)] ==
        IF n = 0 THEN 0 ELSE total[n - 1] + SizeOfBlock(blocks[n])
  IN  total[Len(blocks)]

(* The words of the relocation section stand for its blocks. *)
RelocWord(i) == -1 - i

(* kpepack.ps1: headers, .text and, if anything is relocated, .reloc. *)
Pack(program, base, subsystem) ==
  LET payload == LinkedAt(program, base)
      blocks  == AutoRelocBlocks(payload, base)
      relocWords == AlignUp64(DirectorySize(blocks), 4) \div 4
      relocVa == AlignUp64(SectionRva + Len(payload), PageWords)
      rawSize == AlignUp64(Len(payload), FileAlign)
      relocRaw == AlignUp64(relocWords, FileAlign)
      text  == [va |-> SectionRva, virtual |-> Len(payload), raw |-> rawSize, pointer |-> HeaderWords]
      reloc == [va |-> relocVa, virtual |-> relocWords, raw |-> relocRaw,
                pointer |-> HeaderWords + rawSize]
      hasReloc == blocks # <<>>
      size == HeaderWords + rawSize + relocRaw
  IN
  [subsystem |-> subsystem, imageBase |-> base, entry |-> SectionRva, dynamicBase |-> TRUE,
   sizeOfImage |-> IF hasReloc THEN AlignUp64(relocVa + relocWords, PageWords) ELSE relocVa,
   sections |-> IF hasReloc THEN <<text, reloc>> ELSE <<text>>,
   relocVa |-> IF hasReloc THEN relocVa ELSE 0,
   relocSize |-> DirectorySize(blocks), relocWords |-> relocWords, blocks |-> blocks,
   size |-> size,
   words |-> [w \in 0 .. size - 1 |->
     IF w < HeaderWords THEN HeaderWord
     ELSE IF w < HeaderWords + Len(payload) THEN payload[w - HeaderWords + 1]
     ELSE IF w \in HeaderWords + rawSize .. HeaderWords + rawSize + relocWords - 1
          THEN RelocWord(w - HeaderWords - rawSize + 1)
     ELSE 0]]

(* What ReadWholeFile or a caller's buffer holds may be a prefix of it. *)
CutTo(file, size) == [file EXCEPT !.size = size]

-----------------------------------------------------------------------------
FileRangeValid(fileSize, offset, size) == offset <= fileSize /\ size <= fileSize - offset

RawDataInFile(file) ==
  \A i \in DOMAIN file.sections :
    LET s == file.sections[i]
    IN  s.raw = 0 \/ FileRangeValid(file.size, s.pointer, s.raw)

(* The DOS, NT and section headers are in the file, for this subsystem. *)
HeadersValid(file, subsystem) ==
  /\ file.size >= HeaderWords
  /\ file.subsystem = subsystem
  /\ file.entry < file.sizeOfImage

ValidateKpeImage(file) ==
  /\ HeadersValid(file, "KERNEL")
  /\ \A i \in DOMAIN file.sections :
       LET s == file.sections[i]
       IN  s.va < file.sizeOfImage /\ s.va + AlignUp64(s.virtual, PageWords) <= file.sizeOfImage
  /\ RawDataInFile(file)

(* The headers and the raw data of the sections, in order.  The kernel's   *)
(* loader also clears what is left of VirtualSize; the user loader relies  *)
(* on zeroed pages.                                                        *)
CopyHeaders(memory, file) ==
  [r \in DOMAIN memory |-> IF r < HeaderWords /\ r < file.size THEN file.words[r] ELSE memory[r]]

CopySection(memory, s, words) ==
  [r \in DOMAIN memory |->
     IF r \in s.va .. s.va + s.raw - 1 THEN words[s.pointer + r - s.va] ELSE memory[r]]

ClearRest(memory, s) ==
  [r \in DOMAIN memory |-> IF r \in s.va + s.raw .. s.va + s.virtual - 1 THEN 0 ELSE memory[r]]

CopySections(memory, file, clear) ==
  LET after[n \in 0 .. Len(file.sections)] ==
        IF n = 0 THEN memory
        ELSE LET s == file.sections[n]
                 copied == CopySection(after[n - 1], s, file.words)
             IN  IF clear THEN ClearRest(copied, s) ELSE copied
  IN  after[Len(file.sections)]

ZeroImage(memory) == [r \in DOMAIN memory |-> 0]

-----------------------------------------------------------------------------
(* Relocation.  The walk keeps its status, the memory and the cursor into  *)
(* the directory.                                                          *)
Walk(memory) == [ok |-> TRUE, memory |-> memory, cursor |-> 0]
Stop(walk)   == [walk EXCEPT !.ok = FALSE]

PatchEveryEntry(walk, entry, va, file, delta) ==   \* mutant: padding is patched too
  [walk EXCEPT !.memory[va + entry.offset] = @ + delta]
PatchEntry(walk, entry, va, file, delta) ==
  IF ~ walk.ok \/ entry.type = "ABSOLUTE" THEN walk
  ELSE IF entry.type # "DIR64" \/ va + entry.offset + 1 > file.sizeOfImage THEN Stop(walk)
  ELSE [walk EXCEPT !.memory[va + entry.offset] = @ + delta]

PatchEntries(walk, block, file, delta) ==
  LET after[n \in 0 .. Len(block.entries)] ==
        IF n = 0 THEN walk
        ELSE PatchEntry(after[n - 1], block.entries[n], block.va, file, delta)
  IN  after[Len(block.entries)]

PatchBlock(walk, block, file, delta, wholePages) ==
  IF ~ walk.ok \/ walk.cursor + BlockHeader > file.relocSize THEN walk
  ELSE IF \/ wholePages /\ block.va + PageWords > file.sizeOfImage
          \/ walk.cursor + SizeOfBlock(block) > file.relocSize
  THEN Stop(walk)
  ELSE [PatchEntries(walk, block, file, delta) EXCEPT !.cursor = walk.cursor + SizeOfBlock(block)]

PatchBlocks(walk, file, delta, wholePages) ==
  LET after[n \in 0 .. Len(file.blocks)] ==
        IF n = 0 THEN walk ELSE PatchBlock(after[n - 1], file.blocks[n], file, delta, wholePages)
  IN  after[Len(file.blocks)]

(* The directory is read from the loaded image, not from the file. *)
DirectoryLoaded(memory, file) ==
  \A i \in 1 .. file.relocWords : memory[file.relocVa + i - 1] = RelocWord(i)

PatchImage(memory, file, delta, wholePages) ==
  IF \/ file.relocVa = 0 \/ file.relocSize < BlockHeader
     \/ file.relocVa + file.relocWords > file.sizeOfImage
     \/ ~ DirectoryLoaded(memory, file)
  THEN Stop(Walk(memory))
  ELSE PatchBlocks(Walk(memory), file, delta, wholePages)

ApplyKpeBaseRelocations(memory, file, base) ==
  IF base = file.imageBase THEN Walk(memory)
  ELSE PatchImage(memory, file, base - file.imageBase, FALSE)

(* The user loader also asks for DYNAMIC_BASE and for whole pages. *)
PspApplyUserKpeRelocations(memory, file, base) ==
  IF base = file.imageBase THEN Walk(memory)
  ELSE IF ~ file.dynamicBase THEN Stop(Walk(memory))
  ELSE PatchImage(memory, file, base - file.imageBase, TRUE)

-----------------------------------------------------------------------------
Refused == [ok |-> FALSE, base |-> 0, size |-> 0, entry |-> 0, memory |-> <<>>]
Loaded(walk, file, base) ==
  IF ~ walk.ok THEN Refused
  ELSE [ok |-> TRUE, base |-> base, size |-> file.sizeOfImage, entry |-> base + file.entry,
        memory |-> walk.memory]

(* Pages given by the firmware hold whatever was there before. *)
GarbageWord == 7
Garbage(file) == [r \in 0 .. file.sizeOfImage - 1 |-> GarbageWord]

(* LoadKpeImage into pages at base. *)
LoadKpeImageAt(file, base) ==
  IF ~ ValidateKpeImage(file) THEN Refused
  ELSE LET memory == CopySections(CopyHeaders(ZeroImage(Garbage(file)), file), file, TRUE)
       IN  Loaded(ApplyKpeBaseRelocations(memory, file, base), file, base)

(* Where AllocatePages may put the image: at ImageBase if those pages are  *)
(* free, which an address inside a page never is; else, for an image with  *)
(* DYNAMIC_BASE, anywhere.                                                 *)
ImageBases(file, freeBases) ==
  IF file.imageBase \in freeBases /\ file.imageBase % PageWords = 0 THEN {file.imageBase}
  ELSE IF file.dynamicBase THEN freeBases ELSE {}

(* PsSpawnUserKpeFromBuffer up to the relocated image.  MmMapAnonymous     *)
(* gives zeroed pages at NextUserBase, set to the preferred base.          *)
PreferredImageBase(file) == PageOf(file.imageBase)

SectionInImage(file) ==
  \A i \in DOMAIN file.sections :
    file.sections[i].raw = 0 \/ file.sections[i].va + file.sections[i].raw <= file.sizeOfImage

SpawnUserKpe(file) ==
  LET base == PreferredImageBase(file) IN
  IF \/ file.size > ImageMaxSize
     \/ ~ HeadersValid(file, "USER") \/ ~ RawDataInFile(file) \/ ~ SectionInImage(file)
     \/ base = 0 \/ base + file.sizeOfImage >= UserTop
  THEN Refused
  ELSE LET memory == CopySections(CopyHeaders(ZeroImage(Garbage(file)), file), file, FALSE)
       IN  Loaded(PspApplyUserKpeRelocations(memory, file, base), file, base)

-----------------------------------------------------------------------------
(* Where the packer's guess about word i is right: it takes every aligned  *)
(* address for one, data only if its value is that of no address or RVA of *)
(* the payload, and it has no entry for an address that is not aligned.    *)
PackerReads(program, i, base) ==
  \/ program[i].holds = "address"
  \/ /\ program[i].holds = "data"
     /\ ~ LooksLikeAddress(program[i].value, Len(program), base)

(* What a loaded program must look like, said without relocations: the     *)
(* program linked at the base it was loaded at, its headers before it, and *)
(* nothing but zeroes between and after what the file holds.  An image     *)
(* that is not at its ImageBase is so in the words the packer reads right; *)
(* nothing is said of what a wrong or missing relocation leaves.           *)
RunsAt(program, file, image) ==
  /\ image.entry = image.base + SectionRva
  /\ \A r \in 0 .. image.size - 1 :
       LET i == r - SectionRva + 1 IN
       IF i \in DOMAIN program
       THEN image.base = file.imageBase \/ PackerReads(program, i, file.imageBase)
              => image.memory[r] = LinkedAt(program, image.base)[i]
       ELSE IF r < HeaderWords THEN image.memory[r] = HeaderWord
       ELSE IF r \in file.relocVa .. file.relocVa + file.relocWords - 1
            THEN image.memory[r] = RelocWord(r - file.relocVa + 1)
       ELSE image.memory[r] = 0
=============================================================================
