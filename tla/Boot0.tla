-------------------------------- MODULE Boot0 --------------------------------
(***************************************************************************)
(* The SPL, nboot/: main() finds a boot package on the medium it started   *)
(* from, checks its sum, copies or unpacks its items and enters one of     *)
(* them; what goes wrong on the way ends in FEL, the ROM's USB loader.     *)
(*                                                                         *)
(* A medium is a sequence of blocks.  A package is as many of them long as *)
(* Length says; a block holds one part of one, or several copies ("slots") *)
(* of a package of one block.  A word of the package that is not the one   *)
(* written makes its part Nil, and the sum is taken to notice.             *)
(***************************************************************************)
EXTENDS Boot0Heap, FiniteSets

CONSTANTS
  Version, Nil,  \* the packages ever written, and none of them
  Length,        \* [Version -> Nat]: valid_len in blocks
  Slots,         \* [Version -> Nat]: copies of it one block has room for
  Items,         \* [Version -> Seq([name, part])]: its table, and where the images are
  Stores,        \* the boards to start on: a set of [medium, blocks, heap]
  Stale,         \* what the package buffer can hold at reset: a set of buffers
  Starts,        \* the two places a package has on a card
  NextBlock,     \* uboot_next_block; the first block is 1
  PackageBase,   \* CONFIG_BOOTPKG_BASE
  ProbsSizes     \* what LZMA properties ask for

ASSUME Boot0Assumption ==
  /\ Nil \notin Version
  /\ Length \in [Version -> Nat \ {0}] /\ Slots \in [Version -> Nat]
  /\ \A v \in Version : /\ Length[v] = 1 => Slots[v] > 0
                        /\ Items[v] \in Seq([name : STRING, part : 1 .. Length[v]])
  /\ \A s \in Stores : /\ s.medium \in {"sdmmc", "rawnand", "spinand", "spinor"}
                       /\ s.heap \in Nat
                       /\ Len(s.blocks) \in Nat /\ DOMAIN s.blocks = 1 .. Len(s.blocks)
                       /\ \A i \in DOMAIN s.blocks :
                            /\ s.blocks[i].ver \in Version \union {Nil}
                            /\ s.blocks[i].empty => 0 \notin s.blocks[i].whole
  /\ \A b \in Stale : /\ b = [head |-> b.head, body |-> b.body]
                      /\ b.head \in Version \union {Nil}
                      /\ \A p \in DOMAIN b.body : b.body[p] \in Version \union {Nil}
                      /\ \A v \in Version : 1 .. Length[v] \subseteq DOMAIN b.body
  /\ Starts \in Seq(Nat) /\ NextBlock \in Nat
  /\ PackageBase \in Nat /\ ProbsSizes \subseteq Nat

VARIABLES
  pc,
  store,        \* [medium, blocks, heap]: the medium, CONFIG_HEAP_SIZE
  block,        \* where the copy in hand starts (for a card: which of Starts)
  at, part,     \* the next block to read, and which part goes there
  slot,         \* which copy in the block
  buffer,       \* [head, body]: the memory at CONFIG_BOOTPKG_BASE
  item,         \* i of load_image
  image,        \* [Role -> STRING]: what is at *uboot_base, ..., "none" while that is 0
  held,         \* what the decoder has allocated, oldest first
  unpacked,     \* whether the decoder at work succeeds; what load_image returns
  entered,      \* history: the image jumped to
  failed        \* history: why load_package failed

searchVars == <<block, at, part, slot, buffer>>
loadVars   == <<item, image, held, unpacked, heapVars>>
vars       == <<pc, store, searchVars, loadVars, entered, failed>>

Role == {"u-boot", "optee", "monitor", "rtos", "opensbi"}

Init ==
  /\ pc = "board"
  /\ store \in Stores
  /\ block = 1 /\ at = 1 /\ part = 1 /\ slot = 1
  /\ buffer \in Stale
  /\ item = 1
  /\ image = [r \in Role |-> "none"]
  /\ held = <<>> /\ unpacked = TRUE /\ HeapInit
  /\ entered = "none" /\ failed = "no"

On(m) == store.medium = m

\* Behind the blocks the model knows the file systems begin: nothing bad, no package.
Foreign == [bad |-> FALSE, reads |-> TRUE, ver |-> Nil, part |-> 1, whole |-> {}, empty |-> FALSE]
BlockAt(i) == IF i \in DOMAIN store.blocks THEN store.blocks[i] ELSE Foreign

\* 0 \in whole says the head at the start of the block is as written: its magic
\* is right and its length aligned.
HeadOf(b) == IF b.part = 1 /\ 0 \in b.whole THEN b.ver ELSE Nil

\* A head damaged so that its magic is right and its length 0: a multiple of
\* ALIGN_SIZE that fits a block.
EmptyHead(b) == b.empty /\ b.part = 1 /\ b.ver # Nil

Fragment(b, p) == IF b.part = p /\ 1 \in b.whole THEN b.ver ELSE Nil
CopyIn(b, s) == IF b.part = 1 /\ s \in b.whole THEN b.ver ELSE Nil

\* Mutant: the sum runs over the first part only.
VerifiedFirst(buf) == buf.head # Nil /\ buf.body[1] = buf.head

\* verify_addsum over the length the head gives
Verified(buf) ==
  buf.head # Nil /\ \A p \in 1 .. Length[buf.head] : buf.body[p] = buf.head

Goto(l) == pc' = l

\* continue: the next copy.
NextCopy ==
  /\ Goto("search")
  /\ block' = block + 1
  /\ UNCHANGED <<at, part, slot>>

\* return -1, and main's _BOOT_ERROR
Fel(why) ==
  /\ Goto("fel")
  /\ failed' = why
  /\ UNCHANGED <<block, at, part, slot>>

\* verify_addsum over no words: its count wraps below 0 and it reads on and on.
Astray ==
  /\ Goto("astray")
  /\ UNCHANGED <<block, at, part, slot, failed>>

\* return 0, and on to load_image
Loaded ==
  /\ Goto("items")
  /\ UNCHANGED <<block, at, part, slot>>

Searching == UNCHANGED <<store, loadVars, entered>>

-----------------------------------------------------------------------------
(* main, up to load_package *)

\* A failure before the package is looked for, or the FEL flag, or a '2' typed.
BoardError ==
  /\ pc = "board"
  /\ Fel("board")
  /\ Searching /\ UNCHANGED buffer

Board ==
  /\ pc = "board"
  /\ Goto("search")
  /\ MallocInit(store.heap)
  /\ UNCHANGED <<store, searchVars, item, image, held, unpacked, entered, failed>>

\* The medium does not open.
OpenError ==
  /\ pc = "search" /\ block = 1
  /\ Fel("open")
  /\ Searching /\ UNCHANGED buffer

-----------------------------------------------------------------------------
(* load_toc1_from_sdmmc: a read that fails ends the search. *)

\* The first 64 sectors, which are the first part.
SdmmcHead ==
  /\ pc = "search" /\ On("sdmmc")
  /\ IF block > Len(Starts)
     THEN Fel("none left") /\ UNCHANGED buffer
     ELSE LET b == BlockAt(Starts[block]) IN
          \/ /\ ~b.reads
             /\ Fel("read") /\ UNCHANGED buffer
          \/ /\ b.reads
             /\ buffer' = [buffer EXCEPT !.head = HeadOf(b), !.body[1] = Fragment(b, 1)]
             /\ \/ EmptyHead(b) /\ Astray
                \/ HeadOf(b) = Nil /\ ~EmptyHead(b) /\ NextCopy /\ UNCHANGED failed
                \/ /\ HeadOf(b) # Nil
                   /\ Goto("rest")
                   /\ UNCHANGED <<block, at, part, slot, failed>>
  /\ Searching

SdmmcRest ==
  /\ pc = "rest" /\ On("sdmmc")
  /\ LET rest == 2 .. Length[buffer.head]
         B(p) == BlockAt(Starts[block] + p - 1)
     IN
     IF \E p \in rest : ~B(p).reads
     THEN Fel("read") /\ UNCHANGED buffer
     ELSE /\ buffer' = [buffer EXCEPT !.body =
                          [p \in DOMAIN @ |-> IF p \in rest THEN Fragment(B(p), p) ELSE @[p]]]
          /\ IF Verified(buffer') THEN Loaded ELSE NextCopy
          /\ UNCHANGED failed
  /\ Searching

-----------------------------------------------------------------------------
(* load_toc1_from_rawnand, load_and_check_in_one_blk, load_in_many_blks: a  *)
(* read that fails leaves the buffer as it is, and nobody looks at that.    *)

\* Mutant: the last block is left out.
LastBlockLess == IF On("rawnand") THEN NextBlock - 2 ELSE NextBlock

\* BOOT1_LAST_BLK_NUM, UBOOT_LAST_BLK_NUM
LastBlock == IF On("rawnand") THEN NextBlock - 1 ELSE NextBlock

StartParts ==
  /\ Goto("part")
  /\ at' = block /\ part' = 1
  /\ UNCHANGED <<block, slot>>

RawHead ==
  /\ pc = "search" /\ On("rawnand")
  /\ LET b == BlockAt(block)
         head == IF b.reads THEN HeadOf(b) ELSE buffer.head
     IN
     \/ block > LastBlock /\ Fel("none left") /\ UNCHANGED buffer
     \/ /\ block <= LastBlock /\ b.bad
        /\ NextCopy /\ UNCHANGED <<buffer, failed>>
     \/ /\ block <= LastBlock /\ ~b.bad
        /\ buffer' = [buffer EXCEPT !.head = head]
        /\ \/ b.reads /\ EmptyHead(b) /\ Astray
           \/ head = Nil /\ ~(b.reads /\ EmptyHead(b)) /\ NextCopy
           \/ /\ head # Nil /\ Length[head] = 1
              /\ Goto("slot") /\ slot' = 1
              /\ UNCHANGED <<block, at, part>>
           \/ head # Nil /\ Length[head] > 1 /\ StartParts
        /\ UNCHANGED failed
  /\ Searching

RawSlot ==
  /\ pc = "slot"
  /\ LET b == BlockAt(block) IN
     \/ slot > Slots[buffer.head] /\ NextCopy /\ UNCHANGED buffer
     \/ /\ slot <= Slots[buffer.head]
        /\ buffer' = IF b.reads THEN [buffer EXCEPT !.body[1] = CopyIn(b, slot)] ELSE buffer
        /\ \/ Verified(buffer') /\ Loaded
           \/ /\ ~Verified(buffer')
              /\ slot' = slot + 1
              /\ UNCHANGED <<pc, block, at, part>>
  /\ UNCHANGED failed
  /\ Searching

\* Mutant: the loop goes round without its step.
SkipBadStays ==
  /\ BlockAt(at).bad
  /\ UNCHANGED <<pc, block, at, part, slot, buffer, failed>>

\* Both kinds of flash step over a bad block.
SkipBad ==
  /\ BlockAt(at).bad
  /\ at' = at + 1
  /\ UNCHANGED <<pc, block, part, slot, buffer, failed>>

Store(b) ==
  /\ buffer' = [buffer EXCEPT !.body[part] = Fragment(b, part)]
  /\ at' = at + 1 /\ part' = part + 1
  /\ UNCHANGED <<pc, block, slot, failed>>

Complete == part > Length[buffer.head]

CheckSum ==
  /\ Complete
  /\ IF Verified(buffer) THEN Loaded ELSE NextCopy
  /\ UNCHANGED <<buffer, failed>>

RawPart ==
  /\ pc = "part" /\ On("rawnand")
  /\ \/ CheckSum
     \/ ~Complete /\ at > LastBlock /\ Fel("lack") /\ UNCHANGED buffer
     \/ /\ ~Complete /\ at <= LastBlock
        /\ \/ SkipBad
           \/ ~BlockAt(at).bad /\ BlockAt(at).reads /\ Store(BlockAt(at))
           \/ /\ ~BlockAt(at).bad /\ ~BlockAt(at).reads
              /\ at' = at + 1 /\ part' = part + 1
              /\ UNCHANGED <<pc, block, slot, buffer, failed>>
  /\ Searching

-----------------------------------------------------------------------------
(* load_toc1_from_spinand, Spinand_Load_Boot1_Copy: nothing bounds a copy. *)

SpiHead ==
  /\ pc = "search" /\ On("spinand")
  /\ LET b == BlockAt(block) IN
     \/ block > LastBlock /\ Fel("none left") /\ UNCHANGED buffer
     \/ /\ block <= LastBlock /\ (b.bad \/ ~b.reads)
        /\ NextCopy /\ UNCHANGED <<buffer, failed>>
     \/ /\ block <= LastBlock /\ ~b.bad /\ b.reads
        /\ buffer' = [buffer EXCEPT !.head = HeadOf(b)]
        /\ \/ EmptyHead(b) /\ Astray
           \/ HeadOf(b) = Nil /\ ~EmptyHead(b) /\ NextCopy
           \/ HeadOf(b) # Nil /\ StartParts
        /\ UNCHANGED failed
  /\ Searching

\* Mutant: a part that does not read is left as it is.
SpiPartKept ==
  /\ pc = "part" /\ On("spinand")
  /\ \/ CheckSum
     \/ ~Complete /\ SkipBad
     \/ ~Complete /\ ~BlockAt(at).bad /\ BlockAt(at).reads /\ Store(BlockAt(at))
     \/ /\ ~Complete /\ ~BlockAt(at).bad /\ ~BlockAt(at).reads
        /\ at' = at + 1 /\ part' = part + 1
        /\ UNCHANGED <<pc, block, slot, buffer, failed>>
  /\ Searching

SpiPart ==
  /\ pc = "part" /\ On("spinand")
  /\ \/ CheckSum
     \/ ~Complete /\ SkipBad
     \/ ~Complete /\ ~BlockAt(at).bad /\ BlockAt(at).reads /\ Store(BlockAt(at))
     \/ /\ ~Complete /\ ~BlockAt(at).bad /\ ~BlockAt(at).reads
        /\ NextCopy /\ UNCHANGED <<buffer, failed>>
  /\ Searching

-----------------------------------------------------------------------------
(* load_toc1_from_spinor: one place, and no sum. *)

NorHead ==
  /\ pc = "search" /\ On("spinor")
  /\ LET b == BlockAt(1) IN
     \/ ~b.reads /\ Fel("read") /\ UNCHANGED buffer
     \/ /\ b.reads
        /\ buffer' = [buffer EXCEPT !.head = IF EmptyHead(b) THEN b.ver ELSE HeadOf(b)]
        /\ \/ EmptyHead(b) /\ Loaded /\ UNCHANGED failed   \* no sector follows
           \/ HeadOf(b) = Nil /\ ~EmptyHead(b) /\ Fel("none left")
           \/ HeadOf(b) # Nil /\ StartParts /\ UNCHANGED failed
  /\ Searching

NorRest ==
  /\ pc = "part" /\ On("spinor")
  /\ LET parts == 1 .. Length[buffer.head] IN
     IF \E p \in parts : ~BlockAt(p).reads
     THEN Fel("read") /\ UNCHANGED buffer
     ELSE /\ buffer' = [buffer EXCEPT !.body =
                [p \in DOMAIN @ |-> IF p \in parts THEN Fragment(BlockAt(p), p) ELSE @[p]]]
          /\ Loaded /\ UNCHANGED failed
  /\ Searching

-----------------------------------------------------------------------------
(* load_image *)

Table == Items[buffer.head]
Entry == Table[item]
Intact(e) == buffer.body[e.part] = buffer.head

Compressed == {"melis-gz", "melis-lz4", "melis-lzma"}

\* *uboot_base, *optee_base, ...: "melis" stands for freertos too.
RoleOf(name) == IF name \in Compressed \union {"melis"} THEN "rtos" ELSE name

Loading == UNCHANGED <<store, searchVars, entered, failed>>

\* The image is where it says it runs.
CopyItem ==
  /\ pc = "items" /\ item <= Len(Table) /\ Entry.name \notin Compressed
  /\ image' = IF RoleOf(Entry.name) \in Role
              THEN [image EXCEPT ![RoleOf(Entry.name)] = IF Intact(Entry) THEN "whole" ELSE "damaged"]
              ELSE image   \* a tree, a logo: it gets no base of its own
  /\ item' = item + 1
  /\ UNCHANGED <<pc, held, unpacked, heapVars>>
  /\ Loading

\* rtos_base is set before the decoder runs.
Unpack(name) ==
  /\ pc = "items" /\ item <= Len(Table) /\ Entry.name = name
  /\ image' = [image EXCEPT !["rtos"] = "damaged"]

\* load_image returns -1, which main does not look at.
GiveUp == unpacked' = FALSE /\ Goto("jump")

\* gunzip up to inflateInit2
GzInit ==
  /\ Unpack("melis-gz")
  /\ \/ GiveUp /\ UNCHANGED <<heapVars, held>>   \* a bad header
     \/ MallocFails(9552) /\ GiveUp /\ UNCHANGED held
     \/ /\ Malloc(9552)                       \* struct inflate_state
        /\ held' = <<Address(9552)>>
        /\ Goto("inflate") /\ UNCHANGED unpacked
  /\ UNCHANGED item
  /\ Loading

\* The decoder is done, well or not.
Decoded(well) ==
  /\ unpacked' = well
  /\ image' = [image EXCEPT !["rtos"] = IF well /\ Intact(Entry) THEN "whole" ELSE "damaged"]
  /\ Goto("release")

\* inflate: when input or output ends before the stream it asks for a window,
\* and zunzip takes that for an error.
Inflate ==
  /\ pc = "inflate"
  /\ \/ \E well \in BOOLEAN : Decoded(well) /\ UNCHANGED <<heapVars, held>>
     \/ Decoded(FALSE) /\ MallocFails(32768) /\ UNCHANGED held
     \/ Decoded(FALSE) /\ Malloc(32768) /\ held' = Append(held, Address(32768))
  /\ UNCHANGED item
  /\ Loading

\* lzmaBuffToBuffDecompress up to LzmaDec_AllocateProbs
LzmaInit ==
  /\ Unpack("melis-lzma")
  /\ \/ GiveUp /\ UNCHANGED <<heapVars, held>>   \* a size or properties it refuses
     \/ \E n \in ProbsSizes :
          \/ MallocFails(n) /\ GiveUp /\ UNCHANGED held
          \/ /\ Malloc(n)
             /\ held' = <<Address(n)>>
             /\ Goto("lzma") /\ UNCHANGED unpacked
  /\ UNCHANGED item
  /\ Loading

LzmaDecode ==
  /\ pc = "lzma"
  /\ \E well \in BOOLEAN : Decoded(well)
  /\ UNCHANGED <<heapVars, held, item>>
  /\ Loading

\* ulz4fn allocates nothing.
Lz4 ==
  /\ pc = "items" /\ item <= Len(Table) /\ Entry.name = "melis-lz4"
  /\ \E well \in BOOLEAN : Decoded(well)
  /\ UNCHANGED <<heapVars, held, item>>
  /\ Loading

\* Mutant: what the decoder allocated stays.
ReleaseNothing ==
  /\ pc = "release" /\ held # <<>>
  /\ held' = Front(held)
  /\ UNCHANGED <<pc, item, image, unpacked, heapVars>>
  /\ Loading

\* Mutant: the pointer to a freed block is kept.
ReleaseKept ==
  /\ pc = "release" /\ held # <<>>
  /\ Free(Last(held))
  /\ UNCHANGED <<pc, item, image, held, unpacked>>
  /\ Loading

\* inflateEnd (the window, then the state), LzmaDec_FreeProbs
Release ==
  /\ pc = "release" /\ held # <<>>
  /\ Free(Last(held))
  /\ held' = Front(held)
  /\ UNCHANGED <<pc, item, image, unpacked>>
  /\ Loading

Unpacked ==
  /\ pc = "release" /\ held = <<>>
  /\ IF unpacked THEN Goto("items") /\ item' = item + 1 ELSE Goto("jump") /\ UNCHANGED item
  /\ UNCHANGED <<image, held, unpacked, heapVars>>
  /\ Loading

\* Mutant: the loop ends one item early.
ItemsShort ==
  /\ pc = "items" /\ item >= Len(Table)
  /\ Goto("jump")
  /\ UNCHANGED loadVars
  /\ Loading

ItemsDone ==
  /\ pc = "items" /\ item > Len(Table)
  /\ Goto("jump")
  /\ UNCHANGED loadVars
  /\ Loading

-----------------------------------------------------------------------------
(* main, after load_image *)

Order == <<"opensbi", "monitor", "optee", "rtos">>

\* The first of them that has a base, or U-Boot, whether it has one or not.
Target ==
  IF \E k \in DOMAIN Order : image[Order[k]] # "none"
  THEN Order[CHOOSE k \in DOMAIN Order :
               image[Order[k]] # "none" /\ \A j \in 1 .. k - 1 : image[Order[j]] = "none"]
  ELSE "u-boot"

\* boot0_jmp_monitor does nothing without CONFIG_MONITOR, and main spins.
Jump ==
  /\ pc = "jump"
  /\ entered' = Target
  /\ Goto(IF Target = "monitor" THEN "hung" ELSE "jumped")
  /\ UNCHANGED <<store, searchVars, loadVars, failed>>

Next ==
  \/ BoardError \/ Board \/ OpenError
  \/ SdmmcHead \/ SdmmcRest
  \/ RawHead \/ RawSlot \/ RawPart
  \/ SpiHead \/ SpiPart
  \/ NorHead \/ NorRest
  \/ CopyItem \/ GzInit \/ Inflate \/ LzmaInit \/ LzmaDecode \/ Lz4 \/ Release \/ Unpacked \/ ItemsDone
  \/ Jump

Spec == Init /\ [][Next]_vars

\* One processor runs main and nothing else.
FairSpec == Spec /\ WF_vars(Next)

-----------------------------------------------------------------------------
(* What a medium holds, said without the search. *)

\* A copy in consecutive blocks that are not bad, from block i to the last allowed one.
FlashCopy(i, v, last) ==
  \E to \in i .. last :
    LET good == {j \in i .. to : ~BlockAt(j).bad} IN
    /\ ~BlockAt(i).bad /\ HeadOf(BlockAt(i)) = v
    /\ Cardinality(good) = Length[v]
    /\ \A j \in good : /\ BlockAt(j).reads
                       /\ Fragment(BlockAt(j), Cardinality({k \in good : k <= j})) = v

\* A copy in a slot of a block.
SlotCopy(i, v) ==
  /\ Length[v] = 1 /\ ~BlockAt(i).bad /\ BlockAt(i).reads /\ HeadOf(BlockAt(i)) = v
  /\ \E s \in 1 .. Slots[v] : CopyIn(BlockAt(i), s) = v

\* A copy in consecutive blocks from block i, bad or not.
PlainCopy(i, v) ==
  /\ HeadOf(BlockAt(i)) = v
  /\ \A p \in 1 .. Length[v] : BlockAt(i + p - 1).reads /\ Fragment(BlockAt(i + p - 1), p) = v

\* An intact copy of v starts at place i, where the medium's search looks.
CopyAt(i, v) ==
  \/ On("sdmmc") /\ PlainCopy(Starts[i], v)
  \/ On("rawnand") /\ (SlotCopy(i, v) \/ FlashCopy(i, v, NextBlock - 1))
  \/ On("spinand") /\ FlashCopy(i, v, Len(store.blocks))
  \/ On("spinor") /\ PlainCopy(i, v)

Places ==
  CASE On("sdmmc") -> DOMAIN Starts
    [] On("rawnand") -> 1 .. NextBlock - 1
    [] On("spinand") -> 1 .. NextBlock
    [] On("spinor") -> {1}

HasPackage == pc \in {"items", "inflate", "lzma", "release", "jump", "jumped", "hung"}

-----------------------------------------------------------------------------
(* Correctness *)

\* Types of the variables.
TypeOK ==
  /\ pc \in {"board", "search", "rest", "slot", "part", "items", "inflate", "lzma",
             "release", "jump", "jumped", "hung", "fel", "astray"}
  /\ store \in Stores
  /\ block \in Nat \ {0} /\ at \in Nat \ {0} /\ part \in Nat \ {0} /\ slot \in Nat \ {0}
  /\ buffer.head \in Version \union {Nil}
  /\ \A p \in DOMAIN buffer.body : buffer.body[p] \in Version \union {Nil}
  /\ item \in Nat \ {0}
  /\ image \in [Role -> {"none", "damaged", "whole"}]
  /\ chain \in Seq(Block) /\ boot_heap_tail \in Nat
  /\ held \in Seq({chain[k].address : k \in DOMAIN chain}) /\ unpacked \in BOOLEAN
  /\ entered \in Role \union {"none"}
  /\ failed \in {"no", "board", "open", "read", "lack", "none left"}

\* No medium but the NOR flash lets a package go on whose parts are not all of
\* the version its head names, whatever bad blocks, torn updates or memory from
\* before the reset went into the buffer (verify_addsum at the end of every path).
PackageIntact ==
  HasPackage /\ ~On("spinor") =>
    \E v \in Version : buffer.head = v /\ \A p \in 1 .. Length[v] : buffer.body[p] = v

\* The package that goes on is the one stored at the place where the search stands:
\* nothing of it is left from before the reset.  On raw NAND only as long as
\* every block reads, since NF_read's failure is not looked at (load_image_nand.c:49).
BootsWhatIsStored ==
  HasPackage /\ ~On("spinor") =>
    \/ CopyAt(block, buffer.head)
    \/ On("rawnand") /\ \E i \in 1 .. NextBlock - 1 : ~BlockAt(i).reads

\* The search that ends with nothing left has passed no copy that was intact; the
\* one that lacks blocks leaves none behind that is as long as the one it sought.
\* A search also stops at a read error, where it promises nothing of the places behind.
\* One that goes astray at a head of length 0 has not given up, and finds nothing more.
IntactCopyFound ==
  pc = "fel" =>
    \A i \in Places, v \in Version : CopyAt(i, v) =>
      /\ failed # "none left"
      /\ failed = "read" => i > block
      /\ failed = "lack" => Length[v] < Length[buffer.head]

\* Every package brings something to enter.
Bootable == \A v \in Version : \E k \in DOMAIN Items[v] : RoleOf(Items[v][k].name) \in Role

\* The image that is entered, and the U-Boot that OpenSBI is told of, are whole,
\* unless a decoder failed or nothing checked the package.
EnteredWhole ==
  pc = "jumped" /\ ~On("spinor") /\ unpacked =>
    /\ image[entered] = "whole"
    /\ (\E k \in DOMAIN Table : Table[k].name = "u-boot") => image["u-boot"] = "whole"

\* What the decoders ask for ends below the package.
DecodersFit ==
  /\ HeapBase + 2 * Node + Align(9552) + Align(32768) <= PackageBase
  /\ \A n \in ProbsSizes : HeapBase + Node + Align(n) <= PackageBase

\* The heap reaches over the package (CONFIG_HEAP_SIZE is twice the way to it):
\* what the decoders hold stays below while the package is still read.
PackageKept ==
  pc \in {"items", "inflate", "lzma", "release"} =>
    \A k \in DOMAIN chain : End(chain[k]) <= PackageBase

\* main comes to an end, and another program or FEL runs, on every medium on which
\* no head says length 0 (one that does leads verify_addsum out of memory).
Ends ==
  (\A i \in DOMAIN store.blocks : ~EmptyHead(store.blocks[i]))
    => <>(pc \in {"jumped", "hung", "fel"})
=============================================================================
