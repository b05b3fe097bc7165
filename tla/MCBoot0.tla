------------------------------- MODULE MCBoot0 -------------------------------
(***************************************************************************)
(* An instance of Boot0 for TLC: media of four blocks with every mix of    *)
(* the kinds of block below, the D1's addresses.                           *)
(***************************************************************************)
EXTENDS Boot0

\* 1 fits a block twice, 2 and 3 take two blocks; 4, 5 and 6 only differ in
\* what is in them.
SixVersions == 1 .. 6
SomeLengths == <<1, 2, 2, 1, 1, 1>>
SomeSlots == <<2, 0, 0, 2, 2, 2>>

I(name, p) == [name |-> name, part |-> p]
SomeItems == <<
  <<I("opensbi", 1), I("u-boot", 1)>>,
  <<I("u-boot", 1), I("logo", 2), I("opensbi", 2)>>,
  <<I("u-boot", 1), I("opensbi", 2)>>,
  <<I("melis-gz", 1), I("melis-lz4", 1), I("melis", 1)>>,
  <<I("melis-lzma", 1), I("melis-lzma", 1), I("melis-gz", 1)>>,
  <<I("optee", 1), I("u-boot", 1)>> >>

Reads(v, p, whole) ==
  [bad |-> FALSE, reads |-> TRUE, ver |-> v, part |-> p, whole |-> whole, empty |-> FALSE]

Blank == Reads(Nil, 1, {})
Unreadable == [Blank EXCEPT !.reads = FALSE]
Bad == [Blank EXCEPT !.bad = TRUE]

OnCards == {
  Blank, Unreadable,
  Reads(1, 1, {0, 1}), Reads(1, 1, {0}),
  Reads(2, 1, {0, 1}), Reads(2, 1, {0}), Reads(2, 2, {1}), Reads(3, 2, {1})}

\* A damaged first slot, a damaged head.
OnFlash == (OnCards \ {Reads(2, 1, {0})})
             \union {Bad, Reads(1, 1, {0, 2}), Reads(1, 1, {2})}

\* A length of 0 before an intact package, on the media that have one.
Empty == [Reads(1, 1, {1, 2}) EXCEPT !.empty = TRUE]
WithEmpty == {Blank, Bad, Unreadable, Reads(1, 1, {0, 1}), Empty}

Fill(s, n) == s \o [k \in 1 .. n |-> Blank]

MB == 1048576

\* Besides the D1's heap, for the packages that need one: the state of inflate
\* just fits, it lacks a byte.
SomeStores ==
  [medium : {"sdmmc"}, blocks : [1 .. 4 -> OnCards], heap : {16 * MB}]
    \union [medium : {"sdmmc"}, blocks : {Fill(<<Reads(v, 1, {0, 1})>>, 3) : v \in 4 .. 6},
            heap : {16 * MB, 9552 + 2 * Node, 9551 + 2 * Node}]
    \union [medium : {"rawnand", "spinand"}, blocks : [1 .. 4 -> OnFlash], heap : {16 * MB}]
    \union [medium : {"spinor"}, blocks : {Fill(s, 2) : s \in [1 .. 2 -> OnCards]}, heap : {16 * MB}]
    \union [medium : {"sdmmc", "rawnand", "spinand", "spinor"},
            blocks : {Fill(s, 1) : s \in [1 .. 3 -> WithEmpty]}, heap : {16 * MB}]

\* After power-on, and after a reset with the package of the last start still in memory.
SomeStale == {[head |-> Nil, body |-> <<Nil, Nil>>], [head |-> 2, body |-> <<2, 2>>],
              [head |-> 1, body |-> <<1, Nil>>]}

TwoStarts == <<1, 3>>

\* lc = 3 and lp = 0; lc = 8 and lp = 4: 2 * (1846 + 768 * 2^(lc + lp))
SomeProbs == {15980, 6295148}

\* What the theorems on the images and on the package's memory ask of the constants.
ASSUME HypothesesHold == Bootable /\ DecodersFit
=============================================================================
