----------------------------- MODULE MCElfLoader -----------------------------
(* A window of four two-byte pages at address 4 of a 16-byte address space. *)
EXTENDS ElfLoader

Seg(v, m, fz, fl, al) ==
    [type |-> "LOAD", flags |-> fl, offset |-> 1, vaddr |-> v, filesz |-> fz,
     memsz |-> m, align |-> al]

RX == {"R", "X"}
RW == {"R", "W"}

(* Well-formed segments: aligned and not, in one page and across pages. *)
Plain == {Seg(v, m, 1, fl, 1) : v \in {4, 5, 8, 9}, m \in {1, 3}, fl \in {RX, RW, {"R"}}}

(* Segments at the limits of the checks, one on each side. *)
Edge == { Seg(4, 8, 3, RX, 0), Seg(4, 9, 1, RX, 0), Seg(5, 15, 1, RW, 1),
          Seg(11, 1, 1, RW, 1), Seg(12, 1, 1, RW, 1), Seg(12, 0, 0, RW, 1),
          Seg(3, 2, 1, RX, 1), Seg(4, 2, 3, RX, 1), Seg(4, 2, 2, RW \cup RX, 1),
          Seg(5, 2, 1, RX, 2), Seg(4, 2, 1, RX, 2), Seg(4, 2, 1, RX, 3),
          Seg(15, 3, 1, RW, 1), Seg(13, 2, 1, RW, 1), Seg(4, 4, 4, RX, 0),
          [Seg(4, 2, 1, RX, 1) EXCEPT !.type = "OTHER"] }

Image(ph, e) == [size |-> 4, ident |-> TRUE, phoff |-> 1, entry |-> e, phdrs |-> ph]

OneBase == Image(<<Seg(4, 2, 1, RX, 1)>>, 4)

Rejected == { [OneBase EXCEPT !.size = 0], [OneBase EXCEPT !.ident = FALSE],
              [OneBase EXCEPT !.phoff = 4], [OneBase EXCEPT !.entry = 12],
              [OneBase EXCEPT !.entry = 3], Image(<<>>, 4),
              Image(<<Seg(4, 2, 1, RX, 1), Seg(8, 1, 1, RW, 1), Seg(4, 2, 1, RX, 1)>>, 4) }

(* A file is identified with its contents. *)
MCFiles ==
    {Image(<<s, t>>, 5) : s \in Plain, t \in Plain}
        \cup {Image(<<s>>, e) : s \in Plain \cup Edge, e \in {4, 6}}
        \cup {Image(<<Seg(4, 2, 1, RX, 1), s>>, 4) : s \in Edge}
        \cup Rejected

MCElf == [f \in MCFiles |-> f]
=============================================================================
