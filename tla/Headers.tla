------------------------------ MODULE Headers ------------------------------
(* Lists of headers (header.c): the lines one after the other in one buffer,  *)
(* each ended by a NUL and the line feed that is left of its CRLF, with an    *)
(* index of where they begin. Lists are read off the wire (read_encaps_header *)
(* and ci_headers_unpack), edited, and packed to be sent. A character is a    *)
(* one-letter string; names of headers have one letter. Memory does not run   *)
(* out.                                                                       *)
EXTENDS Integers, Sequences
LOCAL INSTANCE SequencesExt

CONSTANTS
  Lines,          \* lines that are received or added, sequences of characters
  Names,          \* names that are searched for and removed
  HEADSBUFSIZE, HEADERSTARTSIZE,
  MaxLines, MaxEdits   \* bounds: lines of a list, edits of a list

VARIABLES
  h,              \* buf, bufused, headers, size, packed
  lines,          \* the lines a plain sequence would hold
  cut,            \* the last edit removed a line that was not the last one
  edits

vars == <<h, lines, cut, edits>>

NUL == "0"
CR == "r"
LF == "n"

\* Up to a length, in steps of a block.
Grown(have, need, step) ==
  IF need <= have THEN have ELSE have + ((need - have + step - 1) \div step) * step

Padded(buf, n) == buf \o [i \in 1 .. n - Len(buf) |-> "?"]

ci_headers_create ==
  [buf |-> Padded(<<>>, HEADSBUFSIZE), bufused |-> 0, headers |-> <<>>,
   size |-> HEADERSTARTSIZE, packed |-> FALSE]

Put(buf, at, s) == [i \in DOMAIN buf |-> IF i - at \in 0 .. Len(s) - 1
                                         THEN s[i - at + 1] ELSE buf[i]]

\* Positions count from 1. The NUL that ends the string at p.
EndOf(buf, p) == CHOOSE q \in p .. Len(buf) : /\ buf[q] = NUL
                                              /\ \A k \in p .. q - 1 : buf[k] # NUL
LineAt(x, i) == SubSeq(x.buf, x.headers[i], EndOf(x.buf, x.headers[i]) - 1)

\* A bug: one character between the lines instead of two.
Reindexed_late(buf, used) ==
  LET at[i \in 1 .. used] == IF i = 1 THEN 1 ELSE EndOf(buf, at[i - 1]) + 1
  IN [i \in 1 .. used |-> at[i]]

\* The index when the lines follow each other two characters apart.
Reindexed(buf, used) ==
  LET at[i \in 1 .. used] == IF i = 1 THEN 1 ELSE EndOf(buf, at[i - 1]) + 2
  IN [i \in 1 .. used |-> at[i]]

Used(x) == Len(x.headers)

ci_headers_add(x, line) ==
  LET new == Grown(Len(x.buf), x.bufused + Len(line) + 4, HEADSBUFSIZE)
      moved == Padded(x.buf, new)
      index == IF new > Len(x.buf) THEN Reindexed(moved, Used(x)) ELSE x.headers
      at == x.bufused + 1
      ended == Put(Put(moved, at, line \o <<NUL, LF>>), at + Len(line) + 3, <<LF>>)
  IN [x EXCEPT !.buf = ended, !.bufused = @ + Len(line) + 2,
               !.headers = Append(index, at),
               !.size = IF Used(x) = @ THEN @ + HEADERSTARTSIZE ELSE @]

ci_headers_addheaders(x, y) ==
  LET new == Grown(Len(x.buf), x.bufused + y.bufused + 2, HEADSBUFSIZE)
      buf == Put(Padded(x.buf, new), x.bufused + 1, SubSeq(y.buf, 1, y.bufused + 2))
  IN [x EXCEPT !.buf = buf, !.bufused = @ + y.bufused,
               !.headers = Reindexed(buf, Used(x) + Used(y)),
               !.size = Grown(@, Used(x) + Used(y), HEADERSTARTSIZE)]

\* The first line with a colon after the name; 0 when there is none.
do_header_search(x, name) ==
  SelectInSeq(x.headers, LAMBDA p : /\ p + 1 <= x.bufused /\ x.buf[p + 1] = ":"
                                    /\ x.buf[p] = name)

ci_headers_remove(x, i) ==
  LET p == x.headers[i]
      len == x.headers[i + 1] - p
      buf == Put(x.buf, p, SubSeq(x.buf, p + len, x.bufused))
      \* One past the NUL, or two when a line feed follows it.
      at[j \in i .. Used(x) - 1] ==
        IF j = i THEN p
        ELSE LET e == EndOf(buf, at[j - 1]) IN IF buf[e + 1] = LF THEN e + 2 ELSE e + 1
  IN IF i = Used(x)
     THEN [x EXCEPT !.buf = Put(@, p, <<CR, LF>>), !.bufused = p - 1,
                    !.headers = Front(@)]
     ELSE [x EXCEPT !.buf = buf, !.bufused = @ - len,
                    !.headers = [j \in 1 .. Used(x) - 1 |-> IF j < i THEN @[j] ELSE at[j]]]

ci_headers_pack(x) ==
  LET ends == {EndOf(x.buf, x.headers[i]) : i \in 1 .. Used(x)}
      e == x.bufused + 1
      crlf(k) == x.buf[k + 1] = LF
  IN [x EXCEPT !.buf = [k \in DOMAIN x.buf |->
                          IF k \in ends \cup {e} THEN IF crlf(k) THEN CR ELSE LF
                          ELSE x.buf[k]],
               !.bufused = IF crlf(e) THEN @ + 2 ELSE @ + 1,
               !.packed = TRUE]

(* The index of a block of text: a line ends at CRLF or LF unless a blank     *)
(* follows, which continues it; a NUL in the text becomes a blank. The lines  *)
(* of the texts are not empty (the code steps over the first character of     *)
(* each).                                                                     *)
Blank(c) == c \in {" ", "t"}
EndsLine(b, k, ebuf) ==
  \/ b[k] = CR /\ b[k + 1] = LF /\ (k + 2 >= ebuf \/ ~Blank(b[k + 2]))
  \/ b[k] = LF /\ ~(k > 1 /\ b[k - 1] = CR) /\ ~Blank(b[k + 1])

ci_headers_unpack(x) ==
  LET ebuf == x.bufused - 1
      ends == {k \in 1 .. ebuf - 1 : EndsLine(x.buf, k, ebuf)}
      begin(k) == IF x.buf[k] = CR THEN k + 2 ELSE k + 1
      buf == [k \in DOMAIN x.buf |-> IF k = ebuf \/ k \in ends THEN NUL
                                     ELSE IF k < ebuf /\ x.buf[k] = NUL THEN " "
                                     ELSE x.buf[k]]
      index == <<1>> \o [i \in 1 .. Len(SetToSortSeq(ends, <)) |->
                           begin(SetToSortSeq(ends, <)[i])]
  IN [x EXCEPT !.buf = buf, !.headers = index, !.packed = FALSE,
               !.size = Grown(@, Len(index), HEADERSTARTSIZE)]

(* read_encaps_header: the text with its blank line, of which the list keeps  *)
(* the end of the last header only.                                           *)
read_encaps_header(text) ==
  LET buf == Padded(<<>>, Grown(HEADSBUFSIZE, Len(text) + 3, HEADSBUFSIZE)) IN
    [ci_headers_create EXCEPT !.buf = Put(buf, 1, text), !.bufused = Len(text) - 2]

-----------------------------------------------------------------------------
Wire(ls) == FlattenSeq([i \in 1 .. Len(ls) |-> ls[i] \o <<CR, LF>>]) \o <<CR, LF>>
Texts == UNION {[1 .. n -> Lines] : n \in 1 .. 2}
ListOf(ls) == FoldLeft(ci_headers_add, ci_headers_create, ls)

Init ==
  /\ edits = 0 /\ cut = FALSE
  /\ \/ h = ci_headers_create /\ lines = <<>>
     \/ \E ls \in Texts : h = ci_headers_unpack(read_encaps_header(Wire(ls))) /\ lines = ls

Edit == ~h.packed /\ edits < MaxEdits /\ edits' = edits + 1

Add ==
  /\ Edit /\ Len(lines) < MaxLines
  /\ \E l \in Lines : h' = ci_headers_add(h, l) /\ lines' = Append(lines, l)
  /\ cut' = FALSE

AddHeaders ==
  /\ Edit /\ Len(lines) + 2 <= MaxLines
  /\ \E ls \in Texts : /\ h' = ci_headers_addheaders(h, ListOf(ls))
                       /\ lines' = lines \o ls
  /\ cut' = FALSE

RemoveHeader ==
  /\ Edit
  /\ \E name \in Names :
       LET i == do_header_search(h, name) IN
         /\ i # 0
         /\ h' = ci_headers_remove(h, i) /\ lines' = RemoveAt(lines, i)
         /\ cut' = (i # Used(h))

Reset ==
  /\ edits < MaxEdits /\ edits' = edits + 1
  /\ h' = [h EXCEPT !.headers = <<>>, !.bufused = 0, !.packed = FALSE]
  /\ lines' = <<>> /\ cut' = FALSE

Pack == ~h.packed /\ lines # <<>> /\ h' = ci_headers_pack(h) /\ UNCHANGED <<lines, cut, edits>>

Next == Add \/ AddHeaders \/ RemoveHeader \/ Reset \/ Pack

Spec == Init /\ [][Next]_vars

-----------------------------------------------------------------------------
NameOf(l) == IF Len(l) > 1 /\ l[2] = ":" THEN l[1] ELSE "none"
sizeofheader == h.bufused + 2

(* Whatever was received, added and removed, in whatever order and however    *)
(* often the buffer moved: the list holds those lines, a search finds the     *)
(* first with the name, and packing gives exactly the text of the lines, of   *)
(* the length that sizeofheader stated for the Encapsulated header; except    *)
(* that after the removal of a line that is not the last the blank line may   *)
(* be one character shorter than stated.                                      *)
HeadersKept ==
  ~h.packed =>
    LET p == ci_headers_pack(h) IN
      /\ Used(h) = Len(lines) /\ Used(h) <= h.size /\ h.bufused + 2 <= Len(h.buf)
      /\ \A i \in 1 .. Used(h) : LineAt(h, i) = lines[i]
      /\ \A name \in Names :
           do_header_search(h, name) = SelectInSeq(lines, LAMBDA l : NameOf(l) = name)
      /\ lines # <<>> /\ ~cut =>
           p.bufused = sizeofheader /\ SubSeq(p.buf, 1, p.bufused) = Wire(lines)

(* sizeofheader states the packed length after every edit. False when the     *)
(* last edit removed a line that is not the last one: see the README.         *)
SizeStated == ~h.packed /\ lines # <<>> => ci_headers_pack(h).bufused = sizeofheader

=============================================================================
