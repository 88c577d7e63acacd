----------------------------- MODULE HostDecoder -----------------------------
(***************************************************************************)
(* CborDoc (lib/cbor/host_decoder.h): a byte string decoded into a tree of *)
(* nodes that remember where they stand in it, and the queries the witness *)
(* of an mdoc makes of the tree.                                           *)
(*                                                                         *)
(* A behaviour decodes one string and asks one thing of a map or an array. *)
(* A tree is what the string means: a type, a number, a text, children.    *)
(***************************************************************************)
EXTENDS Integers, Sequences, FiniteSets, SequencesExt

CONSTANTS Inputs,    \* byte strings
          Offsets,   \* of a byte string in a larger one
          Trees,     \* trees, written in each of the widths
          Keys,      \* texts that are looked up
          Numbers,   \* and numbers
          kDateTag,  \* the tag of a date, 1004
          kDateLen   \* bytes of a date, 10

Widths == {0, 1, 2, 4}
Types == <<"UNSIGNED", "NEGATIVE", "BYTES", "TEXT", "ARRAY", "MAP", "TAG", "PRIMITIVE">>

none == [t |-> "none", n |-> 0, s |-> <<>>, kids |-> <<>>]

VARIABLES in,       \* the bytes
          offset,   \* of the bytes in a larger string
          meant,    \* the tree they were written from, or none
          root,     \* [ok, pos, doc] of the decoder
          query,    \* the question asked of doc
          found     \* the index of the answer, or -1

vars == <<in, offset, meant, root, query, found>>

-----------------------------------------------------------------------------
(* A node: u_.string is (pos, len), u_.u64, u_.i64 and u_.p are n.          *)

Doc(t, header_pos, n, pos, len, children) ==
  [t_ |-> t, header_pos_ |-> header_pos, n |-> n, pos |-> pos, len |-> len,
   children_ |-> children]

Failed == [ok |-> FALSE, pos |-> 0, doc |-> Doc("none", 0, 0, 0, 0, <<>>)]
Decoded(pos, doc) == [ok |-> TRUE, pos |-> pos, doc |-> doc]

(* mutant: the first byte of a count is its lowest *)
little_endian(bytes) == FoldRight(LAMBDA b, v : (v * 256) + b, bytes, 0)

big_endian(bytes) == FoldLeft(LAMBDA v, b : (v * 256) + b, 0, bytes)

(* Bytes of the count after the first byte; -1 where the decoder gives up *)
count_width(count0) ==
  IF count0 < 24 THEN 0
  ELSE IF count0 = 24 THEN 1 ELSE IF count0 = 25 THEN 2 ELSE IF count0 = 26 THEN 4 ELSE -1

RECURSIVE decode(_, _, _)

(* The children one after the other; a failure of one is that of the node *)
decode_items(str, node, nchildren, start, off) ==
  FoldLeft(LAMBDA r, j :
             IF ~r.ok THEN Failed
             ELSE LET c == decode(str, r.pos, off)
                  IN  IF ~c.ok THEN Failed
                      ELSE Decoded(c.pos, [r.doc EXCEPT !.children_ = Append(@, c.doc)]),
           Decoded(start, node), [j \in 1..nchildren |-> j])

(* What follows the count.  A string or an array that claims more than is  *)
(* left is refused; a date needs its bytes to be there, whatever they are. *)
(* The count of a primitive may be written in more bytes than it needs.    *)
decode_body(str, type, count, header_pos, pos, off) ==
  LET len == Len(str)
      t   == Types[type + 1]
      doc == Doc(t, header_pos, count, 0, 0, <<>>)
      items(nchildren) == IF pos + nchildren > len THEN Failed
                          ELSE decode_items(str, doc, nchildren, pos, off)
  IN  CASE type = 0 -> Decoded(pos, doc)
        [] type = 1 -> Decoded(pos, [doc EXCEPT !.n = -count])
        [] type \in {2, 3} -> IF pos + count > len THEN Failed
                              ELSE Decoded(pos + count, Doc(t, header_pos, 0, pos, count, <<>>))
        [] type = 4 -> items(count)
        [] type = 5 -> items(2 * count)
        [] type = 6 -> IF count = kDateTag /\ pos + 1 + kDateLen > len THEN Failed
                       ELSE decode_items(str, doc, 1, pos, off)
        [] type = 7 -> IF count \in 20..22 THEN Decoded(pos, doc) ELSE Failed

decode(str, pos, off) ==
  IF pos >= Len(str) THEN Failed
  ELSE LET b == str[pos + 1]
           w == count_width(b % 32)
           q == pos + 1 + w
       IN  IF w = -1 \/ q > Len(str) THEN Failed
           ELSE decode_body(str, b \div 32,
                            IF w = 0 THEN b % 32 ELSE big_endian(SubSeq(str, pos + 2, q)),
                            pos + off, q, off)

-----------------------------------------------------------------------------
(* Queries.  A child of a map is given by the index of its pair.           *)

key_of(doc, j) == doc.children_[(2 * j) + 1]
value_of(doc, j) == doc.children_[(2 * j) + 2]

eq(key, str, text) ==
  key.t_ = "TEXT" /\ key.len = Len(text) /\ SubSeq(str, key.pos + 1, key.pos + key.len) = text

first(doc, matches(_)) ==
  LET at == {j \in 0..(doc.n - 1) : matches(key_of(doc, j))}
  IN  IF doc.t_ # "MAP" \/ at = {} THEN -1 ELSE CHOOSE j \in at : \A l \in at : j <= l

(* mutant: a key that begins with the text is taken for it *)
lookupPrefix(doc, str, text) ==
  first(doc, LAMBDA key : key.t_ = "TEXT" /\ key.len >= Len(text)
                          /\ SubSeq(str, key.pos + 1, key.pos + Len(text)) = text)

lookup(doc, str, text) == first(doc, LAMBDA key : eq(key, str, text))
lookup_unsigned(doc, x) == first(doc, LAMBDA key : key.t_ = "UNSIGNED" /\ key.n = x)
lookup_negative(doc, x) == first(doc, LAMBDA key : key.t_ = "NEGATIVE" /\ key.n = x)

index(doc, j) == IF doc.t_ = "ARRAY" /\ j < Len(doc.children_) THEN j ELSE -1

(* Where the value of an item is and how long; both stop the program for   *)
(* other types.  A tag gives those of its child, which must be a string.   *)
HasValue(doc) ==
  \/ doc.t_ \in {"UNSIGNED", "BYTES", "TEXT", "PRIMITIVE"}
  \/ doc.t_ = "TAG" /\ doc.children_[1].t_ \in {"BYTES", "TEXT"}

position(doc) ==
  IF doc.t_ \in {"UNSIGNED", "PRIMITIVE"} THEN doc.header_pos_
  ELSE IF doc.t_ = "TAG" THEN doc.children_[1].pos ELSE doc.pos

length(doc) ==
  CASE doc.t_ = "UNSIGNED" -> IF doc.n < 24 THEN 1 ELSE IF doc.n < 256 THEN 2
                              ELSE IF doc.n < 65536 THEN 3 ELSE 5
    [] doc.t_ = "TAG" -> doc.children_[1].len
    [] doc.t_ = "PRIMITIVE" -> 1
    [] OTHER -> doc.len

-----------------------------------------------------------------------------
(* What a tree is written as: every head in width w, or in the shortest    *)
(* where that is wider.                                                    *)

TypeNo(t) == CHOOSE j \in 0..7 : Types[j + 1] = t

Fits(c, w) == IF w = 0 THEN c < 24 ELSE IF w = 4 THEN TRUE ELSE c < 256 ^ w
Shortest(c) == CHOOSE w \in Widths : Fits(c, w) /\ \A v \in Widths : Fits(c, v) => w <= v

Heading(type, c, w) ==
  IF w = 0 THEN <<(32 * type) + c>>
  ELSE <<(32 * type) + (CASE w = 1 -> 24 [] w = 2 -> 25 [] w = 4 -> 26)>>
       \o [j \in 1..w |-> IF w - j > 2 THEN 0 ELSE (c \div (256 ^ (w - j))) % 256]

(* The number of the head *)
Count(tree) ==
  CASE tree.t \in {"BYTES", "TEXT"} -> Len(tree.s)
    [] tree.t = "NEGATIVE" -> -tree.n
    [] OTHER -> tree.n

RECURSIVE Write(_, _)
Write(tree, w) ==
  LET c == Count(tree)
  IN  Heading(TypeNo(tree.t), c, IF Fits(c, w) THEN w ELSE Shortest(c)) \o tree.s
      \o FlattenSeq([j \in DOMAIN tree.kids |-> Write(tree.kids[j], w)])

(* The tree of a node *)
RECURSIVE Meaning(_, _)
Meaning(str, doc) ==
  [t |-> doc.t_, n |-> doc.n, s |-> SubSeq(str, doc.pos + 1, doc.pos + doc.len),
   kids |-> [j \in DOMAIN doc.children_ |-> Meaning(str, doc.children_[j])]]

IsAt(str, p, bytes) ==
  p + Len(bytes) <= Len(str) /\ SubSeq(str, p + 1, p + Len(bytes)) = bytes

(* Where a tree that is written at p can end *)
RECURSIVE Ends(_, _, _)
Ends(str, tree, p) ==
  LET c == Count(tree)
      content(w) == Heading(TypeNo(tree.t), c, w) \o tree.s
      starts == {p + Len(content(w)) :
                   w \in {v \in Widths : Fits(c, v) /\ IsAt(str, p, content(v))}}
  IN  FoldLeft(LAMBDA at, kid : UNION {Ends(str, kid, q) : q \in at}, starts, tree.kids)

-----------------------------------------------------------------------------
Ask(kind, x) == [kind |-> kind, x |-> x]
Init ==
  /\ \/ in \in Inputs /\ meant = none
     \/ \E tree \in Trees, w \in Widths, rest \in {<<>>, <<245>>} :
          in = Write(tree, w) \o rest /\ meant = tree
  /\ offset \in Offsets
  /\ root = Failed
  /\ query = Ask("decode", 0)
  /\ found = -1

Decode ==
  /\ query.kind = "decode"
  /\ root' = decode(in, 0, offset)
  /\ query' = IF root'.ok THEN Ask("ready", 0) ELSE Ask("failed", 0)
  /\ UNCHANGED <<in, offset, meant, found>>

Answer(kind, x, j) ==
  query' = Ask(kind, x) /\ found' = j /\ UNCHANGED <<in, offset, meant, root>>

Lookup ==
  query.kind = "ready" /\ \E text \in Keys : Answer("text", text, lookup(root.doc, in, text))
LookupUnsigned ==
  query.kind = "ready" /\ \E x \in Numbers : Answer("unsigned", x, lookup_unsigned(root.doc, x))
LookupNegative ==
  query.kind = "ready" /\ \E x \in Numbers : Answer("negative", -x, lookup_negative(root.doc, -x))
Index ==
  query.kind = "ready" /\ \E x \in Numbers : Answer("index", x, index(root.doc, x))

Next == Decode \/ Lookup \/ LookupUnsigned \/ LookupNegative \/ Index

Spec == Init /\ [][Next]_vars

-----------------------------------------------------------------------------
(* A date is refused where fewer bytes follow than a date has *)
RECURSIVE ShortDate(_)
ShortDate(tree) ==
  \/ tree.t = "TAG" /\ tree.n = kDateTag /\ Len(Write(tree.kids[1], 0)) <= kDateLen
  \/ \E j \in DOMAIN tree.kids : ShortDate(tree.kids[j])

(***************************************************************************)
(* The decoder gives the one tree that the bytes are a spelling of, ends   *)
(* where the spelling ends whatever follows, and refuses no tree in any    *)
(* width of its counts.                                                    *)
(***************************************************************************)
DecodeIsExact ==
  query.kind # "decode" =>
    /\ root.ok => root.pos \in Ends(in, Meaning(in, root.doc), 0)
    /\ meant # none /\ ~ShortDate(meant) =>
         /\ root.ok
         /\ Meaning(in, root.doc) = meant
         /\ \/ in = SubSeq(in, 1, root.pos)
            \/ in = Append(SubSeq(in, 1, root.pos), 245)

(* The pairs of a map that a query names: a negative number of CBOR is     *)
(* -1 - n, so that of x is the one the code stores as x.                   *)
Named(tree) ==
  {j \in 0..(tree.n - 1) :
     LET key == tree.kids[(2 * j) + 1]
     IN  CASE query.kind = "text" -> key.t = "TEXT" /\ key.s = query.x
           [] query.kind = "unsigned" -> key.t = "UNSIGNED" /\ key.n = query.x
           [] query.kind = "negative" -> key.t = "NEGATIVE" /\ key.n = query.x
           [] OTHER -> FALSE}

(* What an attribute is compared by: a string without its head, another    *)
(* value with it                                                           *)
ValueBytes(tree) ==
  CASE tree.t \in {"BYTES", "TEXT"} -> tree.s
    [] tree.t = "TAG" -> tree.kids[1].s
    [] OTHER -> Write(tree, 0)

(***************************************************************************)
(* A query finds the first pair that has the key, if and only if the map   *)
(* has one, and in a document that writes its counts in the fewest bytes   *)
(* position() and length() of every value found cut out its bytes.         *)
(***************************************************************************)
FoundIsTheValue ==
  query.kind \in {"text", "unsigned", "negative", "index"} =>
    LET tree  == Meaning(in, root.doc)
        named == IF tree.t = "MAP" THEN Named(tree) ELSE {}
        value == IF query.kind = "index" THEN root.doc.children_[found + 1]
                 ELSE value_of(root.doc, found)
    IN  /\ query.kind # "index" =>
             IF named = {} THEN found = -1
             ELSE found \in named /\ \A j \in named : found <= j
        /\ query.kind = "index" =>
             found = IF tree.t = "ARRAY" /\ query.x < tree.n THEN query.x ELSE -1
        /\ found # -1 /\ IsAt(in, 0, Write(tree, 0)) /\ HasValue(value) /\ offset = 0 =>
             LET bytes == ValueBytes(Meaning(in, value))
             IN  length(value) = Len(bytes) /\ IsAt(in, position(value), bytes)
==============================================================================
