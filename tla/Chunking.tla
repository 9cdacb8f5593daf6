------------------------------ MODULE Chunking ------------------------------
(***************************************************************************)
(* Cutting a document into chunks and putting it together again            *)
(* (core/chunking.py, mcp/tools.py get_document).  The text that is cut is *)
(* the title, a blank line and the body; its words are packed greedily     *)
(* into chunks of at most `size` estimated tokens, which share at most     *)
(* `overlap` tokens, and each chunk is a slice of the text that notes its  *)
(* position and the lines of the body it covers.  A reader joins the       *)
(* slices and opens the lines a chunk names.                               *)
(*                                                                         *)
(* Texts are sequences of characters: members of Blank are white space,    *)
(* Newline is one of them.  A word is known by where it begins, counting   *)
(* from 1; the positions a chunk notes count from 0 and its end is         *)
(* exclusive, as in the code.                                              *)
(***************************************************************************)
EXTENDS Integers, Sequences, FiniteSets

CONSTANTS Chars,              \* what a text consists of
          Blank, Newline,     \* the white space, and the line break in it
          CharsPerToken,      \* the estimate of a token's length
          Documents,          \* the documents cut: [title, body]
          Sizes               \* the settings: [size, overlap], overlap < size

ASSUME ChunkAssumption ==
  /\ Blank \subseteq Chars /\ Newline \in Blank
  /\ CharsPerToken \in Nat \ {0}
  /\ Documents \subseteq [title : Seq(Chars), body : Seq(Chars)]
  /\ Sizes \subseteq [size : Nat \ {0}, overlap : Nat]
  /\ \A s \in Sizes : s.overlap < s.size

VARIABLES document, sizes,    \* what is cut, and how
          first,              \* the first word of the chunk that is being filled
          fresh,              \* the first word that is in no chunk yet
          chunks,             \* the chunks made, and then stored
          joined, read        \* how many of them are read, and the text they gave

chunkVars == <<document, sizes, first, fresh, chunks, joined, read>>

Slice(text, from, to) == SubSeq(text, from + 1, to)

Least(S) == CHOOSE x \in S : \A y \in S : x <= y
Greatest(S) == CHOOSE x \in S : \A y \in S : y <= x

---------------------------------------------------------------------------
(* Words and their size.                                                   *)

Ink(text) == {i \in DOMAIN text : text[i] \notin Blank}

(* Where the pieces begin when every run of ink is split after n characters. *)
Pieces(text, n) ==
  {i \in Ink(text) : \E j \in 1..i : /\ j - 1 \notin Ink(text) /\ j..i \subseteq Ink(text)
                                     /\ \E k \in 0..i : i - j = k * n}

(* A word longer than a whole chunk is split.                              *)
WordStarts(text, s) == Pieces(text, s.size * CharsPerToken)

(* The estimated size of a part of the text: a word has a token for every  *)
(* CharsPerToken characters it begins.                                     *)
Tokens(text, from, to) == Cardinality(Pieces(text, CharsPerToken) \intersect from..to)

(* The next word, or the end of the text.                                  *)
After(text, s, word) ==
  Least({j \in WordStarts(text, s) : j > word} \union {Len(text) + 1})

---------------------------------------------------------------------------
(* Documents.                                                              *)

Heading(doc) == IF doc.title = <<>> THEN <<>> ELSE doc.title \o <<Newline, Newline>>

CombinedText(doc) == Heading(doc) \o doc.body

LineOf(body, offset) == Cardinality({i \in DOMAIN body : i <= offset /\ body[i] = Newline}) + 1

(* Mutant: the white space in front of the first word is not skipped. *)
Lines_NoSkip(doc, start, end) ==
  LET offset == Len(Heading(doc))
      from == IF start > offset THEN start - offset ELSE 0
  IN  IF end > offset
      THEN <<LineOf(doc.body, from), LineOf(doc.body, end - offset - 1)>>
      ELSE <<>>

(* The lines of the body a chunk covers, from its first word in the body;  *)
(* none when it holds only the title.  A chunk ends with ink, so that one  *)
(* that ends in the body has some there.                                   *)
Lines(doc, start, end) ==
  LET offset == Len(Heading(doc))
      from == IF start > offset THEN start - offset ELSE 0
      ink == {i \in Ink(doc.body) : i > from}
  IN  IF end > offset
      THEN <<LineOf(doc.body, Least(ink) - 1), LineOf(doc.body, end - offset - 1)>>
      ELSE <<>>

---------------------------------------------------------------------------
(* Packing the words.                                                      *)

Text == CombinedText(document)
Words == WordStarts(Text, sizes)

(* The first word that does not fit in the chunk.                          *)
Stop ==
  Least({j \in Words : /\ j >= fresh /\ j > first
                       /\ Tokens(Text, first, After(Text, sizes, j) - 1) > sizes.size}
          \union {Len(Text) + 1})

(* Mutant: the overlap is taken whether or not the next word fits beside it. *)
NextFirst_Greedy(stop) ==
  Least({j \in Words : /\ first < j /\ j < stop
                       /\ Tokens(Text, j, stop - 1) <= sizes.overlap} \union {stop})

(* The first word of the next chunk: it repeats the tail of this one as    *)
(* far as the overlap goes and the next word still fits beside it.         *)
NextFirst(stop) ==
  Least({j \in Words : /\ first < j /\ j < stop
                       /\ Tokens(Text, j, stop - 1) <= sizes.overlap
                       /\ Tokens(Text, j, After(Text, sizes, stop) - 1) <= sizes.size}
          \union {stop})

(* Mutant: every chunk starts at its first word. *)
SpanStart_Word == first - 1

(* A chunk that repeats nothing starts where the one before ended, so that *)
(* the white space between them is kept.                                   *)
SpanStart ==
  IF first = fresh /\ chunks # <<>> THEN chunks[Len(chunks)].char_end ELSE first - 1

Chunk(stop) ==
  LET end == Greatest({i \in Ink(Text) : i < stop})
  IN  [char_start |-> SpanStart, char_end |-> end,
       overlap_words |-> Cardinality({j \in Words : first <= j /\ j < fresh}),
       text |-> Slice(Text, SpanStart, end), lines |-> Lines(document, SpanStart, end)]

ChunkInit ==
  /\ document \in Documents /\ sizes \in Sizes
  /\ first = After(Text, sizes, 0) /\ fresh = first
  /\ chunks = <<>> /\ joined = 0 /\ read = <<>>

(* A chunk is full, or the text ends.                                      *)
Pack ==
  /\ fresh <= Len(Text)
  /\ chunks' = Append(chunks, Chunk(Stop))
  /\ fresh' = Stop
  /\ first' = IF Stop <= Len(Text) THEN NextFirst(Stop) ELSE Stop
  /\ UNCHANGED <<document, sizes, joined, read>>

---------------------------------------------------------------------------
(* Reading a document back.                                                *)

(* A chunk without what the one before it had.                             *)
Rest(k) ==
  IF k = 1 \/ chunks[k].char_start >= chunks[k - 1].char_end THEN chunks[k].text
  ELSE Slice(chunks[k].text, chunks[k - 1].char_end - chunks[k].char_start, Len(chunks[k].text))

Join ==
  /\ fresh > Len(Text) /\ joined < Len(chunks)
  /\ joined' = joined + 1
  /\ read' = read \o Rest(joined + 1)
  /\ UNCHANGED <<document, sizes, first, fresh, chunks>>

ChunkNext == Pack \/ Join

ChunkSpec == ChunkInit /\ [][ChunkNext]_chunkVars

StartsWith(text, prefix) ==
  Len(prefix) <= Len(text) /\ \A i \in DOMAIN prefix : text[i] = prefix[i]

(* The body of a document, as get_document finds it in its text.           *)
BodyIn(text, doc) ==
  IF doc.title # <<>> /\ StartsWith(text, Heading(doc))
  THEN Slice(text, Len(Heading(doc)), Len(text)) ELSE text

(* The characters of some lines of it.                                     *)
Excerpt(text, doc, from, to) ==
  LET body == BodyIn(text, doc)
  IN  {body[i] : i \in {j \in DOMAIN body : LineOf(body, j - 1) \in from..to}}

---------------------------------------------------------------------------
(* Properties.                                                             *)

Trimmed(text) == IF Ink(text) = {} THEN <<>>
                 ELSE SubSeq(text, Least(Ink(text)), Greatest(Ink(text)))

AllRead == fresh > Len(Text) /\ joined = Len(chunks)

(* A reader gets back the document's text, to the character, from its      *)
(* first word to its last, however it was cut (reassemble, make_span): no  *)
(* overlap is repeated and no white space between two chunks is lost.      *)
ReassemblesExactly == AllRead => read = Trimmed(Text)

(* No chunk is larger than the embedding model was promised: its text,     *)
(* split into words again, has at most `size` tokens; what it repeats of   *)
(* the one before has at most `overlap`; and a new word comes after that,  *)
(* so that the cutting ends (chunk_spans).                                 *)
ChunksFit ==
  \A k \in DOMAIN chunks :
    LET text == chunks[k].text
    IN  /\ Tokens(text, 1, Len(text)) <= sizes.size
        /\ \E w \in WordStarts(text, sizes) :
             /\ Cardinality({j \in WordStarts(text, sizes) : j < w}) = chunks[k].overlap_words
             /\ Tokens(text, 1, w - 1) <= sizes.overlap

(* The ink of the body that a chunk holds. *)
InBody(c) ==
  LET offset == Len(Heading(document))
  IN  {document.body[i] : i \in {j \in Ink(document.body) :
                                   c.char_start < j + offset /\ j + offset <= c.char_end}}

(* The white space in front of the text, which is lost when it is read, is *)
(* not the title's, by which the body is found, and breaks no line.        *)
LinesKept ==
  \A i \in DOMAIN Text :
    1..i \intersect Ink(Text) = {} => document.title = <<>> /\ Text[i] # Newline

(* The lines a chunk names, opened in the document as it is read back, are *)
(* those its text is on: every word of the chunk that is in the body is on *)
(* them, and the first and the last of them hold one (chunk_document,      *)
(* reassemble and _excerpt together), provided that LinesKept.             *)
EvidenceLines ==
  AllRead /\ LinesKept =>
    \A k \in DOMAIN chunks :
      LET c == chunks[k]
          Opened(from, to) == Excerpt(read, document, from, to)
      IN  IF c.lines = <<>> THEN InBody(c) = {}
          ELSE /\ InBody(c) \subseteq Opened(c.lines[1], c.lines[2])
               /\ \A i \in {1, 2} : InBody(c) \intersect Opened(c.lines[i], c.lines[i]) # {}

=============================================================================
