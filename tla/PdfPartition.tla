---------------------------- MODULE PdfPartition ----------------------------
(***************************************************************************)
(* PdfInspectorStrategy::parse (crates/rag-pipeline/src/document/pdf.rs):  *)
(* the positioned text items of a file become elements - lines of one      *)
(* paragraph are merged - and the elements documents of at most            *)
(* MaxElements.                                                            *)
(*                                                                         *)
(* The text items that are not skipped are the lines 1, 2, ...; an element *)
(* is the lines it was made of and the level of its header, 0 for all      *)
(* other types, which the chunkers treat alike.  Positions, fonts and      *)
(* pages come down to two choices: what kind of line an item is, and       *)
(* whether it is on the page of its predecessor and close to it.           *)
(***************************************************************************)
EXTENDS Integers, Sequences

CONSTANTS
  MaxItems,      \* at most this many text items (a bound)
  MaxElements,   \* max_elements_per_document
  Levels         \* the header levels, told apart by font and weight

ASSUME PartitionAssumption ==
  /\ MaxItems \in Nat /\ MaxElements \in Nat \ {0}
  /\ Levels \subseteq Nat \ {0}

Kinds == {"paragraph", "list", "caption"} \cup {"header"}

VARIABLES
  read,       \* items the loop has taken
  lines,      \* items it has not skipped
  current,    \* current_element: <<>> or the element that may still grow
  elements,   \* the elements of the document that is being filled
  docs,       \* partitioned_documents
  parsed      \* parse has returned

partitionVars == <<read, lines, current, elements, docs, parsed>>

InitPartition ==
  /\ read = 0 /\ lines = 0
  /\ current = <<>> /\ elements = <<>> /\ docs = <<>>
  /\ parsed = FALSE

Pushed(e) == [level |-> e.level, first |-> e.first, last |-> e.last]

\* Lone page numbers, bullets without a text and blanks.
SkipItem ==
  /\ ~parsed /\ read < MaxItems
  /\ read' = read + 1
  /\ UNCHANGED <<lines, current, elements, docs, parsed>>

\* Only a paragraph continues something, and only a paragraph or a list item.
Mergeable(e, kind) == e.kind \in {"paragraph", "list"} /\ kind = "paragraph"

\* Mutant: the flush leaves the full vector in place.
FlushKeeping(es) ==
  IF Len(es) >= MaxElements
  THEN docs' = Append(docs, es) /\ elements' = es
  ELSE elements' = es /\ UNCHANGED docs

\* A full vector of elements becomes a document (mem::take).
FlushFull(es) ==
  IF Len(es) >= MaxElements
  THEN docs' = Append(docs, es) /\ elements' = <<>>
  ELSE elements' = es /\ UNCHANGED docs

\* One text item: it continues the current element, or pushes it and replaces it.
ReadItem(kind, level, near) ==
  /\ ~parsed /\ read < MaxItems
  /\ (kind = "header") = (level > 0)
  /\ read' = read + 1 /\ lines' = lines + 1
  /\ IF current # <<>> /\ near /\ Mergeable(current[1], kind)
     THEN /\ current' = <<[current[1] EXCEPT !.last = lines + 1]>>
          /\ FlushFull(elements)
     ELSE /\ current' = <<[kind |-> kind, level |-> level,
                           first |-> lines + 1, last |-> lines + 1]>>
          /\ FlushFull(IF current = <<>> THEN elements
                       ELSE Append(elements, Pushed(current[1])))
  /\ UNCHANGED parsed

\* After the last item: the current element, and what is not yet in a document.
ParseEnds ==
  /\ ~parsed
  /\ parsed' = TRUE
  /\ LET es == IF current = <<>> THEN elements
               ELSE Append(elements, Pushed(current[1]))
     IN  docs' = IF es = <<>> THEN docs ELSE Append(docs, es)
  /\ current' = <<>> /\ elements' = <<>>
  /\ UNCHANGED <<read, lines>>

PartitionStep ==
  \/ SkipItem \/ ParseEnds
  \/ \E kind \in Kinds, level \in Levels \cup {0}, near \in BOOLEAN :
       ReadItem(kind, level, near)

-----------------------------------------------------------------------------
\* The last line of a run of elements, and of the first d documents: none is empty.
EndOf(es, before) == IF es = <<>> THEN before ELSE es[Len(es)].last
LinesIn(d) == IF d = 0 THEN 0 ELSE EndOf(docs[d], 0)

\* The elements es follow upon the line `before`, and each upon the one before it.
Tiles(es, before) ==
  \A k \in DOMAIN es :
    /\ es[k].first = 1 + (IF k = 1 THEN before ELSE es[k - 1].last)
    /\ es[k].first <= es[k].last

\* Every line of the file is in one element of one document, in the order of the
\* file, whatever is merged and wherever a document is cut; all documents but the
\* last are full, and none is empty or larger than max_elements (pdf.rs:145-153).
PartitionTiles ==
  /\ \A d \in DOMAIN docs :
       /\ Tiles(docs[d], LinesIn(d - 1))
       /\ Len(docs[d]) \in 1..MaxElements
       /\ d < Len(docs) \/ ~parsed => Len(docs[d]) = MaxElements
  /\ Tiles(elements \o current, LinesIn(Len(docs)))
  /\ lines = EndOf(elements \o current, LinesIn(Len(docs)))
  /\ Len(elements) < MaxElements
=============================================================================
