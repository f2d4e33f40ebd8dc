---------------------------- MODULE MCIngestion -----------------------------
(* A directory with a PDF of one document, a subdirectory with a PDF of    *)
(* two and a text file, and a link.                                        *)
EXTENDS Ingestion

MCFiles     == {"a.pdf", "b.pdf", "c.txt"}
MCEntriesOf == [d \in {"root", "sub"} |->
                  IF d = "root" THEN {"a.pdf", "sub", "link"} ELSE {"b.pdf", "c.txt"}]
MCDocsOf    == [f \in MCFiles |->
                  CASE f = "a.pdf" -> <<<<1, 2, 3>>>>
                    [] f = "b.pdf" -> <<<<1>>, <<2>>>>
                    [] f = "c.txt" -> <<<<1>>>>]
MCChunksOf  == [f \in MCFiles |->
                  CASE f = "a.pdf" -> 3 [] f = "b.pdf" -> 2 [] f = "c.txt" -> 1]
=============================================================================
