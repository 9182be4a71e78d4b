------------------------ MODULE MCReaderWriterQueue ------------------------
(* Instances of ReaderWriterQueue for TLC. *)
EXTENDS ReaderWriterQueue, TLC

CONSTANTS w1, w2, a, b, alien

EntriesMC == {a, b, alien}
CompatibleMC == {a, b}
WritersMC == {w1, w2}
=============================================================================
