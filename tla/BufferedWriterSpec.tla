------------------------- MODULE BufferedWriterSpec -------------------------
(***************************************************************************)
(* buffered_writer.fizz: a writer that keeps what is appended in a buffer   *)
(* and moves all of it behind what it has flushed before.                   *)
(***************************************************************************)
EXTENDS Sequences

CONSTANT Items      \* what may be appended

VARIABLES flushed, buffered

writerVars == <<flushed, buffered>>

WriterInit == flushed = << >> /\ buffered = << >>

AppendItem(x) == buffered' = Append(buffered, x) /\ UNCHANGED flushed

FlushItems == flushed' = flushed \o buffered /\ buffered' = << >>

WriterNext == (\E x \in Items : AppendItem(x)) \/ FlushItems

WriterSpec == WriterInit /\ [][WriterNext]_writerVars
=============================================================================
